--------------------------- MODULE ParkingLotsProofs ---------------------------
(***************************************************************************)
(* For every number of requests, lots, prices and faults: the types of     *)
(* ParkingLots, the limit of a lot, no orphans, one price, fresh keys.     *)
(***************************************************************************)
EXTENDS ParkingLots, FiniteSetTheorems, TLAPS

-----------------------------------------------------------------------------
(* Types, with what a task knows by where it is.                           *)

Legal(x) ==
    /\ x \in TaskRecords
    /\ x.stage \notin {"idle", "storingList"} => x.lot \in Lots
    /\ x.stage = "droppingList" => x.next \in {"storing", "dropping"}
    /\ x.stage = "storing" => x.next \in {"idle", "counting", "pricing", "repricing"}
    /\ x.stage \notin {"droppingList", "storing"} => x.next = "idle"
    /\ {x.stage, x.next} \intersect {"pricing", "repricing"} # {} => x.price \in Prices

LotsTypeInv == LotsTypeOK /\ \A r \in Requests : Legal(task[r])

\* What a request may become.
LEMMA LegalTasks ==
  /\ Legal(Idle)
  /\ \A l \in Lots : /\ Legal(Doing("droppingList", l, "storing", NoPrice, {}))
                     /\ Legal(Doing("droppingList", l, "dropping", NoPrice, {}))
                     /\ Legal(Doing("inserting", l, "idle", NoPrice, {}))
  /\ \A S \in SUBSET Lots : Legal(Doing("storingList", NoLot, "idle", NoPrice, S))
  /\ \A l \in Lots, p \in Prices \union {NoPrice},
        next \in {"idle", "counting", "pricing", "repricing"} :
        (next \in {"pricing", "repricing"} => p \in Prices) =>
           /\ next # "idle" => Legal(Doing(next, l, "idle", p, {}))
           /\ Legal(Doing("storing", l, next, p, {}))
  BY DEF Legal, Idle, Doing, TaskRecords, Stages

LEMMA GotoLegal ==
  ASSUME LotsTypeInv, NEW r \in Requests, NEW x, Legal(x), Goto(r, x)
  PROVE  /\ task' \in [Requests -> TaskRecords]
         /\ task'[r] = x
         /\ \A q \in Requests \ {r} : task'[q] = task[q]
         /\ \A q \in Requests : Legal(task'[q])
  BY DEF Goto, Legal, LotsTypeInv, LotsTypeOK

\* What a request goes on to when it knows the lot or has dropped the list.
LEMMA ContinueLegal ==
  ASSUME LotsTypeInv, NEW r \in Requests, task[r].stage \in {"droppingList", "storing"},
         Continue(r)
  PROVE  \E x : /\ Legal(x) /\ Goto(r, x)
                /\ \/ x = Idle /\ task[r].stage = "storing"
                   \/ x.stage = task[r].next /\ x.lot = task[r].lot /\ x.next = "idle"
<1>1. Legal(task[r])
  BY DEF LotsTypeInv
<1>2. CASE task[r].next = "idle"
  BY <1>1, <1>2, LegalTasks DEF Continue, Finish, Legal
<1>3. CASE task[r].next # "idle"
  <2> DEFINE x == Doing(task[r].next, task[r].lot, "idle", task[r].price, {})
  <2>1. Legal(x)
    BY <1>1, <1>3 DEF Legal, Doing, TaskRecords, Stages
  <2>2. Goto(r, x) /\ x.stage = task[r].next /\ x.lot = task[r].lot /\ x.next = "idle"
    BY <1>3 DEF Continue, Doing
  <2> QED BY <2>1, <2>2
<1> QED BY <1>2, <1>3

LEMMA InitLotsTypes == LotsInit => LotsTypeInv
<1> SUFFICES ASSUME LotsInit PROVE LotsTypeInv
  OBVIOUS
<1>1. \A r \in Requests : task[r] = Idle
  BY DEF LotsInit
<1>2. Idle \in TaskRecords /\ Legal(Idle)
  BY LegalTasks DEF Legal
<1>3. LotsTypeOK
  BY <1>2 DEF LotsInit, LotsTypeOK
<1> QED BY <1>1, <1>2, <1>3 DEF LotsTypeInv

TasksKept ==
    task' \in [Requests -> TaskRecords] /\ \A q \in Requests : Legal(task'[q])

\* Every step leaves every task in a legal place.
LEMMA NextTasks ==
  ASSUME LotsTypeInv, [LotsNext]_parkingVars
  PROVE  TasksKept
<1> USE DEF TasksKept
<1>0. (\A r \in Requests : Legal(task[r])) /\ LotsTypeOK
  BY DEF LotsTypeInv
<1>g. ASSUME NEW r \in Requests, NEW x, Legal(x), Goto(r, x) PROVE TasksKept
  BY <1>g, GotoLegal
<1>f. ASSUME NEW r \in Requests, Finish(r) PROVE TasksKept
  BY <1>f, <1>g, LegalTasks DEF Finish
<1>c. ASSUME NEW r \in Requests, Continue(r), task[r].stage \in {"droppingList", "storing"}
      PROVE  TasksKept
  BY <1>c, <1>g, ContinueLegal
<1>1. ASSUME NEW r \in Requests, NEW l \in Lots,
             NEW next \in {"idle", "counting", "pricing", "repricing"},
             NEW p \in Prices \union {NoPrice},
             next \in {"pricing", "repricing"} => p \in Prices,
             FoundInTable(r, l, next, p) \/ (next # "idle" /\ FoundInCache(r, l, next, p))
      PROVE  TasksKept
  BY <1>1, <1>g, LegalTasks DEF FoundInTable, FoundInCache
<1>2. ASSUME NEW r \in Requests, ParkingHandler(r) PROVE TasksKept
  <2>1. ASSUME NEW l \in Lots, CreateParking(r, l) \/ DeleteParking(r, l) PROVE TasksKept
    BY <2>1, <1>g, LegalTasks DEF CreateParking, DeleteParking
  <2>2. ASSUME NEW l \in Lots, FoundInTable(r, l, "idle", NoPrice) PROVE TasksKept
    BY <2>2, <1>1
  <2>3. CASE GetAll(r)
    <3>1. {l \in Lots : lot[l] = "open"} \in SUBSET Lots
      OBVIOUS
    <3> QED BY <2>3, <3>1, <1>g, LegalTasks DEF GetAll
  <2>4. CASE DropList(r) \/ SetCache(r)
    BY <2>4, <1>c DEF DropList, SetCache, At
  <2>5. CASE InvalidateCache(r) \/ SetAllCache(r)
    BY <2>5, <1>f DEF InvalidateCache, SetAllCache
  <2> QED BY <1>2, <2>1, <2>2, <2>3, <2>4, <2>5 DEF ParkingHandler
<1>3. ASSUME NEW r \in Requests, SpotHandler(r) PROVE TasksKept
  <2>1. ASSUME NEW l \in Lots, GetByID(r, l, "counting", NoPrice) PROVE TasksKept
    BY <2>1, <1>1 DEF GetByID
  <2>2. CASE CountByParkingID(r)
    <3>1. task[r].lot \in Lots
      BY <1>0, <2>2 DEF CountByParkingID, At, Legal
    <3>2. Finish(r) \/ Goto(r, Doing("inserting", task[r].lot, "idle", NoPrice, {}))
      BY <2>2 DEF CountByParkingID
    <3> QED BY <3>1, <3>2, <1>g, <1>f, LegalTasks
  <2>3. CASE CreateSpot(r)
    BY <2>3, <1>f DEF CreateSpot
  <2> QED BY <1>3, <2>1, <2>2, <2>3 DEF SpotHandler
<1>4. ASSUME NEW r \in Requests, TariffHandler(r) PROVE TasksKept
  <2>1. ASSUME NEW l \in Lots, NEW p \in Prices,
               GetByID(r, l, "pricing", p) \/ GetByID(r, l, "repricing", p)
        PROVE  TasksKept
    BY <2>1, <1>1 DEF GetByID
  <2>2. CASE CreateTariff(r) \/ UpdatePrice(r)
    BY <2>2, <1>f DEF CreateTariff, UpdatePrice
  <2> QED BY <1>4, <2>1, <2>2 DEF TariffHandler
<1>5. ASSUME NEW r \in Requests, StatementFails(r) \/ ReplyLost(r) \/ CacheFails(r) PROVE TasksKept
  BY <1>5, <1>f, <1>c DEF StatementFails, ReplyLost, CacheFails, At
<1>6. CASE Crash
  <2>1. task' = [r \in Requests |-> Idle]
    BY <1>6 DEF Crash
  <2> QED BY <2>1, LegalTasks DEF Legal
<1>7. CASE UNCHANGED task
  BY <1>7, <1>0 DEF LotsTypeOK
<1>8. ASSUME NEW l \in Lots, DeleteSpot(l) \/ LotKeyExpires(l) PROVE UNCHANGED task
  BY <1>8 DEF DeleteSpot, LotKeyExpires
<1>9. CASE ListKeyExpires
  BY <1>9, <1>7 DEF ListKeyExpires
<1> QED
  BY <1>2, <1>3, <1>4, <1>5, <1>6, <1>7, <1>8, <1>9 DEF LotsNext, parkingVars

\* The place of each statement: the lot that a request works on is a lot.
LEMMA NextLotsTypes == LotsTypeInv /\ [LotsNext]_parkingVars => LotsTypeInv'
<1> SUFFICES ASSUME LotsTypeInv, [LotsNext]_parkingVars PROVE LotsTypeInv'
  OBVIOUS
<1>0. LotsTypeOK /\ \A r \in Requests : Legal(task[r])
  BY DEF LotsTypeInv
<1>t. TasksKept
  BY NextTasks
<1> DEFINE Rest == /\ lot' \in [Lots -> {"absent", "open", "deleted"}]
                   /\ spots' \in [Lots -> Nat]
                   /\ tariff' \in [Lots -> SUBSET Prices]
                   /\ lotKey' \subseteq Lots /\ listKey' \subseteq Lots /\ listed' \in BOOLEAN
                   /\ crowded' \subseteq Lots /\ doubled' \subseteq Lots /\ excused' \subseteq Lots
                   /\ writes' \in Nat /\ faults' \in Nat
<1> USE DEF LotsTypeOK
<1>1. ASSUME NEW r \in Requests, ParkingHandler(r) PROVE Rest
  <2>1. ASSUME NEW l \in Lots, CreateParking(r, l) PROVE Rest
    BY <1>0, <2>1 DEF CreateParking, CountWrite, Overtakes, cacheVars
  <2>2. ASSUME NEW l \in Lots, DeleteParking(r, l) PROVE Rest
    BY <1>0, <2>2 DEF DeleteParking, CountWrite, Overtakes, Cascade, cacheVars
  <2>3. ASSUME NEW l \in Lots, FoundInTable(r, l, "idle", NoPrice) PROVE Rest
    BY <1>0, <2>3 DEF FoundInTable, cacheVars, lotVars, historyVars
  <2>4. CASE GetAll(r)
    BY <1>0, <2>4 DEF GetAll, cacheVars, lotVars, historyVars
  <2>5. CASE DropList(r)
    BY <1>0, <2>5 DEF DropList, InvalidateListCache, lotVars, historyVars
  <2>6. CASE InvalidateCache(r)
    BY <1>0, <2>6 DEF InvalidateCache, lotVars, historyVars
  <2>7. CASE SetCache(r)
    BY <1>0, <2>7 DEF SetCache, lotVars, historyVars, At, Legal
  <2>8. CASE SetAllCache(r)
    <3>1. task[r].list \subseteq Lots
      BY <1>0 DEF Legal, TaskRecords
    <3> QED BY <1>0, <2>8, <3>1 DEF SetAllCache, lotVars, historyVars
  <2> QED BY <1>1, <2>1, <2>2, <2>3, <2>4, <2>5, <2>6, <2>7, <2>8 DEF ParkingHandler
<1>2. ASSUME NEW r \in Requests, SpotHandler(r) PROVE Rest
  <2>1. ASSUME NEW l \in Lots, GetByID(r, l, "counting", NoPrice) PROVE Rest
    BY <1>0, <2>1 DEF GetByID, FoundInTable, FoundInCache, cacheVars, lotVars, historyVars
  <2>2. CASE CountByParkingID(r)
    BY <1>0, <2>2 DEF CountByParkingID, At, Legal, cacheVars, lotVars
  <2>3. CASE CreateSpot(r)
    <3>1. task[r].lot \in Lots
      BY <1>0, <2>3 DEF CreateSpot, At, Legal
    <3> QED BY <1>0, <2>3, <3>1 DEF CreateSpot, cacheVars, historyVars
  <2> QED BY <1>2, <2>1, <2>2, <2>3 DEF SpotHandler
<1>3. ASSUME NEW r \in Requests, TariffHandler(r) PROVE Rest
  <2>1. ASSUME NEW l \in Lots, NEW p \in Prices,
               GetByID(r, l, "pricing", p) \/ GetByID(r, l, "repricing", p)
        PROVE  Rest
    BY <1>0, <2>1 DEF GetByID, FoundInTable, FoundInCache, cacheVars, lotVars, historyVars
  <2>2. CASE CreateTariff(r)
    <3>1. task[r].lot \in Lots /\ task[r].price \in Prices
      BY <1>0, <2>2 DEF CreateTariff, At, Legal
    <3> QED BY <1>0, <2>2, <3>1 DEF CreateTariff, CountWrite, cacheVars
  <2>3. CASE UpdatePrice(r)
    <3>1. task[r].lot \in Lots /\ task[r].price \in Prices
      BY <1>0, <2>3 DEF UpdatePrice, At, Legal
    <3> QED BY <1>0, <2>3, <3>1 DEF UpdatePrice, CountWrite, Repriced, cacheVars
  <2> QED BY <1>3, <2>1, <2>2, <2>3 DEF TariffHandler
<1>u. ASSUME NEW r \in Requests PROVE Unsettled(r) \subseteq Lots
  BY <1>0 DEF Unsettled, Legal
<1>4. ASSUME NEW r \in Requests, StatementFails(r) \/ ReplyLost(r) \/ CacheFails(r) PROVE Rest
  <2>1. ReplyLost(r) => task[r].lot \in Unsettled(r)
    BY DEF ReplyLost, Unsettled, At
  <2> QED BY <1>0, <1>4, <1>u, <2>1
      DEF StatementFails, ReplyLost, CacheFails, Strike, cacheVars, lotVars, historyVars
<1>5. ASSUME NEW l \in Lots, DeleteSpot(l) \/ LotKeyExpires(l) PROVE Rest
  BY <1>0, <1>5 DEF DeleteSpot, LotKeyExpires, cacheVars, lotVars, historyVars
<1>6. ASSUME ListKeyExpires PROVE Rest
  BY <1>0, <1>6 DEF ListKeyExpires, lotVars, historyVars
<1>7. ASSUME Crash PROVE Rest
  BY <1>0, <1>7, <1>u DEF Crash, Strike, cacheVars, lotVars
<1>8. ASSUME UNCHANGED parkingVars PROVE Rest
  BY <1>0, <1>8 DEF parkingVars, cacheVars, lotVars, historyVars
<1>9. Rest
  BY <1>1, <1>2, <1>3, <1>4, <1>5, <1>6, <1>7, <1>8 DEF LotsNext
<1> QED BY <1>9, <1>t DEF TasksKept, LotsTypeInv

\* Every variable of ParkingLots keeps its type, whatever fails.
THEOREM LotsTypeCorrect == LotsSpec => []LotsTypeOK
<1>1. LotsTypeInv => LotsTypeOK
  BY DEF LotsTypeInv
<1> QED BY InitLotsTypes, NextLotsTypes, <1>1, PTL DEF LotsSpec

-----------------------------------------------------------------------------
(* No orphans, one price.                                                  *)

\* How a step can change the tables.
RowsSteps ==
    \/ UNCHANGED lotVars /\ doubled' = doubled
    \/ \E l \in Lots : lot[l] = "absent" /\ lot' = [lot EXCEPT ![l] = "open"]
                       /\ UNCHANGED <<spots, tariff, doubled>>
    \/ \E l \in Lots : lot' = [lot EXCEPT ![l] = "deleted"] /\ Cascade(l) /\ UNCHANGED doubled
    \/ \E l \in Lots : spots[l] > 0 /\ spots' = [spots EXCEPT ![l] = @ - 1]
                       /\ UNCHANGED <<lot, tariff, doubled>>
    \/ \E r \in Requests : task[r].lot \in Lots /\ (CreateSpot(r) \/ CreateTariff(r) \/ UpdatePrice(r))

\* Only six steps touch the tables.
LEMMA StepsOnRows ==
  ASSUME LotsTypeInv, [LotsNext]_parkingVars
  PROVE  RowsSteps
<1>0. \A r \in Requests : Legal(task[r])
  BY DEF LotsTypeInv
<1> USE DEF RowsSteps
<1>1. ASSUME NEW r \in Requests, ParkingHandler(r) PROVE RowsSteps
  <2>1. ASSUME NEW l \in Lots, CreateParking(r, l) PROVE RowsSteps
    BY <2>1 DEF CreateParking
  <2>2. ASSUME NEW l \in Lots, DeleteParking(r, l) PROVE RowsSteps
    BY <2>2 DEF DeleteParking
  <2> QED
    BY <1>1, <2>1, <2>2 DEF ParkingHandler, FoundInTable, GetAll, DropList, InvalidateCache,
       SetCache, SetAllCache, historyVars
<1>2. ASSUME NEW r \in Requests, SpotHandler(r) \/ TariffHandler(r) PROVE RowsSteps
  <2>1. CASE CreateSpot(r) \/ CreateTariff(r) \/ UpdatePrice(r)
    BY <1>0, <2>1 DEF CreateSpot, CreateTariff, UpdatePrice, At, Legal
  <2> QED
    BY <1>2, <2>1 DEF SpotHandler, TariffHandler, GetByID, FoundInTable, FoundInCache,
       CountByParkingID, historyVars
<1>3. ASSUME NEW l \in Lots, DeleteSpot(l) PROVE RowsSteps
  BY <1>3 DEF DeleteSpot, historyVars
<1>4. CASE UNCHANGED parkingVars
  BY <1>4 DEF parkingVars, historyVars
<1> QED
  BY <1>1, <1>2, <1>3, <1>4 DEF LotsNext, StatementFails, ReplyLost, CacheFails, LotKeyExpires,
     ListKeyExpires, Crash, historyVars

LEMMA NextNoOrphans ==
  LotsTypeInv /\ NoOrphans /\ [LotsNext]_parkingVars => NoOrphans'
<1> SUFFICES ASSUME LotsTypeInv, NoOrphans, RowsSteps PROVE NoOrphans'
  BY StepsOnRows
<1> USE DEF NoOrphans, LotsTypeInv, LotsTypeOK
<1>1. CASE UNCHANGED lotVars
  BY <1>1 DEF lotVars
<1>2. ASSUME NEW r \in Requests, task[r].lot \in Lots, CreateSpot(r) PROVE NoOrphans'
  BY <1>2 DEF CreateSpot, ForeignKey
<1>3. ASSUME NEW r \in Requests, task[r].lot \in Lots, CreateTariff(r) PROVE NoOrphans'
  BY <1>3 DEF CreateTariff, ForeignKey
<1>4. ASSUME NEW r \in Requests, task[r].lot \in Lots, UpdatePrice(r) PROVE NoOrphans'
  BY <1>4 DEF UpdatePrice, Repriced
<1>5. ASSUME NEW l \in Lots, lot' = [lot EXCEPT ![l] = "deleted"], Cascade(l) PROVE NoOrphans'
  BY <1>5 DEF Cascade
<1> QED BY <1>1, <1>2, <1>3, <1>4, <1>5 DEF RowsSteps

\* Nothing belongs to a lot that is gone, whatever Redis says of the lot.
THEOREM NoOrphansHolds == LotsSpec => []NoOrphans
<1>1. LotsInit => NoOrphans
  BY DEF LotsInit, NoOrphans
<1> QED BY <1>1, InitLotsTypes, NextLotsTypes, NextNoOrphans, PTL DEF LotsSpec

LEMMA NextOnePrice ==
  LotsTypeInv /\ OnePrice /\ [LotsNext]_parkingVars => OnePrice'
<1> SUFFICES ASSUME LotsTypeInv, OnePrice, RowsSteps PROVE OnePrice'
  BY StepsOnRows
<1> USE DEF OnePrice, LotsTypeInv, LotsTypeOK
<1>1. ASSUME NEW r \in Requests, task[r].lot \in Lots, CreateTariff(r) PROVE OnePrice'
  <2>1. CASE ForeignKey(task[r].lot) /\ tariff[task[r].lot] = {}
    BY <1>1, <2>1 DEF CreateTariff
  <2>2. CASE ForeignKey(task[r].lot) /\ tariff[task[r].lot] # {}
    BY <1>1, <2>2 DEF CreateTariff
  <2>3. CASE ~ForeignKey(task[r].lot)
    BY <1>1, <2>3 DEF CreateTariff
  <2> QED BY <2>1, <2>2, <2>3
<1>2. ASSUME NEW r \in Requests, task[r].lot \in Lots, UpdatePrice(r) PROVE OnePrice'
  BY <1>2 DEF UpdatePrice, Repriced
<1>3. ASSUME NEW r \in Requests, CreateSpot(r) PROVE OnePrice'
  BY <1>3 DEF CreateSpot, historyVars
<1>4. CASE UNCHANGED <<tariff, doubled>>
  BY <1>4
<1>5. ASSUME NEW l \in Lots, Cascade(l), UNCHANGED doubled PROVE OnePrice'
  BY <1>5 DEF Cascade
<1> QED BY <1>1, <1>2, <1>3, <1>4, <1>5 DEF RowsSteps, lotVars

\* The tariffs of a lot agree until one is created beside another.
THEOREM OnePriceHolds == LotsSpec => []OnePrice
<1>1. LotsInit => OnePrice
  BY DEF LotsInit, OnePrice
<1> QED BY <1>1, InitLotsTypes, NextLotsTypes, NextOnePrice, PTL DEF LotsSpec

-----------------------------------------------------------------------------
(* The limit of a lot.                                                     *)

\* As long as no two requests about to insert a spot overlapped, there is one
\* such request at most, and what it has counted is still so.
Uncrowded(l) ==
    /\ spots[l] <= TotalSpots[l]
    /\ \A q, r \in Creating(l) : q = r
    /\ \A r \in Creating(l) : spots[l] < TotalSpots[l]

LimitInv == \A l \in Lots \ crowded : Uncrowded(l)

\* A step that creates no request about to insert, adds no spot and takes
\* no lot from crowded.
FewerCreate ==
    /\ \A r \in Requests :
         task'[r].stage = "inserting" => task'[r] = task[r]
    /\ \A l \in Lots : spots'[l] <= spots[l]
    /\ crowded \subseteq crowded'

LEMMA FewerLimit == LotsTypeInv /\ LotsTypeInv' /\ LimitInv /\ FewerCreate => LimitInv'
<1> SUFFICES ASSUME LotsTypeInv, LotsTypeInv', LimitInv, FewerCreate,
                    NEW l \in Lots, l \notin crowded'
             PROVE  Uncrowded(l)'
  BY DEF LimitInv
<1>1. Uncrowded(l) /\ spots'[l] <= spots[l]
  BY DEF LimitInv, FewerCreate
<1>2. spots[l] \in Nat /\ spots'[l] \in Nat /\ TotalSpots[l] \in Nat
  BY LotAssumption DEF LotsTypeInv, LotsTypeOK
<1>3. \A r \in Requests : r \in Creating(l)' => r \in Creating(l)
  BY DEF FewerCreate, Creating, At
<1> QED BY <1>1, <1>2, <1>3 DEF Uncrowded, Creating

\* Apart from counting below the limit and inserting, no step does.
SpotSteps ==
    \/ FewerCreate
    \/ \E r \in Requests : CountByParkingID(r) /\ BelowLimit(task[r].lot)
    \/ \E r \in Requests : CreateSpot(r)

LEMMA StepsOnSpots == LotsTypeInv /\ [LotsNext]_parkingVars => SpotSteps
<1> SUFFICES ASSUME LotsTypeInv, [LotsNext]_parkingVars PROVE SpotSteps
  OBVIOUS
<1>0. LotsTypeOK /\ LotsTypeInv' /\ \A r \in Requests : Legal(task[r])
  BY NextLotsTypes DEF LotsTypeInv
<1>n. \A l \in Lots : spots[l] \in Nat
  BY <1>0 DEF LotsTypeOK
<1>1. ASSUME UNCHANGED <<spots, crowded>>, NEW r \in Requests, NEW x, Legal(x), Goto(r, x),
             x.stage # "inserting"
      PROVE  SpotSteps
  BY <1>0, <1>n, <1>1, GotoLegal DEF SpotSteps, FewerCreate
<1>f. ASSUME NEW r \in Requests, Finish(r), UNCHANGED <<spots, crowded>> PROVE SpotSteps
  BY <1>f, <1>1, LegalTasks DEF Finish, Idle, Doing
<1>c. ASSUME NEW r \in Requests, Continue(r), task[r].stage \in {"droppingList", "storing"},
             UNCHANGED <<spots, crowded>>
      PROVE  SpotSteps
  BY <1>0, <1>c, <1>1, ContinueLegal DEF Legal, Idle, Doing
<1>k. ASSUME UNCHANGED <<task, spots, crowded>> PROVE SpotSteps
  BY <1>0, <1>n, <1>k DEF SpotSteps, FewerCreate
<1>g. ASSUME NEW r \in Requests, NEW l \in Lots,
             NEW next \in {"idle", "counting", "pricing", "repricing"},
             NEW p \in Prices \union {NoPrice},
             next \in {"pricing", "repricing"} => p \in Prices,
             FoundInTable(r, l, next, p) \/ (next # "idle" /\ FoundInCache(r, l, next, p))
      PROVE  SpotSteps
  BY <1>g, <1>1, LegalTasks DEF FoundInTable, FoundInCache, lotVars, historyVars, Doing
<1>2. ASSUME NEW r \in Requests, ParkingHandler(r) PROVE SpotSteps
  <2>1. ASSUME NEW l \in Lots, CreateParking(r, l) PROVE SpotSteps
    BY <2>1, <1>1, LegalTasks DEF CreateParking, Doing
  <2>2. ASSUME NEW l \in Lots, DeleteParking(r, l) PROVE SpotSteps
    <3> DEFINE x == Doing("droppingList", l, "dropping", NoPrice, {})
    <3>1. Legal(x) /\ x.stage # "inserting" /\ Goto(r, x)
      BY <2>2, LegalTasks DEF DeleteParking, Doing
    <3> HIDE DEF x
    <3>2. \A k \in Lots : spots'[k] <= spots[k]
      BY <1>0, <1>n, <2>2 DEF DeleteParking, Cascade, LotsTypeOK
    <3>3. FewerCreate
      BY <2>2, <3>1, <3>2, GotoLegal DEF SpotSteps, FewerCreate, DeleteParking
    <3> QED BY <3>3 DEF SpotSteps
  <2>3. ASSUME NEW l \in Lots, FoundInTable(r, l, "idle", NoPrice) PROVE SpotSteps
    BY <2>3, <1>g
  <2>4. CASE GetAll(r)
    <3>1. {l \in Lots : lot[l] = "open"} \in SUBSET Lots
      OBVIOUS
    <3> QED BY <2>4, <3>1, <1>1, LegalTasks DEF GetAll, lotVars, historyVars, Doing
  <2>5. CASE DropList(r) \/ SetCache(r)
    BY <2>5, <1>c DEF DropList, SetCache, At, lotVars, historyVars
  <2>6. CASE InvalidateCache(r) \/ SetAllCache(r)
    BY <2>6, <1>f DEF InvalidateCache, SetAllCache, lotVars, historyVars
  <2> QED BY <1>2, <2>1, <2>2, <2>3, <2>4, <2>5, <2>6 DEF ParkingHandler
<1>3. ASSUME NEW r \in Requests, SpotHandler(r) PROVE SpotSteps
  <2>1. ASSUME NEW l \in Lots, GetByID(r, l, "counting", NoPrice) PROVE SpotSteps
    BY <2>1, <1>g DEF GetByID
  <2>2. CASE CountByParkingID(r)
    <3>1. PICK k \in Lots : k = task[r].lot
      BY <1>0, <2>2 DEF CountByParkingID, At, Legal
    <3>2. CASE ~BelowLimit(k)
      BY <2>2, <3>1, <3>2, <1>f DEF CountByParkingID, lotVars
    <3>3. CASE BelowLimit(k)
      BY <2>2, <3>1, <3>3 DEF SpotSteps
    <3> QED BY <3>2, <3>3
  <2>3. CASE CreateSpot(r)
    BY <2>3 DEF SpotSteps
  <2> QED BY <1>3, <2>1, <2>2, <2>3 DEF SpotHandler
<1>4. ASSUME NEW r \in Requests, TariffHandler(r) PROVE SpotSteps
  <2>1. ASSUME NEW l \in Lots, NEW p \in Prices,
               GetByID(r, l, "pricing", p) \/ GetByID(r, l, "repricing", p)
        PROVE  SpotSteps
    BY <2>1, <1>g DEF GetByID
  <2>2. CASE CreateTariff(r) \/ UpdatePrice(r)
    BY <2>2, <1>f DEF CreateTariff, UpdatePrice
  <2> QED BY <1>4, <2>1, <2>2 DEF TariffHandler
<1>5. ASSUME NEW r \in Requests, StatementFails(r) \/ ReplyLost(r) \/ CacheFails(r) PROVE SpotSteps
  BY <1>5, <1>f, <1>c DEF StatementFails, ReplyLost, CacheFails, At, lotVars, historyVars
<1>6. ASSUME NEW l \in Lots, DeleteSpot(l) PROVE SpotSteps
  <2>1. /\ UNCHANGED <<task, crowded>>
        /\ \A k \in Lots : spots'[k] <= spots[k]
    BY <1>0, <1>n, <1>6 DEF DeleteSpot, historyVars, LotsTypeOK
  <2> QED BY <1>0, <2>1 DEF SpotSteps, FewerCreate
<1>7. ASSUME NEW l \in Lots, LotKeyExpires(l) PROVE SpotSteps
  BY <1>7, <1>k DEF LotKeyExpires, lotVars, historyVars
<1>8. CASE ListKeyExpires \/ UNCHANGED parkingVars
  BY <1>8, <1>k DEF ListKeyExpires, lotVars, historyVars, parkingVars
<1>9. CASE Crash
  <2>1. \A r \in Requests : task'[r].stage # "inserting"
    BY <1>9 DEF Crash, Idle, Doing
  <2>2. UNCHANGED <<spots, crowded>>
    BY <1>9 DEF Crash, lotVars
  <2> QED BY <1>0, <1>n, <2>1, <2>2 DEF SpotSteps, FewerCreate
<1> QED BY <1>2, <1>3, <1>4, <1>5, <1>6, <1>7, <1>8, <1>9 DEF LotsNext

LEMMA NextLimit == LotsTypeInv /\ LimitInv /\ [LotsNext]_parkingVars => LimitInv'
<1> SUFFICES ASSUME LotsTypeInv, LimitInv, [LotsNext]_parkingVars PROVE LimitInv'
  OBVIOUS
<1>0. LotsTypeOK /\ LotsTypeInv' /\ \A r \in Requests : Legal(task[r])
  BY NextLotsTypes DEF LotsTypeInv
<1>n. \A l \in Lots : spots[l] \in Nat
  BY <1>0 DEF LotsTypeOK
<1>1. CASE FewerCreate
  BY <1>0, <1>1, FewerLimit
<1>2. ASSUME NEW r \in Requests, CountByParkingID(r), BelowLimit(task[r].lot) PROVE LimitInv'
  <2>0. PICK k \in Lots : k = task[r].lot
    BY <1>0, <1>2 DEF CountByParkingID, At, Legal
  <2> DEFINE x == Doing("inserting", k, "idle", NoPrice, {})
  <2>1. Legal(x) /\ Goto(r, x)
    BY <1>2, <2>0, LegalTasks DEF CountByParkingID
  <2>2. x.lot = k /\ UNCHANGED spots
    BY <1>2, <2>0 DEF CountByParkingID, lotVars, Doing
  <2>3. crowded' = IF Creating(k) = {} THEN crowded ELSE crowded \union {k}
    BY <1>2, <2>0 DEF CountByParkingID
  <2> HIDE DEF x
  <2>4. task'[r] = x /\ \A q \in Requests \ {r} : task'[q] = task[q]
    BY <2>1, GotoLegal
  <2> SUFFICES ASSUME NEW l \in Lots, l \notin crowded' PROVE Uncrowded(l)'
    BY DEF LimitInv
  <2>5. Uncrowded(l) /\ spots'[l] = spots[l]
    BY <2>2, <2>3 DEF LimitInv
  <2>6. CASE l = k
    <3>1. Creating(k) = {}
      BY <2>3, <2>6
    <3>2. Creating(k)' \subseteq {r}
      BY <2>4, <3>1 DEF Creating, At
    <3> QED BY <1>2, <2>0, <2>5, <2>6, <3>2 DEF Uncrowded, BelowLimit
  <2>7. CASE l # k
    <3>1. Creating(l)' \subseteq Creating(l)
      BY <2>2, <2>4, <2>7 DEF Creating, At
    <3> QED BY <2>5, <3>1 DEF Uncrowded
  <2> QED BY <2>6, <2>7
<1>3. ASSUME NEW r \in Requests, CreateSpot(r) PROVE LimitInv'
  <2> DEFINE k == task[r].lot
  <2>1. k \in Lots /\ r \in Creating(k)
    BY <1>0, <1>3 DEF CreateSpot, At, Legal, Creating
  <2>2. task'[r] = Idle /\ \A q \in Requests \ {r} : task'[q] = task[q]
    BY <1>3, GotoLegal, LegalTasks DEF CreateSpot, Finish
  <2>3. /\ crowded' = crowded
        /\ \A l \in Lots : l # k => spots'[l] = spots[l]
        /\ spots'[k] \in {spots[k], spots[k] + 1}
    BY <1>0, <1>3, <2>1 DEF CreateSpot, historyVars, LotsTypeOK
  <2> SUFFICES ASSUME NEW l \in Lots, l \notin crowded' PROVE Uncrowded(l)'
    BY DEF LimitInv
  <2>4. Uncrowded(l) /\ TotalSpots[l] \in Nat /\ spots[l] \in Nat
    BY <1>n, <2>3, LotAssumption DEF LimitInv
  <2>5. Creating(l)' \subseteq Creating(l) \ {r}
    BY <2>2 DEF Creating, At, Idle, Doing
  <2>6. CASE l = k
    <3>1. Creating(l)' = {}
      BY <2>1, <2>4, <2>5, <2>6 DEF Uncrowded
    <3> QED BY <2>1, <2>3, <2>4, <2>6, <3>1 DEF Uncrowded
  <2>7. CASE l # k
    BY <2>3, <2>4, <2>5, <2>7 DEF Uncrowded
  <2> QED BY <2>6, <2>7
<1> QED BY <1>1, <1>2, <1>3, StepsOnSpots DEF SpotSteps

\* A lot keeps to total_spots unless two CreateSpots overlapped on it.
THEOREM LimitKeptHolds == LotsSpec => []LimitKept
<1>1. LotsInit => LimitInv
  BY LotAssumption DEF LotsInit, LimitInv, Uncrowded, Creating, At, Idle, Doing
<1>2. LimitInv => LimitKept
  BY DEF LimitInv, LimitKept, Uncrowded
<1> QED BY <1>1, <1>2, InitLotsTypes, NextLotsTypes, NextLimit, PTL DEF LotsSpec

\* Every request about to insert a spot may still do so.
OvershootInv ==
    \A l \in Lots : spots[l] + Cardinality(Creating(l)) < TotalSpots[l] + Cardinality(Requests)

\* The requests are finite in number, and so are those about to insert.
LEMMA CreatingFinite ==
  /\ Cardinality(Requests) \in Nat
  /\ \A S \in SUBSET Requests : IsFiniteSet(S) /\ Cardinality(S) \in Nat
                                 /\ Cardinality(S) <= Cardinality(Requests)
  /\ \A S, T \in SUBSET Requests : S \subseteq T => Cardinality(S) <= Cardinality(T)
  /\ \A S \in SUBSET Requests : \A r \in S : Cardinality(S \ {r}) = Cardinality(S) - 1
<1>1. IsFiniteSet(Requests)
  BY LotAssumption
<1>2. \A S \in SUBSET Requests : IsFiniteSet(S)
  BY <1>1, FS_Subset
<1> QED BY <1>1, <1>2, FS_Subset, FS_CardinalityType, FS_RemoveElement

LEMMA NextOvershoot == LotsTypeInv /\ OvershootInv /\ [LotsNext]_parkingVars => OvershootInv'
<1> SUFFICES ASSUME LotsTypeInv, OvershootInv, [LotsNext]_parkingVars, NEW l \in Lots
             PROVE  (spots[l] + Cardinality(Creating(l)) < TotalSpots[l] + Cardinality(Requests))'
  BY DEF OvershootInv
<1>0. /\ LotsTypeOK /\ LotsTypeInv'
      /\ \A r \in Requests : Legal(task[r])
      /\ TotalSpots[l] \in Nat /\ spots[l] \in Nat /\ spots'[l] \in Nat
      /\ Creating(l) \in SUBSET Requests /\ Creating(l)' \in SUBSET Requests
      /\ spots[l] + Cardinality(Creating(l)) < TotalSpots[l] + Cardinality(Requests)
  BY NextLotsTypes, LotAssumption DEF LotsTypeInv, LotsTypeOK, OvershootInv, Creating
<1>1. ASSUME spots'[l] <= spots[l], Creating(l)' \subseteq Creating(l)
      PROVE  spots'[l] + Cardinality(Creating(l)') < TotalSpots[l] + Cardinality(Requests)
  <2>1. /\ Cardinality(Creating(l)') <= Cardinality(Creating(l))
        /\ Cardinality(Creating(l)') \in Nat /\ Cardinality(Creating(l)) \in Nat
        /\ Cardinality(Requests) \in Nat
    BY <1>0, <1>1, CreatingFinite
  <2> QED BY <1>0, <1>1, <2>1
<1>2. CASE FewerCreate
  BY <1>1, <1>2 DEF FewerCreate, Creating, At
<1>3. ASSUME NEW r \in Requests, CountByParkingID(r), BelowLimit(task[r].lot)
      PROVE  spots'[l] + Cardinality(Creating(l)') < TotalSpots[l] + Cardinality(Requests)
  <2>1. spots'[l] = spots[l] /\ task[r].lot \in Lots
    BY <1>0, <1>3 DEF CountByParkingID, lotVars, At, Legal
  <2>2. CASE task[r].lot = l
    <3>1. spots[l] < TotalSpots[l]
      BY <1>3, <2>2 DEF BelowLimit
    <3>2. Cardinality(Creating(l)') <= Cardinality(Requests) /\ Cardinality(Requests) \in Nat
          /\ Cardinality(Creating(l)') \in Nat
      BY <1>0, CreatingFinite
    <3> QED BY <1>0, <2>1, <3>1, <3>2
  <2>3. CASE task[r].lot # l
    <3>1. PICK x : Legal(x) /\ Goto(r, x) /\ x.lot # l
      <4> DEFINE x == Doing("inserting", task[r].lot, "idle", NoPrice, {})
      <4>1. Legal(x) /\ Goto(r, x)
        BY <1>3, <2>1, LegalTasks DEF CountByParkingID
      <4>2. x.lot # l
        BY <2>3 DEF Doing
      <4> QED BY <4>1, <4>2
    <3>2. Creating(l)' \subseteq Creating(l)
      BY <3>1, GotoLegal DEF Creating, At
    <3> QED BY <1>0, <1>1, <2>1, <3>2
  <2> QED BY <2>2, <2>3
<1>4. ASSUME NEW r \in Requests, CreateSpot(r)
      PROVE  spots'[l] + Cardinality(Creating(l)') < TotalSpots[l] + Cardinality(Requests)
  <2>1. task[r].stage = "inserting" /\ task[r].lot \in Lots
    BY <1>0, <1>4 DEF CreateSpot, At, Legal
  <2>2. Creating(l)' = Creating(l) \ {r}
    BY <1>4, GotoLegal, LegalTasks DEF CreateSpot, Finish, Creating, At, Idle, Doing
  <2>3. CASE task[r].lot = l
    <3>1. r \in Creating(l) /\ spots'[l] <= spots[l] + 1
      BY <1>0, <1>4, <2>1, <2>3 DEF CreateSpot, Creating, At, LotsTypeOK
    <3>2. /\ Cardinality(Creating(l)') = Cardinality(Creating(l)) - 1
          /\ Cardinality(Creating(l)) \in Nat /\ Cardinality(Requests) \in Nat
      BY <1>0, <2>2, <3>1, CreatingFinite
    <3> QED BY <1>0, <3>1, <3>2
  <2>4. CASE task[r].lot # l
    <3>1. spots'[l] = spots[l]
      BY <1>0, <1>4, <2>1, <2>4 DEF CreateSpot, LotsTypeOK
    <3> QED BY <1>0, <1>1, <2>2, <3>1
  <2> QED BY <2>3, <2>4
<1> QED BY <1>2, <1>3, <1>4, StepsOnSpots DEF SpotSteps

\* However many requests overlap, a lot has fewer spots too many than there
\* are requests.
THEOREM OvershootBoundedHolds == LotsSpec => []OvershootBounded
<1>1. LotsInit => OvershootInv
  <2> SUFFICES ASSUME LotsInit, NEW l \in Lots
               PROVE  spots[l] + Cardinality(Creating(l)) < TotalSpots[l] + Cardinality(Requests)
    BY DEF OvershootInv
  <2>1. Creating(l) = {} /\ spots[l] = 0
    BY DEF LotsInit, Creating, At, Idle, Doing
  <2>2. TotalSpots[l] \in Nat \ {0}
    BY LotAssumption
  <2> QED BY <2>1, <2>2, CreatingFinite, FS_EmptySet
<1>2. LotsTypeInv /\ OvershootInv => OvershootBounded
  <2> SUFFICES ASSUME LotsTypeInv, OvershootInv, NEW l \in Lots
               PROVE  spots[l] < TotalSpots[l] + Cardinality(Requests)
    BY DEF OvershootBounded
  <2>1. Creating(l) \in SUBSET Requests
    BY DEF Creating
  <2>2. Cardinality(Creating(l)) \in Nat /\ Cardinality(Requests) \in Nat
    BY <2>1, CreatingFinite
  <2> QED BY <2>2, LotAssumption DEF OvershootInv, LotsTypeInv, LotsTypeOK
<1> QED BY <1>1, <1>2, InitLotsTypes, NextLotsTypes, NextOvershoot, PTL DEF LotsSpec

-----------------------------------------------------------------------------
(* The keys in Redis.                                                      *)

\* What is on its way to Redis about a lot is as true as what is there.
Fresh(l) ==
    /\ l \in lotKey /\ ~Due(l, {"droppingList", "dropping"}) => lot[l] = "open"
    /\ listed /\ ~Due(l, {"droppingList"}) => (l \in listKey <=> lot[l] = "open")
    /\ \A r \in Requests :
         /\ task[r].lot = l /\ "storing" \in {task[r].stage, task[r].next} => lot[l] = "open"
         /\ task[r].stage = "storingList" => (l \in task[r].list <=> lot[l] = "open")

FreshInv == \A l \in Lots \ excused : Fresh(l)

\* A step that neither takes anything to Redis nor owes it anything.
LEMMA QuietFresh ==
  ASSUME LotsTypeInv, FreshInv, excused \subseteq excused', UNCHANGED <<lot, cacheVars>>,
         \A r \in Requests :
           task'[r] = task[r] \/
             /\ task[r].stage \notin {"droppingList", "dropping"}
             /\ task'[r].stage \notin {"storing", "storingList"} /\ task'[r].next # "storing"
  PROVE  FreshInv'
<1> SUFFICES ASSUME NEW l \in Lots, l \notin excused' PROVE Fresh(l)'
  BY DEF FreshInv
<1>1. Fresh(l)
  BY DEF FreshInv
<1>2. Due(l, {"droppingList", "dropping"}) => Due(l, {"droppingList", "dropping"})'
  BY DEF Due
<1>3. Due(l, {"droppingList"}) => Due(l, {"droppingList"})'
  BY DEF Due
<1> QED BY <1>1, <1>2, <1>3 DEF Fresh, cacheVars

\* The same for one request that goes somewhere.
LEMMA QuietStepFresh ==
  ASSUME LotsTypeInv, FreshInv, UNCHANGED <<excused, lot, cacheVars>>,
         NEW r \in Requests, NEW x, Legal(x), Goto(r, x),
         task[r].stage \notin {"droppingList", "dropping"},
         x.stage \notin {"storing", "storingList"}, x.next # "storing"
  PROVE  FreshInv'
<1>1. task'[r] = x /\ \A q \in Requests \ {r} : task'[q] = task[q]
  BY GotoLegal
<1> QED BY <1>1, QuietFresh

\* A lot that appears or goes is owed a DEL of the list, and of its key.
LEMMA WriteFresh ==
  ASSUME LotsTypeInv, FreshInv, NEW r \in Requests, NEW l \in Lots,
         CreateParking(r, l) \/ DeleteParking(r, l)
  PROVE  FreshInv'
<1>1. PICK next \in {"storing", "dropping"} :
        /\ Goto(r, Doing("droppingList", l, next, NoPrice, {}))
        /\ next = "storing" => lot' = [lot EXCEPT ![l] = "open"]
        /\ next = "dropping" => lot' = [lot EXCEPT ![l] = "deleted"]
        /\ task[r] = Idle /\ Overtakes(l) /\ UNCHANGED cacheVars
  BY DEF CreateParking, DeleteParking
<1>2. PICK x : x = Doing("droppingList", l, next, NoPrice, {})
  OBVIOUS
<1>3. Legal(x) /\ Goto(r, x)
  BY <1>1, <1>2, LegalTasks
<1>4. task'[r] = x /\ \A q \in Requests \ {r} : task'[q] = task[q]
  BY <1>3, GotoLegal
<1>5. x.stage = "droppingList" /\ x.lot = l /\ x.next = next
  BY <1>2 DEF Doing
<1>6. task[r].stage = "idle"
  BY <1>1 DEF Idle, Doing
<1> SUFFICES ASSUME NEW k \in Lots, k \notin excused' PROVE Fresh(k)'
  BY DEF FreshInv
<1>7. Fresh(k)
  BY <1>1 DEF FreshInv, Overtakes
<1>8. CASE k = l
  <2>1. Carrying(l) = {} /\ Due(l, {"droppingList", "dropping"})' /\ Due(l, {"droppingList"})'
    BY <1>1, <1>4, <1>5, <1>8 DEF Overtakes, Due
  <2>2. \A q \in Requests \ {r} :
          /\ task'[q].stage # "storingList"
          /\ task'[q].lot = l => "storing" \notin {task'[q].stage, task'[q].next}
    BY <1>4, <2>1 DEF Carrying, At
  <2>3. next = "storing" => lot'[l] = "open"
    BY <1>1 DEF LotsTypeInv, LotsTypeOK
  <2> QED BY <1>4, <1>5, <1>8, <2>1, <2>2, <2>3 DEF Fresh
<1>9. CASE k # l
  <2>1. lot'[k] = lot[k]
    BY <1>1, <1>9 DEF LotsTypeInv, LotsTypeOK
  <2>2. /\ Due(k, {"droppingList", "dropping"}) => Due(k, {"droppingList", "dropping"})'
        /\ Due(k, {"droppingList"}) => Due(k, {"droppingList"})'
    BY <1>4, <1>6 DEF Due
  <2> QED BY <1>1, <1>4, <1>5, <1>7, <1>9, <2>1, <2>2 DEF Fresh, cacheVars
<1> QED BY <1>8, <1>9

\* A request goes on from the DEL of the list: its lot's key is still owed a
\* DEL if the lot is gone.
LEMMA DropListFresh ==
  ASSUME LotsTypeInv, FreshInv, NEW r \in Requests, DropList(r)
  PROVE  FreshInv'
<1>1. task[r].stage = "droppingList" /\ Legal(task[r])
  BY DEF DropList, At, LotsTypeInv
<1>2. PICK x : /\ Legal(x) /\ Goto(r, x)
               /\ x.stage = task[r].next /\ x.lot = task[r].lot /\ x.next = "idle"
  BY <1>1, ContinueLegal DEF DropList
<1>3. task'[r] = x /\ \A q \in Requests \ {r} : task'[q] = task[q]
  BY <1>2, GotoLegal
<1>4. UNCHANGED <<lot, lotKey, excused>> /\ listed' = FALSE
  BY DEF DropList, InvalidateListCache, lotVars, historyVars
<1> SUFFICES ASSUME NEW l \in Lots, l \notin excused' PROVE Fresh(l)'
  BY DEF FreshInv
<1>5. Fresh(l)
  BY <1>4 DEF FreshInv
<1>6. x.stage \in {"storing", "dropping"}
  BY <1>1, <1>2 DEF Legal
<1>7. l \in lotKey /\ ~Due(l, {"droppingList", "dropping"})' => lot[l] = "open"
  <2>1. CASE Due(l, {"droppingList", "dropping"}) /\ ~Due(l, {"droppingList", "dropping"})'
    <3>1. task[r].lot = l /\ x.stage = "storing"
      BY <1>2, <1>3, <1>6, <2>1 DEF Due
    <3> QED BY <1>2, <1>5, <3>1 DEF Fresh
  <2> QED BY <1>5, <2>1 DEF Fresh
<1> QED BY <1>2, <1>3, <1>4, <1>5, <1>6, <1>7 DEF Fresh

\* What a request puts under a lot's key, or the list's, is still true.
LEMMA StoreFresh ==
  ASSUME LotsTypeInv, FreshInv, NEW r \in Requests,
         SetCache(r) \/ SetAllCache(r) \/ InvalidateCache(r)
  PROVE  FreshInv'
<1>0. Legal(task[r])
  BY DEF LotsTypeInv
<1>1. PICK x : Legal(x) /\ Goto(r, x) /\ x.stage # "storing" /\ x.stage # "storingList" /\ x.next = "idle"
  BY <1>0, ContinueLegal, LegalTasks
  DEF SetCache, SetAllCache, InvalidateCache, Finish, Legal, At, Idle, Doing
<1>2. task'[r] = x /\ \A q \in Requests \ {r} : task'[q] = task[q]
  BY <1>1, GotoLegal
<1>3. UNCHANGED <<lot, excused>>
  BY DEF SetCache, SetAllCache, InvalidateCache, lotVars, historyVars
<1> SUFFICES ASSUME NEW l \in Lots, l \notin excused' PROVE Fresh(l)'
  BY DEF FreshInv
<1>4. Fresh(l)
  BY <1>3 DEF FreshInv
<1>5. \A q \in Requests :
        /\ task'[q].lot = l /\ "storing" \in {task'[q].stage, task'[q].next} => lot[l] = "open"
        /\ task'[q].stage = "storingList" => (l \in task'[q].list <=> lot[l] = "open")
  BY <1>1, <1>2, <1>4 DEF Fresh
<1>6. task[r].stage # "droppingList"
  BY DEF SetCache, SetAllCache, InvalidateCache, At
<1>7. Due(l, {"droppingList"}) => Due(l, {"droppingList"})'
  BY <1>2, <1>6 DEF Due
<1>8. CASE SetCache(r)
  <2>1. lotKey' = lotKey \union {task[r].lot} /\ UNCHANGED <<listKey, listed>>
        /\ task[r].stage = "storing"
    BY <1>8 DEF SetCache, At
  <2>2. task[r].lot = l => lot[l] = "open"
    BY <1>4, <2>1 DEF Fresh
  <2>3. Due(l, {"droppingList", "dropping"}) => Due(l, {"droppingList", "dropping"})'
    BY <1>2, <2>1 DEF Due
  <2> QED BY <1>3, <1>4, <1>5, <1>7, <2>1, <2>2, <2>3 DEF Fresh
<1>9. CASE SetAllCache(r)
  <2>1. listKey' = task[r].list /\ UNCHANGED lotKey /\ task[r].stage = "storingList"
    BY <1>9 DEF SetAllCache, At
  <2>2. Due(l, {"droppingList", "dropping"}) => Due(l, {"droppingList", "dropping"})'
    BY <1>2, <2>1 DEF Due
  <2> QED BY <1>3, <1>4, <1>5, <2>1, <2>2 DEF Fresh
<1>10. CASE InvalidateCache(r)
  <2>1. lotKey' = lotKey \ {task[r].lot} /\ UNCHANGED <<listKey, listed>>
    BY <1>10 DEF InvalidateCache
  <2>2. task[r].lot # l =>
          (Due(l, {"droppingList", "dropping"}) => Due(l, {"droppingList", "dropping"})')
    BY <1>2 DEF Due
  <2> QED BY <1>3, <1>4, <1>5, <1>7, <2>1, <2>2 DEF Fresh
<1> QED BY <1>8, <1>9, <1>10

\* What a request reads from the table is true then.
LEMMA ReadFresh ==
  ASSUME LotsTypeInv, FreshInv, NEW r \in Requests, NEW k \in Lots,
         NEW next \in {"idle", "counting", "pricing", "repricing"},
         NEW p \in Prices \union {NoPrice},
         next \in {"pricing", "repricing"} => p \in Prices,
         FoundInTable(r, k, next, p) \/ GetAll(r)
  PROVE  FreshInv'
<1>0. task[r].stage = "idle" /\ UNCHANGED <<excused, lot, cacheVars>>
  BY DEF FoundInTable, GetAll, Idle, Doing, lotVars, historyVars
<1>1. {l \in Lots : lot[l] = "open"} \in SUBSET Lots
  OBVIOUS
<1>2. PICK x : /\ Legal(x) /\ Goto(r, x)
               /\ \/ x.stage = "storing" /\ x.lot = k /\ lot[k] = "open"
                  \/ x.stage = "storingList" /\ x.next # "storing"
                     /\ \A l \in Lots : l \in x.list <=> lot[l] = "open"
  <2>1. CASE FoundInTable(r, k, next, p)
    <3> DEFINE x == Doing("storing", k, next, p, {})
    <3>1. x.stage = "storing" /\ x.lot = k /\ lot[k] = "open" /\ Goto(r, x)
      BY <2>1 DEF FoundInTable, Doing
    <3>2. Legal(x)
      BY LegalTasks
    <3> QED BY <3>1, <3>2
  <2>2. CASE GetAll(r)
    <3> DEFINE S == {l \in Lots : lot[l] = "open"}
               x == Doing("storingList", NoLot, "idle", NoPrice, S)
    <3>1. x.stage = "storingList" /\ x.next # "storing" /\ Goto(r, x) /\ x.list = S
      BY <2>2 DEF GetAll, Doing
    <3>2. Legal(x)
      BY <1>1, LegalTasks
    <3> QED BY <3>1, <3>2
  <2> QED BY <2>1, <2>2
<1>3. task'[r] = x /\ \A q \in Requests \ {r} : task'[q] = task[q]
  BY <1>2, GotoLegal
<1> SUFFICES ASSUME NEW l \in Lots, l \notin excused' PROVE Fresh(l)'
  BY DEF FreshInv
<1>4. Fresh(l)
  BY <1>0 DEF FreshInv
<1>5. /\ Due(l, {"droppingList", "dropping"}) => Due(l, {"droppingList", "dropping"})'
      /\ Due(l, {"droppingList"}) => Due(l, {"droppingList"})'
  BY <1>0, <1>3 DEF Due
<1> QED BY <1>0, <1>2, <1>3, <1>4, <1>5 DEF Fresh, cacheVars

\* A failure of Redis and a crash excuse the lots of the requests they strike.
LEMMA FaultFresh ==
  ASSUME LotsTypeInv, FreshInv, UNCHANGED <<lot, cacheVars>>,
         NEW S \in SUBSET Requests,
         excused' = excused \union UNION {Unsettled(r) : r \in S},
         \A r \in Requests : task'[r] = task[r] \/
           /\ r \in S
           /\ task'[r].stage = "storing" =>
                task[r].stage = "droppingList" /\ task'[r].lot = task[r].lot
           /\ task'[r].stage # "storingList" /\ task'[r].next # "storing"
  PROVE  FreshInv'
<1> SUFFICES ASSUME NEW l \in Lots, l \notin excused' PROVE Fresh(l)'
  BY DEF FreshInv
<1>1. Fresh(l)
  BY DEF FreshInv
<1>2. \A r \in S : l \notin Unsettled(r)
  OBVIOUS
<1>3. \A r \in S : task[r].lot = l => task[r].stage \notin {"droppingList", "dropping", "storing"}
  BY <1>2 DEF Unsettled
<1>4. /\ Due(l, {"droppingList", "dropping"}) => Due(l, {"droppingList", "dropping"})'
      /\ Due(l, {"droppingList"}) => Due(l, {"droppingList"})'
  BY <1>3 DEF Due
<1> QED BY <1>1, <1>3, <1>4 DEF Fresh, cacheVars

LEMMA NextFresh == LotsTypeInv /\ FreshInv /\ [LotsNext]_parkingVars => FreshInv'
<1> SUFFICES ASSUME LotsTypeInv, FreshInv, [LotsNext]_parkingVars PROVE FreshInv'
  OBVIOUS
<1>0. \A r \in Requests : Legal(task[r])
  BY DEF LotsTypeInv
<1>q. ASSUME NEW r \in Requests, NEW x, Legal(x), Goto(r, x), UNCHANGED <<excused, lot, cacheVars>>,
             task[r].stage \notin {"droppingList", "dropping"},
             x.stage \notin {"storing", "storingList"}, x.next # "storing"
      PROVE  FreshInv'
  BY <1>q, QuietStepFresh
<1>f. ASSUME NEW r \in Requests, Finish(r), UNCHANGED <<excused, lot, cacheVars>>,
             task[r].stage \notin {"droppingList", "dropping"}
      PROVE  FreshInv'
  BY <1>f, <1>q, LegalTasks DEF Finish, Idle, Doing
<1>h. ASSUME NEW r \in Requests, NEW l \in Lots, NEW next \in {"counting", "pricing", "repricing"},
             NEW p \in Prices \union {NoPrice},
             next \in {"pricing", "repricing"} => p \in Prices, GetByID(r, l, next, p)
      PROVE  FreshInv'
  <2>1. CASE FoundInTable(r, l, next, p)
    BY <1>h, <2>1, ReadFresh
  <2>2. CASE FoundInCache(r, l, next, p)
    <3> DEFINE x == Doing(next, l, "idle", p, {})
    <3>1. x.stage = next /\ x.next = "idle"
      BY DEF Doing
    <3>2. Legal(x)
      BY <1>h, LegalTasks
    <3>3. Goto(r, x) /\ task[r].stage = "idle" /\ UNCHANGED <<excused, lot, cacheVars>>
      BY <2>2 DEF FoundInCache, Idle, Doing, lotVars, historyVars
    <3> HIDE DEF x
    <3> QED BY <3>1, <3>2, <3>3, <1>q
  <2> QED BY <1>h, <2>1, <2>2 DEF GetByID
<1>1. ASSUME NEW r \in Requests, ParkingHandler(r) PROVE FreshInv'
  <2>1. ASSUME NEW l \in Lots, FoundInTable(r, l, "idle", NoPrice) PROVE FreshInv'
    BY <2>1, ReadFresh
  <2>2. CASE GetAll(r)
    <3>1. CASE Lots = {}
      BY <3>1 DEF FreshInv
    <3>2. CASE Lots # {}
      BY <2>2, <3>2, ReadFresh
    <3> QED BY <3>1, <3>2
  <2> QED BY <1>1, <2>1, <2>2, WriteFresh, DropListFresh, StoreFresh DEF ParkingHandler
<1>2. ASSUME NEW r \in Requests, SpotHandler(r) PROVE FreshInv'
  <2>1. CASE CountByParkingID(r)
    <3>1. task[r].lot \in Lots
      BY <1>0, <2>1 DEF CountByParkingID, At, Legal
    <3>2. Finish(r) \/ Goto(r, Doing("inserting", task[r].lot, "idle", NoPrice, {}))
      BY <2>1 DEF CountByParkingID
    <3>3. UNCHANGED <<excused, lot, cacheVars>> /\ task[r].stage = "counting"
      BY <2>1 DEF CountByParkingID, lotVars, At
    <3> QED BY <3>1, <3>2, <3>3, <1>q, <1>f, LegalTasks DEF Doing
  <2>2. CASE CreateSpot(r)
    BY <2>2, <1>f DEF CreateSpot, At, historyVars
  <2> QED BY <1>2, <2>1, <2>2, <1>h DEF SpotHandler
<1>3. ASSUME NEW r \in Requests, TariffHandler(r) PROVE FreshInv'
  <2>1. CASE CreateTariff(r) \/ UpdatePrice(r)
    BY <2>1, <1>f DEF CreateTariff, UpdatePrice, At
  <2> QED BY <1>3, <2>1, <1>h DEF TariffHandler
<1>4. ASSUME NEW r \in Requests, StatementFails(r) PROVE FreshInv'
  BY <1>4, <1>f DEF StatementFails, lotVars, historyVars
<1>5. ASSUME NEW r \in Requests, CacheFails(r) \/ ReplyLost(r) PROVE FreshInv'
  <2>1. PICK x : /\ Legal(x) /\ Goto(r, x)
                 /\ x.stage = "storing" => task[r].stage = "droppingList" /\ x.lot = task[r].lot
                 /\ x.stage # "storingList" /\ x.next # "storing"
    BY <1>0, <1>5, ContinueLegal, LegalTasks DEF CacheFails, ReplyLost, Finish, Legal, At, Idle, Doing
  <2>2. task'[r] = x /\ \A q \in Requests \ {r} : task'[q] = task[q]
    BY <2>1, GotoLegal
  <2>3. excused' = excused \union UNION {Unsettled(q) : q \in {r}} /\ UNCHANGED <<lot, cacheVars>>
    BY <1>5 DEF CacheFails, ReplyLost, Unsettled, At, lotVars
  <2>4. {r} \in SUBSET Requests
    OBVIOUS
  <2> QED BY <2>1, <2>2, <2>3, <2>4, FaultFresh
<1>6. CASE Crash
  <2>1. \A r \in Requests : task'[r] = Idle
    BY <1>6 DEF Crash
  <2>2. UNCHANGED <<lot, cacheVars>> /\ excused' = excused \union UNION {Unsettled(r) : r \in Requests}
    BY <1>6 DEF Crash, lotVars
  <2>3. Idle.stage = "idle" /\ Idle.next = "idle"
    BY DEF Idle, Doing
  <2>4. \A r \in Requests : task'[r].stage = "idle" /\ task'[r].next = "idle"
    BY <2>1, <2>3
  <2> QED BY <2>2, <2>4, FaultFresh
<1>7. ASSUME UNCHANGED <<lot, task, excused>>,
             lotKey' \subseteq lotKey,
             UNCHANGED <<listed, listKey>> \/ listed' = FALSE
      PROVE  FreshInv'
  BY <1>7 DEF FreshInv, Fresh, Due
<1>8. ASSUME NEW l \in Lots, DeleteSpot(l) \/ LotKeyExpires(l) PROVE FreshInv'
  BY <1>8, <1>7 DEF DeleteSpot, LotKeyExpires, lotVars, cacheVars, historyVars
<1>9. CASE ListKeyExpires
  BY <1>9, <1>7 DEF ListKeyExpires, lotVars, historyVars
<1>10. CASE UNCHANGED parkingVars
  BY <1>10, <1>7 DEF parkingVars, lotVars, cacheVars, historyVars
<1> QED BY <1>1, <1>2, <1>3, <1>4, <1>5, <1>6, <1>8, <1>9, <1>10 DEF LotsNext

\* Redis tells which lots there are, but for what a write overtakes, for
\* replies lost after the write of a lot and for failures of Redis.
THEOREM LotsFreshHolds == LotsSpec => []LotsFresh
<1>1. LotsInit => FreshInv
  BY DEF LotsInit, FreshInv, Fresh, Due, Idle, Doing
<1>2. FreshInv => LotsFresh
  BY DEF FreshInv, LotsFresh, Fresh
<1> QED BY <1>1, <1>2, InitLotsTypes, NextLotsTypes, NextFresh, PTL DEF LotsSpec
=============================================================================
