------------------------------ MODULE ParkingLots ------------------------------
(***************************************************************************)
(* parking-service: lots with their two Redis keys, the spots of a lot as  *)
(* far as their number matters, and tariffs.  (SpotService is the status   *)
(* of a spot.)                                                             *)
(*                                                                         *)
(* A request executes one statement at a time, without a transaction.      *)
(* What only reads the tables of spots and tariffs has no step.  No route  *)
(* leads to DeleteParking; it is part of the usecase and so of this model. *)
(***************************************************************************)
EXTENDS Naturals, FiniteSets

CONSTANTS
    Requests, Lots,
    TotalSpots,   \* of each lot: given when it is created, never changed
    Prices,       \* the positive prices
    NoLot, NoPrice,
    MaxWrites,    \* bound on the changes of lots and tariffs
    MaxFaults     \* bound on the faults of a behaviour

ASSUME LotAssumption ==
    /\ NoLot \notin Lots /\ NoPrice \notin Prices
    /\ TotalSpots \in [Lots -> Nat \ {0}]
    /\ MaxWrites \in Nat /\ MaxFaults \in Nat
    /\ IsFiniteSet(Requests)

VARIABLES
    lot,       \* the rows of parkings
    spots,     \* how many rows of spots each lot has
    tariff,    \* the prices in the rows of tariffs of each lot
    lotKey,    \* the lots whose key parking:lot:<id> is in Redis
    listKey,   \* the lots in the list under its key, if there is one
    listed,    \* whether the key of the list is in Redis
    task,      \* what each request is doing
    crowded,   \* history: the lots of which two CreateSpots overlapped
    doubled,   \* history: the lots that got a tariff beside another one
    excused,   \* history: the lots about which the keys may be stale
    writes, faults

lotVars == <<lot, spots, tariff>>
cacheVars == <<lotKey, listKey, listed>>
historyVars == <<crowded, doubled, excused>>
parkingVars == <<lotVars, cacheVars, task, historyVars, writes, faults>>

-----------------------------------------------------------------------------
\* Where a request is: the command it executes next.
Stages ==
    {"idle",
     "storing",      \* setCache: SET of a lot's key
     "storingList",  \* setAllCache
     "droppingList", \* DEL of the list
     "dropping",     \* DEL of a lot's key
     "counting",     \* CountByParkingID
     "inserting",    \* the INSERT of a spot
     "pricing",      \* the INSERT of a tariff
     "repricing"}    \* the UPDATE of tariffs

\* next is what the request does when it knows the lot, or when it has
\* dropped the list.
\* Faulty variant: the price is not remembered.
DoingUnpriced(stage, l, next, price, list) ==
    [stage |-> stage, lot |-> l, next |-> next, price |-> NoLot, list |-> list]

Doing(stage, l, next, price, list) ==
    [stage |-> stage, lot |-> l, next |-> next, price |-> price, list |-> list]

Idle == Doing("idle", NoLot, "idle", NoPrice, {})

TaskRecords ==
    [stage : Stages, lot : Lots \union {NoLot}, next : Stages,
     price : Prices \union {NoPrice}, list : SUBSET Lots]

LotsTypeOK ==
    /\ lot \in [Lots -> {"absent", "open", "deleted"}]
    /\ spots \in [Lots -> Nat]
    /\ tariff \in [Lots -> SUBSET Prices]
    /\ lotKey \subseteq Lots /\ listKey \subseteq Lots /\ listed \in BOOLEAN
    /\ task \in [Requests -> TaskRecords]
    /\ crowded \subseteq Lots /\ doubled \subseteq Lots /\ excused \subseteq Lots
    /\ writes \in Nat /\ faults \in Nat

LotsInit ==
    /\ lot = [l \in Lots |-> "absent"]
    /\ spots = [l \in Lots |-> 0]
    /\ tariff = [l \in Lots |-> {}]
    /\ lotKey = {} /\ listKey = {} /\ listed = FALSE
    /\ task = [r \in Requests |-> Idle]
    /\ crowded = {} /\ doubled = {} /\ excused = {}
    /\ writes = 0 /\ faults = 0

At(r, stage) == task[r].stage = stage
Goto(r, what) == task' = [task EXCEPT ![r] = what]
Finish(r) == Goto(r, Idle)
Continue(r) ==
    IF task[r].next = "idle"
      THEN Finish(r)
      ELSE Goto(r, Doing(task[r].next, task[r].lot, "idle", task[r].price, {}))

\* Bound.
CountWrite == writes < MaxWrites /\ writes' = writes + 1

-----------------------------------------------------------------------------
(* Lots.                                                                   *)

\* The requests that carry a list, or this lot, to Redis.
Carrying(l) ==
    {r \in Requests :
        \/ At(r, "storingList")
        \/ task[r].lot = l /\ "storing" \in {task[r].stage, task[r].next}}

Overtakes(l) == excused' = IF Carrying(l) = {} THEN excused ELSE excused \union {l}

CreateParking(r, l) ==
    /\ task[r] = Idle /\ lot[l] = "absent"
    /\ CountWrite
    /\ lot' = [lot EXCEPT ![l] = "open"]
    /\ Overtakes(l)
    /\ Goto(r, Doing("droppingList", l, "storing", NoPrice, {}))
    /\ UNCHANGED <<spots, tariff, cacheVars, crowded, doubled, faults>>

Cascade(l) ==
    /\ spots' = [spots EXCEPT ![l] = 0]
    /\ tariff' = [tariff EXCEPT ![l] = {}]

\* Once more on the same lot, it would only drop the keys again.
DeleteParking(r, l) ==
    /\ task[r] = Idle /\ lot[l] = "open"
    /\ CountWrite
    /\ lot' = [lot EXCEPT ![l] = "deleted"]
    /\ Cascade(l)
    /\ Overtakes(l)
    /\ Goto(r, Doing("droppingList", l, "dropping", NoPrice, {}))
    /\ UNCHANGED <<cacheVars, crowded, doubled, faults>>

\* Faulty variant: the DEL of the list is forgotten.
ListKept == UNCHANGED <<listKey, listed>>

InvalidateListCache == listed' = FALSE /\ listKey' = {}

DropList(r) ==
    /\ At(r, "droppingList")
    /\ InvalidateListCache
    /\ Continue(r)
    /\ UNCHANGED <<lotVars, lotKey, historyVars, writes, faults>>

InvalidateCache(r) ==
    /\ At(r, "dropping")
    /\ lotKey' = lotKey \ {task[r].lot}
    /\ Finish(r)
    /\ UNCHANGED <<lotVars, listKey, listed, historyVars, writes, faults>>

\* GetByID, for itself or for the check of CreateSpot, CreateTariff and
\* UpdateTariff: the key is there, deleted or not.
FoundInCache(r, l, next, p) ==
    /\ task[r] = Idle /\ l \in lotKey
    /\ Goto(r, Doing(next, l, "idle", p, {}))
    /\ UNCHANGED <<lotVars, cacheVars, historyVars, writes, faults>>

\* A GET that fails counts as a miss, and the key may be there again when
\* the SELECT is executed.
FoundInTable(r, l, next, p) ==
    /\ task[r] = Idle /\ lot[l] = "open"
    /\ Goto(r, Doing("storing", l, next, p, {}))
    /\ UNCHANGED <<lotVars, cacheVars, historyVars, writes, faults>>

GetByID(r, l, next, p) == FoundInCache(r, l, next, p) \/ FoundInTable(r, l, next, p)

SetCache(r) ==
    /\ At(r, "storing")
    /\ lotKey' = lotKey \union {task[r].lot}
    /\ Continue(r)
    /\ UNCHANGED <<lotVars, listKey, listed, historyVars, writes, faults>>

GetAll(r) ==
    /\ task[r] = Idle
    /\ Goto(r, Doing("storingList", NoLot, "idle", NoPrice, {l \in Lots : lot[l] = "open"}))
    /\ UNCHANGED <<lotVars, cacheVars, historyVars, writes, faults>>

SetAllCache(r) ==
    /\ At(r, "storingList")
    /\ listed' = TRUE /\ listKey' = task[r].list
    /\ Finish(r)
    /\ UNCHANGED <<lotVars, lotKey, historyVars, writes, faults>>

-----------------------------------------------------------------------------
(* Spots.                                                                  *)

\* Faulty variant: the table of spots does not reference parkings.
NoForeignKey(l) == TRUE

\* REFERENCES parkings(id): spots and tariffs.
ForeignKey(l) == lot[l] = "open"

\* Faulty variant: one spot too many.
BelowLimitOrAt(l) == spots[l] <= TotalSpots[l]

BelowLimit(l) == spots[l] < TotalSpots[l]

Creating(l) == {r \in Requests : At(r, "inserting") /\ task[r].lot = l}

CountByParkingID(r) ==
    /\ At(r, "counting")
    /\ LET l == task[r].lot IN
         IF BelowLimit(l)
           THEN /\ Goto(r, Doing("inserting", l, "idle", NoPrice, {}))
                /\ crowded' = IF Creating(l) = {} THEN crowded ELSE crowded \union {l}
           ELSE Finish(r) /\ UNCHANGED crowded
    /\ UNCHANGED <<lotVars, cacheVars, doubled, excused, writes, faults>>

\* The INSERT fails when the lot, known from Redis, is gone.
CreateSpot(r) ==
    /\ At(r, "inserting")
    /\ LET l == task[r].lot IN
         spots' = IF ForeignKey(l) THEN [spots EXCEPT ![l] = @ + 1] ELSE spots
    /\ Finish(r)
    /\ UNCHANGED <<lot, tariff, cacheVars, historyVars, writes, faults>>

DeleteSpot(l) ==
    /\ spots[l] > 0
    /\ spots' = [spots EXCEPT ![l] = @ - 1]
    /\ UNCHANGED <<lot, tariff, cacheVars, task, historyVars, writes, faults>>

-----------------------------------------------------------------------------
(* Tariffs.  Nothing keeps a lot from having two.                          *)

CreateTariff(r) ==
    /\ At(r, "pricing")
    /\ CountWrite
    /\ LET l == task[r].lot IN
         IF ForeignKey(l)
           THEN /\ tariff' = [tariff EXCEPT ![l] = @ \union {task[r].price}]
                /\ doubled' = IF tariff[l] = {} THEN doubled ELSE doubled \union {l}
           ELSE UNCHANGED <<tariff, doubled>>
    /\ Finish(r)
    /\ UNCHANGED <<lot, spots, cacheVars, crowded, excused, faults>>

\* Faulty variant: the new price is one more row.
PriceAdded(l, p) == tariff[l] \union {p}

\* UPDATE ... WHERE parking_id = $2: every row.
Repriced(l, p) == IF tariff[l] = {} THEN {} ELSE {p}

UpdatePrice(r) ==
    /\ At(r, "repricing")
    /\ CountWrite
    /\ LET l == task[r].lot IN
         /\ tariff' = [tariff EXCEPT ![l] = Repriced(l, task[r].price)]
         /\ doubled' = doubled \ {l}
    /\ Finish(r)
    /\ UNCHANGED <<lot, spots, cacheVars, crowded, excused, faults>>

-----------------------------------------------------------------------------
(* Time and faults.                                                        *)

LotKeyExpires(l) ==
    /\ l \in lotKey
    /\ lotKey' = lotKey \ {l}
    /\ UNCHANGED <<lotVars, listKey, listed, task, historyVars, writes, faults>>

ListKeyExpires ==
    /\ listed
    /\ listed' = FALSE /\ listKey' = {}
    /\ UNCHANGED <<lotVars, lotKey, task, historyVars, writes, faults>>

Strike == faults < MaxFaults /\ faults' = faults + 1

\* A statement fails and the request returns the error.  That of a lot, or
\* of a read, changes nothing and has no step; a spot or a price that is
\* written all the same is one whose request returns.
StatementFails(r) ==
    /\ Strike /\ task[r].stage \in {"counting", "inserting", "pricing", "repricing"}
    /\ Finish(r)
    /\ UNCHANGED <<lotVars, cacheVars, historyVars, writes>>

\* The INSERT or the DELETE of a lot took effect and its reply is lost: the
\* request returns before the DEL of the list, and of the lot's key.
ReplyLost(r) ==
    /\ Strike /\ At(r, "droppingList")
    /\ Finish(r)
    /\ excused' = excused \union {task[r].lot}
    /\ UNCHANGED <<lotVars, cacheVars, crowded, doubled, writes>>

Unsettled(r) ==
    IF task[r].stage \in {"droppingList", "dropping", "storing"} THEN {task[r].lot} ELSE {}

\* Redis fails, which is ignored.
CacheFails(r) ==
    /\ Strike
    /\ \/ (At(r, "droppingList") \/ At(r, "storing")) /\ Continue(r)
       \/ (At(r, "dropping") \/ At(r, "storingList")) /\ Finish(r)
    /\ excused' = excused \union Unsettled(r)
    /\ UNCHANGED <<lotVars, cacheVars, crowded, doubled, writes>>

\* The process dies and restarts; what Redis holds is not asked.
Crash ==
    /\ Strike
    /\ task' = [r \in Requests |-> Idle]
    /\ excused' = excused \union UNION {Unsettled(r) : r \in Requests}
    /\ UNCHANGED <<lotVars, cacheVars, crowded, doubled, writes>>

-----------------------------------------------------------------------------
ParkingHandler(r) ==
    \/ \E l \in Lots : \/ CreateParking(r, l) \/ DeleteParking(r, l)
                       \/ FoundInTable(r, l, "idle", NoPrice)
    \/ GetAll(r)
    \/ DropList(r) \/ InvalidateCache(r) \/ SetCache(r) \/ SetAllCache(r)

SpotHandler(r) ==
    \/ \E l \in Lots : GetByID(r, l, "counting", NoPrice)
    \/ CountByParkingID(r) \/ CreateSpot(r)

TariffHandler(r) ==
    \/ \E l \in Lots, p \in Prices : GetByID(r, l, "pricing", p) \/ GetByID(r, l, "repricing", p)
    \/ CreateTariff(r) \/ UpdatePrice(r)

LotsNext ==
    \/ \E r \in Requests :
         \/ ParkingHandler(r) \/ SpotHandler(r) \/ TariffHandler(r)
         \/ StatementFails(r) \/ ReplyLost(r) \/ CacheFails(r)
    \/ \E l \in Lots : DeleteSpot(l) \/ LotKeyExpires(l)
    \/ ListKeyExpires
    \/ Crash

LotsSpec == LotsInit /\ [][LotsNext]_parkingVars

-----------------------------------------------------------------------------
(* Properties.                                                             *)

\* A lot has no more spots than total_spots, unless two CreateSpots have both
\* counted before either inserted.
LimitKept == \A l \in Lots \ crowded : spots[l] <= TotalSpots[l]

\* And then it has at most as many too many as there were requests at once,
\* less one.
OvershootBounded == \A l \in Lots : spots[l] < TotalSpots[l] + Cardinality(Requests)

\* Nothing belongs to a lot that is gone, though the lot's key in Redis lets
\* CreateSpot and CreateTariff go on after DeleteParking.
NoOrphans == \A l \in Lots : spots[l] > 0 \/ tariff[l] # {} => lot[l] = "open"

\* A request has still to bring Redis up to date about the lot.
Due(l, stages) == \E r \in Requests : task[r].stage \in stages /\ task[r].lot = l

\* Redis tells which lots there are: only a write that overtakes a list or a
\* lot on its way to Redis, a write whose reply is lost, a failure of Redis or
\* a crash makes a key stale.
LotsFresh ==
    \A l \in Lots \ excused :
        /\ l \in lotKey /\ ~Due(l, {"droppingList", "dropping"}) => lot[l] = "open"
        /\ listed /\ ~Due(l, {"droppingList"}) => (l \in listKey <=> lot[l] = "open")

\* All tariffs of a lot quote one price, whichever row GetByParkingID takes,
\* unless one was created beside another and not updated since.
OnePrice == \A l \in Lots \ doubled : \A p, q \in tariff[l] : p = q
=============================================================================
