----------------------------- MODULE UserProfiles -----------------------------
(***************************************************************************)
(* user-service: the table of profiles, the two Redis keys of a profile (by *)
(* id and by e-mail), the requests of the HTTP and gRPC interfaces and the *)
(* subscription that makes a profile of a registration.                    *)
(*                                                                         *)
(* A transaction holds its row, and its e-mail in the unique index, from   *)
(* its statement to its COMMIT.  List, CheckExists and what is refused     *)
(* change nothing and have no step; GetUserStats reads through GetByID.    *)
(***************************************************************************)
EXTENDS Naturals, FiniteSets

CONSTANTS
    Requests, Users, Emails,
    Watchers,     \* the streams of WatchUser
    Watched,      \* the users they ask for
    Names,        \* what a profile has besides its e-mail and its flags
    GivenNames,   \* those that the creations write
    Registered,   \* the users that auth-service has announced
    EmailOf,      \* their e-mails
    NoUser, NoProfile,
    MaxWrites,    \* bound on the writes to the table
    MaxFaults     \* bound on the faults of a behaviour

ASSUME UserAssumption ==
    /\ Requests \intersect Watchers = {}
    /\ NoUser \notin Users
    /\ Registered \subseteq Users /\ Watched \subseteq Users /\ GivenNames \subseteq Names
    /\ EmailOf \in [Registered -> Emails]
    /\ MaxWrites \in Nat /\ MaxFaults \in Nat

Profiles == [email : Emails, name : Names, verified : BOOLEAN, banned : BOOLEAN]

ASSUME ProfileAssumption == NoProfile \notin Profiles

VARIABLES
    state,      \* of each row; "deleted" is a deleted_at
    profile,    \* the other columns
    idKey,      \* user:id:<id> in Redis
    emailKey,   \* user:email:<email>
    task,       \* what each request and each stream is doing
    watching,   \* the user of each stream
    seen,       \* of the profile that the stream has sent last, is_banned
    excused,    \* history: the users whose keys may be stale, see CacheFresh
    writes,     \* how often the table has been written
    faults      \* how many faults have struck

tableVars == <<state, profile>>
cacheVars == <<idKey, emailKey>>
watchVars == <<watching, seen>>
userVars == <<tableVars, cacheVars, task, watchVars, excused, writes, faults>>

-----------------------------------------------------------------------------
Tasks == Requests \union Watchers

\* Where a request is: the command it executes next.
Stages ==
    {"idle",
     "inserting",      \* the INSERT of Create, after its SELECT EXISTS
     "committing",     \* COMMIT of Create and CreateWithID
     "dropping",       \* DEL of both keys, after Delete
     "droppingId",     \* DEL of the id key, after VerifyEmail and Ban
     "refreshing",     \* DEL of both keys, after Update
     "storing",        \* setCache: SET of the id key
     "storingEmail"}   \* and SET of the e-mail key

\* event: the request is the callback of the subscription.
Doing(stage, u, p, event) == [stage |-> stage, user |-> u, profile |-> p, event |-> event]

Idle == Doing("idle", NoUser, NoProfile, FALSE)

TaskRecords ==
    [stage : Stages, user : Users \union {NoUser}, profile : Profiles \union {NoProfile},
     event : BOOLEAN]

Entry(u, p) == [user |-> u, profile |-> p]
Miss == Entry(NoUser, NoProfile)

UsersTypeOK ==
    /\ state \in [Users -> {"absent", "active", "deleted"}]
    /\ profile \in [Users -> Profiles \union {NoProfile}]
    /\ idKey \in [Users -> Profiles \union {NoProfile}]
    /\ emailKey \in [Emails -> [user : Users \union {NoUser}, profile : Profiles \union {NoProfile}]]
    /\ task \in [Tasks -> TaskRecords]
    /\ watching \in [Watchers -> Users \union {NoUser}]
    /\ seen \in [Watchers -> {"nothing", "allowed", "banned"}]
    /\ excused \subseteq Users
    /\ writes \in Nat /\ faults \in Nat

UsersInit ==
    /\ state = [u \in Users |-> "absent"]
    /\ profile = [u \in Users |-> NoProfile]
    /\ idKey = [u \in Users |-> NoProfile]
    /\ emailKey = [e \in Emails |-> Miss]
    /\ task = [r \in Tasks |-> Idle]
    /\ watching = [w \in Watchers |-> NoUser]
    /\ seen = [w \in Watchers |-> "nothing"]
    /\ excused = {}
    /\ writes = 0 /\ faults = 0

At(r, stage) == task[r].stage = stage
Goto(r, what) == task' = [task EXCEPT ![r] = what]
Finish(r) == Goto(r, Idle)

\* Bound.
CountWrite == writes < MaxWrites /\ writes' = writes + 1

-----------------------------------------------------------------------------
(* The table.                                                              *)

NewProfile(e, n) == [email |-> e, name |-> n, verified |-> FALSE, banned |-> FALSE]

\* A transaction is changing the row, or has inserted it.
Locked(u) == \E r \in Requests : At(r, "committing") /\ task[r].user = u

\* Faulty variant: a table without users_email_unique_active_idx.
NotInIndex(u, e) == TRUE

\* users_email_unique_active_idx has no other row with the e-mail.
EmailOpen(u, e) ==
    \A v \in Users \ {u} : state[v] = "active" => profile[v].email # e

\* A transaction that is still open may put the e-mail into the index, in
\* which a deleted row is not: the INSERT waits for it.
EmailPending(e) ==
    \E r \in Requests : /\ At(r, "committing") /\ task[r].profile.email = e
                       /\ state[task[r].user] # "deleted"

\* The requests that hold a value of the row which they will put into Redis.
Carrying(u) ==
    {r \in Tasks : /\ task[r].stage \in {"refreshing", "storing", "storingEmail"}
                      /\ task[r].user = u}

\* A write overtakes the values of the row that are on their way to Redis.
Overtakes(u) == excused' = IF Carrying(u) = {} THEN excused ELSE excused \union {u}

\* UPDATE ... WHERE id = $1 AND deleted_at IS NULL.
WriteRow(u, p) ==
    /\ state[u] = "active" /\ ~Locked(u)
    /\ CountWrite
    /\ profile' = [profile EXCEPT ![u] = p]
    /\ Overtakes(u)

-----------------------------------------------------------------------------
(* Reads that fill the cache.  A GET that fails counts as a miss, and the  *)
(* key may be there again when the SELECT is executed.                     *)

Fill(r, u) ==
    /\ task[r] = Idle
    /\ Goto(r, Doing("storing", u, profile[u], FALSE))
    /\ UNCHANGED <<tableVars, cacheVars, watchVars, writes, faults>>

GetByID(r, u) == state[u] = "active" /\ Fill(r, u) /\ UNCHANGED excused

GetByEmail(r, e) ==
    \E u \in Users :
        state[u] = "active" /\ profile[u].email = e /\ Fill(r, u) /\ UNCHANGED excused

\* One id of a batch.  The SELECT does not ask for deleted_at.
GetBatch(r, u) ==
    /\ state[u] # "absent"
    /\ Fill(r, u)
    /\ excused' = IF state[u] = "deleted" THEN excused \union {u} ELSE excused

SetIdKey(r) ==
    /\ At(r, "storing")
    /\ idKey' = [idKey EXCEPT ![task[r].user] = task[r].profile]
    /\ Goto(r, Doing("storingEmail", task[r].user, task[r].profile, task[r].event))
    /\ UNCHANGED <<tableVars, watchVars, emailKey, excused, writes, faults>>

\* Of a stream, GetUser returns and the profile is sent unless it is the
\* one sent last.
Sent(r, p) ==
    seen' = IF r \in Watchers
              THEN [seen EXCEPT ![r] = IF p.banned THEN "banned" ELSE "allowed"]
              ELSE seen

SetEmailKey(r) ==
    /\ At(r, "storingEmail")
    /\ emailKey' = [emailKey EXCEPT ![task[r].profile.email] = Entry(task[r].user, task[r].profile)]
    /\ Sent(r, task[r].profile)
    /\ Finish(r)
    /\ UNCHANGED <<tableVars, watching, idKey, excused, writes, faults>>

-----------------------------------------------------------------------------
(* WatchUser.                                                              *)

\* A stream of nobody ends with its first tick.
WatchUser(w, u) ==
    /\ watching[w] = NoUser /\ state[u] = "active"
    /\ watching' = [watching EXCEPT ![w] = u]
    /\ UNCHANGED <<tableVars, cacheVars, seen, task, excused, writes, faults>>

\* Every two seconds: GetUser finds the id key.
TickHit(w) ==
    /\ task[w] = Idle /\ watching[w] # NoUser
    /\ idKey[watching[w]] # NoProfile
    /\ Sent(w, idKey[watching[w]])
    /\ UNCHANGED <<tableVars, cacheVars, task, watching, excused, writes, faults>>

\* Or it reads the row: after a miss, at once or late, or a GET that failed.
TickRead(w) == watching[w] # NoUser /\ GetByID(w, watching[w])

TickMiss(w) == watching[w] # NoUser /\ idKey[watching[w]] = NoProfile /\ TickRead(w)

\* The client leaves, or GetUser finds nobody.
EndWatch(w) ==
    /\ watching[w] # NoUser /\ task[w] = Idle
    /\ watching' = [watching EXCEPT ![w] = NoUser]
    /\ seen' = [seen EXCEPT ![w] = "nothing"]
    /\ UNCHANGED <<tableVars, cacheVars, task, excused, writes, faults>>

Tick(w) == TickHit(w) \/ TickMiss(w) \/ SetIdKey(w) \/ SetEmailKey(w)

-----------------------------------------------------------------------------
(* Create and CreateWithID.                                                *)

\* Create: SELECT EXISTS finds nobody with the e-mail.
BeginCreate(r, e, n) ==
    /\ task[r] = Idle /\ writes < MaxWrites
    /\ \A u \in Users : state[u] = "active" => profile[u].email # e
    /\ Goto(r, Doing("inserting", NoUser, NewProfile(e, n), FALSE))
    /\ UNCHANGED <<tableVars, cacheVars, watchVars, excused, writes, faults>>

Create(r, u) ==
    /\ At(r, "inserting")
    /\ u \notin Registered /\ state[u] = "absent" /\ ~Locked(u)
    /\ EmailOpen(u, task[r].profile.email) /\ ~EmailPending(task[r].profile.email)
    /\ Goto(r, Doing("committing", u, task[r].profile, FALSE))
    /\ UNCHANGED <<tableVars, cacheVars, watchVars, excused, writes, faults>>

\* Faulty variant: the upsert gives a deleted row a state that no read knows.
Restored(u) == IF state[u] = "deleted" THEN "restored" ELSE "active"

AfterUpsert(u) == IF state[u] = "deleted" THEN "deleted" ELSE "active"

\* CreateWithID: INSERT ... ON CONFLICT (id) DO UPDATE.  An event that comes
\* twice, or a row that is deleted, takes the UPDATE, which leaves the flags.
Upserted(u, n) ==
    LET new == NewProfile(EmailOf[u], n) IN
    IF state[u] = "absent"
      THEN new
      ELSE [new EXCEPT !.verified = profile[u].verified, !.banned = profile[u].banned]

\* subscribeUserRegistered: one callback at a time.
HandleRegistered(r, u, n) ==
    /\ task[r] = Idle /\ writes < MaxWrites
    /\ \A q \in Requests : ~task[q].event
    /\ ~Locked(u)
    /\ state[u] # "deleted" => EmailOpen(u, EmailOf[u]) /\ ~EmailPending(EmailOf[u])
    /\ Goto(r, Doing("committing", u, Upserted(u, n), TRUE))
    /\ UNCHANGED <<tableVars, cacheVars, watchVars, excused, writes, faults>>

\* The COMMIT of either; then setCache.
Commit(r) ==
    /\ At(r, "committing")
    /\ CountWrite
    /\ LET u == task[r].user IN
         /\ state' = [state EXCEPT ![u] = AfterUpsert(u)]
         /\ profile' = [profile EXCEPT ![u] = task[r].profile]
         /\ excused' = IF Carrying(u) = {} /\ state[u] # "deleted"
                          THEN excused ELSE excused \union {u}
         /\ Goto(r, Doing("storing", u, task[r].profile, task[r].event))
    /\ UNCHANGED <<cacheVars, watchVars, faults>>

-----------------------------------------------------------------------------
(* Update, VerifyEmail, Ban, Delete.                                       *)

Update(r, u, n) ==
    /\ task[r] = Idle
    /\ WriteRow(u, [profile[u] EXCEPT !.name = n])
    /\ Goto(r, Doing("refreshing", u, [profile[u] EXCEPT !.name = n], FALSE))
    /\ UNCHANGED <<state, cacheVars, watchVars, faults>>

VerifyEmail(r, u) ==
    /\ task[r] = Idle
    /\ WriteRow(u, [profile[u] EXCEPT !.verified = TRUE])
    /\ Goto(r, Doing("droppingId", u, NoProfile, FALSE))
    /\ UNCHANGED <<state, cacheVars, watchVars, faults>>

Ban(r, u) ==
    /\ task[r] = Idle
    /\ WriteRow(u, [profile[u] EXCEPT !.banned = TRUE])
    /\ Goto(r, Doing("droppingId", u, NoProfile, FALSE))
    /\ UNCHANGED <<state, cacheVars, watchVars, faults>>

\* The COMMIT; the UPDATE before it holds the row.
Delete(r, u) ==
    /\ task[r] = Idle
    /\ WriteRow(u, profile[u])
    /\ state' = [state EXCEPT ![u] = "deleted"]
    /\ Goto(r, Doing("dropping", u, profile[u], FALSE))
    /\ UNCHANGED <<cacheVars, watchVars, faults>>

InvalidateCache(u) ==
    /\ idKey' = [idKey EXCEPT ![u] = NoProfile]
    /\ emailKey' = [emailKey EXCEPT ![profile[u].email] = Miss]

\* Faulty variant: the DEL names another key.
InvalidateNothing(u) == UNCHANGED <<idKey, emailKey>>

InvalidateCacheByID(u) == idKey' = [idKey EXCEPT ![u] = NoProfile] /\ UNCHANGED emailKey

DropKeys(r) ==
    /\ At(r, "dropping") \/ At(r, "refreshing")
    /\ InvalidateCache(task[r].user)
    /\ IF At(r, "dropping")
         THEN Finish(r)
         ELSE Goto(r, Doing("storing", task[r].user, task[r].profile, FALSE))
    /\ UNCHANGED <<tableVars, watchVars, excused, writes, faults>>

DropIdKey(r) ==
    /\ At(r, "droppingId")
    /\ InvalidateCacheByID(task[r].user)
    /\ Finish(r)
    /\ UNCHANGED <<tableVars, watchVars, excused, writes, faults>>

\* After VerifyEmail, Ban and Delete the DEL names the id as the caller spelt
\* it.  PostgreSQL takes a UUID in capitals for the same, and Redis does not:
\* the id key stays.  (A GET by such an id misses, and reads the row.)
DropMisspelt(r) ==
    /\ task[r].stage \in {"dropping", "droppingId"}
    /\ emailKey' = IF At(r, "dropping")
                      THEN [emailKey EXCEPT ![profile[task[r].user].email] = Miss] ELSE emailKey
    /\ excused' = excused \union {task[r].user}
    /\ Finish(r)
    /\ UNCHANGED <<tableVars, watchVars, idKey, writes, faults>>

-----------------------------------------------------------------------------
(* Time and faults.                                                        *)

\* Faulty variant: SET with a TTL of zero, which never ends.
ForEver(u) == FALSE

\* The TTL of the key ends.
HasTTL(u) == idKey[u] # NoProfile

IdKeyExpires(u) ==
    /\ HasTTL(u)
    /\ idKey' = [idKey EXCEPT ![u] = NoProfile]
    /\ UNCHANGED <<tableVars, watchVars, emailKey, task, excused, writes, faults>>

EmailKeyExpires(e) ==
    /\ emailKey[e] # Miss
    /\ emailKey' = [emailKey EXCEPT ![e] = Miss]
    /\ UNCHANGED <<tableVars, watchVars, idKey, task, excused, writes, faults>>

Strike == faults < MaxFaults /\ faults' = faults + 1

\* The statement or the COMMIT fails: the transaction is rolled back.  (An
\* UPDATE that fails changes nothing and has no step.)
Rollback(r) ==
    /\ Strike /\ (At(r, "inserting") \/ At(r, "committing"))
    /\ Finish(r)
    /\ UNCHANGED <<tableVars, cacheVars, watchVars, excused, writes>>

\* The INSERT of Create hits the unique index: no fault is needed.
EmailTaken(r) ==
    /\ At(r, "inserting") /\ ~EmailOpen(NoUser, task[r].profile.email)
    /\ Finish(r)
    /\ UNCHANGED <<tableVars, cacheVars, watchVars, excused, writes, faults>>

\* Redis fails: the errors of DEL and SET are ignored, and the request goes on.
CacheFails(r) ==
    /\ Strike
    /\ \/ /\ task[r].stage \in {"dropping", "droppingId"}
          /\ Finish(r)
          /\ UNCHANGED seen
       \/ /\ At(r, "storingEmail")
          /\ Sent(r, task[r].profile)
          /\ Finish(r)
       \/ /\ At(r, "refreshing")
          /\ Goto(r, Doing("storing", task[r].user, task[r].profile, FALSE))
          /\ UNCHANGED seen
       \/ /\ At(r, "storing")
          /\ Goto(r, Doing("storingEmail", task[r].user, task[r].profile, task[r].event))
          /\ UNCHANGED seen
    /\ excused' = excused \union {task[r].user}
    /\ UNCHANGED <<tableVars, cacheVars, watching, writes>>

\* Commands on Redis are left to it.
Unsettled(r) ==
    task[r].stage \in {"dropping", "droppingId", "refreshing", "storing", "storingEmail"}

\* The UPDATE or the COMMIT took effect and its reply is lost, or the caller
\* hangs up, which cancels the context of every command: the request returns
\* before the commands on Redis that are left.
Abandon(r) ==
    /\ Strike /\ Unsettled(r)
    /\ Finish(r)
    /\ excused' = excused \union {task[r].user}
    /\ UNCHANGED <<tableVars, cacheVars, watchVars, writes>>

Touched == {u \in Users : \E r \in Tasks : task[r].user = u /\ Unsettled(r)}

\* The process dies and restarts; what Redis holds is not asked.
Crash ==
    /\ Strike
    /\ task' = [r \in Tasks |-> Idle]
    /\ watching' = [w \in Watchers |-> NoUser]
    /\ seen' = [w \in Watchers |-> "nothing"]
    /\ excused' = excused \union Touched
    /\ UNCHANGED <<tableVars, cacheVars, writes>>

-----------------------------------------------------------------------------
Working(r) ==
    \/ \E u \in Users :
         \/ GetByID(r, u) \/ GetBatch(r, u)
         \/ Create(r, u)
         \/ VerifyEmail(r, u) \/ Ban(r, u) \/ Delete(r, u)
         \/ \E n \in Names : Update(r, u, n)
    \/ \E u \in Registered, n \in GivenNames : HandleRegistered(r, u, n)
    \/ \E e \in Emails : GetByEmail(r, e) \/ \E n \in GivenNames : BeginCreate(r, e, n)
    \/ Commit(r) \/ EmailTaken(r)
    \/ DropKeys(r) \/ DropIdKey(r) \/ DropMisspelt(r) \/ SetIdKey(r) \/ SetEmailKey(r)
    \/ Rollback(r) \/ CacheFails(r) \/ Abandon(r)

UsersNext ==
    \/ \E r \in Requests : Working(r)
    \/ \E w \in Watchers :
         \/ Tick(w) \/ TickRead(w) \/ CacheFails(w) \/ Abandon(w) \/ EndWatch(w)
         \/ \E u \in Watched : WatchUser(w, u)
    \/ \E u \in Users : IdKeyExpires(u)
    \/ \E e \in Emails : EmailKeyExpires(e)
    \/ Crash

UsersSpec == UsersInit /\ [][UsersNext]_userVars

\* A stream ticks, and a key has a TTL.  Nobody has to send a request.
FairUsersSpec ==
    /\ UsersSpec
    /\ \A w \in Watchers : WF_userVars(Tick(w))
    /\ \A u \in Users : WF_userVars(IdKeyExpires(u))

-----------------------------------------------------------------------------
(* Properties.                                                             *)

\* An e-mail has one active profile, whoever creates it: two calls of Create
\* whose SELECT EXISTS both found nobody, a registration beside a Create, an
\* event for a profile that has been deleted and replaced.
UniqueActiveEmail ==
    \A u, v \in Users :
        /\ state[u] = "active" /\ state[v] = "active" /\ profile[u].email = profile[v].email
        => u = v

\* A request has still to bring the id key, or both keys, up to date.
IdKeyDue(u) ==
    \E r \in Tasks :
        /\ task[r].user = u
        /\ task[r].stage \in {"dropping", "droppingId", "refreshing", "storing"}

EmailKeyDue(u) ==
    \E r \in Tasks :
        /\ task[r].user = u
        /\ task[r].stage \in {"dropping", "refreshing", "storing", "storingEmail"}

\* The cache tells what the table says.  The only ways to a stale key are
\*   - a write that overtakes a value on its way to Redis,
\*   - a DEL by another spelling of the id, and a deleted row that GetBatch or
\*     CreateWithID puts into the cache, which take no fault and no race,
\*   - a failure of Redis, a crash, a reply of PostgreSQL that is lost after
\*     the write, and a caller who hangs up on the way;
\* and the flags under the e-mail key, which VerifyEmail and Ban leave alone.
CacheFresh ==
    /\ \A u \in Users \ excused :
         idKey[u] # NoProfile /\ ~IdKeyDue(u) => state[u] = "active" /\ idKey[u] = profile[u]
    /\ \A e \in Emails : LET u == emailKey[e].user IN
         u \in Users \ excused /\ ~EmailKeyDue(u) =>
             /\ state[u] = "active"
             /\ emailKey[e].profile.name = profile[u].name
             /\ profile[u].email = e

\* A stream learns that its user is banned, however stale the key it reads:
\* what overtook the DEL of Ban lives no longer than its TTL.
WatcherLearnsBan ==
    \A w \in Watchers, u \in Users :
        watching[w] = u /\ state[u] = "active" /\ profile[u].banned
            ~> seen[w] = "banned" \/ watching[w] # u \/ state[u] # "active"
=============================================================================
