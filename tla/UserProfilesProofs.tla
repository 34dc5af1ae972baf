-------------------------- MODULE UserProfilesProofs --------------------------
(***************************************************************************)
(* For every number of requests, streams, users, e-mails and faults: the   *)
(* types of UserProfiles, UniqueActiveEmail and CacheFresh.                *)
(***************************************************************************)
EXTENDS UserProfiles, TLAPS

-----------------------------------------------------------------------------
(* Types, with what a task knows by where it is.                           *)

Legal(r, x) ==
    /\ x \in TaskRecords
    /\ x.stage = "idle" => x = Idle
    /\ x.stage = "inserting" => x.profile \in Profiles
    /\ x.stage \in {"committing", "refreshing", "storing", "storingEmail"} =>
         x.user \in Users /\ x.profile \in Profiles
    /\ x.stage \in {"dropping", "droppingId"} => x.user \in Users
    /\ r \notin Requests => x.stage \in {"idle", "storing", "storingEmail"}

UsersTypeInv ==
    /\ UsersTypeOK
    /\ \A r \in Tasks : Legal(r, task[r])
    /\ \A u \in Users : state[u] # "absent" => profile[u] \in Profiles
    /\ \A r \in Requests : task[r].stage \in {"dropping", "refreshing"} =>
         state[task[r].user] # "absent"

LEMMA RequestsAreTasks == Requests \subseteq Tasks /\ Watchers \subseteq Tasks
                          /\ \A w \in Watchers : w \notin Requests
  BY UserAssumption DEF Tasks

LEMMA IdleIsLegal == \A r : Legal(r, Idle)
  BY DEF Legal, Idle, Doing, TaskRecords, Stages

\* What a request may become.
LEMMA LegalTasks ==
  ASSUME NEW r
  PROVE  /\ \A u \in Users, p \in Profiles, b \in BOOLEAN :
              Legal(r, Doing("storing", u, p, b)) /\ Legal(r, Doing("storingEmail", u, p, b))
         /\ r \in Requests =>
              /\ \A p \in Profiles : Legal(r, Doing("inserting", NoUser, p, FALSE))
              /\ \A u \in Users, p \in Profiles, b \in BOOLEAN :
                   Legal(r, Doing("committing", u, p, b)) /\ Legal(r, Doing("refreshing", u, p, b))
              /\ \A u \in Users, p \in Profiles \union {NoProfile} :
                   Legal(r, Doing("dropping", u, p, FALSE)) /\ Legal(r, Doing("droppingId", u, p, FALSE))
  BY DEF Legal, Doing, TaskRecords, Stages

LEMMA GotoLegal ==
  ASSUME UsersTypeInv, NEW r \in Tasks, NEW x, Legal(r, x), Goto(r, x)
  PROVE  /\ task' \in [Tasks -> TaskRecords]
         /\ task'[r] = x
         /\ \A q \in Tasks \ {r} : task'[q] = task[q]
         /\ \A q \in Tasks : Legal(q, task'[q])
  BY DEF Goto, Legal, UsersTypeInv, UsersTypeOK

\* The values that the writes give a row.
LEMMA ProfileValues ==
  /\ \A e \in Emails, n \in Names : NewProfile(e, n) \in Profiles /\ NewProfile(e, n).email = e
  /\ \A p \in Profiles :
       /\ p.email \in Emails /\ p.name \in Names /\ p.verified \in BOOLEAN /\ p.banned \in BOOLEAN
       /\ \A n \in Names : [p EXCEPT !.name = n] \in Profiles /\ [p EXCEPT !.name = n].email = p.email
       /\ [p EXCEPT !.verified = TRUE] \in Profiles /\ [p EXCEPT !.verified = TRUE].email = p.email
       /\ [p EXCEPT !.verified = TRUE].name = p.name
       /\ [p EXCEPT !.banned = TRUE] \in Profiles /\ [p EXCEPT !.banned = TRUE].email = p.email
       /\ [p EXCEPT !.banned = TRUE].name = p.name
       /\ p # NoProfile
  BY ProfileAssumption DEF NewProfile, Profiles

LEMMA UpsertedValue ==
  ASSUME UsersTypeInv, NEW u \in Registered, NEW n \in Names
  PROVE  Upserted(u, n) \in Profiles /\ Upserted(u, n).email = EmailOf[u]
<1>1. u \in Users /\ EmailOf[u] \in Emails /\ NewProfile(EmailOf[u], n) \in Profiles
  BY UserAssumption, ProfileValues
<1>2. CASE state[u] = "absent"
  BY <1>1, <1>2, ProfileValues DEF Upserted
<1>3. CASE state[u] # "absent"
  <2>1. profile[u].verified \in BOOLEAN /\ profile[u].banned \in BOOLEAN
    BY <1>1, <1>3, ProfileValues DEF UsersTypeInv
  <2>2. Upserted(u, n) = [email |-> EmailOf[u], name |-> n, verified |-> profile[u].verified,
                          banned |-> profile[u].banned]
    BY <1>3 DEF Upserted, NewProfile
  <2> QED BY <1>1, <2>1, <2>2 DEF Profiles
<1> QED BY <1>2, <1>3

LEMMA InitUsersTypes == UsersInit => UsersTypeInv
<1> SUFFICES ASSUME UsersInit PROVE UsersTypeInv
  OBVIOUS
<1>1. \A r \in Tasks : task[r] = Idle
  BY DEF UsersInit
<1>2. Idle \in TaskRecords /\ Idle.stage = "idle" /\ (\A r : Legal(r, Idle))
  BY IdleIsLegal DEF Legal, Idle, Doing
<1>3. UsersTypeOK
  BY <1>2 DEF UsersInit, UsersTypeOK, Miss, Entry
<1>4. \A r \in Requests : task[r].stage = "idle"
  BY <1>1, <1>2, RequestsAreTasks
<1>5. \A u \in Users : state[u] = "absent"
  BY DEF UsersInit
<1> QED BY <1>1, <1>2, <1>3, <1>4, <1>5 DEF UsersTypeInv

-----------------------------------------------------------------------------
(* The steps, by what they do to the table.                                *)

\* The statement or COMMIT that writes the row of u: p is its new value, x
\* where the request goes.
Writes(r, u, p, x) ==
    /\ r \in Requests /\ u \in Users /\ p \in Profiles
    /\ Legal(r, x) /\ Goto(r, x)
    /\ profile' = [profile EXCEPT ![u] = p]
    /\ writes' = writes + 1
    /\ UNCHANGED <<cacheVars, watchVars, faults>>
    /\ excused \subseteq excused' /\ excused' \subseteq excused \union {u}
    /\ (Carrying(u) # {} => u \in excused')

\* An UPDATE of an active row that nobody else is writing.
Updates(r, u, p, x) ==
    /\ Writes(r, u, p, x)
    /\ task[r] = Idle /\ state[u] = "active" /\ ~Locked(u)
    /\ p.email = profile[u].email
    /\ x.user = u
    /\ \/ x.stage = "refreshing" /\ x.profile = p /\ UNCHANGED state
       \/ x.stage = "droppingId" /\ p.name = profile[u].name /\ UNCHANGED state
       \/ x.stage = "dropping" /\ state' = [state EXCEPT ![u] = "deleted"]

\* The COMMIT of an insertion or an upsert.
Commits(r, u, p, x) ==
    /\ Writes(r, u, p, x)
    /\ task[r].stage = "committing" /\ task[r].user = u /\ task[r].profile = p
    /\ x.stage = "storing" /\ x.user = u /\ x.profile = p
    /\ state' = [state EXCEPT ![u] = AfterUpsert(u)]
    /\ (state[u] = "deleted" => u \in excused')

LEMMA UpdateSteps ==
  ASSUME UsersTypeInv, NEW r \in Requests, NEW u \in Users,
         VerifyEmail(r, u) \/ Ban(r, u) \/ Delete(r, u) \/ \E n \in Names : Update(r, u, n)
  PROVE  \E p, x : Updates(r, u, p, x)
<1>0. state[u] = "active" /\ profile[u] \in Profiles
  BY DEF VerifyEmail, Ban, Delete, Update, WriteRow, UsersTypeInv
<1>1. CASE VerifyEmail(r, u)
  <2> DEFINE p == [profile[u] EXCEPT !.verified = TRUE]
             x == Doing("droppingId", u, NoProfile, FALSE)
  <2>1. p \in Profiles /\ p.email = profile[u].email /\ p.name = profile[u].name
    BY <1>0, ProfileValues
  <2>2. Legal(r, x) /\ x.stage = "droppingId" /\ x.user = u
    BY LegalTasks DEF Doing
  <2> HIDE DEF p, x
  <2>3. Goto(r, x) /\ task[r] = Idle /\ WriteRow(u, p) /\ UNCHANGED <<state, cacheVars, watchVars, faults>>
    BY <1>1 DEF VerifyEmail, p, x
  <2> QED BY <2>1, <2>2, <2>3 DEF Updates, Writes, WriteRow, CountWrite, Overtakes
<1>2. CASE Ban(r, u)
  <2> DEFINE p == [profile[u] EXCEPT !.banned = TRUE]
             x == Doing("droppingId", u, NoProfile, FALSE)
  <2>1. p \in Profiles /\ p.email = profile[u].email /\ p.name = profile[u].name
    BY <1>0, ProfileValues
  <2>2. Legal(r, x) /\ x.stage = "droppingId" /\ x.user = u
    BY LegalTasks DEF Doing
  <2> HIDE DEF p, x
  <2>3. Goto(r, x) /\ task[r] = Idle /\ WriteRow(u, p) /\ UNCHANGED <<state, cacheVars, watchVars, faults>>
    BY <1>2 DEF Ban, p, x
  <2> QED BY <2>1, <2>2, <2>3 DEF Updates, Writes, WriteRow, CountWrite, Overtakes
<1>3. CASE Delete(r, u)
  <2> DEFINE p == profile[u]
             x == Doing("dropping", u, profile[u], FALSE)
  <2>1. p \in Profiles
    BY <1>0
  <2>2. Legal(r, x) /\ x.stage = "dropping" /\ x.user = u
    BY <1>0, LegalTasks DEF Doing
  <2> HIDE DEF x
  <2>3. Goto(r, x) /\ task[r] = Idle /\ WriteRow(u, p) /\ UNCHANGED <<cacheVars, watchVars, faults>>
        /\ state' = [state EXCEPT ![u] = "deleted"]
    BY <1>3 DEF Delete, x
  <2> QED BY <2>1, <2>2, <2>3 DEF Updates, Writes, WriteRow, CountWrite, Overtakes
<1>4. ASSUME NEW n \in Names, Update(r, u, n) PROVE \E p, x : Updates(r, u, p, x)
  <2> DEFINE p == [profile[u] EXCEPT !.name = n]
             x == Doing("refreshing", u, p, FALSE)
  <2>1. p \in Profiles /\ p.email = profile[u].email
    BY <1>0, ProfileValues
  <2>2. Legal(r, x) /\ x.stage = "refreshing" /\ x.user = u /\ x.profile = p
    BY <2>1, LegalTasks DEF Doing
  <2> HIDE DEF p, x
  <2>3. Goto(r, x) /\ task[r] = Idle /\ WriteRow(u, p) /\ UNCHANGED <<state, cacheVars, watchVars, faults>>
    BY <1>4 DEF Update, p, x
  <2> QED BY <2>1, <2>2, <2>3 DEF Updates, Writes, WriteRow, CountWrite, Overtakes
<1> QED BY <1>1, <1>2, <1>3, <1>4

LEMMA CommitSteps ==
  ASSUME UsersTypeInv, NEW r \in Requests, Commit(r)
  PROVE  \E u, p, x : Commits(r, u, p, x)
<1>1. Legal(r, task[r]) /\ task[r].stage = "committing"
  BY RequestsAreTasks DEF UsersTypeInv, Commit, At
<1>2. PICK u \in Users, p \in Profiles : u = task[r].user /\ p = task[r].profile
  BY <1>1 DEF Legal
<1>3. task[r].event \in BOOLEAN
  BY <1>1 DEF Legal, TaskRecords
<1> DEFINE x == Doing("storing", u, p, task[r].event)
<1>4. Legal(r, x) /\ x.stage = "storing" /\ x.user = u /\ x.profile = p
  BY <1>3, LegalTasks DEF Doing
<1>5. Goto(r, x)
  BY <1>2 DEF Commit
<1> HIDE DEF x
<1> QED BY <1>1, <1>2, <1>4, <1>5 DEF Commits, Writes, Commit, CountWrite

\* The INSERT of a transaction, which may go into the index.
Enters(r, u, p, x) ==
    /\ r \in Requests /\ u \in Users /\ p \in Profiles
    /\ Legal(r, x) /\ Goto(r, x)
    /\ task[r].stage \in {"idle", "inserting"} /\ ~Locked(u)
    /\ x.stage = "committing" /\ x.user = u /\ x.profile = p
    /\ (state[u] # "deleted" => EmailOpen(u, p.email) /\ ~EmailPending(p.email))
    /\ IF u \in Registered THEN p.email = EmailOf[u] ELSE state[u] = "absent"
    /\ UNCHANGED <<tableVars, cacheVars, watchVars, excused, writes, faults>>

\* A row on its way into the cache.
Reads(r, u, x) ==
    /\ r \in Tasks /\ u \in Users /\ state[u] # "absent"
    /\ task[r] = Idle /\ Legal(r, x) /\ Goto(r, x)
    /\ x.stage = "storing" /\ x.user = u /\ x.profile = profile[u]
    /\ (state[u] = "active" \/ u \in excused')
    /\ excused \subseteq excused' /\ excused' \subseteq excused \union {u}
    /\ UNCHANGED <<tableVars, cacheVars, watchVars, writes, faults>>

\* A creation that begins, or a transaction that comes to nothing.
Quits(r, x) ==
    /\ r \in Requests /\ Legal(r, x) /\ Goto(r, x)
    /\ task[r].stage \in {"idle", "inserting", "committing"}
    /\ x.stage \in {"idle", "inserting"}
    /\ faults' \in {faults, faults + 1}
    /\ UNCHANGED <<tableVars, cacheVars, watchVars, excused, writes>>

\* A key may go; no request moves.
Waits ==
    /\ UNCHANGED <<tableVars, task, excused, writes, faults>>
    /\ idKey' \in [Users -> Profiles \union {NoProfile}]
    /\ \A u \in Users : idKey'[u] \in {idKey[u], NoProfile}
    /\ emailKey' \in [Emails -> [user : Users \union {NoUser}, profile : Profiles \union {NoProfile}]]
    /\ \A e \in Emails : emailKey'[e] \in {emailKey[e], Miss}
    /\ watching' \in [Watchers -> Users \union {NoUser}]
    /\ seen' \in [Watchers -> {"nothing", "allowed", "banned"}]

LEMMA ReadSteps ==
  ASSUME UsersTypeInv, NEW r \in Tasks, NEW u \in Users, state[u] # "absent", Fill(r, u),
         excused' = IF state[u] = "deleted" THEN excused \union {u} ELSE excused
  PROVE  \E x : Reads(r, u, x)
<1> DEFINE x == Doing("storing", u, profile[u], FALSE)
<1>1. Legal(r, x) /\ x.stage = "storing" /\ x.user = u /\ x.profile = profile[u]
  BY LegalTasks DEF UsersTypeInv, Doing
<1>2. Goto(r, x) /\ task[r] = Idle /\ UNCHANGED <<tableVars, cacheVars, watchVars, writes, faults>>
  BY DEF Fill
<1>3. state[u] = "active" \/ u \in excused'
  BY DEF UsersTypeInv, UsersTypeOK
<1> HIDE DEF x
<1> QED BY <1>1, <1>2, <1>3 DEF Reads

LEMMA EnterSteps ==
  ASSUME UsersTypeInv, NEW r \in Requests, NEW u \in Users,
         Create(r, u) \/ \E n \in GivenNames : u \in Registered /\ HandleRegistered(r, u, n)
  PROVE  \E p, x : Enters(r, u, p, x)
<1>1. CASE Create(r, u)
  <2>1. Legal(r, task[r]) /\ task[r].stage = "inserting"
    BY <1>1, RequestsAreTasks DEF UsersTypeInv, Create, At
  <2>2. PICK p \in Profiles : p = task[r].profile
    BY <2>1 DEF Legal
  <2> DEFINE x == Doing("committing", u, p, FALSE)
  <2>3. Legal(r, x) /\ x.stage = "committing" /\ x.user = u /\ x.profile = p
    BY LegalTasks DEF Doing
  <2>4. Goto(r, x)
    BY <1>1, <2>2 DEF Create
  <2> HIDE DEF x
  <2> QED BY <1>1, <2>1, <2>2, <2>3, <2>4 DEF Enters, Create
<1>2. ASSUME NEW n \in GivenNames, u \in Registered, HandleRegistered(r, u, n)
      PROVE  \E p, x : Enters(r, u, p, x)
  <2>1. PICK p \in Profiles : p = Upserted(u, n) /\ p.email = EmailOf[u]
    BY <1>2, UpsertedValue, UserAssumption
  <2> DEFINE x == Doing("committing", u, p, TRUE)
  <2>2. Legal(r, x) /\ x.stage = "committing" /\ x.user = u /\ x.profile = p
    BY LegalTasks DEF Doing
  <2>3. Goto(r, x) /\ task[r].stage = "idle"
    BY <1>2, <2>1 DEF HandleRegistered, Idle, Doing
  <2> HIDE DEF x
  <2> QED BY <1>2, <2>1, <2>2, <2>3 DEF Enters, HandleRegistered
<1> QED BY <1>1, <1>2

LEMMA QuitSteps ==
  ASSUME UsersTypeInv, NEW r \in Requests,
         Rollback(r) \/ EmailTaken(r) \/ \E e \in Emails, n \in GivenNames : BeginCreate(r, e, n)
  PROVE  \E x : Quits(r, x)
<1>i. Legal(r, Idle) /\ Idle.stage = "idle"
  BY IdleIsLegal DEF Idle, Doing
<1>1. CASE Rollback(r)
  BY <1>1, <1>i DEF Rollback, Finish, Quits, Strike, At
<1>2. CASE EmailTaken(r)
  BY <1>2, <1>i DEF EmailTaken, Finish, Quits, At
<1>3. ASSUME NEW e \in Emails, NEW n \in GivenNames, BeginCreate(r, e, n) PROVE \E x : Quits(r, x)
  <2> DEFINE x == Doing("inserting", NoUser, NewProfile(e, n), FALSE)
  <2>1. Legal(r, x) /\ x.stage = "inserting"
    BY ProfileValues, LegalTasks, UserAssumption DEF Doing
  <2>2. Goto(r, x) /\ task[r].stage = "idle"
    BY <1>3, <1>i DEF BeginCreate
  <2> HIDE DEF x
  <2> QED BY <1>3, <2>1, <2>2 DEF BeginCreate, Quits
<1> QED BY <1>1, <1>2, <1>3

LEMMA WaitSteps ==
  ASSUME UsersTypeInv,
         \/ \E w \in Watchers : TickHit(w) \/ EndWatch(w) \/ \E u \in Watched : WatchUser(w, u)
         \/ \E u \in Users : IdKeyExpires(u)
         \/ \E e \in Emails : EmailKeyExpires(e)
         \/ UNCHANGED userVars
  PROVE  Waits
<1> USE DEF UsersTypeInv, UsersTypeOK
<1>m. Miss \in [user : Users \union {NoUser}, profile : Profiles \union {NoProfile}]
  BY DEF Miss, Entry
<1>1. ASSUME NEW w \in Watchers, TickHit(w) PROVE Waits
  BY <1>1 DEF TickHit, Sent, Waits, cacheVars, tableVars
<1>2. ASSUME NEW w \in Watchers, EndWatch(w) PROVE Waits
  BY <1>2 DEF EndWatch, Waits, cacheVars, tableVars
<1>3. ASSUME NEW w \in Watchers, NEW u \in Watched, WatchUser(w, u) PROVE Waits
  BY <1>3, UserAssumption DEF WatchUser, Waits, cacheVars, tableVars
<1>4. ASSUME NEW u \in Users, IdKeyExpires(u) PROVE Waits
  BY <1>4 DEF IdKeyExpires, Waits, watchVars, tableVars
<1>5. ASSUME NEW e \in Emails, EmailKeyExpires(e) PROVE Waits
  BY <1>m, <1>5 DEF EmailKeyExpires, Waits, watchVars, tableVars
<1>6. CASE UNCHANGED userVars
  BY <1>6 DEF userVars, Waits, watchVars, tableVars, cacheVars
<1> QED BY <1>1, <1>2, <1>3, <1>4, <1>5, <1>6

\* An access to the cache, done or left undone.
CacheStep(r) ==
    \/ SetIdKey(r) \/ SetEmailKey(r) \/ CacheFails(r) \/ Abandon(r)
    \/ r \in Requests /\ (DropKeys(r) \/ DropIdKey(r) \/ DropMisspelt(r))

\* Every step is of one of these kinds.
Kinds ==
    \/ \E r, u, p, x : Updates(r, u, p, x) \/ Commits(r, u, p, x) \/ Enters(r, u, p, x)
    \/ \E r, u, x : Reads(r, u, x) \/ Quits(r, x)
    \/ \E r \in Tasks : CacheStep(r)
    \/ Crash
    \/ Waits

LEMMA StepKinds == UsersTypeInv /\ [UsersNext]_userVars => Kinds
<1> SUFFICES ASSUME UsersTypeInv, [UsersNext]_userVars PROVE Kinds
  OBVIOUS
<1>0. UsersTypeOK
  BY DEF UsersTypeInv
<1>r. ASSUME NEW r \in Tasks, NEW u \in Users,
             GetByID(r, u) \/ GetBatch(r, u)
      PROVE  Kinds
  <2>1. state[u] # "absent" /\ Fill(r, u)
        /\ excused' = IF state[u] = "deleted" THEN excused \union {u} ELSE excused
    BY <1>r DEF GetByID, GetBatch
  <2> QED BY <2>1, ReadSteps DEF Kinds
<1>1. ASSUME NEW r \in Requests, Working(r) PROVE Kinds
  <2>0. r \in Tasks
    BY RequestsAreTasks
  <2>1. ASSUME NEW e \in Emails, GetByEmail(r, e) PROVE Kinds
    <3>1. PICK u \in Users : state[u] = "active" /\ Fill(r, u) /\ excused' = excused
      BY <2>1 DEF GetByEmail
    <3> QED BY <2>0, <3>1, ReadSteps DEF Kinds
  <2>2. ASSUME NEW u \in Users,
               VerifyEmail(r, u) \/ Ban(r, u) \/ Delete(r, u) \/ \E n \in Names : Update(r, u, n)
        PROVE  Kinds
    BY <2>2, UpdateSteps DEF Kinds
  <2>3. ASSUME NEW u \in Users,
               Create(r, u) \/ \E n \in GivenNames : u \in Registered /\ HandleRegistered(r, u, n)
        PROVE  Kinds
    BY <2>3, EnterSteps DEF Kinds
  <2>4. CASE Commit(r)
    BY <2>4, CommitSteps DEF Kinds
  <2>5. CASE Rollback(r) \/ EmailTaken(r) \/ \E e \in Emails, n \in GivenNames : BeginCreate(r, e, n)
    BY <2>5, QuitSteps DEF Kinds
  <2>6. CASE CacheStep(r)
    BY <2>0, <2>6 DEF Kinds
  <2> QED BY <1>1, <1>r, <2>0, <2>1, <2>2, <2>3, <2>4, <2>5, <2>6, UserAssumption
          DEF Working, CacheStep
<1>2. ASSUME NEW w \in Watchers,
             \/ Tick(w) \/ TickRead(w) \/ CacheFails(w) \/ Abandon(w) \/ EndWatch(w)
             \/ \E u \in Watched : WatchUser(w, u)
      PROVE  Kinds
  <2>0. w \in Tasks
    BY RequestsAreTasks
  <2>1. CASE TickRead(w)
    BY <1>0, <2>0, <2>1, <1>r DEF TickRead, UsersTypeOK
  <2>2. CASE TickHit(w) \/ EndWatch(w) \/ \E u \in Watched : WatchUser(w, u)
    BY <2>2, WaitSteps DEF Kinds
  <2>3. CASE CacheStep(w)
    BY <2>0, <2>3 DEF Kinds
  <2> QED BY <1>2, <2>1, <2>2, <2>3 DEF Tick, TickMiss, CacheStep
<1>3. CASE \/ \E u \in Users : IdKeyExpires(u)
           \/ \E e \in Emails : EmailKeyExpires(e)
           \/ UNCHANGED userVars
  BY <1>3, WaitSteps DEF Kinds
<1>4. CASE Crash
  BY <1>4 DEF Kinds
<1> QED BY <1>1, <1>2, <1>3, <1>4 DEF UsersNext

\* A request that goes on, or ends, after an access to the cache.
Moves(r, x) ==
    /\ Legal(r, x) /\ Goto(r, x)
    /\ task[r].user \in Users
    /\ task[r].stage # "droppingId" /\ task[r].stage # "dropping" => task[r].profile \in Profiles
    /\ \/ x.stage = "idle" /\ Unsettled(r)
       \/ x.stage = "storing" /\ task[r].stage = "refreshing"
       \/ x.stage = "storingEmail" /\ task[r].stage = "storing"
    /\ x.stage # "idle" => x.user = task[r].user /\ x.profile = task[r].profile

LEMMA CacheMoves ==
  ASSUME UsersTypeInv, NEW r \in Tasks, CacheStep(r)
  PROVE  \E x : Moves(r, x)
<1>1. Legal(r, task[r]) /\ task[r].event \in BOOLEAN
  BY DEF UsersTypeInv, Legal, TaskRecords
<1>2. Unsettled(r)
  BY DEF CacheStep, SetIdKey, SetEmailKey, CacheFails, Abandon, DropKeys, DropIdKey, DropMisspelt,
     At, Unsettled
<1>3. task[r].user \in Users
      /\ (task[r].stage \in {"refreshing", "storing", "storingEmail"} => task[r].profile \in Profiles)
  BY <1>1, <1>2 DEF Legal, Unsettled
<1>4. CASE Finish(r)
  <2>1. Legal(r, Idle) /\ Idle.stage = "idle" /\ Goto(r, Idle)
    BY <1>4, IdleIsLegal DEF Finish, Idle, Doing
  <2>2. Moves(r, Idle)
    BY <1>2, <1>3, <2>1 DEF Moves, Unsettled
  <2> QED BY <2>2
<1>5. CASE Goto(r, Doing("storing", task[r].user, task[r].profile, FALSE)) /\ task[r].stage = "refreshing"
  <2> DEFINE x == Doing("storing", task[r].user, task[r].profile, FALSE)
  <2>1. Legal(r, x) /\ x.stage = "storing" /\ x.user = task[r].user /\ x.profile = task[r].profile
    BY <1>3, <1>5, LegalTasks DEF Doing
  <2> HIDE DEF x
  <2> QED BY <1>3, <1>5, <2>1 DEF Moves, x
<1>6. CASE Goto(r, Doing("storingEmail", task[r].user, task[r].profile, task[r].event))
           /\ task[r].stage = "storing"
  <2> DEFINE x == Doing("storingEmail", task[r].user, task[r].profile, task[r].event)
  <2>1. Legal(r, x) /\ x.stage = "storingEmail" /\ x.user = task[r].user /\ x.profile = task[r].profile
    BY <1>1, <1>3, <1>6, LegalTasks DEF Doing
  <2> HIDE DEF x
  <2> QED BY <1>3, <1>6, <2>1 DEF Moves, x
<1> QED BY <1>4, <1>5, <1>6
        DEF CacheStep, SetIdKey, SetEmailKey, CacheFails, Abandon, DropKeys, DropIdKey,
            DropMisspelt, At

\* The table stays, and no request begins to drop the keys of a row.
LEMMA RowsKept ==
  ASSUME UsersTypeInv, UNCHANGED tableVars,
         \A r \in Requests : task'[r] = task[r] \/ task'[r].stage \notin {"dropping", "refreshing"}
  PROVE  /\ \A u \in Users : state'[u] # "absent" => profile'[u] \in Profiles
         /\ \A r \in Requests : task'[r].stage \in {"dropping", "refreshing"} =>
              state'[task'[r].user] # "absent"
  BY DEF UsersTypeInv, tableVars

\* What a cache access leaves in the two keys and in the streams.
LEMMA CacheTypes ==
  ASSUME UsersTypeInv, NEW r \in Tasks, CacheStep(r)
  PROVE  /\ UNCHANGED <<tableVars, watching, writes>>
         /\ idKey' \in [Users -> Profiles \union {NoProfile}]
         /\ emailKey' \in [Emails -> [user : Users \union {NoUser},
                                       profile : Profiles \union {NoProfile}]]
         /\ seen' \in [Watchers -> {"nothing", "allowed", "banned"}]
         /\ excused' \subseteq Users /\ faults' \in Nat
<1>0. UsersTypeOK /\ Legal(r, task[r])
  BY DEF UsersTypeInv
<1>m. PICK x : Moves(r, x)
  BY CacheMoves
<1>s. ASSUME NEW q \in Profiles, Sent(r, q) PROVE seen' \in [Watchers -> {"nothing", "allowed", "banned"}]
  BY <1>0, <1>s DEF Sent, UsersTypeOK
<1>1. CASE SetIdKey(r)
  BY <1>0, <1>1, <1>m DEF SetIdKey, Moves, UsersTypeOK, watchVars, At
<1>2. CASE SetEmailKey(r)
  <2>1. task[r].profile \in Profiles /\ task[r].user \in Users
    BY <1>0, <1>2 DEF SetEmailKey, At, Legal
  <2>2. Entry(task[r].user, task[r].profile) \in
          [user : Users \union {NoUser}, profile : Profiles \union {NoProfile}]
    BY <2>1 DEF Entry
  <2>3. emailKey' \in [Emails -> [user : Users \union {NoUser}, profile : Profiles \union {NoProfile}]]
    BY <1>0, <1>2, <2>2 DEF SetEmailKey, UsersTypeOK
  <2>4. seen' \in [Watchers -> {"nothing", "allowed", "banned"}]
    BY <1>2, <1>s, <2>1 DEF SetEmailKey
  <2> QED BY <1>0, <1>2, <2>3, <2>4 DEF SetEmailKey, UsersTypeOK
<1>3. CASE CacheFails(r)
  <2>1. seen' \in [Watchers -> {"nothing", "allowed", "banned"}]
    <3>1. CASE At(r, "storingEmail") /\ Sent(r, task[r].profile)
      BY <1>0, <1>s, <3>1 DEF At, Legal
    <3>2. CASE UNCHANGED seen
      BY <1>0, <3>2 DEF UsersTypeOK
    <3> QED BY <1>3, <3>1, <3>2 DEF CacheFails
  <2>2. task[r].user \in Users
    BY <1>m DEF Moves
  <2> QED BY <1>0, <1>3, <2>1, <2>2 DEF CacheFails, Strike, UsersTypeOK, cacheVars
<1>4. CASE DropKeys(r)
  <2>1. Miss \in [user : Users \union {NoUser}, profile : Profiles \union {NoProfile}]
    BY DEF Miss, Entry
  <2>2. task[r].user \in Users
    BY <1>m DEF Moves
  <2>3. idKey' \in [Users -> Profiles \union {NoProfile}]
    BY <1>0, <1>4 DEF DropKeys, InvalidateCache, UsersTypeOK
  <2>4. emailKey' \in [Emails -> [user : Users \union {NoUser}, profile : Profiles \union {NoProfile}]]
    BY <1>0, <1>4, <2>1 DEF DropKeys, InvalidateCache, UsersTypeOK
  <2> QED BY <1>0, <1>4, <2>3, <2>4 DEF DropKeys, UsersTypeOK, watchVars
<1>5. CASE DropIdKey(r)
  BY <1>0, <1>5 DEF DropIdKey, InvalidateCacheByID, UsersTypeOK, watchVars
<1>6. CASE Abandon(r)
  BY <1>0, <1>6, <1>m DEF Abandon, Strike, Moves, UsersTypeOK, cacheVars, watchVars
<1>7. CASE DropMisspelt(r)
  <2>1. Miss \in [user : Users \union {NoUser}, profile : Profiles \union {NoProfile}]
    BY DEF Miss, Entry
  <2>2. task[r].user \in Users
    BY <1>m DEF Moves
  <2>3. emailKey' \in [Emails -> [user : Users \union {NoUser}, profile : Profiles \union {NoProfile}]]
    BY <1>0, <1>7, <2>1 DEF DropMisspelt, UsersTypeOK
  <2> QED BY <1>0, <1>7, <2>2, <2>3 DEF DropMisspelt, UsersTypeOK, watchVars
<1> QED BY <1>1, <1>2, <1>3, <1>4, <1>5, <1>6, <1>7 DEF CacheStep

LEMMA NextUsersTypes == UsersTypeInv /\ [UsersNext]_userVars => UsersTypeInv'
<1> SUFFICES ASSUME UsersTypeInv, Kinds PROVE UsersTypeInv'
  BY StepKinds
<1>0. UsersTypeOK /\ Requests \subseteq Tasks /\ \A r \in Tasks : Legal(r, task[r])
  BY RequestsAreTasks DEF UsersTypeInv
<1>1. ASSUME NEW r, NEW u, NEW p, NEW x, Writes(r, u, p, x),
             state' \in [Users -> {"absent", "active", "deleted"}],
             \A v \in Users \ {u} : state'[v] = state[v],
             state'[u] # "absent",
             x.stage \in {"dropping", "refreshing"} => x.user = u
      PROVE  UsersTypeInv'
  <2>0. r \in Requests /\ r \in Tasks /\ u \in Users /\ p \in Profiles
    BY <1>0, <1>1 DEF Writes
  <2>1. /\ task' \in [Tasks -> TaskRecords] /\ task'[r] = x
        /\ \A q \in Tasks \ {r} : task'[q] = task[q]
        /\ \A q \in Tasks : Legal(q, task'[q])
    BY <1>1, <2>0, GotoLegal DEF Writes
  <2>2. UsersTypeOK'
    BY <1>0, <1>1, <2>0, <2>1 DEF Writes, UsersTypeOK, cacheVars, watchVars
  <2>3. \A v \in Users : state'[v] # "absent" => profile'[v] \in Profiles
    BY <1>0, <1>1, <2>0 DEF Writes, UsersTypeInv, UsersTypeOK
  <2>4. \A q \in Requests : task'[q].stage \in {"dropping", "refreshing"} =>
          state'[task'[q].user] # "absent"
    <3> SUFFICES ASSUME NEW q \in Requests, task'[q].stage \in {"dropping", "refreshing"}
                 PROVE  state'[task'[q].user] # "absent"
      OBVIOUS
    <3>1. CASE q = r
      BY <1>1, <2>1, <3>1
    <3>2. CASE q # r
      <4>1. task'[q] = task[q] /\ state[task[q].user] # "absent" /\ task[q].user \in Users
        BY <1>0, <2>1, <3>2 DEF UsersTypeInv, Legal
      <4> QED BY <1>1, <4>1
    <3> QED BY <3>1, <3>2
  <2> QED BY <2>1, <2>2, <2>3, <2>4 DEF UsersTypeInv
<1>2. ASSUME NEW r, NEW u, NEW p, NEW x, Updates(r, u, p, x) PROVE UsersTypeInv'
  <2>1. Writes(r, u, p, x) /\ u \in Users /\ state[u] = "active" /\ x.user = u
        /\ (UNCHANGED state \/ state' = [state EXCEPT ![u] = "deleted"])
    BY <1>2 DEF Updates, Writes
  <2> QED BY <1>0, <1>1, <2>1 DEF UsersTypeOK
<1>3. ASSUME NEW r, NEW u, NEW p, NEW x, Commits(r, u, p, x) PROVE UsersTypeInv'
  <2>1. Writes(r, u, p, x) /\ u \in Users /\ x.stage = "storing"
        /\ state' = [state EXCEPT ![u] = AfterUpsert(u)]
    BY <1>3 DEF Commits, Writes
  <2>2. AfterUpsert(u) \in {"active", "deleted"}
    BY DEF AfterUpsert
  <2> QED BY <1>0, <1>1, <2>1, <2>2 DEF UsersTypeOK
<1>4. ASSUME NEW r \in Tasks, NEW x, Legal(r, x), Goto(r, x), x.stage \notin {"dropping", "refreshing"},
             UNCHANGED tableVars,
             idKey' \in [Users -> Profiles \union {NoProfile}],
             emailKey' \in [Emails -> [user : Users \union {NoUser}, profile : Profiles \union {NoProfile}]],
             watching' \in [Watchers -> Users \union {NoUser}],
             seen' \in [Watchers -> {"nothing", "allowed", "banned"}],
             excused' \subseteq Users, writes' \in Nat, faults' \in Nat
      PROVE  UsersTypeInv'
  <2>1. /\ task' \in [Tasks -> TaskRecords] /\ task'[r] = x
        /\ \A q \in Tasks \ {r} : task'[q] = task[q]
        /\ \A q \in Tasks : Legal(q, task'[q])
    BY <1>4, GotoLegal
  <2>2. UsersTypeOK'
    BY <1>0, <1>4, <2>1 DEF UsersTypeOK, tableVars
  <2> QED BY <1>0, <1>4, <2>1, <2>2, RowsKept DEF UsersTypeInv
<1>5. ASSUME NEW r, NEW u, NEW p, NEW x, Enters(r, u, p, x) PROVE UsersTypeInv'
  BY <1>0, <1>4, <1>5 DEF Enters, UsersTypeOK, cacheVars, watchVars
<1>6. ASSUME NEW r, NEW u, NEW x, Reads(r, u, x) PROVE UsersTypeInv'
  BY <1>0, <1>4, <1>6 DEF Reads, UsersTypeOK, cacheVars, watchVars
<1>7. ASSUME NEW r, NEW x, Quits(r, x) PROVE UsersTypeInv'
  BY <1>0, <1>4, <1>7 DEF Quits, UsersTypeOK, cacheVars, watchVars
<1>8. ASSUME NEW r \in Tasks, CacheStep(r) PROVE UsersTypeInv'
  <2>1. PICK x : Moves(r, x)
    BY <1>8, CacheMoves
  <2>2. Legal(r, x) /\ Goto(r, x) /\ x.stage \notin {"dropping", "refreshing"}
    BY <2>1 DEF Moves
  <2> QED BY <1>0, <1>4, <1>8, <2>2, CacheTypes DEF UsersTypeOK
<1>9. CASE Crash
  <2>1. /\ task' = [r \in Tasks |-> Idle] /\ UNCHANGED <<tableVars, cacheVars, writes>>
        /\ watching' = [w \in Watchers |-> NoUser] /\ seen' = [w \in Watchers |-> "nothing"]
        /\ excused' = excused \union Touched /\ faults' = faults + 1
    BY <1>9 DEF Crash, Strike
  <2>2. (\A r \in Tasks : task'[r] = Idle) /\ Idle \in TaskRecords /\ Idle.stage = "idle"
    BY <2>1, IdleIsLegal DEF Legal, Idle, Doing
  <2>3. UsersTypeOK'
    BY <1>0, <2>1, <2>2 DEF UsersTypeOK, tableVars, cacheVars, Touched, Unsettled
  <2> QED BY <1>0, <2>1, <2>2, <2>3, IdleIsLegal, RowsKept DEF UsersTypeInv
<1>10. CASE Waits
  <2>1. UsersTypeOK'
    BY <1>0, <1>10 DEF Waits, UsersTypeOK, tableVars
  <2> QED BY <1>0, <1>10, <2>1, RowsKept DEF Waits, UsersTypeInv
<1> QED BY <1>0, <1>2, <1>3, <1>5, <1>6, <1>7, <1>8, <1>9, <1>10 DEF Kinds

\* Every variable of user-service keeps its type, and no request is about to
\* do anything to a row that is not there.
THEOREM UsersTypeCorrect == UsersSpec => []UsersTypeOK
<1>1. UsersTypeInv => UsersTypeOK
  BY DEF UsersTypeInv
<1> QED BY InitUsersTypes, NextUsersTypes, <1>1, PTL DEF UsersSpec

-----------------------------------------------------------------------------
(* One active profile per e-mail.                                          *)

Committing(r) == task[r].stage = "committing"

\* The transaction will put its e-mail into the index.
Entering(r) == Committing(r) /\ state[task[r].user] # "deleted"

\* An open transaction has its row, and its e-mail, for itself.
IndexInv ==
    /\ UniqueActiveEmail
    /\ \A q, r \in Requests :
         /\ Committing(q) /\ Committing(r) /\ task[q].user = task[r].user => q = r
         /\ Entering(q) /\ Entering(r) /\ task[q].profile.email = task[r].profile.email => q = r
    /\ \A r \in Requests : Entering(r) => EmailOpen(task[r].user, task[r].profile.email)

\* A step that leaves the table alone and begins no transaction.
LEMMA IndexKept ==
  ASSUME IndexInv, UNCHANGED tableVars,
         \A r \in Requests : task'[r] = task[r] \/ task'[r].stage # "committing"
  PROVE  IndexInv'
<1>1. \A r \in Requests : /\ Committing(r)' => Committing(r) /\ task'[r] = task[r]
                          /\ Entering(r)' => Entering(r) /\ task'[r] = task[r]
  BY DEF Committing, Entering, tableVars
<1>2. UniqueActiveEmail'
  BY DEF IndexInv, UniqueActiveEmail, tableVars
<1>3. \A r \in Requests : Entering(r)' => EmailOpen(task[r].user, task[r].profile.email)'
  BY <1>1 DEF IndexInv, EmailOpen, tableVars
<1> QED BY <1>1, <1>2, <1>3 DEF IndexInv

\* What a transaction that begins knows of the others.
LEMMA IndexEnters ==
  ASSUME UsersTypeInv, IndexInv, NEW r, NEW u, NEW p, NEW x, Enters(r, u, p, x)
  PROVE  IndexInv'
<1>0. r \in Requests /\ r \in Tasks /\ u \in Users
  BY RequestsAreTasks DEF Enters
<1>1. task'[r] = x /\ \A q \in Requests \ {r} : task'[q] = task[q]
  BY <1>0, GotoLegal, RequestsAreTasks DEF Enters
<1>2. UNCHANGED <<state, profile>> /\ x.user = u /\ x.profile = p
  BY DEF Enters, tableVars
<1>3. \A q \in Requests \ {r} : /\ Committing(q)' <=> Committing(q)
                                /\ Entering(q)' <=> Entering(q)
  BY <1>1, <1>2 DEF Committing, Entering
<1>4. UniqueActiveEmail'
  BY <1>2 DEF IndexInv, UniqueActiveEmail
<1>5. \A q \in Requests \ {r} : Committing(q) => task[q].user # u
  BY DEF Enters, Locked, At, Committing
<1>6. state[u] # "deleted" => EmailOpen(u, p.email)
        /\ \A q \in Requests \ {r} : Entering(q) => task[q].profile.email # p.email
  BY DEF Enters, EmailPending, At, Entering, Committing
<1>7. \A q \in Requests : Entering(q)' => EmailOpen(task[q].user, task[q].profile.email)'
  <2>1. \A q \in Requests \ {r} : Entering(q)' => EmailOpen(task[q].user, task[q].profile.email)'
    BY <1>1, <1>2, <1>3 DEF IndexInv, EmailOpen
  <2>2. Entering(r)' => EmailOpen(task[r].user, task[r].profile.email)'
    BY <1>1, <1>2, <1>6 DEF Entering, EmailOpen
  <2> QED BY <2>1, <2>2
<1>8. \A q, s \in Requests :
        Committing(q)' /\ Committing(s)' /\ task'[q].user = task'[s].user => q = s
  BY <1>1, <1>2, <1>3, <1>5 DEF IndexInv
<1>9. \A q, s \in Requests :
        Entering(q)' /\ Entering(s)' /\ task'[q].profile.email = task'[s].profile.email => q = s
  <2>1. Entering(r)' => state[u] # "deleted"
    BY <1>1, <1>2 DEF Entering
  <2> QED BY <1>1, <1>2, <1>3, <1>6, <2>1 DEF IndexInv
<1> QED BY <1>4, <1>7, <1>8, <1>9 DEF IndexInv

\* A write of a row that no other transaction has.
LEMMA IndexWrites ==
  ASSUME UsersTypeInv, IndexInv, NEW r, NEW u, NEW p, NEW x, Writes(r, u, p, x),
         x.stage # "committing",
         \A q \in Requests \ {r} : Committing(q) => task[q].user # u,
         state' \in [Users -> {"absent", "active", "deleted"}],
         \A v \in Users \ {u} : state'[v] = state[v],
         state'[u] = "active" =>
           /\ EmailOpen(u, p.email)
           /\ \A q \in Requests \ {r} : Entering(q) => task[q].profile.email # p.email
  PROVE  IndexInv'
<1>0. r \in Requests /\ r \in Tasks /\ u \in Users /\ p \in Profiles
  BY RequestsAreTasks DEF Writes
<1>1. task'[r] = x /\ \A q \in Requests \ {r} : task'[q] = task[q]
  BY <1>0, GotoLegal, RequestsAreTasks DEF Writes
<1>2. profile'[u] = p /\ \A v \in Users \ {u} : profile'[v] = profile[v]
  BY <1>0 DEF Writes, UsersTypeInv, UsersTypeOK
<1>3. \A q \in Requests : Committing(q)' => q # r /\ Committing(q) /\ task'[q] = task[q]
  BY <1>1 DEF Committing
<1>4. \A q \in Requests : Committing(q) => task[q].user \in Users
  BY RequestsAreTasks DEF UsersTypeInv, Legal, Committing
<1>5. \A q \in Requests : Entering(q)' => q # r /\ Entering(q) /\ task'[q] = task[q]
  <2> SUFFICES ASSUME NEW q \in Requests, Entering(q)' PROVE q # r /\ Entering(q) /\ task'[q] = task[q]
    OBVIOUS
  <2>1. Committing(q)' /\ state'[task'[q].user] # "deleted"
    BY DEF Entering
  <2>2. q # r /\ Committing(q) /\ task'[q] = task[q]
    BY <1>3, <2>1
  <2>3. task[q].user \in Users \ {u}
    BY <1>4, <2>2
  <2> QED BY <2>1, <2>2, <2>3 DEF Entering
<1>6. UniqueActiveEmail'
  BY <1>0, <1>2 DEF IndexInv, UniqueActiveEmail, EmailOpen
<1>7. ASSUME NEW q \in Requests, Entering(q)'
      PROVE  EmailOpen(task[q].user, task[q].profile.email)'
  <2>1. q # r /\ Entering(q) /\ task'[q] = task[q] /\ EmailOpen(task[q].user, task[q].profile.email)
    BY <1>5, <1>7 DEF IndexInv
  <2>2. state'[u] = "active" => p.email # task[q].profile.email
    BY <2>1
  <2> QED BY <1>0, <1>2, <2>1, <2>2 DEF EmailOpen
<1>8. \A q, s \in Requests :
        /\ Committing(q)' /\ Committing(s)' /\ task'[q].user = task'[s].user => q = s
        /\ Entering(q)' /\ Entering(s)' /\ task'[q].profile.email = task'[s].profile.email => q = s
  BY <1>3, <1>5 DEF IndexInv
<1> QED BY <1>6, <1>7, <1>8 DEF IndexInv

LEMMA NextIndex == UsersTypeInv /\ IndexInv /\ [UsersNext]_userVars => IndexInv'
<1> SUFFICES ASSUME UsersTypeInv, IndexInv, Kinds PROVE IndexInv'
  BY StepKinds
<1>0. UsersTypeOK /\ Requests \subseteq Tasks
  BY RequestsAreTasks DEF UsersTypeInv
<1>1. ASSUME NEW r, NEW u, NEW p, NEW x, Updates(r, u, p, x) PROVE IndexInv'
  <2>1. Writes(r, u, p, x) /\ r \in Requests /\ u \in Users /\ x.stage # "committing" /\ ~Locked(u)
        /\ state[u] = "active" /\ p.email = profile[u].email
        /\ (UNCHANGED state \/ state' = [state EXCEPT ![u] = "deleted"])
    BY <1>1 DEF Updates, Writes
  <2>2. \A q \in Requests : Committing(q) => task[q].user # u
    BY <2>1 DEF Locked, At, Committing
  <2>3. EmailOpen(u, p.email)
    BY <2>1 DEF IndexInv, UniqueActiveEmail, EmailOpen
  <2>4. \A q \in Requests : Entering(q) => task[q].profile.email # p.email
    BY <2>1, <2>2 DEF IndexInv, EmailOpen, Entering
  <2>5. /\ state' \in [Users -> {"absent", "active", "deleted"}]
        /\ \A v \in Users \ {u} : state'[v] = state[v]
    BY <1>0, <2>1 DEF UsersTypeOK
  <2> QED BY <2>1, <2>2, <2>3, <2>4, <2>5, IndexWrites
<1>2. ASSUME NEW r, NEW u, NEW p, NEW x, Commits(r, u, p, x) PROVE IndexInv'
  <2>1. Writes(r, u, p, x) /\ r \in Requests /\ u \in Users /\ x.stage # "committing"
        /\ Committing(r) /\ task[r].user = u /\ task[r].profile = p
        /\ state' = [state EXCEPT ![u] = AfterUpsert(u)]
    BY <1>2 DEF Commits, Writes, Committing
  <2>2. \A q \in Requests \ {r} : Committing(q) => task[q].user # u
    BY <2>1 DEF IndexInv
  <2>3. AfterUpsert(u) \in {"active", "deleted"} /\ (AfterUpsert(u) = "active" => state[u] # "deleted")
    BY DEF AfterUpsert
  <2>4. /\ state' \in [Users -> {"absent", "active", "deleted"}]
        /\ \A v \in Users \ {u} : state'[v] = state[v]
        /\ (state'[u] = "active" => Entering(r))
    BY <1>0, <2>1, <2>3 DEF UsersTypeOK, Entering
  <2>5. Entering(r) => /\ EmailOpen(u, p.email)
                       /\ \A q \in Requests \ {r} : Entering(q) => task[q].profile.email # p.email
    BY <2>1 DEF IndexInv
  <2> QED BY <2>1, <2>2, <2>4, <2>5, IndexWrites
<1>3. ASSUME NEW r \in Tasks, NEW x, Legal(r, x), Goto(r, x), x.stage # "committing", UNCHANGED tableVars
      PROVE  IndexInv'
  BY <1>0, <1>3, GotoLegal, IndexKept
<1>4. ASSUME NEW r, NEW u, NEW x, Reads(r, u, x) PROVE IndexInv'
  BY <1>3, <1>4 DEF Reads
<1>5. ASSUME NEW r, NEW x, Quits(r, x) PROVE IndexInv'
  BY <1>0, <1>3, <1>5 DEF Quits
<1>6. ASSUME NEW r \in Tasks, CacheStep(r) PROVE IndexInv'
  <2>1. PICK x : Moves(r, x)
    BY <1>6, CacheMoves
  <2>2. Legal(r, x) /\ Goto(r, x) /\ x.stage # "committing"
    BY <2>1 DEF Moves
  <2> QED BY <1>3, <1>6, <2>2, CacheTypes
<1>7. CASE Crash
  <2>1. \A r \in Requests : task'[r].stage # "committing"
    BY <1>0, <1>7 DEF Crash, Idle, Doing
  <2> QED BY <1>7, <2>1, IndexKept DEF Crash
<1>8. CASE Waits
  BY <1>8, IndexKept DEF Waits
<1> QED BY <1>0, <1>1, <1>2, <1>4, <1>5, <1>6, <1>7, <1>8, IndexEnters DEF Kinds

\* Whoever creates them, two active profiles never share an e-mail.
THEOREM UniqueActiveEmailHolds == UsersSpec => []UniqueActiveEmail
<1>1. UsersInit => IndexInv
  <2> SUFFICES ASSUME UsersInit PROVE IndexInv
    OBVIOUS
  <2>1. \A r \in Requests : task[r].stage = "idle"
    BY RequestsAreTasks DEF UsersInit, Idle, Doing
  <2> QED BY <2>1 DEF UsersInit, IndexInv, UniqueActiveEmail, Committing, Entering
<1>2. IndexInv => UniqueActiveEmail
  BY DEF IndexInv
<1> QED BY <1>1, <1>2, InitUsersTypes, NextUsersTypes, NextIndex, PTL DEF UsersSpec

-----------------------------------------------------------------------------
(* A row never changes its e-mail.                                         *)

Carries(r) == task[r].stage \in {"refreshing", "storing", "storingEmail"}

\* A request carries the e-mail of its row, or is about to give the row one
\* that it can have.
MailTask(r) ==
    /\ Carries(r) =>
         state[task[r].user] # "absent" /\ task[r].profile.email = profile[task[r].user].email
    /\ r \in Requests /\ Committing(r) =>
         IF task[r].user \in Registered THEN task[r].profile.email = EmailOf[task[r].user]
                                        ELSE state[task[r].user] = "absent"

\* An e-mail key holds a row with that e-mail.
MailKey(e) ==
    LET u == emailKey[e].user IN
    u \in Users => state[u] # "absent" /\ profile[u].email = e

MailInv ==
    /\ \A u \in Registered : state[u] # "absent" => profile[u].email = EmailOf[u]
    /\ \A r \in Tasks : MailTask(r)
    /\ \A e \in Emails : MailKey(e)

\* A write of a row gives it the e-mail it had, if it was there.
LEMMA MailWrites ==
  ASSUME UsersTypeInv, MailInv, NEW r, NEW u, NEW p, NEW x, Writes(r, u, p, x),
         \A q \in Requests \ {r} : Committing(q) => task[q].user # u,
         state' \in [Users -> {"absent", "active", "deleted"}],
         \A v \in Users \ {u} : state'[v] = state[v],
         state'[u] # "absent",
         state[u] # "absent" => p.email = profile[u].email,
         u \in Registered => p.email = EmailOf[u],
         x.stage \in {"refreshing", "storing"} => x.user = u /\ x.profile = p,
         x.stage \notin {"committing", "storingEmail"}
  PROVE  MailInv'
<1>0. r \in Requests /\ r \in Tasks /\ u \in Users /\ UNCHANGED emailKey
  BY RequestsAreTasks DEF Writes, cacheVars
<1>1. task'[r] = x /\ \A q \in Tasks \ {r} : task'[q] = task[q]
  BY <1>0, GotoLegal DEF Writes
<1>2. profile'[u] = p /\ \A v \in Users \ {u} : profile'[v] = profile[v]
  BY <1>0 DEF Writes, UsersTypeInv, UsersTypeOK
<1>3. \A v \in Users : state[v] # "absent" => state'[v] # "absent" /\ profile'[v].email = profile[v].email
  BY <1>2
<1>4. \A v \in Registered : state'[v] # "absent" => profile'[v].email = EmailOf[v]
  BY <1>2, UserAssumption DEF MailInv
<1>5. \A q \in Tasks : Carries(q) \/ Committing(q) => task[q].user \in Users
  BY DEF UsersTypeInv, Legal, Carries, Committing
<1>6. ASSUME NEW q \in Tasks, q # r PROVE MailTask(q)'
  <2>1. MailTask(q) /\ task'[q] = task[q]
    BY <1>1, <1>6 DEF MailInv
  <2>2. Carries(q)' => state'[task'[q].user] # "absent"
                       /\ task'[q].profile.email = profile'[task'[q].user].email
    BY <1>3, <1>5, <2>1 DEF MailTask, Carries
  <2>3. q \in Requests /\ Committing(q)' =>
          IF task'[q].user \in Registered THEN task'[q].profile.email = EmailOf[task'[q].user]
                                          ELSE state'[task'[q].user] = "absent"
    BY <1>5, <1>6, <2>1 DEF MailTask, Committing
  <2> QED BY <2>2, <2>3 DEF MailTask
<1>7. MailTask(r)'
  BY <1>1, <1>2 DEF MailTask, Carries, Committing
<1>8. \A e \in Emails : MailKey(e)'
  BY <1>0, <1>3 DEF MailInv, MailKey
<1> QED BY <1>4, <1>6, <1>7, <1>8 DEF MailInv

LEMMA NextMail == UsersTypeInv /\ IndexInv /\ MailInv /\ [UsersNext]_userVars => MailInv'
<1> SUFFICES ASSUME UsersTypeInv, IndexInv, MailInv, Kinds PROVE MailInv'
  BY StepKinds
<1>0. UsersTypeOK /\ Requests \subseteq Tasks
  BY RequestsAreTasks DEF UsersTypeInv
<1>n. Miss.user \notin Users
  BY UserAssumption DEF Miss, Entry
<1>1. ASSUME NEW r, NEW u, NEW p, NEW x, Updates(r, u, p, x) PROVE MailInv'
  <2>1. Writes(r, u, p, x) /\ r \in Requests /\ u \in Users /\ ~Locked(u)
        /\ x.stage \in {"refreshing", "droppingId", "dropping"} /\ x.user = u
        /\ (x.stage = "refreshing" => x.profile = p)
        /\ state[u] = "active" /\ p.email = profile[u].email
        /\ (UNCHANGED state \/ state' = [state EXCEPT ![u] = "deleted"])
    BY <1>1 DEF Updates, Writes
  <2>2. \A q \in Requests : Committing(q) => task[q].user # u
    BY <2>1 DEF Locked, At, Committing
  <2>3. u \in Registered => p.email = EmailOf[u]
    BY <2>1 DEF MailInv
  <2>4. /\ state' \in [Users -> {"absent", "active", "deleted"}]
        /\ \A v \in Users \ {u} : state'[v] = state[v]
        /\ state'[u] # "absent"
    BY <1>0, <2>1 DEF UsersTypeOK
  <2> QED BY <2>1, <2>2, <2>3, <2>4, MailWrites
<1>2. ASSUME NEW r, NEW u, NEW p, NEW x, Commits(r, u, p, x) PROVE MailInv'
  <2>1. Writes(r, u, p, x) /\ r \in Requests /\ u \in Users
        /\ x.stage = "storing" /\ x.user = u /\ x.profile = p
        /\ Committing(r) /\ task[r].user = u /\ task[r].profile = p
        /\ state' = [state EXCEPT ![u] = AfterUpsert(u)]
    BY <1>2 DEF Commits, Writes, Committing
  <2>2. \A q \in Requests \ {r} : Committing(q) => task[q].user # u
    BY <2>1 DEF IndexInv
  <2>3. IF u \in Registered THEN p.email = EmailOf[u] ELSE state[u] = "absent"
    BY <1>0, <2>1 DEF MailInv, MailTask
  <2>4. state[u] # "absent" => p.email = profile[u].email
    BY <2>3 DEF MailInv
  <2>5. AfterUpsert(u) \in {"active", "deleted"}
    BY DEF AfterUpsert
  <2>6. /\ state' \in [Users -> {"absent", "active", "deleted"}]
        /\ \A v \in Users \ {u} : state'[v] = state[v]
        /\ state'[u] # "absent"
    BY <1>0, <2>1, <2>5 DEF UsersTypeOK
  <2> QED BY <2>1, <2>2, <2>3, <2>4, <2>6, MailWrites
<1>3. ASSUME NEW r \in Tasks, NEW x, Legal(r, x), Goto(r, x), UNCHANGED tableVars,
             x.stage \in {"refreshing", "storing", "storingEmail"} =>
               state[x.user] # "absent" /\ x.profile.email = profile[x.user].email,
             r \in Requests /\ x.stage = "committing" =>
               IF x.user \in Registered THEN x.profile.email = EmailOf[x.user]
                                        ELSE state[x.user] = "absent",
             \A e \in Emails : MailKey(e)'
      PROVE  MailInv'
  <2>1. task'[r] = x /\ \A q \in Tasks \ {r} : task'[q] = task[q]
    BY <1>3, GotoLegal
  <2>2. UNCHANGED <<state, profile>>
    BY <1>3 DEF tableVars
  <2>3. MailTask(r)'
    BY <1>3, <2>1, <2>2 DEF MailTask, Carries, Committing
  <2>4. \A q \in Tasks \ {r} : MailTask(q)'
    BY <2>1, <2>2 DEF MailInv, MailTask, Carries, Committing
  <2> QED BY <1>3, <2>2, <2>3, <2>4 DEF MailInv
<1>k. ASSUME UNCHANGED <<tableVars, emailKey>> PROVE \A e \in Emails : MailKey(e)'
  BY <1>k DEF MailInv, MailKey, tableVars
<1>4. ASSUME NEW r, NEW u, NEW p, NEW x, Enters(r, u, p, x) PROVE MailInv'
  BY <1>0, <1>3, <1>4, <1>k DEF Enters, cacheVars
<1>5. ASSUME NEW r, NEW u, NEW x, Reads(r, u, x) PROVE MailInv'
  BY <1>3, <1>5, <1>k DEF Reads, cacheVars
<1>6. ASSUME NEW r, NEW x, Quits(r, x) PROVE MailInv'
  BY <1>0, <1>3, <1>6, <1>k DEF Quits, cacheVars
<1>7. ASSUME NEW r \in Tasks, CacheStep(r) PROVE MailInv'
  <2>1. PICK x : Moves(r, x)
    BY <1>7, CacheMoves
  <2>2. Legal(r, x) /\ Goto(r, x) /\ x.stage \in {"idle", "storing", "storingEmail"}
        /\ (x.stage # "idle" => x.user = task[r].user /\ x.profile = task[r].profile /\ Carries(r))
    BY <2>1 DEF Moves, Carries
  <2>3. UNCHANGED tableVars
    BY <1>7, CacheTypes
  <2>4. x.stage # "idle" => state[x.user] # "absent" /\ x.profile.email = profile[x.user].email
    BY <2>2 DEF MailInv, MailTask
  <2>5. \A e \in Emails : MailKey(e)'
    <3>1. CASE SetEmailKey(r)
      <4>1. Carries(r) /\ emailKey' = [emailKey EXCEPT ![task[r].profile.email]
                                         = Entry(task[r].user, task[r].profile)]
        BY <3>1 DEF SetEmailKey, Carries, At
      <4>2. state[task[r].user] # "absent" /\ task[r].profile.email = profile[task[r].user].email
        BY <4>1 DEF MailInv, MailTask
      <4>3. \A e \in Emails : emailKey'[e] = emailKey[e] \/
              (e = task[r].profile.email /\ emailKey'[e].user = task[r].user)
        BY <1>0, <4>1 DEF UsersTypeOK, Entry
      <4> QED BY <2>3, <4>2, <4>3 DEF MailInv, MailKey, tableVars
    <3>2. CASE DropKeys(r) \/ DropMisspelt(r)
      <4>1. \A e \in Emails : emailKey'[e] \in {emailKey[e], Miss}
        BY <1>0, <3>2 DEF DropKeys, InvalidateCache, DropMisspelt, UsersTypeOK
      <4> QED BY <1>n, <2>3, <4>1 DEF MailInv, MailKey, tableVars
    <3>3. CASE UNCHANGED emailKey
      BY <1>k, <2>3, <3>3
    <3> QED BY <1>7, <3>1, <3>2, <3>3
            DEF CacheStep, SetIdKey, CacheFails, Abandon, DropIdKey, InvalidateCacheByID, cacheVars
  <2> QED BY <1>3, <2>2, <2>3, <2>4, <2>5
<1>8. CASE Crash
  <2>1. \A r \in Tasks : task'[r].stage = "idle"
    BY <1>8 DEF Crash, Idle, Doing
  <2> QED BY <1>8, <1>k, <2>1 DEF Crash, MailInv, MailTask, Carries, Committing, tableVars, cacheVars
<1>9. CASE Waits
  <2>1. UNCHANGED <<state, profile, task>> /\ \A e \in Emails : emailKey'[e] \in {emailKey[e], Miss}
    BY <1>9 DEF Waits, tableVars
  <2>2. \A e \in Emails : MailKey(e)'
    BY <1>n, <2>1 DEF MailInv, MailKey
  <2> QED BY <2>1, <2>2 DEF MailInv, MailTask, Carries, Committing
<1> QED BY <1>0, <1>1, <1>2, <1>4, <1>5, <1>6, <1>7, <1>8, <1>9 DEF Kinds

-----------------------------------------------------------------------------
(* The keys in Redis.                                                      *)

DueStages == {"dropping", "droppingId", "refreshing", "storing", "storingEmail"}

\* What is on its way to the cache about a user is as true as what is there.
Fresh(u) ==
    /\ idKey[u] # NoProfile /\ ~IdKeyDue(u) => state[u] = "active" /\ idKey[u] = profile[u]
    /\ \A e \in Emails : emailKey[e].user = u /\ ~EmailKeyDue(u) =>
         state[u] = "active" /\ emailKey[e].profile.name = profile[u].name
    /\ \A r \in Tasks : Carries(r) /\ task[r].user = u =>
         state[u] = "active" /\ task[r].profile = profile[u]

FreshInv == \A u \in Users \ excused : Fresh(u)

\* A step that ends nothing that is due about u and begins nothing untrue.
LEMMA FreshKept ==
  ASSUME NEW u \in Users, Fresh(u),
         state'[u] = state[u], profile'[u] = profile[u], idKey'[u] \in {idKey[u], NoProfile},
         \A e \in Emails : emailKey'[e] = emailKey[e] \/ emailKey'[e].user # u,
         NEW r \in Tasks, \A q \in Tasks \ {r} : task'[q] = task[q],
         task[r].user # u \/ task[r].stage \notin DueStages,
         task'[r].user = u /\ Carries(r)' => state[u] = "active" /\ task'[r].profile = profile[u]
  PROVE  Fresh(u)'
<1>1. /\ IdKeyDue(u) => IdKeyDue(u)'
      /\ EmailKeyDue(u) => EmailKeyDue(u)'
  BY DEF IdKeyDue, EmailKeyDue, DueStages
<1>2. \A q \in Tasks : Carries(q)' /\ task'[q].user = u =>
        state'[u] = "active" /\ task'[q].profile = profile'[u]
  BY DEF Fresh, Carries
<1> QED BY <1>1, <1>2 DEF Fresh

\* A write of a row nobody carries: its keys are due, or it leaves them true.
LEMMA FreshWrites ==
  ASSUME UsersTypeInv, FreshInv, NEW r, NEW u, NEW p, NEW x, Writes(r, u, p, x),
         task[r].stage \in {"idle", "committing"}, x.user = u,
         \A v \in Users \ {u} : state'[v] = state[v],
         \/ x.stage = "dropping"
         \/ x.stage \in {"refreshing", "storing"} /\ x.profile = p
            /\ (state'[u] = "active" \/ u \in excused')
         \/ x.stage = "droppingId" /\ p.name = profile[u].name /\ state'[u] = state[u]
  PROVE  FreshInv'
<1>0. r \in Requests /\ r \in Tasks /\ u \in Users /\ UNCHANGED <<idKey, emailKey>>
  BY RequestsAreTasks DEF Writes, cacheVars
<1>1. task'[r] = x /\ \A q \in Tasks \ {r} : task'[q] = task[q]
  BY <1>0, GotoLegal DEF Writes
<1>2. profile'[u] = p /\ \A v \in Users \ {u} : profile'[v] = profile[v]
  BY <1>0 DEF Writes, UsersTypeInv, UsersTypeOK
<1> SUFFICES ASSUME NEW v \in Users, v \notin excused' PROVE Fresh(v)'
  BY DEF FreshInv
<1>3. Fresh(v)
  BY DEF FreshInv, Writes
<1>4. CASE v # u
  BY <1>0, <1>1, <1>2, <1>3, <1>4, FreshKept DEF DueStages
<1>5. CASE v = u
  <2>1. Carrying(u) = {}
    BY <1>5 DEF Writes
  <2>2. \A q \in Tasks \ {r} : ~(Carries(q)' /\ task'[q].user = u)
    BY <1>1, <2>1 DEF Carrying, Carries
  <2>3. CASE x.stage = "dropping"
    <3>1. IdKeyDue(u)' /\ EmailKeyDue(u)' /\ ~Carries(r)'
      BY <1>0, <1>1, <2>3 DEF IdKeyDue, EmailKeyDue, Carries
    <3> QED BY <1>5, <2>2, <3>1 DEF Fresh
  <2>4. CASE x.stage \in {"refreshing", "storing"}
    <3>1. IdKeyDue(u)' /\ EmailKeyDue(u)'
      BY <1>0, <1>1, <2>4 DEF IdKeyDue, EmailKeyDue
    <3>2. task'[r].profile = profile'[u] /\ state'[u] = "active"
      BY <1>1, <1>2, <1>5, <2>4
    <3> QED BY <1>5, <2>2, <3>1, <3>2 DEF Fresh
  <2>5. CASE x.stage = "droppingId"
    <3>1. IdKeyDue(u)' /\ ~Carries(r)'
      BY <1>0, <1>1, <2>5 DEF IdKeyDue, Carries
    <3>2. EmailKeyDue(u) => EmailKeyDue(u)'
      BY <1>1 DEF EmailKeyDue
    <3>3. profile'[u].name = profile[u].name /\ state'[u] = state[u]
      BY <1>2, <2>5
    <3> QED BY <1>0, <1>3, <1>5, <2>2, <3>1, <3>2, <3>3 DEF Fresh
  <2> QED BY <2>3, <2>4, <2>5
<1> QED BY <1>4, <1>5

\* What a request puts into Redis, or takes from it, leaves the truth there.
LEMMA FreshMoves ==
  ASSUME UsersTypeInv, MailInv, FreshInv, NEW r \in Tasks,
         \/ SetIdKey(r) \/ SetEmailKey(r)
         \/ r \in Requests /\ (DropKeys(r) \/ DropIdKey(r))
  PROVE  FreshInv'
<1>0. UsersTypeOK /\ Legal(r, task[r]) /\ UNCHANGED <<excused, state, profile>>
  BY DEF UsersTypeInv, SetIdKey, SetEmailKey, DropKeys, DropIdKey, tableVars
<1>1. PICK x : Moves(r, x)
  BY CacheMoves DEF CacheStep
<1>2. task'[r] = x /\ \A q \in Tasks \ {r} : task'[q] = task[q]
  BY <1>1, GotoLegal DEF Moves
<1>3. PICK w \in Users : w = task[r].user
  BY <1>1 DEF Moves
<1>4. x.stage # "idle" => Carries(r) /\ x.user = w /\ x.profile = task[r].profile
  BY <1>1, <1>3 DEF Moves, Carries
<1>m. Miss.user = NoUser /\ NoUser \notin Users
  BY UserAssumption DEF Miss, Entry
<1> SUFFICES ASSUME NEW u \in Users, u \notin excused' PROVE Fresh(u)'
  BY DEF FreshInv
<1>5. Fresh(u)
  BY <1>0 DEF FreshInv
<1>6. ASSUME NEW q \in Tasks, Carries(q)', task'[q].user = u
      PROVE  state'[u] = "active" /\ task'[q].profile = profile'[u]
  <2>1. CASE q = r
    <3>1. x.stage # "idle"
      BY <1>2, <1>6, <2>1 DEF Carries
    <3> QED BY <1>0, <1>2, <1>3, <1>4, <1>5, <1>6, <2>1, <3>1 DEF Fresh
  <2>2. CASE q # r
    BY <1>0, <1>2, <1>5, <1>6, <2>2 DEF Fresh, Carries
  <2> QED BY <2>1, <2>2
<1>c. Carries(r) /\ u = w => state[u] = "active" /\ task[r].profile = profile[u]
  BY <1>3, <1>5 DEF Fresh
<1>d. u # w => /\ IdKeyDue(u) => IdKeyDue(u)'
               /\ EmailKeyDue(u) => EmailKeyDue(u)'
  BY <1>2, <1>3 DEF IdKeyDue, EmailKeyDue
<1>7. CASE SetIdKey(r)
  <2>1. task[r].stage = "storing" /\ idKey' = [idKey EXCEPT ![w] = task[r].profile] /\ UNCHANGED emailKey
    BY <1>3, <1>7 DEF SetIdKey, At
  <2>2. x.stage = "storingEmail"
    BY <1>0, <1>2, <1>7 DEF SetIdKey, Goto, Doing, UsersTypeOK
  <2>3. EmailKeyDue(u) => EmailKeyDue(u)'
    BY <1>2, <1>4, <1>3, <2>2 DEF EmailKeyDue
  <2>4. CASE u = w
    <3>1. idKey'[u] = profile[u] /\ state[u] = "active"
      BY <1>0, <1>c, <2>1, <2>4 DEF UsersTypeOK, Carries
    <3> QED BY <1>0, <1>5, <1>6, <2>1, <2>3, <3>1 DEF Fresh
  <2>5. CASE u # w
    <3>1. idKey'[u] = idKey[u]
      BY <1>0, <2>1, <2>5 DEF UsersTypeOK
    <3> QED BY <1>0, <1>5, <1>6, <1>d, <2>1, <2>5, <3>1 DEF Fresh
  <2> QED BY <2>4, <2>5
<1>8. CASE SetEmailKey(r)
  <2>1. /\ task[r].stage = "storingEmail" /\ UNCHANGED idKey
        /\ emailKey' = [emailKey EXCEPT ![task[r].profile.email] = Entry(w, task[r].profile)]
    BY <1>3, <1>8 DEF SetEmailKey, At
  <2>2. \A e \in Emails : IF e = task[r].profile.email THEN emailKey'[e] = Entry(w, task[r].profile)
                                                      ELSE emailKey'[e] = emailKey[e]
    BY <1>0, <2>1 DEF UsersTypeOK
  <2>3. IdKeyDue(u) => IdKeyDue(u)'
    BY <1>2, <2>1 DEF IdKeyDue
  <2>4. CASE u = w
    <3>1. task[r].profile = profile[u] /\ state[u] = "active"
      BY <1>c, <2>1, <2>4 DEF Carries
    <3>2. \A e \in Emails : emailKey'[e].user = u =>
            emailKey'[e].profile.name = profile[u].name
      <4> SUFFICES ASSUME NEW e \in Emails, emailKey'[e].user = u
                   PROVE  emailKey'[e].profile.name = profile[u].name
        OBVIOUS
      <4>1. CASE e = task[r].profile.email
        BY <2>2, <3>1, <4>1 DEF Entry
      <4>2. CASE e # task[r].profile.email
        <5>1. emailKey[e].user = u
          BY <2>2, <4>2
        <5>2. profile[u].email = e
          BY <5>1 DEF MailInv, MailKey
        <5> QED BY <3>1, <4>2, <5>2
      <4> QED BY <4>1, <4>2
    <3> QED BY <1>0, <1>5, <1>6, <2>1, <2>3, <3>1, <3>2 DEF Fresh
  <2>5. CASE u # w
    <3>1. \A e \in Emails : emailKey'[e].user = u => emailKey'[e] = emailKey[e]
      BY <2>2, <2>5 DEF Entry
    <3> QED BY <1>0, <1>5, <1>6, <1>d, <2>1, <2>5, <3>1 DEF Fresh
  <2> QED BY <2>4, <2>5
<1>9. CASE DropKeys(r)
  <2>1. /\ idKey' = [idKey EXCEPT ![w] = NoProfile]
        /\ emailKey' = [emailKey EXCEPT ![profile[w].email] = Miss]
    BY <1>3, <1>9 DEF DropKeys, InvalidateCache
  <2>2. \A e \in Emails : emailKey'[e] = emailKey[e] \/ emailKey'[e].user # u
    BY <1>0, <1>m, <2>1 DEF UsersTypeOK
  <2>3. CASE u = w
    <3>1. idKey'[u] = NoProfile
      BY <1>0, <2>1, <2>3 DEF UsersTypeOK
    <3>2. \A e \in Emails : emailKey'[e].user # u
      <4> SUFFICES ASSUME NEW e \in Emails, emailKey'[e].user = u PROVE FALSE
        OBVIOUS
      <4>1. emailKey'[e] = emailKey[e] /\ emailKey[e].user = u
        BY <2>2
      <4>2. profile[u].email = e
        BY <4>1 DEF MailInv, MailKey
      <4> QED BY <1>0, <1>m, <2>1, <2>3, <4>1, <4>2 DEF UsersTypeOK
    <3> QED BY <1>0, <1>6, <3>1, <3>2 DEF Fresh
  <2>4. CASE u # w
    <3>1. idKey'[u] = idKey[u]
      BY <1>0, <2>1, <2>4 DEF UsersTypeOK
    <3> QED BY <1>0, <1>5, <1>6, <1>d, <2>2, <2>4, <3>1 DEF Fresh
  <2> QED BY <2>3, <2>4
<1>10. CASE DropIdKey(r)
  <2>1. idKey' = [idKey EXCEPT ![w] = NoProfile] /\ UNCHANGED emailKey /\ task[r].stage = "droppingId"
    BY <1>3, <1>10 DEF DropIdKey, InvalidateCacheByID, At
  <2>2. EmailKeyDue(u) => EmailKeyDue(u)'
    BY <1>2, <2>1 DEF EmailKeyDue
  <2>3. CASE u = w
    <3>1. idKey'[u] = NoProfile
      BY <1>0, <2>1, <2>3 DEF UsersTypeOK
    <3> QED BY <1>0, <1>5, <1>6, <2>1, <2>2, <3>1 DEF Fresh
  <2>4. CASE u # w
    <3>1. idKey'[u] = idKey[u]
      BY <1>0, <2>1, <2>4 DEF UsersTypeOK
    <3> QED BY <1>0, <1>5, <1>6, <1>d, <2>1, <2>4, <3>1 DEF Fresh
  <2> QED BY <2>3, <2>4
<1> QED BY <1>7, <1>8, <1>9, <1>10

LEMMA NextFresh == UsersTypeInv /\ MailInv /\ FreshInv /\ [UsersNext]_userVars => FreshInv'
<1> SUFFICES ASSUME UsersTypeInv, MailInv, FreshInv, Kinds PROVE FreshInv'
  BY StepKinds
<1>0. UsersTypeOK /\ Requests \subseteq Tasks
  BY RequestsAreTasks DEF UsersTypeInv
<1>i. Idle.stage = "idle"
  BY DEF Idle, Doing
<1>1. ASSUME NEW r, NEW u, NEW p, NEW x, Updates(r, u, p, x) PROVE FreshInv'
  <2>1. /\ Writes(r, u, p, x) /\ u \in Users /\ x.user = u /\ task[r].stage = "idle"
        /\ state[u] = "active" /\ (UNCHANGED state \/ state' = [state EXCEPT ![u] = "deleted"])
        /\ \/ x.stage = "refreshing" /\ x.profile = p /\ UNCHANGED state
           \/ x.stage = "droppingId" /\ p.name = profile[u].name /\ UNCHANGED state
           \/ x.stage = "dropping"
    BY <1>i, <1>1 DEF Updates, Writes
  <2>2. \A v \in Users \ {u} : state'[v] = state[v]
    BY <1>0, <2>1 DEF UsersTypeOK
  <2> QED BY <2>1, <2>2, FreshWrites
<1>2. ASSUME NEW r, NEW u, NEW p, NEW x, Commits(r, u, p, x) PROVE FreshInv'
  <2>1. /\ Writes(r, u, p, x) /\ u \in Users /\ x.user = u /\ task[r].stage = "committing"
        /\ x.stage = "storing" /\ x.profile = p /\ (state[u] = "deleted" => u \in excused')
        /\ state' = [state EXCEPT ![u] = AfterUpsert(u)]
    BY <1>2 DEF Commits, Writes
  <2>2. \A v \in Users \ {u} : state'[v] = state[v]
    BY <1>0, <2>1 DEF UsersTypeOK
  <2>3. state'[u] = "active" \/ u \in excused'
    BY <1>0, <2>1 DEF UsersTypeOK, AfterUpsert
  <2> QED BY <2>1, <2>2, <2>3, FreshWrites
<1>3. ASSUME NEW r \in Tasks, NEW x, Legal(r, x), Goto(r, x), UNCHANGED <<tableVars, cacheVars>>,
             task[r].stage \notin DueStages, excused \subseteq excused',
             x.stage \in {"refreshing", "storing", "storingEmail"} =>
               x.profile = profile[x.user] /\ (state[x.user] = "active" \/ x.user \in excused')
      PROVE  FreshInv'
  <2>1. task'[r] = x /\ \A q \in Tasks \ {r} : task'[q] = task[q]
    BY <1>3, GotoLegal
  <2> SUFFICES ASSUME NEW u \in Users, u \notin excused' PROVE Fresh(u)'
    BY DEF FreshInv
  <2>2. Fresh(u)
    BY <1>3 DEF FreshInv
  <2>3. UNCHANGED <<state, profile, idKey, emailKey>>
    BY <1>3 DEF tableVars, cacheVars
  <2>4. task'[r].user = u /\ Carries(r)' => state[u] = "active" /\ task'[r].profile = profile[u]
    BY <1>3, <2>1 DEF Carries
  <2> QED BY <1>3, <2>1, <2>2, <2>3, <2>4, FreshKept
<1>4. ASSUME NEW r, NEW u, NEW p, NEW x, Enters(r, u, p, x) PROVE FreshInv'
  BY <1>0, <1>3, <1>4 DEF Enters, DueStages
<1>5. ASSUME NEW r, NEW u, NEW x, Reads(r, u, x) PROVE FreshInv'
  BY <1>i, <1>3, <1>5 DEF Reads, DueStages
<1>6. ASSUME NEW r, NEW x, Quits(r, x) PROVE FreshInv'
  BY <1>0, <1>3, <1>6 DEF Quits, DueStages
<1>7. ASSUME NEW r \in Tasks, CacheFails(r) \/ Abandon(r) \/ (r \in Requests /\ DropMisspelt(r))
      PROVE  FreshInv'
  <2>1. PICK x : Moves(r, x)
    BY <1>7, CacheMoves DEF CacheStep
  <2>2. task'[r] = x /\ \A q \in Tasks \ {r} : task'[q] = task[q]
    BY <1>7, <2>1, GotoLegal DEF Moves
  <2>3. /\ UNCHANGED <<state, profile, idKey>> /\ excused' = excused \union {task[r].user}
        /\ \A e \in Emails : emailKey'[e] = emailKey[e] \/ emailKey'[e].user \notin Users
    <3>1. CASE CacheFails(r) \/ Abandon(r)
      BY <3>1 DEF CacheFails, Abandon, tableVars, cacheVars
    <3>2. CASE DropMisspelt(r)
      <4>1. Miss.user \notin Users
        BY UserAssumption DEF Miss, Entry
      <4>2. \A e \in Emails : emailKey'[e] \in {emailKey[e], Miss}
        BY <1>0, <3>2 DEF DropMisspelt, UsersTypeOK
      <4> QED BY <3>2, <4>1, <4>2 DEF DropMisspelt, tableVars
    <3> QED BY <1>7, <3>1, <3>2
  <2>4. Carries(r)' => task'[r].user = task[r].user
    BY <2>1, <2>2 DEF Moves, Carries
  <2> SUFFICES ASSUME NEW u \in Users, u \notin excused' PROVE Fresh(u)'
    BY DEF FreshInv
  <2>5. Fresh(u) /\ task[r].user # u
    BY <2>3 DEF FreshInv
  <2> QED BY <1>7, <2>2, <2>3, <2>4, <2>5, FreshKept
<1>8. CASE Crash
  <2>1. /\ UNCHANGED <<state, profile, idKey, emailKey>> /\ excused' = excused \union Touched
        /\ \A r \in Tasks : task'[r].stage = "idle"
    BY <1>i, <1>8 DEF Crash, tableVars, cacheVars
  <2> SUFFICES ASSUME NEW u \in Users, u \notin excused' PROVE Fresh(u)'
    BY DEF FreshInv
  <2>2. Fresh(u) /\ u \notin Touched
    BY <2>1 DEF FreshInv
  <2>3. ~IdKeyDue(u) /\ ~EmailKeyDue(u)
    BY <2>2 DEF IdKeyDue, EmailKeyDue, Touched, Unsettled
  <2> QED BY <2>1, <2>2, <2>3 DEF Fresh, Carries
<1>9. CASE Waits
  <2>1. UNCHANGED <<state, profile, task, excused>>
    BY <1>9 DEF Waits, tableVars
  <2>2. \A e \in Emails : emailKey'[e] = emailKey[e] \/ emailKey'[e].user \notin Users
    BY <1>9, UserAssumption DEF Waits, Miss, Entry
  <2> SUFFICES ASSUME NEW u \in Users, u \notin excused' PROVE Fresh(u)'
    BY DEF FreshInv
  <2>3. Fresh(u) /\ idKey'[u] \in {idKey[u], NoProfile}
    BY <1>9, <2>1 DEF FreshInv, Waits
  <2> QED BY <2>1, <2>2, <2>3 DEF Fresh, Carries, IdKeyDue, EmailKeyDue
<1> QED BY <1>0, <1>1, <1>2, <1>4, <1>5, <1>6, <1>7, <1>8, <1>9, FreshMoves DEF Kinds, CacheStep

\* Both keys of a profile tell what its row says, but for the stale ways that
\* CacheFresh names.
THEOREM CacheFreshHolds == UsersSpec => []CacheFresh
<1>1. UsersInit => IndexInv /\ MailInv /\ FreshInv
  <2> SUFFICES ASSUME UsersInit PROVE IndexInv /\ MailInv /\ FreshInv
    OBVIOUS
  <2>1. \A r \in Tasks : task[r].stage = "idle"
    BY DEF UsersInit, Idle, Doing
  <2>2. \A e \in Emails : emailKey[e].user \notin Users
    BY UserAssumption DEF UsersInit, Miss, Entry
  <2>3. \A u \in Users : state[u] = "absent" /\ idKey[u] = NoProfile
    BY DEF UsersInit
  <2>4. IndexInv
    BY <2>1, <2>3, RequestsAreTasks DEF IndexInv, UniqueActiveEmail, Committing, Entering
  <2>5. MailInv
    BY <2>1, <2>2, <2>3, UserAssumption DEF MailInv, MailTask, MailKey, Carries, Committing
  <2> QED BY <2>1, <2>2, <2>3, <2>4, <2>5 DEF FreshInv, Fresh, Carries
<1>2. MailInv /\ FreshInv => CacheFresh
  BY DEF MailInv, MailKey, FreshInv, Fresh, CacheFresh
<1> QED BY <1>1, <1>2, InitUsersTypes, NextUsersTypes, NextIndex, NextMail, NextFresh, PTL DEF UsersSpec
=============================================================================
