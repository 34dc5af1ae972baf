--------------------------------- MODULE Auth ---------------------------------
(***************************************************************************)
(* auth-service: accounts in Postgres, the verification and reset links    *)
(* kept in Redis, refresh tokens ("sessions") in Postgres, and the requests *)
(* that work on them one statement at a time.                              *)
(*                                                                         *)
(* A request that is refused by its first read changes nothing and has no  *)
(* step.  Accounts are never deleted.  Access tokens are not stored: they  *)
(* and ValidateToken and GetSession, which only decode one, are left out.  *)
(***************************************************************************)
EXTENDS Naturals, FiniteSets

CONSTANTS
    Requests, Users, Emails, Sessions,
    VerifyLinks, ResetLinks,   \* the tokens under verify: and reset:
    Passwords,   \* those of at least eight bytes
    Strong,      \* those that ValidatePassword accepts
    Trimmed,     \* strings.TrimSpace of each password
    NoUser, NoEmail, NoPassword, NoLink, NoSession,
    MaxFaults    \* bound on the faults of a behaviour

ASSUME AuthAssumption ==
    /\ NoUser \notin Users /\ NoEmail \notin Emails /\ NoPassword \notin Passwords
    /\ VerifyLinks \intersect ResetLinks = {}
    /\ NoLink \notin VerifyLinks \union ResetLinks /\ NoSession \notin Sessions
    /\ Strong \subseteq Passwords
    /\ Trimmed \in [Passwords -> Passwords]
    /\ MaxFaults \in Nat

VARIABLES
    email,      \* column of auth_users, NoEmail before the INSERT
    password,   \* the password whose hash is in the row
    verified,   \* the users with is_verified
    link,       \* a key of Redis: its state and the user id it holds
    session,    \* a row of refresh_tokens
    owner,      \* its user
    published,  \* history: the links of the user.registered events of each e-mail
    honoured,   \* history: the links whose effect has been written
    family,     \* history: the session of the login each session descends from
    forked,     \* history: the families of which two refreshes overlapped, or a
                \* revocation has failed
    request,    \* what each request is doing
    faults      \* how many faults have struck

accountVars == <<email, password, verified>>
linkVars == <<link, honoured>>
sessionVars == <<session, owner, family, forked>>
authVars == <<accountVars, linkVars, sessionVars, published, request, faults>>

-----------------------------------------------------------------------------
Links == VerifyLinks \union ResetLinks

\* Where a request is: the statement it executes next.
Stages ==
    {"idle",
     "inserting", "linking", "announcing",   \* Register
     "opening",                              \* Login
     "revoking", "renewing",                 \* RefreshToken
     "verifying",                            \* VerifyEmail
     "issuing",                              \* ForgotPassword
     "resetting",                            \* ResetPassword
     "closing",                              \* the DEL of VerifyEmail and ResetPassword
     "changing"}                             \* ChangePassword

Doing(stage, u, e, p, l, s) ==
    [stage |-> stage, user |-> u, email |-> e, password |-> p, link |-> l, session |-> s]

Idle == Doing("idle", NoUser, NoEmail, NoPassword, NoLink, NoSession)

RequestRecords ==
    [stage : Stages, user : Users \union {NoUser}, email : Emails \union {NoEmail},
     password : Passwords \union {NoPassword}, link : Links \union {NoLink},
     session : Sessions \union {NoSession}]

LinkRecords ==
    [state : {"unused", "stored", "expired", "deleted"}, user : Users \union {NoUser}]

AuthTypeOK ==
    /\ email \in [Users -> Emails \union {NoEmail}]
    /\ password \in [Users -> Passwords \union {NoPassword}]
    /\ verified \subseteq Users
    /\ link \in [Links -> LinkRecords]
    /\ session \in [Sessions -> {"unused", "live", "expired", "revoked"}]
    /\ owner \in [Sessions -> Users \union {NoUser}]
    /\ published \in [Emails -> SUBSET Links]
    /\ honoured \subseteq Links
    /\ family \in [Sessions -> Sessions \union {NoSession}]
    /\ forked \subseteq Sessions
    /\ request \in [Requests -> RequestRecords]
    /\ faults \in Nat

AuthInit ==
    /\ email = [u \in Users |-> NoEmail]
    /\ password = [u \in Users |-> NoPassword]
    /\ verified = {}
    /\ link = [l \in Links |-> [state |-> "unused", user |-> NoUser]]
    /\ session = [s \in Sessions |-> "unused"]
    /\ owner = [s \in Sessions |-> NoUser]
    /\ published = [e \in Emails |-> {}]
    /\ honoured = {}
    /\ family = [s \in Sessions |-> NoSession]
    /\ forked = {}
    /\ request = [r \in Requests |-> Idle]
    /\ faults = 0

At(r, stage) == request[r].stage = stage
Goto(r, what) == request' = [request EXCEPT ![r] = what]
Finish(r) == Goto(r, Idle)

-----------------------------------------------------------------------------
(* The statements of the repository.                                       *)

\* Faulty variant: a table without the UNIQUE constraint on the e-mail.
EmailAlwaysFree(e) == TRUE

EmailFree(e) == \A u \in Users : email[u] # e

InsertUser(u, e, p) ==
    /\ email[u] = NoEmail
    /\ email' = [email EXCEPT ![u] = e]
    /\ password' = [password EXCEPT ![u] = p]
    /\ UNCHANGED verified

GetUserByEmail(u, e) == email[u] = e

GetUserByID(u) == email[u] # NoEmail

SetVerified(u) == verified' = verified \union {u} /\ UNCHANGED <<email, password>>

UpdatePassword(u, p) ==
    password' = [password EXCEPT ![u] = p] /\ UNCHANGED <<email, verified>>

StoreTempToken(l, u) ==
    /\ link[l].state = "unused"
    /\ link' = [link EXCEPT ![l] = [state |-> "stored", user |-> u]]

GetTempToken(l) == link[l].state = "stored"

\* DEL of a key that has expired is no error.
DeleteTempToken(l) ==
    link' = IF link[l].state = "stored"
              THEN [link EXCEPT ![l] = [state |-> "deleted", user |-> link[l].user]]
              ELSE link

InsertSession(s, u, root) ==
    /\ session[s] = "unused"
    /\ session' = [session EXCEPT ![s] = "live"]
    /\ owner' = [owner EXCEPT ![s] = u]
    /\ family' = [family EXCEPT ![s] = root]

\* Neither revoked nor past its expiry.
FindRefreshToken(s) == session[s] = "live"

\* Faulty variant: a state that no read knows.
RevokedUnknown(S) ==
    [s \in Sessions |-> IF s \in S /\ session[s] # "unused" THEN "closed" ELSE session[s]]

\* UPDATE ... WHERE revoked_at IS NULL.
Revoked(S) ==
    [s \in Sessions |-> IF s \in S /\ session[s] # "unused" THEN "revoked" ELSE session[s]]

\* Faulty variant: the row keeps revoked_at NULL.
NotRevoked(s) == session

RevokedOne(s) == Revoked({s})

-----------------------------------------------------------------------------
(* Register.                                                               *)

BeginRegister(r, e, p) ==
    /\ request[r] = Idle /\ Trimmed[p] \in Strong
    /\ Goto(r, Doing("inserting", NoUser, e, Trimmed[p], NoLink, NoSession))
    /\ UNCHANGED <<accountVars, linkVars, sessionVars, published, faults>>

CreateUser(r, u) ==
    /\ At(r, "inserting")
    /\ EmailFree(request[r].email)
    /\ InsertUser(u, request[r].email, request[r].password)
    /\ Goto(r, Doing("linking", u, request[r].email, NoPassword, NoLink, NoSession))
    /\ UNCHANGED <<linkVars, sessionVars, published, faults>>

EmailTaken(r) ==
    /\ At(r, "inserting")
    /\ ~EmailFree(request[r].email)
    /\ Finish(r)
    /\ UNCHANGED <<accountVars, linkVars, sessionVars, published, faults>>

\* Faulty variant: the link is not stored.
StoredNot(r, l) == UNCHANGED link

Stored(r, l) == StoreTempToken(l, request[r].user)

StoreVerificationToken(r, l) ==
    /\ At(r, "linking")
    /\ Stored(r, l)
    /\ Goto(r, Doing("announcing", request[r].user, request[r].email, NoPassword, l, NoSession))
    /\ UNCHANGED <<accountVars, honoured, sessionVars, published, faults>>

Published(r) ==
    published' = [published EXCEPT ![request[r].email] = @ \union {request[r].link}]

\* PublishUserRegistered, with which Register returns.
PublishUserRegistered(r) ==
    /\ At(r, "announcing")
    /\ Published(r)
    /\ Finish(r)
    /\ UNCHANGED <<accountVars, linkVars, sessionVars, faults>>

-----------------------------------------------------------------------------
(* Login, RefreshToken, Logout, RevokeAllSessions.                         *)

\* The row is read and the password, which Validate trims, is compared.
Login(r, e, p) ==
    /\ request[r] = Idle
    /\ \E u \in Users :
         /\ GetUserByEmail(u, e) /\ password[u] = Trimmed[p]
         /\ Goto(r, Doing("opening", u, NoEmail, NoPassword, NoLink, NoSession))
    /\ UNCHANGED <<accountVars, linkVars, sessionVars, published, faults>>

CreateRefreshToken(r, s) ==
    /\ At(r, "opening")
    /\ InsertSession(s, request[r].user, s)
    /\ Finish(r)
    /\ UNCHANGED <<accountVars, linkVars, forked, published, faults>>

\* The requests that are refreshing a session of the family.
Refreshing(root) ==
    {r \in Requests : /\ request[r].stage \in {"revoking", "renewing"}
                      /\ family[request[r].session] = root}

\* FindRefreshToken and GetUserByID: two reads, of which only the first can
\* find something that changes.
BeginRefresh(r, s) ==
    /\ request[r] = Idle
    /\ FindRefreshToken(s) /\ GetUserByID(owner[s])
    /\ Goto(r, Doing("revoking", owner[s], NoEmail, NoPassword, NoLink, s))
    /\ forked' = IF Refreshing(family[s]) = {} THEN forked ELSE forked \union {family[s]}
    /\ UNCHANGED <<accountVars, linkVars, session, owner, family, published, faults>>

\* It does not matter whether the token is still live.
RevokeRefreshToken(r) ==
    /\ At(r, "revoking")
    /\ session' = RevokedOne(request[r].session)
    /\ Goto(r, Doing("renewing", request[r].user, NoEmail, NoPassword, NoLink, request[r].session))
    /\ UNCHANGED <<accountVars, linkVars, owner, family, forked, published, faults>>

\* The access token that is made last is not stored.
RefreshToken(r, s) ==
    /\ At(r, "renewing")
    /\ InsertSession(s, request[r].user, family[request[r].session])
    /\ Finish(r)
    /\ UNCHANGED <<accountVars, linkVars, forked, published, faults>>

Logout(s) ==
    /\ session[s] # "unused"
    /\ session' = Revoked({s})
    /\ UNCHANGED <<accountVars, linkVars, owner, family, forked, published, request, faults>>

RevokeAllSessions(u) ==
    /\ session' = Revoked({s \in Sessions : owner[s] = u})
    /\ UNCHANGED <<accountVars, linkVars, owner, family, forked, published, request, faults>>

SessionExpires(s) ==
    /\ session[s] = "live"
    /\ session' = [session EXCEPT ![s] = "expired"]
    /\ UNCHANGED <<accountVars, linkVars, owner, family, forked, published, request, faults>>

-----------------------------------------------------------------------------
(* VerifyEmail.                                                            *)

BeginVerifyEmail(r, l) ==
    /\ request[r] = Idle /\ GetTempToken(l)
    /\ Goto(r, Doing("verifying", link[l].user, NoEmail, NoPassword, l, NoSession))
    /\ UNCHANGED <<accountVars, linkVars, sessionVars, published, faults>>

\* Faulty variant: the outcome of the UPDATE is not looked at.
MarkVerifiedOrNot(r) ==
    /\ At(r, "verifying")
    /\ Goto(r, Doing("closing", NoUser, NoEmail, NoPassword, request[r].link, NoSession))
    /\ UNCHANGED <<accountVars, linkVars, sessionVars, published, faults>>

MarkVerified(r) ==
    /\ At(r, "verifying")
    /\ SetVerified(request[r].user)
    /\ honoured' = honoured \union {request[r].link}
    /\ Goto(r, Doing("closing", NoUser, NoEmail, NoPassword, request[r].link, NoSession))
    /\ UNCHANGED <<link, sessionVars, published, faults>>

DeleteLink(r) ==
    /\ At(r, "closing")
    /\ DeleteTempToken(request[r].link)
    /\ Finish(r)
    /\ UNCHANGED <<accountVars, honoured, sessionVars, published, faults>>

-----------------------------------------------------------------------------
(* ForgotPassword, ResetPassword, ChangePassword.                          *)

ForgotPassword(r, e) ==
    /\ request[r] = Idle
    /\ \E u \in Users :
         /\ GetUserByEmail(u, e)
         /\ Goto(r, Doing("issuing", u, NoEmail, NoPassword, NoLink, NoSession))
    /\ UNCHANGED <<accountVars, linkVars, sessionVars, published, faults>>

StorePasswordResetToken(r, l) ==
    /\ At(r, "issuing")
    /\ StoreTempToken(l, request[r].user)
    /\ Finish(r)
    /\ UNCHANGED <<accountVars, honoured, sessionVars, published, faults>>

\* The new password is neither trimmed nor asked to be strong.
BeginResetPassword(r, l, p) ==
    /\ request[r] = Idle /\ GetTempToken(l)
    /\ Goto(r, Doing("resetting", link[l].user, NoEmail, p, l, NoSession))
    /\ UNCHANGED <<accountVars, linkVars, sessionVars, published, faults>>

ResetPassword(r) ==
    /\ At(r, "resetting")
    /\ UpdatePassword(request[r].user, request[r].password)
    /\ honoured' = honoured \union {request[r].link}
    /\ Goto(r, Doing("closing", NoUser, NoEmail, NoPassword, request[r].link, NoSession))
    /\ UNCHANGED <<link, sessionVars, published, faults>>

\* The old password is compared as it is in the row now.
BeginChangePassword(r, u, old, new) ==
    /\ request[r] = Idle
    /\ GetUserByID(u) /\ password[u] = old
    /\ Goto(r, Doing("changing", u, NoEmail, new, NoLink, NoSession))
    /\ UNCHANGED <<accountVars, linkVars, sessionVars, published, faults>>

ChangePassword(r) ==
    /\ At(r, "changing")
    /\ UpdatePassword(request[r].user, request[r].password)
    /\ Finish(r)
    /\ UNCHANGED <<linkVars, sessionVars, published, faults>>

-----------------------------------------------------------------------------
(* Time and faults.                                                        *)

\* The TTL of the key ends, or Redis loses it.
LinkExpires(l) ==
    /\ link[l].state = "stored"
    /\ link' = [link EXCEPT ![l] = [state |-> "expired", user |-> link[l].user]]
    /\ UNCHANGED <<accountVars, honoured, sessionVars, published, request, faults>>

Strike == faults < MaxFaults /\ faults' = faults + 1

\* A statement fails, or the client goes away, and the request returns the
\* error; what it has done before is not undone.  A statement that is executed
\* and whose reply is lost is its step followed by this one.
RequestFails(r) ==
    /\ Strike /\ ~At(r, "idle") /\ ~At(r, "revoking")
    /\ Finish(r)
    /\ UNCHANGED <<accountVars, linkVars, sessionVars, published>>

\* The outcome of RevokeRefreshToken is not looked at.
RevokeFails(r) ==
    /\ Strike /\ At(r, "revoking")
    /\ Goto(r, Doing("renewing", request[r].user, NoEmail, NoPassword, NoLink, request[r].session))
    /\ forked' = forked \union {family[request[r].session]}
    /\ UNCHANGED <<accountVars, linkVars, session, owner, family, published>>

\* The process dies and restarts: Postgres and Redis remain.
Crash ==
    /\ Strike
    /\ request' = [r \in Requests |-> Idle]
    /\ UNCHANGED <<accountVars, linkVars, sessionVars, published>>

-----------------------------------------------------------------------------
Registering(r) ==
    \/ \E u \in Users : CreateUser(r, u)
    \/ EmailTaken(r)
    \/ \E l \in VerifyLinks : StoreVerificationToken(r, l)
    \/ PublishUserRegistered(r)

Accounting(r) ==
    \/ \E e \in Emails, p \in Passwords : BeginRegister(r, e, p)
    \/ \E l \in VerifyLinks : BeginVerifyEmail(r, l)
    \/ \E l \in ResetLinks : StorePasswordResetToken(r, l)
    \/ \E l \in ResetLinks, p \in Passwords : BeginResetPassword(r, l, p)
    \/ \E e \in Emails : ForgotPassword(r, e)
    \/ \E u \in Users, old, new \in Passwords : BeginChangePassword(r, u, old, new)
    \/ MarkVerified(r) \/ DeleteLink(r) \/ ResetPassword(r) \/ ChangePassword(r)

Signing(r) ==
    \/ \E e \in Emails, p \in Passwords : Login(r, e, p)
    \/ \E s \in Sessions : CreateRefreshToken(r, s) \/ BeginRefresh(r, s) \/ RefreshToken(r, s)
    \/ RevokeRefreshToken(r)

AuthNext ==
    \/ \E r \in Requests : Registering(r) \/ Accounting(r) \/ Signing(r)
    \/ \E s \in Sessions : Logout(s) \/ SessionExpires(s)
    \/ \E u \in Users : RevokeAllSessions(u)
    \/ \E l \in Links : LinkExpires(l)
    \/ \E r \in Requests : RequestFails(r) \/ RevokeFails(r)
    \/ Crash

AuthSpec == AuthInit /\ [][AuthNext]_authVars

-----------------------------------------------------------------------------
(* Properties.                                                             *)

\* However many registrations of one e-mail run at once, one of them is
\* announced, so that one profile is made and one mail of welcome is sent.
WelcomedOnce == \A e \in Emails : Cardinality(published[e]) <= 1

\* The link in the event works when the event is out: Redis has, or had, it,
\* and the account that it names exists under that e-mail.
WelcomeLinkWorks ==
    \A e \in Emails : \A l \in published[e] :
        /\ link[l].state # "unused"
        /\ link[l].user \in Users /\ email[link[l].user] = e

\* No link is spent in vain: whatever fails between the read of a link and
\* its deletion, a link that is deleted has had its effect.
SpentForGood == \A l \in Links : link[l].state = "deleted" => l \in honoured

\* Rotation: of all the refresh tokens that descend from one login at most
\* one is live, unless two refreshes overlapped or a revocation failed.
OneLivePerLogin ==
    \A s, t \in Sessions :
        /\ session[s] = "live" /\ session[t] = "live"
        /\ family[s] = family[t] /\ family[s] \notin forked
        => s = t
=============================================================================
