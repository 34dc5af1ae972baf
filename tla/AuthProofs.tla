------------------------------ MODULE AuthProofs ------------------------------
(***************************************************************************)
(* For every number of requests, accounts, links, sessions and faults: the *)
(* types of Auth and its four invariants.                                  *)
(***************************************************************************)
EXTENDS Auth, FiniteSetTheorems, TLAPS

-----------------------------------------------------------------------------
(* Types, with what a request knows by where it is.                        *)

Legal(x) ==
    /\ x \in RequestRecords
    /\ x.stage = "idle" => x = Idle
    /\ x.stage \in {"linking", "announcing", "opening", "revoking", "renewing", "verifying",
                    "issuing", "resetting", "changing"} => x.user \in Users
    /\ x.stage \in {"inserting", "linking", "announcing"} => x.email \in Emails
    /\ x.stage \in {"inserting", "resetting", "changing"} => x.password \in Passwords
    /\ x.stage \in {"announcing", "verifying", "resetting", "closing"} => x.link \in Links
    /\ x.stage \in {"revoking", "renewing"} => x.session \in Sessions

LinksTyped == \A l \in Links : link[l].state # "unused" => link[l].user \in Users

SessionsTyped ==
    /\ \A s \in Sessions : session[s] # "unused" => owner[s] \in Users /\ family[s] \in Sessions
    /\ \A r \in Requests : request[r].stage \in {"revoking", "renewing"} =>
         session[request[r].session] # "unused"

AuthTypeInv ==
    /\ AuthTypeOK
    /\ \A r \in Requests : Legal(request[r])
    /\ LinksTyped
    /\ SessionsTyped

LEMMA IdleIsLegal == Legal(Idle) /\ Idle.stage = "idle"
  BY DEF Legal, Idle, Doing, RequestRecords, Stages

\* What a request may become.
LEMMA LegalRequests ==
  /\ \A e \in Emails, p \in Passwords :
       Legal(Doing("inserting", NoUser, e, p, NoLink, NoSession))
  /\ \A u \in Users, e \in Emails :
       Legal(Doing("linking", u, e, NoPassword, NoLink, NoSession))
  /\ \A u \in Users, e \in Emails, l \in Links :
       Legal(Doing("announcing", u, e, NoPassword, l, NoSession))
  /\ \A u \in Users : /\ Legal(Doing("opening", u, NoEmail, NoPassword, NoLink, NoSession))
                      /\ Legal(Doing("issuing", u, NoEmail, NoPassword, NoLink, NoSession))
  /\ \A u \in Users, s \in Sessions :
       /\ Legal(Doing("revoking", u, NoEmail, NoPassword, NoLink, s))
       /\ Legal(Doing("renewing", u, NoEmail, NoPassword, NoLink, s))
  /\ \A u \in Users, l \in Links : Legal(Doing("verifying", u, NoEmail, NoPassword, l, NoSession))
  /\ \A l \in Links : Legal(Doing("closing", NoUser, NoEmail, NoPassword, l, NoSession))
  /\ \A u \in Users, p \in Passwords, l \in Links :
       Legal(Doing("resetting", u, NoEmail, p, l, NoSession))
  /\ \A u \in Users, p \in Passwords :
       Legal(Doing("changing", u, NoEmail, p, NoLink, NoSession))
  BY DEF Legal, Doing, RequestRecords, Stages

\* Request r, and no other, becomes x.
Becomes(r, x) == r \in Requests /\ Legal(x) /\ Goto(r, x)

LEMMA BecomesLegal ==
  ASSUME AuthTypeInv, NEW r, NEW x, Becomes(r, x)
  PROVE  /\ request' \in [Requests -> RequestRecords]
         /\ request'[r] = x
         /\ \A q \in Requests \ {r} : request'[q] = request[q]
         /\ \A q \in Requests : Legal(request'[q])
  BY DEF Becomes, Goto, Legal, AuthTypeInv, AuthTypeOK

LEMMA RequestLegal ==
  ASSUME AuthTypeInv, NEW r \in Requests
  PROVE  Legal(request[r])
  BY DEF AuthTypeInv

-----------------------------------------------------------------------------
(* The steps, by what they do to a request.                                *)

LEMMA FinishBecomes ==
  ASSUME NEW r \in Requests, Finish(r)
  PROVE  Becomes(r, Idle)
  BY IdleIsLegal DEF Finish, Becomes

LEMMA RegisteringSteps ==
  ASSUME AuthTypeInv, NEW r \in Requests
  PROVE  /\ \A u \in Users : CreateUser(r, u) =>
              \E x : Becomes(r, x) /\ x.stage = "linking" /\ x.user = u /\ x.email = request[r].email
         /\ EmailTaken(r) => Becomes(r, Idle)
         /\ \A l \in VerifyLinks : StoreVerificationToken(r, l) =>
              \E x : Becomes(r, x) /\ x.stage = "announcing" /\ x.user = request[r].user
                     /\ x.email = request[r].email /\ x.link = l
         /\ PublishUserRegistered(r) => Becomes(r, Idle)
<1>0. Legal(request[r])
  BY RequestLegal
<1>1. ASSUME NEW u \in Users, CreateUser(r, u)
      PROVE  \E x : Becomes(r, x) /\ x.stage = "linking" /\ x.user = u /\ x.email = request[r].email
  <2>1. PICK e \in Emails : e = request[r].email
    BY <1>0, <1>1 DEF CreateUser, At, Legal
  <2> DEFINE x == Doing("linking", u, e, NoPassword, NoLink, NoSession)
  <2>2. Legal(x) /\ x.stage = "linking" /\ x.user = u /\ x.email = e
    BY LegalRequests DEF Doing
  <2>3. Goto(r, x)
    BY <1>1, <2>1 DEF CreateUser
  <2> HIDE DEF x
  <2> QED BY <2>1, <2>2, <2>3 DEF Becomes
<1>2. ASSUME NEW l \in VerifyLinks, StoreVerificationToken(r, l)
      PROVE  \E x : Becomes(r, x) /\ x.stage = "announcing" /\ x.user = request[r].user
                    /\ x.email = request[r].email /\ x.link = l
  <2>1. PICK u \in Users, e \in Emails : u = request[r].user /\ e = request[r].email
    BY <1>0, <1>2 DEF StoreVerificationToken, At, Legal
  <2> DEFINE x == Doing("announcing", u, e, NoPassword, l, NoSession)
  <2>2. Legal(x) /\ x.stage = "announcing" /\ x.user = u /\ x.email = e /\ x.link = l
    BY LegalRequests DEF Doing, Links
  <2>3. Goto(r, x)
    BY <1>2, <2>1 DEF StoreVerificationToken
  <2> HIDE DEF x
  <2> QED BY <2>1, <2>2, <2>3 DEF Becomes
<1> QED BY <1>1, <1>2, FinishBecomes DEF EmailTaken, PublishUserRegistered

LEMMA SigningSteps ==
  ASSUME AuthTypeInv, NEW r \in Requests
  PROVE  /\ \A e \in Emails, p \in Passwords : Login(r, e, p) =>
              \E x : Becomes(r, x) /\ x.stage = "opening"
         /\ \A s \in Sessions : CreateRefreshToken(r, s) => Becomes(r, Idle)
         /\ \A s \in Sessions : BeginRefresh(r, s) =>
              \E x : Becomes(r, x) /\ x.stage = "revoking" /\ x.session = s
         /\ RevokeRefreshToken(r) \/ RevokeFails(r) =>
              \E x : Becomes(r, x) /\ x.stage = "renewing" /\ x.session = request[r].session
         /\ \A s \in Sessions : RefreshToken(r, s) => Becomes(r, Idle)
<1>0. Legal(request[r])
  BY RequestLegal
<1>1. ASSUME NEW e \in Emails, NEW p \in Passwords, Login(r, e, p)
      PROVE  \E x : Becomes(r, x) /\ x.stage = "opening"
  <2>1. PICK u \in Users : Goto(r, Doing("opening", u, NoEmail, NoPassword, NoLink, NoSession))
    BY <1>1 DEF Login
  <2> DEFINE x == Doing("opening", u, NoEmail, NoPassword, NoLink, NoSession)
  <2>2. Legal(x) /\ x.stage = "opening" /\ Goto(r, x)
    BY <2>1, LegalRequests DEF Doing
  <2> HIDE DEF x
  <2> QED BY <2>2 DEF Becomes
<1>2. ASSUME NEW s \in Sessions, BeginRefresh(r, s)
      PROVE  \E x : Becomes(r, x) /\ x.stage = "revoking" /\ x.session = s
  <2>1. PICK u \in Users : u = owner[s]
    BY <1>2 DEF BeginRefresh, FindRefreshToken, AuthTypeInv, SessionsTyped
  <2> DEFINE x == Doing("revoking", u, NoEmail, NoPassword, NoLink, s)
  <2>2. Legal(x) /\ x.stage = "revoking" /\ x.session = s
    BY LegalRequests DEF Doing
  <2>3. Goto(r, x)
    BY <1>2, <2>1 DEF BeginRefresh
  <2> HIDE DEF x
  <2> QED BY <2>2, <2>3 DEF Becomes
<1>3. ASSUME RevokeRefreshToken(r) \/ RevokeFails(r)
      PROVE  \E x : Becomes(r, x) /\ x.stage = "renewing" /\ x.session = request[r].session
  <2>1. PICK u \in Users, s \in Sessions : u = request[r].user /\ s = request[r].session
    BY <1>0, <1>3 DEF RevokeRefreshToken, RevokeFails, At, Legal
  <2> DEFINE x == Doing("renewing", u, NoEmail, NoPassword, NoLink, s)
  <2>2. Legal(x) /\ x.stage = "renewing" /\ x.session = s
    BY LegalRequests DEF Doing
  <2>3. Goto(r, x)
    BY <1>3, <2>1 DEF RevokeRefreshToken, RevokeFails
  <2> HIDE DEF x
  <2> QED BY <2>1, <2>2, <2>3 DEF Becomes
<1> QED BY <1>1, <1>2, <1>3, FinishBecomes DEF CreateRefreshToken, RefreshToken

\* The stages of a request that deals neither with a welcome, nor with a
\* session that is refreshed, nor with a link that has had its effect.
Aside == {"idle", "inserting", "opening", "verifying", "issuing", "resetting", "changing"}

LEMMA AccountingSteps ==
  ASSUME AuthTypeInv, NEW r \in Requests
  PROVE  /\ \/ \E e \in Emails, p \in Passwords : BeginRegister(r, e, p)
            \/ \E l \in VerifyLinks : BeginVerifyEmail(r, l)
            \/ \E l \in ResetLinks : StorePasswordResetToken(r, l)
            \/ \E l \in ResetLinks, p \in Passwords : BeginResetPassword(r, l, p)
            \/ \E e \in Emails : ForgotPassword(r, e)
            \/ \E u \in Users, old, new \in Passwords : BeginChangePassword(r, u, old, new)
            \/ ChangePassword(r) \/ DeleteLink(r)
            => \E x : Becomes(r, x) /\ x.stage \in Aside
         /\ MarkVerified(r) \/ ResetPassword(r) =>
              \E x : Becomes(r, x) /\ x.stage = "closing" /\ x.link = request[r].link
<1>0. Legal(request[r])
  BY RequestLegal
<1>1. ASSUME NEW e \in Emails, NEW p \in Passwords, BeginRegister(r, e, p)
      PROVE  \E x : Becomes(r, x) /\ x.stage \in Aside
  <2>1. PICK q \in Passwords : q = Trimmed[p]
    BY AuthAssumption
  <2> DEFINE x == Doing("inserting", NoUser, e, q, NoLink, NoSession)
  <2>2. Legal(x) /\ x.stage = "inserting"
    BY LegalRequests DEF Doing
  <2>3. Goto(r, x)
    BY <1>1, <2>1 DEF BeginRegister
  <2> HIDE DEF x
  <2> QED BY <2>2, <2>3 DEF Becomes, Aside
<1>2. ASSUME NEW l \in VerifyLinks, BeginVerifyEmail(r, l)
      PROVE  \E x : Becomes(r, x) /\ x.stage \in Aside
  <2>1. PICK u \in Users : u = link[l].user
    BY <1>2 DEF BeginVerifyEmail, GetTempToken, AuthTypeInv, LinksTyped, Links
  <2> DEFINE x == Doing("verifying", u, NoEmail, NoPassword, l, NoSession)
  <2>2. Legal(x) /\ x.stage = "verifying"
    BY LegalRequests DEF Doing, Links
  <2>3. Goto(r, x)
    BY <1>2, <2>1 DEF BeginVerifyEmail
  <2> HIDE DEF x
  <2> QED BY <2>2, <2>3 DEF Becomes, Aside
<1>3. ASSUME NEW l \in ResetLinks, NEW p \in Passwords, BeginResetPassword(r, l, p)
      PROVE  \E x : Becomes(r, x) /\ x.stage \in Aside
  <2>1. PICK u \in Users : u = link[l].user
    BY <1>3 DEF BeginResetPassword, GetTempToken, AuthTypeInv, LinksTyped, Links
  <2> DEFINE x == Doing("resetting", u, NoEmail, p, l, NoSession)
  <2>2. Legal(x) /\ x.stage = "resetting"
    BY LegalRequests DEF Doing, Links
  <2>3. Goto(r, x)
    BY <1>3, <2>1 DEF BeginResetPassword
  <2> HIDE DEF x
  <2> QED BY <2>2, <2>3 DEF Becomes, Aside
<1>4. ASSUME NEW e \in Emails, ForgotPassword(r, e)
      PROVE  \E x : Becomes(r, x) /\ x.stage \in Aside
  <2>1. PICK u \in Users : Goto(r, Doing("issuing", u, NoEmail, NoPassword, NoLink, NoSession))
    BY <1>4 DEF ForgotPassword
  <2> DEFINE x == Doing("issuing", u, NoEmail, NoPassword, NoLink, NoSession)
  <2>2. Legal(x) /\ x.stage = "issuing" /\ Goto(r, x)
    BY <2>1, LegalRequests DEF Doing
  <2> HIDE DEF x
  <2> QED BY <2>2 DEF Becomes, Aside
<1>5. ASSUME NEW u \in Users, NEW old \in Passwords, NEW new \in Passwords,
             BeginChangePassword(r, u, old, new)
      PROVE  \E x : Becomes(r, x) /\ x.stage \in Aside
  <2> DEFINE x == Doing("changing", u, NoEmail, new, NoLink, NoSession)
  <2>2. Legal(x) /\ x.stage = "changing"
    BY LegalRequests DEF Doing
  <2>3. Goto(r, x)
    BY <1>5 DEF BeginChangePassword
  <2> HIDE DEF x
  <2> QED BY <2>2, <2>3 DEF Becomes, Aside
<1>6. ASSUME Finish(r)
      PROVE  \E x : Becomes(r, x) /\ x.stage \in Aside
  BY <1>6, FinishBecomes, IdleIsLegal DEF Aside
<1>7. ASSUME MarkVerified(r) \/ ResetPassword(r)
      PROVE  \E x : Becomes(r, x) /\ x.stage = "closing" /\ x.link = request[r].link
  <2>1. PICK l \in Links : l = request[r].link
    BY <1>0, <1>7 DEF MarkVerified, ResetPassword, At, Legal
  <2> DEFINE x == Doing("closing", NoUser, NoEmail, NoPassword, l, NoSession)
  <2>2. Legal(x) /\ x.stage = "closing" /\ x.link = l
    BY LegalRequests DEF Doing
  <2>3. Goto(r, x)
    BY <1>7, <2>1 DEF MarkVerified, ResetPassword
  <2> HIDE DEF x
  <2> QED BY <2>1, <2>2, <2>3 DEF Becomes
<1>8. \A l \in ResetLinks : StorePasswordResetToken(r, l) => Finish(r)
  BY DEF StorePasswordResetToken
<1>9. ChangePassword(r) \/ DeleteLink(r) => Finish(r)
  BY DEF ChangePassword, DeleteLink
<1> QED BY <1>1, <1>2, <1>3, <1>4, <1>5, <1>6, <1>7, <1>8, <1>9

\* Steps that neither write an e-mail, nor publish, nor have the effect of a
\* link, nor make a session, nor refresh one.
Quiet ==
    /\ request' \in [Requests -> RequestRecords]
    /\ \A r \in Requests :
         \/ request'[r] = request[r]
         \/ Legal(request'[r]) /\ request'[r].stage \in Aside
    /\ UNCHANGED <<email, verified, published, honoured, owner, family, forked>>
    /\ password' \in [Users -> Passwords \union {NoPassword}]
    /\ link' \in [Links -> LinkRecords]
    /\ \A l \in Links :
         \/ link'[l] = link[l]
         \/ link[l].state = "stored" /\ link'[l].state = "expired" /\ link'[l].user = link[l].user
         \/ link[l].state = "unused" /\ link'[l].state = "stored" /\ link'[l].user \in Users
    /\ session' \in [Sessions -> {"unused", "live", "expired", "revoked"}]
    /\ \A s \in Sessions :
         \/ session'[s] = session[s]
         \/ session[s] # "unused" /\ session'[s] \in {"expired", "revoked"}
    /\ faults' \in Nat

LEMMA QuietRequests ==
  ASSUME AuthTypeInv, NEW r, NEW x, Becomes(r, x), x.stage \in Aside
  PROVE  /\ request' \in [Requests -> RequestRecords]
         /\ \A q \in Requests :
              \/ request'[q] = request[q]
              \/ Legal(request'[q]) /\ request'[q].stage \in Aside
<1>1. /\ request' \in [Requests -> RequestRecords] /\ request'[r] = x
      /\ \A q \in Requests \ {r} : request'[q] = request[q]
      /\ \A q \in Requests : Legal(request'[q])
  BY BecomesLegal
<1> QED BY <1>1

LEMMA RevokedQuietly ==
  ASSUME AuthTypeInv, NEW S
  PROVE  /\ Revoked(S) \in [Sessions -> {"unused", "live", "expired", "revoked"}]
         /\ \A s \in Sessions :
              /\ \/ Revoked(S)[s] = session[s]
                 \/ session[s] # "unused" /\ Revoked(S)[s] = "revoked"
              /\ s \in S => Revoked(S)[s] # "live"
  BY DEF Revoked, AuthTypeInv, AuthTypeOK

LEMMA QuietSteps ==
  ASSUME AuthTypeInv,
         \/ \E r \in Requests :
              \/ EmailTaken(r) \/ ChangePassword(r) \/ RequestFails(r)
              \/ \E e \in Emails, p \in Passwords : BeginRegister(r, e, p) \/ Login(r, e, p)
              \/ \E l \in VerifyLinks : BeginVerifyEmail(r, l)
              \/ \E l \in ResetLinks : StorePasswordResetToken(r, l)
              \/ \E l \in ResetLinks, p \in Passwords : BeginResetPassword(r, l, p)
              \/ \E e \in Emails : ForgotPassword(r, e)
              \/ \E u \in Users, old, new \in Passwords : BeginChangePassword(r, u, old, new)
         \/ \E s \in Sessions : Logout(s) \/ SessionExpires(s)
         \/ \E u \in Users : RevokeAllSessions(u)
         \/ \E l \in Links : LinkExpires(l)
         \/ Crash
         \/ UNCHANGED authVars
  PROVE  Quiet
<1>t. AuthTypeOK
  BY DEF AuthTypeInv
<1> DEFINE Moved == /\ request' \in [Requests -> RequestRecords]
                    /\ \A q \in Requests : \/ request'[q] = request[q]
                                           \/ Legal(request'[q]) /\ request'[q].stage \in Aside
<1>m. ASSUME NEW r \in Requests, \E x : Becomes(r, x) /\ x.stage \in Aside PROVE Moved
  BY <1>m, QuietRequests
<1>f. ASSUME NEW r \in Requests, Finish(r) PROVE Moved
  BY <1>f, QuietRequests, FinishBecomes, IdleIsLegal DEF Aside
<1>u. ASSUME UNCHANGED request PROVE Moved
  BY <1>t, <1>u DEF AuthTypeOK
<1> HIDE DEF Moved
<1>q. Moved /\ UNCHANGED <<accountVars, linkVars, sessionVars, published>> /\ faults' \in Nat => Quiet
  BY <1>t DEF Moved, Quiet, accountVars, linkVars, sessionVars, AuthTypeOK
<1>s. Strike => faults' \in Nat
  BY <1>t DEF Strike, AuthTypeOK
<1>n. UNCHANGED faults => faults' \in Nat
  BY <1>t DEF AuthTypeOK
<1>1. ASSUME NEW r \in Requests, EmailTaken(r) PROVE Quiet
  BY <1>1, <1>f, <1>q, <1>n DEF EmailTaken
<1>2. ASSUME NEW r \in Requests, ChangePassword(r) PROVE Quiet
  <2>1. Moved
    BY <1>2, <1>f DEF ChangePassword
  <2>2. Legal(request[r]) /\ request[r].stage = "changing"
    BY <1>2, RequestLegal DEF ChangePassword, At
  <2>3. request[r].password \in Passwords
    BY <2>2 DEF Legal
  <2>4. password' = [password EXCEPT ![request[r].user] = request[r].password]
        /\ UNCHANGED <<email, verified, linkVars, sessionVars, published, faults>>
    BY <1>2 DEF ChangePassword, UpdatePassword
  <2> QED BY <1>t, <2>1, <2>3, <2>4 DEF Moved, Quiet, linkVars, sessionVars, AuthTypeOK
<1>3. ASSUME NEW r \in Requests, RequestFails(r) PROVE Quiet
  BY <1>3, <1>f, <1>q, <1>s DEF RequestFails
<1>4. ASSUME NEW r \in Requests, NEW e \in Emails, NEW p \in Passwords, BeginRegister(r, e, p)
      PROVE  Quiet
  BY <1>4, <1>m, <1>q, <1>n, AccountingSteps DEF BeginRegister
<1>5. ASSUME NEW r \in Requests, NEW e \in Emails, NEW p \in Passwords, Login(r, e, p) PROVE Quiet
  <2>1. PICK x : Becomes(r, x) /\ x.stage = "opening"
    BY <1>5, SigningSteps
  <2>2. Moved
    BY <2>1, <1>m DEF Aside
  <2> QED BY <1>5, <2>2, <1>q, <1>n DEF Login
<1>6. ASSUME NEW r \in Requests, NEW l \in VerifyLinks, BeginVerifyEmail(r, l) PROVE Quiet
  BY <1>6, <1>m, <1>q, <1>n, AccountingSteps DEF BeginVerifyEmail
<1>7. ASSUME NEW r \in Requests, NEW l \in ResetLinks, StorePasswordResetToken(r, l) PROVE Quiet
  <2>1. Moved
    BY <1>7, <1>f DEF StorePasswordResetToken
  <2>2. PICK u \in Users : u = request[r].user
    BY <1>7, RequestLegal DEF StorePasswordResetToken, At, Legal
  <2>3. link[l].state = "unused" /\ link' = [link EXCEPT ![l] = [state |-> "stored", user |-> u]]
    BY <1>7, <2>2 DEF StorePasswordResetToken, StoreTempToken
  <2>4. link' \in [Links -> LinkRecords] /\ link'[l] = [state |-> "stored", user |-> u]
        /\ \A k \in Links \ {l} : link'[k] = link[k]
    BY <1>t, <2>3 DEF AuthTypeOK, LinkRecords, Links
  <2>5. UNCHANGED <<accountVars, honoured, sessionVars, published, faults>>
    BY <1>7 DEF StorePasswordResetToken
  <2> QED BY <1>t, <2>1, <2>3, <2>4, <2>5 DEF Moved, Quiet, accountVars, sessionVars, AuthTypeOK
<1>8. ASSUME NEW r \in Requests, NEW l \in ResetLinks, NEW p \in Passwords, BeginResetPassword(r, l, p)
      PROVE  Quiet
  BY <1>8, <1>m, <1>q, <1>n, AccountingSteps DEF BeginResetPassword
<1>9. ASSUME NEW r \in Requests, NEW e \in Emails, ForgotPassword(r, e) PROVE Quiet
  BY <1>9, <1>m, <1>q, <1>n, AccountingSteps DEF ForgotPassword
<1>10. ASSUME NEW r \in Requests, NEW u \in Users, NEW old \in Passwords, NEW new \in Passwords,
              BeginChangePassword(r, u, old, new)
       PROVE  Quiet
  BY <1>10, <1>m, <1>q, <1>n, AccountingSteps DEF BeginChangePassword
<1>11. ASSUME NEW s \in Sessions, Logout(s) PROVE Quiet
  <2>1. Moved /\ session' = Revoked({s})
        /\ UNCHANGED <<accountVars, linkVars, owner, family, forked, published, faults>>
    BY <1>11, <1>u DEF Logout
  <2> QED BY <1>t, <2>1, RevokedQuietly DEF Moved, Quiet, accountVars, linkVars, AuthTypeOK
<1>12. ASSUME NEW s \in Sessions, SessionExpires(s) PROVE Quiet
  <2>1. Moved /\ session[s] = "live" /\ session' = [session EXCEPT ![s] = "expired"]
        /\ UNCHANGED <<accountVars, linkVars, owner, family, forked, published, faults>>
    BY <1>12, <1>u DEF SessionExpires
  <2> QED BY <1>t, <2>1 DEF Moved, Quiet, accountVars, linkVars, AuthTypeOK
<1>13. ASSUME NEW u \in Users, RevokeAllSessions(u) PROVE Quiet
  <2>1. PICK S : session' = Revoked(S)
    BY <1>13 DEF RevokeAllSessions
  <2>2. Moved /\ UNCHANGED <<accountVars, linkVars, owner, family, forked, published, faults>>
    BY <1>13, <1>u DEF RevokeAllSessions
  <2> QED BY <1>t, <2>1, <2>2, RevokedQuietly DEF Moved, Quiet, accountVars, linkVars, AuthTypeOK
<1>14. ASSUME NEW l \in Links, LinkExpires(l) PROVE Quiet
  <2>1. Moved /\ UNCHANGED <<accountVars, honoured, sessionVars, published, faults>>
    BY <1>14, <1>u DEF LinkExpires
  <2>2. link[l].state = "stored" /\ link' = [link EXCEPT ![l] = [state |-> "expired", user |-> link[l].user]]
    BY <1>14 DEF LinkExpires
  <2>3. link[l].user \in Users \union {NoUser}
    BY <1>t DEF AuthTypeOK, LinkRecords
  <2>4. link' \in [Links -> LinkRecords] /\ link'[l] = [state |-> "expired", user |-> link[l].user]
        /\ \A k \in Links \ {l} : link'[k] = link[k]
    BY <1>t, <2>2, <2>3 DEF AuthTypeOK, LinkRecords
  <2> QED BY <1>t, <2>1, <2>2, <2>4 DEF Moved, Quiet, accountVars, sessionVars, AuthTypeOK
<1>15. CASE Crash
  <2>1. Moved
    BY <1>15, IdleIsLegal DEF Crash, Moved, Legal, Aside
  <2> QED BY <1>15, <2>1, <1>q, <1>s DEF Crash
<1>16. CASE UNCHANGED authVars
  BY <1>16, <1>u, <1>q, <1>n DEF authVars
<1> QED BY <1>1, <1>2, <1>3, <1>4, <1>5, <1>6, <1>7, <1>8, <1>9, <1>10, <1>11, <1>12, <1>13, <1>14, <1>15, <1>16

\* The steps of a behaviour.
Kinds ==
    \/ Quiet
    \/ \E r \in Requests :
         \/ \E u \in Users : CreateUser(r, u)
         \/ \E l \in VerifyLinks : StoreVerificationToken(r, l)
         \/ PublishUserRegistered(r)
         \/ MarkVerified(r) \/ ResetPassword(r) \/ DeleteLink(r)
         \/ RevokeRefreshToken(r) \/ RevokeFails(r)
         \/ \E s \in Sessions : CreateRefreshToken(r, s) \/ BeginRefresh(r, s) \/ RefreshToken(r, s)

LEMMA StepKinds == AuthTypeInv /\ [AuthNext]_authVars => Kinds
<1> SUFFICES ASSUME AuthTypeInv, [AuthNext]_authVars PROVE Kinds
  OBVIOUS
<1>1. ASSUME NEW r \in Requests, Registering(r) \/ Accounting(r) \/ Signing(r) PROVE Kinds
  BY <1>1, QuietSteps DEF Registering, Accounting, Signing, Kinds
<1>2. ASSUME ~\E r \in Requests : Registering(r) \/ Accounting(r) \/ Signing(r) PROVE Kinds
  BY <1>2, QuietSteps DEF AuthNext, Kinds
<1> QED BY <1>1, <1>2

-----------------------------------------------------------------------------
(* Type correctness.                                                       *)

LEMMA InitAuthTypes == AuthInit => AuthTypeInv
<1> SUFFICES ASSUME AuthInit PROVE AuthTypeInv
  OBVIOUS
<1>1. \A r \in Requests : request[r] = Idle
  BY DEF AuthInit
<1>2. Idle \in RequestRecords
  BY IdleIsLegal DEF Legal
<1>3. AuthTypeOK
  BY <1>2 DEF AuthInit, AuthTypeOK, LinkRecords
<1>4. LinksTyped
  BY DEF AuthInit, LinksTyped
<1>5. SessionsTyped
  BY <1>1, IdleIsLegal DEF AuthInit, SessionsTyped
<1> QED BY <1>1, <1>3, <1>4, <1>5, IdleIsLegal DEF AuthTypeInv

LEMMA InsertTypes ==
  ASSUME AuthTypeInv, NEW r, NEW s \in Sessions, NEW u \in Users, NEW root \in Sessions,
         Becomes(r, Idle), InsertSession(s, u, root),
         UNCHANGED <<accountVars, linkVars, forked, published, faults>>
  PROVE  AuthTypeInv'
<1>1. /\ request' \in [Requests -> RequestRecords] /\ request'[r] = Idle
      /\ \A q \in Requests \ {r} : request'[q] = request[q]
      /\ \A q \in Requests : Legal(request'[q])
  BY BecomesLegal
<1>2. AuthTypeOK /\ LinksTyped /\ SessionsTyped
  BY DEF AuthTypeInv
<1>3. /\ session' \in [Sessions -> {"unused", "live", "expired", "revoked"}]
      /\ owner' \in [Sessions -> Users \union {NoUser}]
      /\ family' \in [Sessions -> Sessions \union {NoSession}]
      /\ session'[s] = "live" /\ owner'[s] = u /\ family'[s] = root
      /\ \A t \in Sessions \ {s} :
           session'[t] = session[t] /\ owner'[t] = owner[t] /\ family'[t] = family[t]
  BY <1>2 DEF InsertSession, AuthTypeOK
<1>4. AuthTypeOK'
  BY <1>1, <1>2, <1>3 DEF AuthTypeOK, accountVars, linkVars
<1>5. LinksTyped'
  BY <1>2 DEF LinksTyped, linkVars
<1>6. SessionsTyped'
  <2>1. \A q \in Requests : request'[q].stage \in {"revoking", "renewing"} =>
          session'[request'[q].session] # "unused"
    <3> SUFFICES ASSUME NEW q \in Requests, request'[q].stage \in {"revoking", "renewing"}
                 PROVE  session'[request'[q].session] # "unused"
      OBVIOUS
    <3>1. q # r /\ request'[q] = request[q]
      BY <1>1, IdleIsLegal
    <3>2. request[q].session \in Sessions /\ session[request[q].session] # "unused"
      BY <1>2, <3>1, RequestLegal DEF SessionsTyped, Legal
    <3> QED BY <1>3, <3>1, <3>2
  <2> QED BY <1>2, <1>3, <2>1 DEF SessionsTyped
<1> QED BY <1>1, <1>4, <1>5, <1>6 DEF AuthTypeInv

LEMMA NextAuthTypes == AuthTypeInv /\ [AuthNext]_authVars => AuthTypeInv'
<1> SUFFICES ASSUME AuthTypeInv, Kinds PROVE AuthTypeInv'
  BY StepKinds
<1>0. AuthTypeOK /\ LinksTyped /\ SessionsTyped
  BY DEF AuthTypeInv
<1>a. ASSUME NEW r, NEW x, Becomes(r, x), x.stage \notin {"revoking", "renewing"},
             UNCHANGED sessionVars
      PROVE  /\ request' \in [Requests -> RequestRecords]
             /\ \A q \in Requests : Legal(request'[q])
             /\ SessionsTyped'
             /\ session' \in [Sessions -> {"unused", "live", "expired", "revoked"}]
             /\ owner' \in [Sessions -> Users \union {NoUser}]
             /\ family' \in [Sessions -> Sessions \union {NoSession}]
             /\ forked' \subseteq Sessions
  BY <1>0, <1>a, BecomesLegal DEF SessionsTyped, sessionVars, AuthTypeOK
<1>1. CASE Quiet
  <2>1. AuthTypeOK'
    BY <1>0, <1>1 DEF Quiet, AuthTypeOK
  <2>2. LinksTyped'
    BY <1>0, <1>1 DEF Quiet, LinksTyped
  <2>3. SessionsTyped'
    <3>1. \A q \in Requests : request'[q].stage \in {"revoking", "renewing"} =>
            session'[request'[q].session] # "unused"
      <4> SUFFICES ASSUME NEW q \in Requests, request'[q].stage \in {"revoking", "renewing"}
                   PROVE  session'[request'[q].session] # "unused"
        OBVIOUS
      <4>1. request'[q] = request[q]
        BY <1>1 DEF Quiet, Aside
      <4>2. request[q].session \in Sessions /\ session[request[q].session] # "unused"
        BY <1>0, <4>1, RequestLegal DEF SessionsTyped, Legal
      <4> QED BY <1>1, <4>1, <4>2 DEF Quiet
    <3> QED BY <1>0, <1>1, <3>1 DEF Quiet, SessionsTyped
  <2>4. \A q \in Requests : Legal(request'[q])
    BY <1>1, RequestLegal DEF Quiet
  <2> QED BY <2>1, <2>2, <2>3, <2>4 DEF AuthTypeInv
<1>2. ASSUME NEW r \in Requests, NEW u \in Users, CreateUser(r, u) PROVE AuthTypeInv'
  <2>1. PICK x : Becomes(r, x) /\ x.stage = "linking"
    BY <1>2, RegisteringSteps
  <2>2. request[r].email \in Emails /\ request[r].password \in Passwords
    BY <1>2, RequestLegal DEF CreateUser, At, Legal
  <2>3. /\ email' = [email EXCEPT ![u] = request[r].email]
        /\ password' = [password EXCEPT ![u] = request[r].password]
        /\ UNCHANGED <<verified, link, honoured, sessionVars, published, faults>>
    BY <1>2 DEF CreateUser, InsertUser, linkVars
  <2>4. AuthTypeOK'
    BY <1>0, <1>a, <2>1, <2>2, <2>3 DEF AuthTypeOK
  <2> QED BY <1>0, <1>a, <2>1, <2>3, <2>4 DEF AuthTypeInv, LinksTyped
<1>3. ASSUME NEW r \in Requests, NEW l \in VerifyLinks, StoreVerificationToken(r, l) PROVE AuthTypeInv'
  <2>1. PICK x : Becomes(r, x) /\ x.stage = "announcing"
    BY <1>3, RegisteringSteps
  <2>2. PICK u \in Users : u = request[r].user
    BY <1>3, RequestLegal DEF StoreVerificationToken, At, Legal
  <2>3. /\ l \in Links /\ link' = [link EXCEPT ![l] = [state |-> "stored", user |-> u]]
        /\ UNCHANGED <<accountVars, honoured, sessionVars, published, faults>>
    BY <1>3, <2>2 DEF StoreVerificationToken, Stored, StoreTempToken, Links
  <2>4. link' \in [Links -> LinkRecords] /\ LinksTyped'
    BY <1>0, <2>3 DEF AuthTypeOK, LinkRecords, LinksTyped
  <2>5. AuthTypeOK'
    BY <1>0, <1>a, <2>1, <2>3, <2>4 DEF AuthTypeOK, accountVars
  <2> QED BY <1>a, <2>1, <2>3, <2>4, <2>5 DEF AuthTypeInv
<1>4. ASSUME NEW r \in Requests, PublishUserRegistered(r) PROVE AuthTypeInv'
  <2>1. Becomes(r, Idle)
    BY <1>4, RegisteringSteps
  <2>2. request[r].email \in Emails /\ request[r].link \in Links
    BY <1>4, RequestLegal DEF PublishUserRegistered, At, Legal
  <2>3. /\ published' = [published EXCEPT ![request[r].email] = @ \union {request[r].link}]
        /\ UNCHANGED <<accountVars, linkVars, sessionVars, faults>>
    BY <1>4 DEF PublishUserRegistered, Published
  <2>4. AuthTypeOK'
    BY <1>0, <1>a, <2>1, <2>2, <2>3, IdleIsLegal DEF AuthTypeOK, accountVars, linkVars
  <2> QED BY <1>0, <1>a, <2>1, <2>3, <2>4, IdleIsLegal DEF AuthTypeInv, LinksTyped, linkVars
<1>5. ASSUME NEW r \in Requests, MarkVerified(r) \/ ResetPassword(r) PROVE AuthTypeInv'
  <2>1. PICK x : Becomes(r, x) /\ x.stage = "closing"
    BY <1>5, AccountingSteps
  <2>2. request[r].user \in Users /\ request[r].link \in Links
        /\ (ResetPassword(r) => request[r].password \in Passwords)
    BY <1>5, RequestLegal DEF MarkVerified, ResetPassword, At, Legal
  <2>3. /\ honoured' = honoured \union {request[r].link}
        /\ UNCHANGED <<link, sessionVars, published, faults>>
    BY <1>5 DEF MarkVerified, ResetPassword
  <2>4. /\ email' \in [Users -> Emails \union {NoEmail}]
        /\ password' \in [Users -> Passwords \union {NoPassword}]
        /\ verified' \subseteq Users
    BY <1>0, <1>5, <2>2 DEF MarkVerified, ResetPassword, SetVerified, UpdatePassword, AuthTypeOK
  <2>5. AuthTypeOK'
    BY <1>0, <1>a, <2>1, <2>2, <2>3, <2>4 DEF AuthTypeOK
  <2> QED BY <1>0, <1>a, <2>1, <2>3, <2>5 DEF AuthTypeInv, LinksTyped
<1>6. ASSUME NEW r \in Requests, DeleteLink(r) PROVE AuthTypeInv'
  <2>1. Becomes(r, Idle)
    BY <1>6, FinishBecomes DEF DeleteLink
  <2>2. PICK l \in Links : l = request[r].link
    BY <1>6, RequestLegal DEF DeleteLink, At, Legal
  <2>3. /\ link' = IF link[l].state = "stored"
                     THEN [link EXCEPT ![l] = [state |-> "deleted", user |-> link[l].user]]
                     ELSE link
        /\ UNCHANGED <<accountVars, honoured, sessionVars, published, faults>>
    BY <1>6, <2>2 DEF DeleteLink, DeleteTempToken
  <2>4. link[l].user \in Users \union {NoUser}
    BY <1>0 DEF AuthTypeOK, LinkRecords
  <2>5. link' \in [Links -> LinkRecords] /\ LinksTyped'
    BY <1>0, <2>3, <2>4 DEF AuthTypeOK, LinkRecords, LinksTyped
  <2>6. AuthTypeOK'
    BY <1>0, <1>a, <2>1, <2>3, <2>5, IdleIsLegal DEF AuthTypeOK, accountVars
  <2> QED BY <1>a, <2>1, <2>3, <2>5, <2>6, IdleIsLegal DEF AuthTypeInv
<1>7. ASSUME NEW r \in Requests, RevokeRefreshToken(r) \/ RevokeFails(r) PROVE AuthTypeInv'
  <2>1. PICK x : Becomes(r, x) /\ x.stage = "renewing" /\ x.session = request[r].session
    BY <1>7, SigningSteps
  <2>2. /\ request[r].session \in Sessions /\ session[request[r].session] # "unused"
        /\ family[request[r].session] \in Sessions
    BY <1>0, <1>7, RequestLegal DEF RevokeRefreshToken, RevokeFails, At, Legal, SessionsTyped
  <2>3. /\ session' \in [Sessions -> {"unused", "live", "expired", "revoked"}]
        /\ \A s \in Sessions : session'[s] = "unused" <=> session[s] = "unused"
        /\ forked' \subseteq Sessions /\ faults' \in Nat
        /\ UNCHANGED <<accountVars, linkVars, owner, family, published>>
    BY <1>0, <1>7, <2>2, RevokedQuietly
       DEF RevokeRefreshToken, RevokeFails, RevokedOne, Strike, AuthTypeOK
  <2>4. /\ request' \in [Requests -> RequestRecords] /\ request'[r] = x
        /\ \A q \in Requests \ {r} : request'[q] = request[q]
        /\ \A q \in Requests : Legal(request'[q])
    BY <2>1, BecomesLegal
  <2>5. \A q \in Requests : request'[q].stage \in {"revoking", "renewing"} =>
          session[request'[q].session] # "unused"
    BY <1>0, <2>1, <2>2, <2>4 DEF SessionsTyped
  <2>6. SessionsTyped'
    BY <1>0, <2>3, <2>4, <2>5 DEF SessionsTyped, Legal
  <2>7. AuthTypeOK'
    BY <1>0, <2>3, <2>4 DEF AuthTypeOK, accountVars, linkVars
  <2> QED BY <1>0, <2>3, <2>4, <2>6, <2>7 DEF AuthTypeInv, LinksTyped, linkVars
<1>8. ASSUME NEW r \in Requests, NEW s \in Sessions, BeginRefresh(r, s) PROVE AuthTypeInv'
  <2>1. PICK x : Becomes(r, x) /\ x.stage = "revoking" /\ x.session = s
    BY <1>8, SigningSteps
  <2>2. session[s] # "unused" /\ family[s] \in Sessions
    BY <1>0, <1>8 DEF BeginRefresh, FindRefreshToken, SessionsTyped
  <2>3. forked' \subseteq Sessions
        /\ UNCHANGED <<accountVars, linkVars, session, owner, family, published, faults>>
    BY <1>0, <1>8, <2>2 DEF BeginRefresh, AuthTypeOK
  <2>4. /\ request' \in [Requests -> RequestRecords] /\ request'[r] = x
        /\ \A q \in Requests \ {r} : request'[q] = request[q]
        /\ \A q \in Requests : Legal(request'[q])
    BY <2>1, BecomesLegal
  <2>5. SessionsTyped'
    BY <1>0, <2>1, <2>2, <2>3, <2>4 DEF SessionsTyped
  <2>6. AuthTypeOK'
    BY <1>0, <2>3, <2>4 DEF AuthTypeOK, accountVars, linkVars
  <2> QED BY <1>0, <2>3, <2>4, <2>5, <2>6 DEF AuthTypeInv, LinksTyped, linkVars
<1>9. ASSUME NEW r \in Requests, NEW s \in Sessions, CreateRefreshToken(r, s) PROVE AuthTypeInv'
  <2>1. Becomes(r, Idle) /\ request[r].user \in Users
    BY <1>9, SigningSteps, RequestLegal DEF CreateRefreshToken, At, Legal
  <2> QED BY <1>9, <2>1, InsertTypes DEF CreateRefreshToken
<1>10. ASSUME NEW r \in Requests, NEW s \in Sessions, RefreshToken(r, s) PROVE AuthTypeInv'
  <2>1. /\ Becomes(r, Idle) /\ request[r].user \in Users /\ request[r].session \in Sessions
        /\ session[request[r].session] # "unused"
    BY <1>0, <1>10, SigningSteps, RequestLegal DEF RefreshToken, At, Legal, SessionsTyped
  <2>2. family[request[r].session] \in Sessions
    BY <1>0, <2>1 DEF SessionsTyped
  <2> QED BY <1>10, <2>1, <2>2, InsertTypes DEF RefreshToken
<1> QED BY <1>1, <1>2, <1>3, <1>4, <1>5, <1>6, <1>7, <1>8, <1>9, <1>10 DEF Kinds

\* Every variable keeps its type, and a request knows the user, the link or
\* the session that its next statement is about.
THEOREM AuthTypeCorrect == AuthSpec => []AuthTypeOK
<1>1. AuthTypeInv => AuthTypeOK
  BY DEF AuthTypeInv
<1> QED BY <1>1, InitAuthTypes, NextAuthTypes, PTL DEF AuthSpec

-----------------------------------------------------------------------------
(* Links that are deleted.                                                 *)

SpentInv ==
    /\ SpentForGood
    /\ \A r \in Requests : request[r].stage = "closing" => request[r].link \in honoured

LEMMA SpentKept ==
  ASSUME AuthTypeInv, SpentInv, honoured \subseteq honoured',
         \A l \in Links : link'[l].state = "deleted" => link[l].state = "deleted",
         \A r \in Requests : \/ request'[r] = request[r]
                             \/ request'[r].stage # "closing"
                             \/ request'[r].link \in honoured'
  PROVE  SpentInv'
  BY DEF SpentInv, SpentForGood

LEMMA NextSpent == AuthTypeInv /\ SpentInv /\ [AuthNext]_authVars => SpentInv'
<1> SUFFICES ASSUME AuthTypeInv, SpentInv, Kinds PROVE SpentInv'
  BY StepKinds
<1>0. AuthTypeOK
  BY DEF AuthTypeInv
<1>a. ASSUME NEW r, NEW x, Becomes(r, x)
      PROVE  request'[r] = x /\ \A q \in Requests \ {r} : request'[q] = request[q]
  BY <1>a, BecomesLegal
<1>b. ASSUME NEW r, NEW x, Becomes(r, x), x.stage # "closing", UNCHANGED honoured,
             \A l \in Links : link'[l].state = "deleted" => link[l].state = "deleted"
      PROVE  SpentInv'
  BY <1>a, <1>b, SpentKept
<1>1. CASE Quiet
  <2>1. \A l \in Links : link'[l].state = "deleted" => link[l].state = "deleted"
    BY <1>1 DEF Quiet
  <2> QED BY <1>1, <2>1, SpentKept DEF Quiet, Aside
<1>2. ASSUME NEW r \in Requests, NEW u \in Users, CreateUser(r, u) PROVE SpentInv'
  <2>1. PICK x : Becomes(r, x) /\ x.stage = "linking"
    BY <1>2, RegisteringSteps
  <2> QED BY <1>2, <1>b, <2>1 DEF CreateUser, linkVars
<1>3. ASSUME NEW r \in Requests, NEW l \in VerifyLinks, StoreVerificationToken(r, l) PROVE SpentInv'
  <2>1. PICK x : Becomes(r, x) /\ x.stage = "announcing"
    BY <1>3, RegisteringSteps
  <2>2. link' = [link EXCEPT ![l] = [state |-> "stored", user |-> request[r].user]]
        /\ UNCHANGED honoured
    BY <1>3 DEF StoreVerificationToken, Stored, StoreTempToken
  <2>3. \A k \in Links : link'[k].state = "deleted" => link[k].state = "deleted"
    BY <1>0, <2>2 DEF AuthTypeOK
  <2> QED BY <1>b, <2>1, <2>2, <2>3
<1>4. ASSUME NEW r \in Requests, PublishUserRegistered(r) PROVE SpentInv'
  BY <1>4, <1>b, RegisteringSteps, IdleIsLegal DEF PublishUserRegistered, linkVars
<1>5. ASSUME NEW r \in Requests, MarkVerified(r) \/ ResetPassword(r) PROVE SpentInv'
  <2>1. PICK x : Becomes(r, x) /\ x.link = request[r].link
    BY <1>5, AccountingSteps
  <2>2. honoured' = honoured \union {request[r].link} /\ UNCHANGED link
    BY <1>5 DEF MarkVerified, ResetPassword
  <2> QED BY <1>a, <2>1, <2>2, SpentKept
<1>6. ASSUME NEW r \in Requests, DeleteLink(r) PROVE SpentInv'
  <2>1. Becomes(r, Idle)
    BY <1>6, FinishBecomes DEF DeleteLink
  <2>2. PICK l \in Links : l = request[r].link /\ l \in honoured
    BY <1>6, RequestLegal DEF DeleteLink, At, Legal, SpentInv
  <2>3. UNCHANGED honoured /\ \A k \in Links \ {l} : link'[k] = link[k]
    BY <1>0, <1>6, <2>2 DEF DeleteLink, DeleteTempToken, AuthTypeOK
  <2> QED BY <1>a, <2>1, <2>2, <2>3, IdleIsLegal DEF SpentInv, SpentForGood
<1>7. ASSUME NEW r \in Requests, RevokeRefreshToken(r) \/ RevokeFails(r) PROVE SpentInv'
  <2>1. PICK x : Becomes(r, x) /\ x.stage = "renewing"
    BY <1>7, SigningSteps
  <2> QED BY <1>7, <1>b, <2>1 DEF RevokeRefreshToken, RevokeFails, linkVars
<1>8. ASSUME NEW r \in Requests, NEW s \in Sessions, BeginRefresh(r, s) PROVE SpentInv'
  <2>1. PICK x : Becomes(r, x) /\ x.stage = "revoking"
    BY <1>8, SigningSteps
  <2> QED BY <1>8, <1>b, <2>1 DEF BeginRefresh, linkVars
<1>9. ASSUME NEW r \in Requests, NEW s \in Sessions, CreateRefreshToken(r, s) \/ RefreshToken(r, s)
      PROVE  SpentInv'
  BY <1>9, <1>b, SigningSteps, IdleIsLegal DEF CreateRefreshToken, RefreshToken, linkVars
<1> QED BY <1>1, <1>2, <1>3, <1>4, <1>5, <1>6, <1>7, <1>8, <1>9 DEF Kinds

\* A link that is deleted has had its effect, whatever fails between the read
\* of the link and its deletion.
THEOREM SpentForGoodHolds == AuthSpec => []SpentForGood
<1>1. AuthInit => SpentInv
  BY IdleIsLegal DEF AuthInit, SpentInv, SpentForGood
<1>2. SpentInv => SpentForGood
  BY DEF SpentInv
<1> QED BY <1>1, <1>2, InitAuthTypes, NextAuthTypes, NextSpent, PTL DEF AuthSpec

-----------------------------------------------------------------------------
(* The mail of welcome.                                                    *)

Welcoming(r) == request[r].stage \in {"linking", "announcing"}

\* Redis has, or had, the link, and it names the account with that e-mail.
Works(l, e) == link[l].state # "unused" /\ link[l].user \in Users /\ email[link[l].user] = e

WelcomeInv ==
    /\ \A u, v \in Users : email[u] = email[v] /\ email[u] # NoEmail => u = v
    /\ \A r \in Requests : Welcoming(r) => /\ email[request[r].user] = request[r].email
                                           /\ published[request[r].email] = {}
    /\ \A r \in Requests : request[r].stage = "announcing" => Works(request[r].link, request[r].email)
    /\ \A q, r \in Requests :
         Welcoming(q) /\ Welcoming(r) /\ request[q].email = request[r].email => q = r
    /\ \A e \in Emails : \A l \in published[e] : Works(l, e)
    /\ \A e \in Emails : \A l, k \in published[e] : l = k

LEMMA WorksKept ==
  ASSUME AuthTypeInv, Kinds
  PROVE  \A l \in Links, e \in Emails : Works(l, e) => Works(l, e)'
<1>0. AuthTypeOK
  BY DEF AuthTypeInv
<1>1. CASE Quiet
  BY <1>1 DEF Quiet, Works
<1>2. ASSUME NEW r \in Requests, NEW u \in Users, CreateUser(r, u), NEW l \in Links, NEW e \in Emails,
             Works(l, e)
      PROVE  Works(l, e)'
  <2>1. email[u] = NoEmail /\ email' = [email EXCEPT ![u] = request[r].email] /\ UNCHANGED link
    BY <1>2 DEF CreateUser, InsertUser, linkVars
  <2> QED BY <1>0, <1>2, <2>1, AuthAssumption DEF Works, AuthTypeOK
<1>3. ASSUME NEW r \in Requests, NEW k \in VerifyLinks, StoreVerificationToken(r, k), NEW l \in Links,
             NEW e \in Emails, Works(l, e)
      PROVE  Works(l, e)'
  <2>1. /\ link[k].state = "unused" /\ UNCHANGED email
        /\ link' = [link EXCEPT ![k] = [state |-> "stored", user |-> request[r].user]]
    BY <1>3 DEF StoreVerificationToken, Stored, StoreTempToken, accountVars
  <2> QED BY <1>0, <1>3, <2>1 DEF Works, AuthTypeOK
<1>4. ASSUME NEW r \in Requests, DeleteLink(r), NEW l \in Links, NEW e \in Emails, Works(l, e)
      PROVE  Works(l, e)'
  <2>1. UNCHANGED email
    BY <1>4 DEF DeleteLink, accountVars
  <2>2. link'[l].user = link[l].user /\ (link'[l].state = link[l].state \/ link'[l].state = "deleted")
    <3>1. CASE link' = link
      BY <3>1
    <3>2. CASE link' = [link EXCEPT ![request[r].link] =
                          [state |-> "deleted", user |-> link[request[r].link].user]]
      BY <1>0, <3>2 DEF AuthTypeOK
    <3> QED BY <1>4, <3>1, <3>2 DEF DeleteLink, DeleteTempToken
  <2> QED BY <1>4, <2>1, <2>2 DEF Works
<1>5. UNCHANGED <<email, link>> => \A l \in Links, e \in Emails : Works(l, e) => Works(l, e)'
  BY DEF Works
<1>6. ASSUME NEW r \in Requests,
             \/ PublishUserRegistered(r) \/ MarkVerified(r) \/ ResetPassword(r)
             \/ RevokeRefreshToken(r) \/ RevokeFails(r)
             \/ \E s \in Sessions : CreateRefreshToken(r, s) \/ BeginRefresh(r, s) \/ RefreshToken(r, s)
      PROVE  UNCHANGED <<email, link>>
  BY <1>6 DEF PublishUserRegistered, MarkVerified, ResetPassword, SetVerified, UpdatePassword,
              RevokeRefreshToken, RevokeFails, CreateRefreshToken, BeginRefresh, RefreshToken,
              accountVars, linkVars
<1> QED BY <1>1, <1>2, <1>3, <1>4, <1>5, <1>6 DEF Kinds

LEMMA WelcomeKept ==
  ASSUME AuthTypeInv, WelcomeInv, Kinds, UNCHANGED <<email, published>>,
         \A r \in Requests : \/ request'[r] = request[r]
                             \/ request'[r].stage \notin {"linking", "announcing"}
  PROVE  WelcomeInv'
<1>0. AuthTypeOK
  BY DEF AuthTypeInv
<1>1. \A r \in Requests : request'[r].stage \in {"linking", "announcing"} =>
        request'[r] = request[r] /\ Welcoming(r)
  BY DEF Welcoming
<1>2. ASSUME NEW r \in Requests, request'[r].stage = "announcing"
      PROVE  Works(request[r].link, request[r].email)'
  <2>1. request'[r] = request[r] /\ Works(request[r].link, request[r].email)
    BY <1>1, <1>2 DEF WelcomeInv
  <2>2. PICK l \in Links, e \in Emails : l = request[r].link /\ e = request[r].email
    BY <1>2, <2>1, RequestLegal DEF Legal
  <2>3. Works(l, e)'
    BY <2>1, <2>2, WorksKept
  <2> QED BY <2>1, <2>2, <2>3 DEF Works
<1>3. \A e \in Emails : \A l \in published'[e] : Works(l, e)'
  BY <1>0, WorksKept DEF WelcomeInv, AuthTypeOK
<1> QED BY <1>1, <1>2, <1>3 DEF WelcomeInv, Welcoming

LEMMA NextWelcome == AuthTypeInv /\ WelcomeInv /\ [AuthNext]_authVars => WelcomeInv'
<1> SUFFICES ASSUME AuthTypeInv, WelcomeInv, Kinds PROVE WelcomeInv'
  BY StepKinds
<1>0. AuthTypeOK
  BY DEF AuthTypeInv
<1>a. ASSUME NEW r, NEW x, Becomes(r, x)
      PROVE  request'[r] = x /\ \A q \in Requests \ {r} : request'[q] = request[q]
  BY <1>a, BecomesLegal
<1>b. ASSUME NEW r, NEW x, Becomes(r, x), x.stage \notin {"linking", "announcing"},
             UNCHANGED <<email, published>>
      PROVE  WelcomeInv'
  BY <1>a, <1>b, WelcomeKept
<1>1. CASE Quiet
  BY <1>1, WelcomeKept DEF Quiet, Aside
<1>2. ASSUME NEW r \in Requests, NEW u \in Users, CreateUser(r, u) PROVE WelcomeInv'
  <2>1. PICK x : Becomes(r, x) /\ x.stage = "linking" /\ x.user = u /\ x.email = request[r].email
    BY <1>2, RegisteringSteps
  <2>2. PICK e \in Emails : e = request[r].email
    BY <1>2, RequestLegal DEF CreateUser, At, Legal
  <2>3. /\ \A v \in Users : email[v] # e
        /\ email[u] = NoEmail /\ email' = [email EXCEPT ![u] = e] /\ UNCHANGED published
    BY <1>2, <2>2 DEF CreateUser, EmailFree, InsertUser
  <2>4. email'[u] = e /\ e # NoEmail /\ \A v \in Users \ {u} : email'[v] = email[v]
    BY <1>0, <2>3, AuthAssumption DEF AuthTypeOK
  <2>5. \A q \in Requests \ {r} : request'[q] = request[q]
    BY <1>a, <2>1
  <2>6. request'[r] = x
    BY <1>a, <2>1
  <2>7. published[e] = {}
    BY <2>3 DEF WelcomeInv, Works
  <2>8. \A q \in Requests \ {r} : Welcoming(q) =>
          request[q].user \in Users /\ request[q].email \in Emails /\ email[request[q].user] = request[q].email
    BY RequestLegal DEF WelcomeInv, Welcoming, Legal
  <2>9. \A q \in Requests \ {r} : Welcoming(q) => request[q].email # e /\ request[q].user # u
    BY <2>3, <2>8, AuthAssumption
  <2>10. \A p, v \in Users : email'[p] = email'[v] /\ email'[p] # NoEmail => p = v
    BY <2>3, <2>4 DEF WelcomeInv
  <2>11. \A q \in Requests : Welcoming(q)' => /\ email'[request'[q].user] = request'[q].email
                                              /\ published'[request'[q].email] = {}
    BY <2>1, <2>2, <2>3, <2>4, <2>5, <2>6, <2>7, <2>8, <2>9 DEF WelcomeInv, Welcoming
  <2>12. \A p, q \in Requests :
           Welcoming(p)' /\ Welcoming(q)' /\ request'[p].email = request'[q].email => p = q
    BY <2>1, <2>2, <2>5, <2>6, <2>9 DEF WelcomeInv, Welcoming
  <2>13. ASSUME NEW q \in Requests, request'[q].stage = "announcing"
         PROVE  Works(request[q].link, request[q].email)'
    <3>1. q # r /\ request'[q] = request[q]
      BY <1>a, <1>2, <2>1, <2>5, <2>6, <2>13
    <3>2. PICK l \in Links, f \in Emails : l = request[q].link /\ f = request[q].email
      BY <2>13, <3>1, RequestLegal DEF Legal
    <3>3. Works(l, f)'
      BY <1>2, <2>13, <3>1, <3>2, WorksKept DEF WelcomeInv, Kinds
    <3> QED BY <3>1, <3>2, <3>3 DEF Works
  <2>14. \A f \in Emails : \A l \in published'[f] : Works(l, f)'
    BY <1>0, <1>2, <2>3, WorksKept DEF WelcomeInv, AuthTypeOK, Kinds
  <2> QED BY <2>3, <2>10, <2>11, <2>12, <2>13, <2>14 DEF WelcomeInv
<1>3. ASSUME NEW r \in Requests, NEW l \in VerifyLinks, StoreVerificationToken(r, l) PROVE WelcomeInv'
  <2>1. PICK x : Becomes(r, x) /\ x.stage = "announcing" /\ x.user = request[r].user
                 /\ x.email = request[r].email /\ x.link = l
    BY <1>3, RegisteringSteps
  <2>2. PICK u \in Users, e \in Emails :
          u = request[r].user /\ e = request[r].email /\ request[r].stage = "linking"
    BY <1>3, RequestLegal DEF StoreVerificationToken, At, Legal
  <2>3. /\ l \in Links /\ link' = [link EXCEPT ![l] = [state |-> "stored", user |-> u]]
        /\ UNCHANGED <<email, published>>
    BY <1>3, <2>2 DEF StoreVerificationToken, Stored, StoreTempToken, Links, accountVars
  <2>4. link'[l].state = "stored" /\ link'[l].user = u
    BY <1>0, <2>3 DEF AuthTypeOK
  <2>5. email[u] = e
    BY <2>2 DEF WelcomeInv, Welcoming
  <2>6. request'[r] = x /\ \A q \in Requests \ {r} : request'[q] = request[q]
    BY <1>a, <2>1
  <2>7. \A q \in Requests : /\ Welcoming(q)' <=> Welcoming(q)
                            /\ request'[q].user = request[q].user \/ ~Welcoming(q)
                            /\ request'[q].email = request[q].email \/ ~Welcoming(q)
    <3>1. Welcoming(r)' /\ Welcoming(r) /\ request'[r].user = request[r].user
          /\ request'[r].email = request[r].email
      BY <2>1, <2>2, <2>6 DEF Welcoming
    <3> QED BY <2>6, <3>1 DEF Welcoming
  <2>8. ASSUME NEW q \in Requests, request'[q].stage = "announcing"
        PROVE  Works(request[q].link, request[q].email)'
    <3>1. CASE q = r
      BY <2>1, <2>2, <2>3, <2>4, <2>5, <2>6, <3>1 DEF Works
    <3>2. CASE q # r
      <4>1. request'[q] = request[q]
        BY <2>6, <3>2
      <4>2. PICK k \in Links, f \in Emails : k = request[q].link /\ f = request[q].email
        BY <2>8, <4>1, RequestLegal DEF Legal
      <4>3. Works(k, f)'
        BY <1>3, <2>8, <4>1, <4>2, WorksKept DEF WelcomeInv, Kinds
      <4> QED BY <4>1, <4>2, <4>3 DEF Works
    <3> QED BY <3>1, <3>2
  <2>9. \A f \in Emails : \A k \in published'[f] : Works(k, f)'
    BY <1>0, <1>3, <2>3, WorksKept DEF WelcomeInv, AuthTypeOK, Kinds
  <2>10. \A q \in Requests : Welcoming(q)' => /\ email'[request'[q].user] = request'[q].email
                                              /\ published'[request'[q].email] = {}
    BY <2>3, <2>7 DEF WelcomeInv
  <2>11. \A p, q \in Requests :
           Welcoming(p)' /\ Welcoming(q)' /\ request'[p].email = request'[q].email => p = q
    BY <2>7 DEF WelcomeInv
  <2> QED BY <2>3, <2>8, <2>9, <2>10, <2>11 DEF WelcomeInv
<1>4. ASSUME NEW r \in Requests, PublishUserRegistered(r) PROVE WelcomeInv'
  <2>1. request'[r] = Idle /\ \A q \in Requests \ {r} : request'[q] = request[q]
    BY <1>4, <1>a, RegisteringSteps
  <2>2. PICK l \in Links, e \in Emails :
          l = request[r].link /\ e = request[r].email /\ request[r].stage = "announcing"
    BY <1>4, RequestLegal DEF PublishUserRegistered, At, Legal
  <2>3. Works(l, e) /\ published[e] = {}
    BY <2>2 DEF WelcomeInv, Welcoming
  <2>4. published' = [published EXCEPT ![e] = @ \union {l}] /\ UNCHANGED <<email, link>>
    BY <1>4, <2>2 DEF PublishUserRegistered, Published, accountVars, linkVars
  <2>5. published'[e] = {l} /\ \A f \in Emails \ {e} : published'[f] = published[f]
    BY <1>0, <2>3, <2>4 DEF AuthTypeOK
  <2>6. \A q \in Requests : request'[q].stage \in {"linking", "announcing"} =>
          q # r /\ request'[q] = request[q] /\ Welcoming(q)
    BY <2>1, IdleIsLegal DEF Welcoming
  <2>7. \A q \in Requests : Welcoming(q)' => request[q].email # e
    BY <2>2, <2>6 DEF WelcomeInv, Welcoming
  <2>8. \A q \in Requests : Welcoming(q)' => /\ email'[request'[q].user] = request'[q].email
                                             /\ published'[request'[q].email] = {}
    <3> SUFFICES ASSUME NEW q \in Requests, Welcoming(q)'
                 PROVE  /\ email'[request'[q].user] = request'[q].email
                        /\ published'[request'[q].email] = {}
      OBVIOUS
    <3>1. request'[q] = request[q] /\ Welcoming(q)
      BY <2>6 DEF Welcoming
    <3>2. request[q].email \in Emails
      BY <3>1, RequestLegal DEF Welcoming, Legal
    <3> QED BY <2>4, <2>5, <2>7, <3>1, <3>2 DEF WelcomeInv
  <2>9. \A p, q \in Requests :
          Welcoming(p)' /\ Welcoming(q)' /\ request'[p].email = request'[q].email => p = q
    BY <2>6 DEF WelcomeInv, Welcoming
  <2>10. ASSUME NEW q \in Requests, request'[q].stage = "announcing"
         PROVE  Works(request[q].link, request[q].email)'
    BY <2>4, <2>6, <2>10 DEF WelcomeInv, Works
  <2>11. \A f \in Emails : \A k \in published'[f] : Works(k, f)'
    BY <2>3, <2>4, <2>5 DEF WelcomeInv, Works
  <2>12. \A f \in Emails : \A j, k \in published'[f] : j = k
    BY <2>5 DEF WelcomeInv
  <2>13. \A p, v \in Users : email'[p] = email'[v] /\ email'[p] # NoEmail => p = v
    BY <2>4 DEF WelcomeInv
  <2> QED BY <2>8, <2>9, <2>10, <2>11, <2>12, <2>13 DEF WelcomeInv
<1>5. ASSUME NEW r \in Requests, MarkVerified(r) \/ ResetPassword(r) PROVE WelcomeInv'
  <2>1. PICK x : Becomes(r, x) /\ x.stage = "closing"
    BY <1>5, AccountingSteps
  <2> QED BY <1>5, <1>b, <2>1 DEF MarkVerified, ResetPassword, SetVerified, UpdatePassword
<1>6. ASSUME NEW r \in Requests,
             \/ DeleteLink(r)
             \/ \E s \in Sessions : CreateRefreshToken(r, s) \/ RefreshToken(r, s)
      PROVE  WelcomeInv'
  BY <1>6, <1>b, FinishBecomes, IdleIsLegal DEF DeleteLink, CreateRefreshToken, RefreshToken, accountVars
<1>7. ASSUME NEW r \in Requests, RevokeRefreshToken(r) \/ RevokeFails(r) PROVE WelcomeInv'
  <2>1. PICK x : Becomes(r, x) /\ x.stage = "renewing"
    BY <1>7, SigningSteps
  <2> QED BY <1>7, <1>b, <2>1 DEF RevokeRefreshToken, RevokeFails, accountVars
<1>8. ASSUME NEW r \in Requests, NEW s \in Sessions, BeginRefresh(r, s) PROVE WelcomeInv'
  <2>1. PICK x : Becomes(r, x) /\ x.stage = "revoking"
    BY <1>8, SigningSteps
  <2> QED BY <1>8, <1>b, <2>1 DEF BeginRefresh, accountVars
<1> QED BY <1>1, <1>2, <1>3, <1>4, <1>5, <1>6, <1>7, <1>8 DEF Kinds

LEMMA InitWelcome == AuthInit => WelcomeInv
  BY IdleIsLegal DEF AuthInit, WelcomeInv, Welcoming

\* The link of a mail of welcome names an account with the e-mail to which the
\* mail goes, whatever is registered, expires or fails meanwhile.
THEOREM WelcomeLinkWorksHolds == AuthSpec => []WelcomeLinkWorks
<1>1. WelcomeInv => WelcomeLinkWorks
  BY DEF WelcomeInv, WelcomeLinkWorks, Works
<1> QED BY <1>1, InitAuthTypes, NextAuthTypes, InitWelcome, NextWelcome, PTL DEF AuthSpec

\* No e-mail is welcomed twice, however many registrations of it overlap.
THEOREM WelcomedOnceHolds == AuthSpec => []WelcomedOnce
<1>1. AuthTypeInv /\ WelcomeInv => WelcomedOnce
  <2> SUFFICES ASSUME AuthTypeInv, WelcomeInv, NEW e \in Emails PROVE Cardinality(published[e]) <= 1
    BY DEF WelcomedOnce
  <2>1. published[e] \in SUBSET Links /\ \A l, k \in published[e] : l = k
    BY DEF WelcomeInv, AuthTypeInv, AuthTypeOK
  <2>2. ASSUME NEW l \in published[e] PROVE Cardinality(published[e]) <= 1
    <3>1. published[e] = {l}
      BY <2>1, <2>2
    <3>2. Cardinality({l}) = 1
      BY FS_Singleton
    <3> QED BY <3>1, <3>2
  <2>3. CASE published[e] = {}
    BY <2>3, FS_EmptySet
  <2> QED BY <2>2, <2>3
<1> QED BY <1>1, InitAuthTypes, NextAuthTypes, InitWelcome, NextWelcome, PTL DEF AuthSpec

-----------------------------------------------------------------------------
(* The sessions of a login.                                                *)

\* Request r is refreshing a session of the family.
Refreshes(r, root) ==
    request[r].stage \in {"revoking", "renewing"} /\ family[request[r].session] = root

Live(s, root) == session[s] = "live" /\ family[s] = root

\* One request at a time refreshes the family; the session that it revokes is
\* the only one that may be live, and none is while it makes the next.
Rotates(root) ==
    /\ \A q, r \in Requests : Refreshes(q, root) /\ Refreshes(r, root) => q = r
    /\ \A s, t \in Sessions : Live(s, root) /\ Live(t, root) => s = t
    /\ \A r \in Requests, s \in Sessions : Refreshes(r, root) /\ Live(s, root) =>
         request[r].stage = "revoking" /\ s = request[r].session

FamilyInv ==
    /\ \A s \in Sessions : session[s] # "unused" => session[family[s]] # "unused"
    /\ \A s \in Sessions : session[s] = "unused" => family[s] = NoSession
    /\ \A root \in Sessions \ forked : Rotates(root)

LEMMA NoneRefreshes ==
  ASSUME NEW root
  PROVE  Refreshing(root) = {} <=> \A r \in Requests : ~Refreshes(r, root)
  BY DEF Refreshing, Refreshes

\* Sessions may end and requests may stop.
LEMMA FamilyKept ==
  ASSUME AuthTypeInv, FamilyInv, UNCHANGED family, forked \subseteq forked',
         \A s \in Sessions : \/ session'[s] = session[s]
                             \/ session[s] # "unused" /\ session'[s] \in {"expired", "revoked"},
         \A r \in Requests : \/ request'[r] = request[r]
                             \/ request'[r].stage \notin {"revoking", "renewing"}
                             \/ family[request[r].session] \in forked' /\
                                request'[r].session = request[r].session
  PROVE  FamilyInv'
<1>1. \A s \in Sessions : session'[s] = "unused" <=> session[s] = "unused"
  OBVIOUS
<1>2. \A s \in Sessions : session[s] # "unused" => family[s] \in Sessions
  BY DEF AuthTypeInv, SessionsTyped
<1>3. ASSUME NEW root \in Sessions \ forked' PROVE Rotates(root)'
  <2>1. Rotates(root)
    BY <1>3 DEF FamilyInv
  <2>2. \A r \in Requests : Refreshes(r, root)' => Refreshes(r, root) /\ request'[r] = request[r]
    BY <1>3 DEF Refreshes
  <2>3. \A s \in Sessions : Live(s, root)' => Live(s, root)
    BY DEF Live
  <2> QED BY <2>1, <2>2, <2>3 DEF Rotates
<1> QED BY <1>1, <1>2, <1>3 DEF FamilyInv

\* A session that is made, the only live one of a family that nobody refreshes.
LEMMA FamilyGrows ==
  ASSUME AuthTypeInv, FamilyInv, NEW r, NEW s \in Sessions, NEW u, NEW root \in Sessions,
         Becomes(r, Idle), InsertSession(s, u, root), UNCHANGED forked,
         session[root] # "unused" \/ root = s,
         root \notin forked =>
           /\ \A q \in Requests \ {r} : ~Refreshes(q, root)
           /\ \A t \in Sessions : ~Live(t, root)
  PROVE  FamilyInv'
<1>0. AuthTypeOK /\ SessionsTyped
  BY DEF AuthTypeInv
<1>1. request'[r] = Idle /\ \A q \in Requests \ {r} : request'[q] = request[q]
  BY BecomesLegal
<1>2. /\ session[s] = "unused" /\ session'[s] = "live" /\ family'[s] = root
      /\ \A t \in Sessions \ {s} : session'[t] = session[t] /\ family'[t] = family[t]
  BY <1>0 DEF InsertSession, AuthTypeOK
<1>3. \A t \in Sessions : session[t] # "unused" =>
        t # s /\ family[t] \in Sessions /\ session'[family'[t]] # "unused"
  BY <1>0, <1>2 DEF FamilyInv, SessionsTyped
<1>4. \A q \in Requests : request'[q].stage \in {"revoking", "renewing"} =>
        /\ q # r /\ request'[q] = request[q]
        /\ family'[request'[q].session] = family[request[q].session]
  <2> SUFFICES ASSUME NEW q \in Requests, request'[q].stage \in {"revoking", "renewing"}
               PROVE  /\ q # r /\ request'[q] = request[q]
                      /\ family'[request'[q].session] = family[request[q].session]
    OBVIOUS
  <2>1. q # r /\ request'[q] = request[q]
    BY <1>1, IdleIsLegal
  <2>2. request[q].session \in Sessions /\ session[request[q].session] # "unused"
    BY <1>0, <2>1, RequestLegal DEF SessionsTyped, Legal
  <2> QED BY <1>2, <2>1, <2>2
<1>5. ASSUME NEW top \in Sessions \ forked' PROVE Rotates(top)'
  <2>1. Rotates(top)
    BY <1>5 DEF FamilyInv
  <2>2. \A q \in Requests : Refreshes(q, top)' =>
          q # r /\ Refreshes(q, top) /\ request'[q] = request[q]
    BY <1>4 DEF Refreshes
  <2>3. CASE top = root
    <3>1. \A q \in Requests : ~Refreshes(q, root)'
      BY <1>5, <2>2, <2>3
    <3>2. \A t \in Sessions : Live(t, root)' => t = s
      BY <1>2, <1>5, <2>3 DEF Live
    <3> QED BY <2>3, <3>1, <3>2 DEF Rotates
  <2>4. CASE top # root
    <3>1. \A t \in Sessions : Live(t, top)' => Live(t, top)
      BY <1>2, <2>4 DEF Live
    <3> QED BY <2>1, <2>2, <3>1 DEF Rotates
  <2> QED BY <2>3, <2>4
<1>6. \A t \in Sessions : session'[t] # "unused" => session'[family'[t]] # "unused"
  <2>1. session'[root] # "unused"
    BY <1>2
  <2> QED BY <1>2, <1>3, <2>1
<1> QED BY <1>2, <1>5, <1>6 DEF FamilyInv

LEMMA NextFamily == AuthTypeInv /\ FamilyInv /\ [AuthNext]_authVars => FamilyInv'
<1> SUFFICES ASSUME AuthTypeInv, FamilyInv, Kinds PROVE FamilyInv'
  BY StepKinds
<1>0. AuthTypeOK /\ SessionsTyped
  BY DEF AuthTypeInv
<1>a. ASSUME NEW r, NEW x, Becomes(r, x)
      PROVE  request'[r] = x /\ \A q \in Requests \ {r} : request'[q] = request[q]
  BY <1>a, BecomesLegal
<1>b. ASSUME NEW r, NEW x, Becomes(r, x), x.stage \notin {"revoking", "renewing"},
             UNCHANGED sessionVars
      PROVE  FamilyInv'
  BY <1>a, <1>b, FamilyKept DEF sessionVars
<1>1. CASE Quiet
  BY <1>1, FamilyKept DEF Quiet, Aside
<1>2. ASSUME NEW r \in Requests, NEW u \in Users, CreateUser(r, u) PROVE FamilyInv'
  <2>1. PICK x : Becomes(r, x) /\ x.stage = "linking"
    BY <1>2, RegisteringSteps
  <2> QED BY <1>2, <1>b, <2>1 DEF CreateUser
<1>3. ASSUME NEW r \in Requests, NEW l \in VerifyLinks, StoreVerificationToken(r, l) PROVE FamilyInv'
  <2>1. PICK x : Becomes(r, x) /\ x.stage = "announcing"
    BY <1>3, RegisteringSteps
  <2> QED BY <1>3, <1>b, <2>1 DEF StoreVerificationToken
<1>4. ASSUME NEW r \in Requests, PublishUserRegistered(r) \/ DeleteLink(r) PROVE FamilyInv'
  BY <1>4, <1>b, FinishBecomes, IdleIsLegal DEF PublishUserRegistered, DeleteLink
<1>5. ASSUME NEW r \in Requests, MarkVerified(r) \/ ResetPassword(r) PROVE FamilyInv'
  <2>1. PICK x : Becomes(r, x) /\ x.stage = "closing"
    BY <1>5, AccountingSteps
  <2> QED BY <1>5, <1>b, <2>1 DEF MarkVerified, ResetPassword
<1>6. ASSUME NEW r \in Requests, RevokeRefreshToken(r) PROVE FamilyInv'
  <2>1. PICK x : Becomes(r, x) /\ x.stage = "renewing" /\ x.session = request[r].session
    BY <1>6, SigningSteps
  <2>2. request'[r] = x /\ \A q \in Requests \ {r} : request'[q] = request[q]
    BY <1>a, <2>1
  <2>3. PICK s \in Sessions : s = request[r].session /\ request[r].stage = "revoking"
    BY <1>6, RequestLegal DEF RevokeRefreshToken, At, Legal
  <2>4. /\ UNCHANGED <<family, forked>> /\ session'[s] # "live"
        /\ \A t \in Sessions : \/ session'[t] = session[t]
                               \/ session[t] # "unused" /\ session'[t] = "revoked"
    BY <1>6, <2>3, RevokedQuietly DEF RevokeRefreshToken, RevokedOne
  <2>5. \A q \in Requests : /\ (request'[q].stage \in {"revoking", "renewing"} <=>
                                 request[q].stage \in {"revoking", "renewing"})
                            /\ request'[q].session = request[q].session
    BY <2>1, <2>2, <2>3
  <2>6. ASSUME NEW root \in Sessions \ forked' PROVE Rotates(root)'
    <3>1. Rotates(root)
      BY <2>4, <2>6 DEF FamilyInv
    <3>2. \A q \in Requests : Refreshes(q, root)' => Refreshes(q, root)
      BY <2>4, <2>5 DEF Refreshes
    <3>3. \A t \in Sessions : Live(t, root)' => Live(t, root) /\ t # s
      BY <2>4 DEF Live
    <3>4. ASSUME NEW q \in Requests, NEW t \in Sessions, Refreshes(q, root)', Live(t, root)'
          PROVE  request'[q].stage = "revoking" /\ t = request'[q].session
      <4>1. request[q].stage = "revoking" /\ t = request[q].session /\ t # s
        BY <3>1, <3>2, <3>3, <3>4 DEF Rotates
      <4> QED BY <2>2, <2>3, <4>1
    <3> QED BY <3>1, <3>2, <3>3, <3>4 DEF Rotates
  <2>7. \A t \in Sessions : session[t] # "unused" => family[t] \in Sessions
    BY <1>0 DEF SessionsTyped
  <2>8. \A t \in Sessions : session'[t] = "unused" <=> session[t] = "unused"
    BY <2>4
  <2> QED BY <2>4, <2>6, <2>7, <2>8 DEF FamilyInv
<1>7. ASSUME NEW r \in Requests, RevokeFails(r) PROVE FamilyInv'
  <2>1. PICK x : Becomes(r, x) /\ x.session = request[r].session
    BY <1>7, SigningSteps
  <2>2. UNCHANGED <<family, session>> /\ forked' = forked \union {family[request[r].session]}
    BY <1>7 DEF RevokeFails
  <2> QED BY <1>a, <2>1, <2>2, FamilyKept
<1>8. ASSUME NEW r \in Requests, NEW s \in Sessions, BeginRefresh(r, s) PROVE FamilyInv'
  <2>1. PICK x : Becomes(r, x) /\ x.stage = "revoking" /\ x.session = s
    BY <1>8, SigningSteps
  <2>2. request'[r] = x /\ \A q \in Requests \ {r} : request'[q] = request[q]
    BY <1>a, <2>1
  <2>3. /\ session[s] = "live" /\ UNCHANGED <<session, family>>
        /\ forked' = IF Refreshing(family[s]) = {} THEN forked ELSE forked \union {family[s]}
    BY <1>8 DEF BeginRefresh, FindRefreshToken
  <2>4. \A q \in Requests : request'[q] = request[q] \/ q = r
    BY <2>2
  <2>5. ASSUME NEW root \in Sessions \ forked' PROVE Rotates(root)'
    <3>1. Rotates(root) /\ root \notin forked
      BY <2>3, <2>5 DEF FamilyInv
    <3>2. \A t \in Sessions : Live(t, root)' <=> Live(t, root)
      BY <2>3 DEF Live
    <3>3. \A q \in Requests \ {r} : Refreshes(q, root)' <=> Refreshes(q, root)
      BY <2>2, <2>3 DEF Refreshes
    <3>4. CASE root = family[s]
      <4>1. \A q \in Requests : ~Refreshes(q, root)
        BY <2>3, <2>5, <3>4, NoneRefreshes
      <4>2. \A q \in Requests : Refreshes(q, root)' => q = r
        BY <3>3, <4>1
      <4>3. \A t \in Sessions : Live(t, root)' => t = s
        BY <2>3, <3>1, <3>2, <3>4 DEF Rotates, Live
      <4> QED BY <2>1, <2>2, <4>2, <4>3 DEF Rotates
    <3>5. CASE root # family[s]
      <4>1. ~Refreshes(r, root)'
        BY <2>1, <2>2, <2>3, <3>5 DEF Refreshes
      <4> QED BY <2>4, <3>1, <3>2, <3>3, <4>1 DEF Rotates
    <3> QED BY <3>4, <3>5
  <2> QED BY <2>3, <2>5 DEF FamilyInv
<1>9. ASSUME NEW r \in Requests, NEW s \in Sessions, CreateRefreshToken(r, s) PROVE FamilyInv'
  <2>1. Becomes(r, Idle) /\ InsertSession(s, request[r].user, s) /\ UNCHANGED forked
    BY <1>9, SigningSteps DEF CreateRefreshToken
  <2>2. session[s] = "unused" /\ NoSession # s
    BY <2>1, AuthAssumption DEF InsertSession
  <2>3. \A t \in Sessions : family[t] # s
    BY <2>2 DEF FamilyInv
  <2>4. \A t \in Sessions : ~Live(t, s)
    BY <2>3 DEF Live
  <2>5. \A q \in Requests : ~Refreshes(q, s)
    BY <2>3, RequestLegal DEF Refreshes, Legal
  <2> QED BY <2>1, <2>4, <2>5, FamilyGrows
<1>10. ASSUME NEW r \in Requests, NEW s \in Sessions, RefreshToken(r, s) PROVE FamilyInv'
  <2>1. PICK old \in Sessions : old = request[r].session /\ session[old] # "unused"
    BY <1>0, <1>10, RequestLegal DEF RefreshToken, At, Legal, SessionsTyped
  <2>2. PICK root \in Sessions : root = family[old] /\ session[root] # "unused"
    BY <1>0, <2>1 DEF SessionsTyped, FamilyInv
  <2>3. /\ Becomes(r, Idle) /\ InsertSession(s, request[r].user, root) /\ UNCHANGED forked
        /\ Refreshes(r, root) /\ request[r].stage = "renewing"
    BY <1>10, <2>1, <2>2, SigningSteps DEF RefreshToken, Refreshes, At
  <2>4. root \notin forked => /\ \A q \in Requests \ {r} : ~Refreshes(q, root)
                              /\ \A t \in Sessions : ~Live(t, root)
    BY <2>3 DEF FamilyInv, Rotates
  <2> QED BY <2>2, <2>3, <2>4, FamilyGrows
<1> QED BY <1>1, <1>2, <1>3, <1>4, <1>5, <1>6, <1>7, <1>8, <1>9, <1>10 DEF Kinds

\* At most one of the refresh tokens that descend from one login is live,
\* unless two refreshes of the family overlapped or a revocation failed.
THEOREM OneLivePerLoginHolds == AuthSpec => []OneLivePerLogin
<1>1. AuthInit => FamilyInv
  BY IdleIsLegal DEF AuthInit, FamilyInv, Rotates, Refreshes, Live
<1>2. AuthTypeInv /\ FamilyInv => OneLivePerLogin
  <2> SUFFICES ASSUME AuthTypeInv, FamilyInv, NEW s \in Sessions, NEW t \in Sessions,
                      session[s] = "live", session[t] = "live", family[s] = family[t],
                      family[s] \notin forked
               PROVE  s = t
    BY DEF OneLivePerLogin
  <2>1. family[s] \in Sessions
    BY DEF AuthTypeInv, SessionsTyped
  <2> QED BY <2>1 DEF FamilyInv, Rotates, Live
<1> QED BY <1>1, <1>2, InitAuthTypes, NextAuthTypes, NextFamily, PTL DEF AuthSpec
===============================================================================
