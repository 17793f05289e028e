------------------------------ MODULE Accounts ------------------------------
(***************************************************************************)
(* The D1 tables users, sessions and invitations, and the Worker's         *)
(* requests on them: login, logout, refresh and password of a user, the    *)
(* admin's management of accounts, the life of an invitation.              *)
(*                                                                         *)
(* Requests overlap.  Each reads what it decides on in its first step, the *)
(* token's session included, and hashes or signs before it writes; every   *)
(* statement that writes is a step of its own, and the Worker may throw    *)
(* before any of them.  The tables' constraints (UNIQUE email, the foreign *)
(* keys and their cascades) are part of the writing steps.                 *)
(*                                                                         *)
(* A session is named by its token: the row is found by the token's hash   *)
(* alone, and the user and role of a request are the token's own.  The     *)
(* passwords of an account are numbered in the order they are set.  Left   *)
(* out: the signature and shape of tokens (only issued ones are used), the *)
(* rules on password strength, last_login, themes, the audit log, e-mail   *)
(* and refused requests, none of which changes these tables.  The role of  *)
(* an invitation is reduced to what it gives: admin or no system role.     *)
(***************************************************************************)
EXTENDS Naturals, FiniteSets

CONSTANTS
  Users,         \* the ids users may have
  Emails,        \* their e-mail addresses
  DefaultEmail,  \* admin@zedops.local, of migration 0007 and of the bootstrap
  Tokens,        \* the session tokens
  Invitations,   \* the ids of invitations
  Requests,      \* the requests that may be in progress at once
  MaxPassword,   \* bound on the passwords one account has in its life
  MaxLink,       \* bound on the times one invitation is sent
  Apart          \* the pairs of operations that do not overlap

Ops == {"login", "logout", "refresh", "ownPassword", "createUser", "setRole",
        "resetPassword", "deleteUser", "logoutAll", "invite", "cancel", "resend",
        "accept", "bootstrap"}

ASSUME DefaultAssumption == DefaultEmail \in Emails
ASSUME BoundsAssumption == MaxPassword \in Nat /\ MaxLink \in Nat \ {0}
ASSUME ApartAssumption == Apart \subseteq SUBSET Ops

VARIABLES
  users,        \* users[u]: the row of user u, or NoUser
  sessions,     \* sessions[t]: the unexpired session of token t, or NoSession
  invitations,  \* invitations[i]: the row of invitation i, or NoInvitation
  requests      \* requests[r]: where request r stands, or Idle

vars == <<users, sessions, invitations, requests>>

Roles == {"admin", "none"}
Passwords == 0 .. MaxPassword

\* reset: the newest password of this account that an admin gave it in a request that
\* has ended, zero if there is none (history, read by no action).
User == [email : Emails, role : Roles, password : Passwords, reset : Passwords]
NoUser == [email |-> "none"]

\* password: the one the login was made with; late: an admin's reset ended between the
\* login's reading of the account and the session it stored (both history).
Session == [user : Users, role : Roles, password : Passwords, late : BOOLEAN]
NoSession == [user |-> "none"]

\* link: how often the invitation has been sent; only the last link is found by its hash.
Invitation == [email : Emails, role : Roles, by : Users, link : 1 .. MaxLink,
               expired : BOOLEAN, used : BOOLEAN]
NoInvitation == [email |-> "none"]

Exists(u) == users[u] # NoUser
Live(t) == sessions[t] # NoSession
Offered(i) == invitations[i] # NoInvitation
Taken(e) == \E u \in Users : Exists(u) /\ users[u].email = e

\* The fields a request carries from its first step to its writes; those an operation
\* has no use for keep the value they have in Idle.
Idle == [op |-> "none", at |-> "idle"]
Request == {Idle} \cup
  [op : Ops, at : {"write", "second"}, by : Users \cup {"none"}, user : Users \cup {"none"},
   token : Tokens \cup {"none"}, email : Emails \cup {"none"}, role : Roles,
   password : Passwords, invitation : Invitations \cup {"none"}, link : 0 .. MaxLink]
Blank(op) ==
  [op |-> op, at |-> "write", by |-> "none", user |-> "none", token |-> "none",
   email |-> "none", role |-> "none", password |-> 0, invitation |-> "none", link |-> 0]

TypeOK ==
  /\ users \in [Users -> User \cup {NoUser}]
  /\ sessions \in [Tokens -> Session \cup {NoSession}]
  /\ invitations \in [Invitations -> Invitation \cup {NoInvitation}]
  /\ requests \in [Requests -> Request]

NewUser(email, role) == [email |-> email, role |-> role, password |-> 0, reset |-> 0]

Init ==
  /\ \E u \in Users :
       users = [v \in Users |-> IF v = u THEN NewUser(DefaultEmail, "admin") ELSE NoUser]
  /\ sessions = [t \in Tokens |-> NoSession]
  /\ invitations = [i \in Invitations |-> NoInvitation]
  /\ requests = [r \in Requests |-> Idle]

-----------------------------------------------------------------------------
\* How requests begin and end

MayBegin(op) ==
  \A r \in Requests : requests[r] # Idle => {op, requests[r].op} \notin Apart

Begin(r, request) ==
  /\ requests[r] = Idle
  /\ MayBegin(request.op)
  /\ requests' = [requests EXCEPT ![r] = request]
  /\ UNCHANGED <<users, sessions, invitations>>

Writes(r, op) == requests[r].op = op /\ requests[r].at = "write"
Seconds(r, op) == requests[r].op = op /\ requests[r].at = "second"
End(r) == requests' = [requests EXCEPT ![r] = Idle]
GoOn(r) == requests' = [requests EXCEPT ![r].at = "second"]

\* Ids are random: one that is referred to anywhere is not drawn again.
Referred(u) ==
  \/ Exists(u)
  \/ \E t \in Tokens : Live(t) /\ sessions[t].user = u
  \/ \E i \in Invitations : Offered(i) /\ invitations[i].by = u
  \/ \E r \in Requests : requests[r] # Idle /\ u \in {requests[r].by, requests[r].user}
FreshToken(t) ==
  ~Live(t) /\ \A r \in Requests : requests[r] # Idle => requests[r].token # t
FreshInvitation(i) ==
  ~Offered(i) /\ \A r \in Requests : requests[r] # Idle => requests[r].invitation # i

\* INSERT INTO users; the UNIQUE constraint on email makes the statement throw.
InsertUser(email, role) ==
  /\ ~Taken(email)
  /\ \E u \in Users : ~Referred(u) /\ users' = [users EXCEPT ![u] = NewUser(email, role)]

\* Any await of a handler may throw: the request ends with a 500 where it stands.  Taken
\* e-mail addresses and foreign keys that no longer hold end it in the same way.
Throw(r) ==
  /\ requests[r] # Idle
  /\ End(r)
  /\ UNCHANGED <<users, sessions, invitations>>

-----------------------------------------------------------------------------
\* A user's own requests (routes/auth.ts)

Login(r, u) ==
  /\ Exists(u)
  /\ Begin(r, [Blank("login") EXCEPT !.user = u, !.role = users[u].role,
                                     !.password = users[u].password])

StoreSession(r) ==
  LET q == requests[r] IN
  /\ Writes(r, "login")
  /\ Exists(q.user)
  /\ \E t \in Tokens :
       /\ FreshToken(t)
       /\ sessions' = [sessions EXCEPT ![t] =
            [user |-> q.user, role |-> q.role, password |-> q.password,
             late |-> q.password < users[q.user].reset]]
  /\ End(r)
  /\ UNCHANGED <<users, invitations>>

\* requireAuth looks the session up; what an operation keeps of it is the user, or the
\* token itself.
Logout(r, t) == Live(t) /\ Begin(r, [Blank("logout") EXCEPT !.token = t])

DeleteSession(r) ==
  /\ Writes(r, "logout")
  /\ sessions' = [sessions EXCEPT ![requests[r].token] = NoSession]
  /\ End(r)
  /\ UNCHANGED <<users, invitations>>

Refresh(r, t) == Live(t) /\ Begin(r, [Blank("refresh") EXCEPT !.token = t])

\* UPDATE sessions SET token_hash ... WHERE token_hash = the old one: a session that is
\* gone by now stays gone, and the token in the answer is worth nothing.
ReplaceSession(r) ==
  LET old == requests[r].token IN
  /\ Writes(r, "refresh")
  /\ IF Live(old)
     THEN \E t \in Tokens :
            /\ FreshToken(t)
            /\ sessions' = [sessions EXCEPT ![old] = NoSession, ![t] = sessions[old]]
     ELSE UNCHANGED sessions
  /\ End(r)
  /\ UNCHANGED <<users, invitations>>

OwnPassword(r, t) ==
  /\ Live(t) /\ Exists(sessions[t].user)
  /\ Begin(r, [Blank("ownPassword") EXCEPT !.user = sessions[t].user])

\* The passwords of an account are numbered as they are set; the other sessions stay.
WritePassword(u) ==
  IF Exists(u)
  THEN /\ users[u].password < MaxPassword
       /\ users' = [users EXCEPT ![u].password = @ + 1]
  ELSE UNCHANGED users

SetOwnPassword(r) ==
  /\ Writes(r, "ownPassword")
  /\ WritePassword(requests[r].user)
  /\ End(r)
  /\ UNCHANGED <<sessions, invitations>>

\* A session passes its seven days.
Expire(t) ==
  /\ Live(t)
  /\ sessions' = [sessions EXCEPT ![t] = NoSession]
  /\ UNCHANGED <<users, invitations, requests>>

-----------------------------------------------------------------------------
\* The admin's requests (routes/users.ts)

\* requireAuth and requireRole('admin'): the role is the token's, not the account's.
Admin(t) == Live(t) /\ sessions[t].role = "admin"

CreateUser(r, t, email, role) ==
  /\ Admin(t) /\ ~Taken(email)
  /\ Begin(r, [Blank("createUser") EXCEPT !.email = email, !.role = role])

InsertCreated(r) ==
  /\ Writes(r, "createUser")
  /\ InsertUser(requests[r].email, requests[r].role)
  /\ End(r)
  /\ UNCHANGED <<sessions, invitations>>

SetRole(r, t, u, role) ==
  /\ Admin(t) /\ Exists(u)
  /\ Begin(r, [Blank("setRole") EXCEPT !.user = u, !.role = role])

\* The sessions keep the role they were issued with.
UpdateRole(r) ==
  LET u == requests[r].user IN
  /\ Writes(r, "setRole")
  /\ users' = IF Exists(u) THEN [users EXCEPT ![u].role = requests[r].role] ELSE users
  /\ End(r)
  /\ UNCHANGED <<sessions, invitations>>

ResetPassword(r, t, u) ==
  /\ Admin(t) /\ Exists(u)
  /\ Begin(r, [Blank("resetPassword") EXCEPT !.user = u])

UpdatePassword(r) ==
  LET u == requests[r].user IN
  /\ Writes(r, "resetPassword")
  /\ WritePassword(u)
  /\ requests' = [requests EXCEPT ![r].at = "second",
       ![r].password = IF Exists(u) THEN users[u].password + 1 ELSE 0]
  /\ UNCHANGED <<sessions, invitations>>

Without(u) ==
  [t \in Tokens |-> IF Live(t) /\ sessions[t].user = u THEN NoSession ELSE sessions[t]]

\* Mutant: the sessions are left to expire.
DropSessionsLater(r) ==
  LET q == requests[r] IN
  /\ Seconds(r, "resetPassword")
  /\ users' = IF Exists(q.user) THEN [users EXCEPT ![q.user].reset = q.password] ELSE users
  /\ End(r)
  /\ UNCHANGED <<sessions, invitations>>

DropSessions(r) ==
  LET q == requests[r] IN
  /\ Seconds(r, "resetPassword")
  /\ sessions' = Without(q.user)
  /\ users' = IF Exists(q.user) /\ users[q.user].reset < q.password
              THEN [users EXCEPT ![q.user].reset = q.password] ELSE users
  /\ End(r)
  /\ UNCHANGED invitations

\* Nobody deletes the account of the token the request came with.
DeleteUser(r, t, u) ==
  /\ Admin(t) /\ Exists(u) /\ u # sessions[t].user
  /\ Begin(r, [Blank("deleteUser") EXCEPT !.user = u])

\* Mutant: sessions without a foreign key, as the comment's "soft delete".
RemoveUserOnly(r) ==
  LET u == requests[r].user IN
  /\ Writes(r, "deleteUser")
  /\ users' = [users EXCEPT ![u] = NoUser]
  /\ End(r)
  /\ UNCHANGED <<sessions, invitations>>

\* The cascades take the user's sessions and the invitations the user has sent.
RemoveUser(r) ==
  LET u == requests[r].user IN
  /\ Writes(r, "deleteUser")
  /\ users' = [users EXCEPT ![u] = NoUser]
  /\ sessions' = Without(u)
  /\ invitations' = [i \in Invitations |->
       IF Offered(i) /\ invitations[i].by = u THEN NoInvitation ELSE invitations[i]]
  /\ End(r)

LogoutAll(r, t, u) ==
  /\ Admin(t) /\ Exists(u)
  /\ Begin(r, [Blank("logoutAll") EXCEPT !.user = u])

DeleteSessions(r) ==
  /\ Writes(r, "logoutAll")
  /\ sessions' = Without(requests[r].user)
  /\ End(r)
  /\ UNCHANGED <<users, invitations>>

-----------------------------------------------------------------------------
\* Invitations (routes/invitations.ts)

\* The status the list shows as pending.
Pending(i) == Offered(i) /\ ~invitations[i].used /\ ~invitations[i].expired

Invite(r, t, email, role) ==
  /\ Admin(t) /\ ~Taken(email)
  /\ ~\E i \in Invitations : Pending(i) /\ invitations[i].email = email
  /\ Begin(r, [Blank("invite") EXCEPT !.by = sessions[t].user, !.email = email, !.role = role])

\* invited_by refers to the inviting user: the INSERT throws when that account is gone.
InsertInvitation(r) ==
  LET q == requests[r] IN
  /\ Writes(r, "invite")
  /\ Exists(q.by)
  /\ \E i \in Invitations :
       /\ FreshInvitation(i)
       /\ invitations' = [invitations EXCEPT ![i] =
            [email |-> q.email, role |-> q.role, by |-> q.by, link |-> 1,
             expired |-> FALSE, used |-> FALSE]]
  /\ End(r)
  /\ UNCHANGED <<users, sessions>>

Cancel(r, t, i) ==
  /\ Admin(t) /\ Offered(i) /\ ~invitations[i].used
  /\ Begin(r, [Blank("cancel") EXCEPT !.invitation = i])

\* DELETE by id: an invitation accepted meanwhile goes too.
DeleteInvitation(r) ==
  /\ Writes(r, "cancel")
  /\ invitations' = [invitations EXCEPT ![requests[r].invitation] = NoInvitation]
  /\ End(r)
  /\ UNCHANGED <<users, sessions>>

Resend(r, t, i) ==
  /\ Admin(t) /\ Offered(i) /\ ~invitations[i].used /\ ~Taken(invitations[i].email)
  /\ Begin(r, [Blank("resend") EXCEPT !.by = sessions[t].user, !.invitation = i])

\* Mutant: INSERT OR REPLACE from what the request holds.
UpdateLinkUpsert(r) ==
  LET q == requests[r] IN
  /\ Writes(r, "resend")
  /\ Exists(q.by)
  /\ invitations' = [invitations EXCEPT ![q.invitation] =
       [email |-> q.email, role |-> q.role, by |-> q.by, link |-> 1,
        expired |-> FALSE, used |-> FALSE]]
  /\ End(r)
  /\ UNCHANGED <<users, sessions>>

\* UPDATE by id: an invitation cancelled meanwhile stays away; one accepted meanwhile
\* gets a link that is refused.
UpdateLink(r) ==
  LET q == requests[r] IN
  /\ Writes(r, "resend")
  /\ IF Offered(q.invitation)
     THEN /\ Exists(q.by)
          /\ invitations[q.invitation].link < MaxLink
          /\ invitations' = [invitations EXCEPT ![q.invitation].link = @ + 1,
               ![q.invitation].expired = FALSE, ![q.invitation].by = q.by]
     ELSE UNCHANGED invitations
  /\ End(r)
  /\ UNCHANGED <<users, sessions>>

\* Mutant: a used invitation is refused by the e-mail's account only.
AcceptAgain(r, i) ==
  /\ Offered(i) /\ ~invitations[i].expired /\ ~Taken(invitations[i].email)
  /\ Begin(r, [Blank("accept") EXCEPT !.invitation = i, !.link = invitations[i].link,
                 !.email = invitations[i].email, !.role = invitations[i].role])

\* The link in use is the one whose hash the row bears; older ones are not found.
Accept(r, i) ==
  /\ Pending(i) /\ ~Taken(invitations[i].email)
  /\ Begin(r, [Blank("accept") EXCEPT !.invitation = i, !.link = invitations[i].link,
                 !.email = invitations[i].email, !.role = invitations[i].role])

InsertAccepted(r) ==
  /\ Writes(r, "accept")
  /\ InsertUser(requests[r].email, requests[r].role)
  /\ GoOn(r)
  /\ UNCHANGED <<sessions, invitations>>

MarkUsed(r) ==
  LET i == requests[r].invitation IN
  /\ Seconds(r, "accept")
  /\ invitations' = IF Offered(i) THEN [invitations EXCEPT ![i].used = TRUE] ELSE invitations
  /\ End(r)
  /\ UNCHANGED <<users, sessions>>

\* A link passes its 24 hours.
Lapse(i) ==
  /\ Offered(i) /\ ~invitations[i].expired
  /\ invitations' = [invitations EXCEPT ![i].expired = TRUE]
  /\ UNCHANGED <<users, sessions, requests>>

\* POST /api/bootstrap, for a table without users.
Bootstrap(r) ==
  /\ \A u \in Users : ~Exists(u)
  /\ Begin(r, [Blank("bootstrap") EXCEPT !.email = DefaultEmail, !.role = "admin"])

InsertBootstrap(r) ==
  /\ Writes(r, "bootstrap")
  /\ InsertUser(requests[r].email, requests[r].role)
  /\ End(r)
  /\ UNCHANGED <<sessions, invitations>>

-----------------------------------------------------------------------------
OwnRequest(r) ==
  \/ \E u \in Users : Login(r, u)
  \/ \E t \in Tokens : Logout(r, t) \/ Refresh(r, t) \/ OwnPassword(r, t)
  \/ StoreSession(r) \/ DeleteSession(r) \/ ReplaceSession(r) \/ SetOwnPassword(r)

AdminRequest(r) ==
  \/ \E t \in Tokens, e \in Emails, role \in Roles :
       CreateUser(r, t, e, role) \/ Invite(r, t, e, role)
  \/ \E t \in Tokens, u \in Users, role \in Roles : SetRole(r, t, u, role)
  \/ \E t \in Tokens, u \in Users :
       ResetPassword(r, t, u) \/ DeleteUser(r, t, u) \/ LogoutAll(r, t, u)
  \/ \E t \in Tokens, i \in Invitations : Cancel(r, t, i) \/ Resend(r, t, i)
  \/ InsertCreated(r) \/ UpdateRole(r) \/ UpdatePassword(r) \/ DropSessions(r)
  \/ RemoveUser(r) \/ DeleteSessions(r)
  \/ InsertInvitation(r) \/ DeleteInvitation(r) \/ UpdateLink(r)

PublicRequest(r) ==
  \/ \E i \in Invitations : Accept(r, i)
  \/ InsertAccepted(r) \/ MarkUsed(r)
  \/ Bootstrap(r) \/ InsertBootstrap(r)

Next ==
  \/ \E r \in Requests : OwnRequest(r) \/ AdminRequest(r) \/ PublicRequest(r) \/ Throw(r)
  \/ \E t \in Tokens : Expire(t)
  \/ \E i \in Invitations : Lapse(i)

Spec == Init /\ [][Next]_vars

-----------------------------------------------------------------------------
\* Properties

\* A token that requireAuth accepts belongs to an account that exists, although requireAuth
\* never looks at the table users and a login stores its session after the account it
\* read may have been deleted.
SessionsOwned == \A t \in Tokens : Live(t) => Exists(sessions[t].user)

\* No two accounts bear one e-mail address, whatever requests create accounts at once: the
\* handlers' own check is made before the password is hashed.
EmailsUnique ==
  \A u, v \in Users : Exists(u) /\ Exists(v) /\ users[u].email = users[v].email => u = v

\* "all sessions invalidated": when an admin's reset of a password has ended, no session
\* opened with an older password is accepted, but for a login that had read the account
\* before and stored its session after.
ResetHolds ==
  \A t \in Tokens : Live(t) /\ ~sessions[t].late =>
    sessions[t].password >= users[sessions[t].user].reset

\* An account is made from an invitation only while the invitation is there, unused and
\* sent by the same link: nothing cancelled, resent or accepted before makes one.
Accepting(r) == Writes(r, "accept") /\ users' # users /\ requests'[r].at = "second"
LinkGood(r) ==
  LET q == requests[r] IN
  /\ Offered(q.invitation) /\ ~invitations[q.invitation].used
  /\ invitations[q.invitation].link = q.link
AcceptsGoodLinks == [][\A r \in Requests : Accepting(r) => LinkGood(r)]_vars
=============================================================================
