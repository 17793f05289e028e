---------------------------- MODULE Access_proofs ----------------------------
(***************************************************************************)
(* What holds of Accounts for any sets of users, tokens, invitations and   *)
(* overlapping requests: the types, that every session is that of an       *)
(* account that exists, that a reset of a password closes the sessions of  *)
(* the old one, and that no two accounts have one address; and, as long as *)
(* an acceptance does not overlap with a cancellation, a resending or the  *)
(* removal of an account, that accounts are made by good links only.       *)
(*                                                                         *)
(* What holds of Access for any overlap of changes with each other and     *)
(* with the requests on accounts: it is Accounts with tables of its own,   *)
(* which keep their types; who is listed a server may view it and the      *)
(* other way round; who is alerted has a role; and no row is there twice.  *)
(* And of PageCache, the other part of MCAccess: what a page shows at rest *)
(* is current.                                                             *)
(***************************************************************************)
EXTENDS Access, PageCache, FiniteSetTheorems, TLAPS

-----------------------------------------------------------------------------
(* Accounts                                                                *)

\* A request begins of the type.
LEMMA BlankTyped ==
  ASSUME NEW op \in Ops
  PROVE  /\ Blank(op) \in Request
         /\ Blank(op).op = op /\ Blank(op).at = "write" /\ Blank(op).password = 0
BY BoundsAssumption DEF Blank, Request, Roles, Passwords

\* A request that begins or ends leaves the table of requests well typed.
LEMMA BeginTyped ==
  ASSUME TypeOK, NEW r \in Requests, NEW q \in Request, Begin(r, q)
  PROVE  TypeOK'
BY DEF TypeOK, Begin

LEMMA EndTyped ==
  ASSUME TypeOK, NEW r \in Requests, End(r)
  PROVE  requests' \in [Requests -> Request]
BY DEF TypeOK, End, Request

\* A request in its first or second step has all its fields.
LEMMA AtWork ==
  ASSUME TypeOK, NEW r \in Requests, NEW op, Writes(r, op) \/ Seconds(r, op)
  PROVE  /\ requests[r] \in [op : Ops, at : {"write", "second"}, by : Users \cup {"none"},
              user : Users \cup {"none"}, token : Tokens \cup {"none"}, email : Emails \cup {"none"},
              role : Roles, password : Passwords, invitation : Invitations \cup {"none"},
              link : 0 .. MaxLink]
         /\ requests[r] # Idle
BY DEF TypeOK, Writes, Seconds, Request, Idle

-----------------------------------------------------------------------------
\* Types

LEMMA InitTyped == Init => TypeOK
BY DefaultAssumption, BoundsAssumption DEF Init, TypeOK, NewUser, User, Roles, Passwords, Request

\* A row that is inserted, a password that is set, sessions that are taken from a user.
LEMMA InsertTyped ==
  ASSUME TypeOK, NEW email \in Emails, NEW role \in Roles, InsertUser(email, role)
  PROVE  users' \in [Users -> User \cup {NoUser}]
BY BoundsAssumption DEF TypeOK, InsertUser, NewUser, User, Passwords

LEMMA WriteTyped ==
  ASSUME TypeOK, NEW u \in Users, WritePassword(u)
  PROVE  /\ users' \in [Users -> User \cup {NoUser}]
         /\ Exists(u) => users[u].password + 1 \in Passwords
BY BoundsAssumption DEF TypeOK, WritePassword, Exists, User, Passwords

LEMMA WithoutTyped ==
  ASSUME TypeOK, NEW u
  PROVE  Without(u) \in [Tokens -> Session \cup {NoSession}]
BY DEF TypeOK, Without

\* What a request carries from its first step to its writes.
Carries(q) ==
  /\ q.op \in {"login", "ownPassword", "setRole", "resetPassword", "deleteUser", "logoutAll"}
       => q.user \in Users
  /\ q.op \in {"logout", "refresh"} => q.token \in Tokens
  /\ q.op \in {"createUser", "invite", "accept", "bootstrap"} => q.email \in Emails
  /\ q.op \in {"invite", "resend"} => q.by \in Users
  /\ q.op \in {"cancel", "resend", "accept"} => q.invitation \in Invitations

\* A request in its first step, with its fields of the types.
First(op, by, user, token, email, role, password, invitation, link) ==
  [op |-> op, at |-> "write", by |-> by, user |-> user, token |-> token, email |-> email,
   role |-> role, password |-> password, invitation |-> invitation, link |-> link]

LEMMA FirstTyped ==
  ASSUME NEW op \in Ops, NEW by \in Users \cup {"none"}, NEW user \in Users \cup {"none"},
         NEW token \in Tokens \cup {"none"}, NEW email \in Emails \cup {"none"},
         NEW role \in Roles, NEW password \in Passwords,
         NEW invitation \in Invitations \cup {"none"}, NEW link \in 0 .. MaxLink
  PROVE  First(op, by, user, token, email, role, password, invitation, link) \in Request
BY DEF First, Request

LEMMA Defaults ==
  "none" \in Roles /\ "admin" \in Roles /\ 0 \in Passwords /\ 0 \in 0 .. MaxLink
BY BoundsAssumption DEF Roles, Passwords

\* The first step of a request.
Opens(r) ==
  \/ \E u \in Users : Login(r, u)
  \/ \E t \in Tokens : Logout(r, t) \/ Refresh(r, t) \/ OwnPassword(r, t)
  \/ \E t \in Tokens, e \in Emails, role \in Roles :
       CreateUser(r, t, e, role) \/ Invite(r, t, e, role)
  \/ \E t \in Tokens, u \in Users, role \in Roles : SetRole(r, t, u, role)
  \/ \E t \in Tokens, u \in Users :
       ResetPassword(r, t, u) \/ DeleteUser(r, t, u) \/ LogoutAll(r, t, u)
  \/ \E t \in Tokens, i \in Invitations : Cancel(r, t, i) \/ Resend(r, t, i)
  \/ \E i \in Invitations : Accept(r, i)
  \/ Bootstrap(r)

\* What an acceptance has found when it begins.
Proposes(q) ==
  q.op = "accept" =>
    /\ Offered(q.invitation) /\ ~invitations[q.invitation].used
    /\ invitations[q.invitation].email = q.email /\ invitations[q.invitation].link = q.link

\* A request whose first step is one of the operations' is well typed and not idle.
LEMMA BeginningsTyped ==
  ASSUME TypeOK, NEW r \in Requests, Opens(r)
  PROVE  \E q \in Request : Begin(r, q) /\ q.op # "none" /\ q.at = "write" /\ Carries(q) /\ Proposes(q)
<1> DEFINE Opening == \E q \in Request : Begin(r, q) /\ q.op # "none" /\ q.at = "write" /\ Carries(q) /\ Proposes(q)
<1>1. ASSUME NEW u \in Users, Login(r, u)
      PROVE  Opening
  <2> DEFINE q == First("login", "none", u, "none", "none", users[u].role, users[u].password, "none", 0)
  <2>1. users[u] \in User
    BY <1>1 DEF Login, Exists, TypeOK
  <2>2. users[u].role \in Roles /\ users[u].password \in Passwords
    BY <2>1 DEF User
  <2>3. q \in Request
    BY <2>2, FirstTyped, Defaults DEF Ops
  <2>4. Blank("login") = First("login", "none", "none", "none", "none", "none", 0, "none", 0)
    BY DEF Blank, First
  <2>5. [First("login", "none", "none", "none", "none", "none", 0, "none", 0) EXCEPT !.user = u]
         = First("login", "none", u, "none", "none", "none", 0, "none", 0)
    BY DEF First
  <2>6. [First("login", "none", u, "none", "none", "none", 0, "none", 0) EXCEPT !.role = users[u].role]
         = First("login", "none", u, "none", "none", users[u].role, 0, "none", 0)
    BY DEF First
  <2>7. [First("login", "none", u, "none", "none", users[u].role, 0, "none", 0) EXCEPT !.password = users[u].password]
         = q
    BY DEF First
  <2>8. [Blank("login") EXCEPT !.user = u, !.role = users[u].role, !.password = users[u].password] = q
    BY <2>4, <2>5, <2>6, <2>7
  <2>9. Begin(r, q)
    BY <1>1, <2>8 DEF Login
  <2>10. q.op # "none" /\ q.at = "write" /\ Carries(q) /\ Proposes(q)
    BY <2>2 DEF First, Carries, Proposes
  <2> HIDE DEF q
  <2> QED
    BY <2>3, <2>9, <2>10
<1>2. ASSUME NEW t \in Tokens, Logout(r, t)
      PROVE  Opening
  <2> DEFINE q == First("logout", "none", "none", t, "none", "none", 0, "none", 0)
  <2>1. q \in Request
    BY FirstTyped, Defaults DEF Ops
  <2>2. Begin(r, q)
    BY <1>2 DEF Logout, First, Blank
  <2>3. q.op # "none" /\ q.at = "write" /\ Carries(q) /\ Proposes(q)
    BY DEF First, Carries, Proposes
  <2> HIDE DEF q
  <2> QED
    BY <2>1, <2>2, <2>3
<1>3. ASSUME NEW t \in Tokens, Refresh(r, t)
      PROVE  Opening
  <2> DEFINE q == First("refresh", "none", "none", t, "none", "none", 0, "none", 0)
  <2>1. q \in Request
    BY FirstTyped, Defaults DEF Ops
  <2>2. Begin(r, q)
    BY <1>3 DEF Refresh, First, Blank
  <2>3. q.op # "none" /\ q.at = "write" /\ Carries(q) /\ Proposes(q)
    BY DEF First, Carries, Proposes
  <2> HIDE DEF q
  <2> QED
    BY <2>1, <2>2, <2>3
<1>4. ASSUME NEW t \in Tokens, OwnPassword(r, t)
      PROVE  Opening
  <2> DEFINE q == First("ownPassword", "none", sessions[t].user, "none", "none", "none", 0, "none", 0)
  <2>1. sessions[t] \in Session
    BY <1>4 DEF OwnPassword, Live, TypeOK
  <2>2. sessions[t].user \in Users
    BY <2>1 DEF Session
  <2>3. q \in Request
    BY <2>2, FirstTyped, Defaults DEF Ops
  <2>4. Begin(r, q)
    BY <1>4 DEF OwnPassword, First, Blank
  <2>5. q.op # "none" /\ q.at = "write" /\ Carries(q) /\ Proposes(q)
    BY <2>2 DEF First, Carries, Proposes
  <2> HIDE DEF q
  <2> QED
    BY <2>3, <2>4, <2>5
<1>5. ASSUME NEW t \in Tokens, NEW e \in Emails, NEW role \in Roles, CreateUser(r, t, e, role)
      PROVE  Opening
  <2> DEFINE q == First("createUser", "none", "none", "none", e, role, 0, "none", 0)
  <2>1. q \in Request
    BY FirstTyped, Defaults DEF Ops
  <2>2. Blank("createUser") = First("createUser", "none", "none", "none", "none", "none", 0, "none", 0)
    BY DEF Blank, First
  <2>3. [First("createUser", "none", "none", "none", "none", "none", 0, "none", 0) EXCEPT !.email = e]
         = First("createUser", "none", "none", "none", e, "none", 0, "none", 0)
    BY DEF First
  <2>4. [First("createUser", "none", "none", "none", e, "none", 0, "none", 0) EXCEPT !.role = role]
         = q
    BY DEF First
  <2>5. [Blank("createUser") EXCEPT !.email = e, !.role = role] = q
    BY <2>2, <2>3, <2>4
  <2>6. Begin(r, q)
    BY <1>5, <2>5 DEF CreateUser
  <2>7. q.op # "none" /\ q.at = "write" /\ Carries(q) /\ Proposes(q)
    BY DEF First, Carries, Proposes
  <2> HIDE DEF q
  <2> QED
    BY <2>1, <2>6, <2>7
<1>6. ASSUME NEW t \in Tokens, NEW e \in Emails, NEW role \in Roles, Invite(r, t, e, role)
      PROVE  Opening
  <2> DEFINE q == First("invite", sessions[t].user, "none", "none", e, role, 0, "none", 0)
  <2>1. sessions[t] \in Session
    BY <1>6 DEF Invite, Admin, Live, TypeOK
  <2>2. sessions[t].user \in Users
    BY <2>1 DEF Session
  <2>3. q \in Request
    BY <2>2, FirstTyped, Defaults DEF Ops
  <2>4. Blank("invite") = First("invite", "none", "none", "none", "none", "none", 0, "none", 0)
    BY DEF Blank, First
  <2>5. [First("invite", "none", "none", "none", "none", "none", 0, "none", 0) EXCEPT !.by = sessions[t].user]
         = First("invite", sessions[t].user, "none", "none", "none", "none", 0, "none", 0)
    BY DEF First
  <2>6. [First("invite", sessions[t].user, "none", "none", "none", "none", 0, "none", 0) EXCEPT !.email = e]
         = First("invite", sessions[t].user, "none", "none", e, "none", 0, "none", 0)
    BY DEF First
  <2>7. [First("invite", sessions[t].user, "none", "none", e, "none", 0, "none", 0) EXCEPT !.role = role]
         = q
    BY DEF First
  <2>8. [Blank("invite") EXCEPT !.by = sessions[t].user, !.email = e, !.role = role] = q
    BY <2>4, <2>5, <2>6, <2>7
  <2>9. Begin(r, q)
    BY <1>6, <2>8 DEF Invite
  <2>10. q.op # "none" /\ q.at = "write" /\ Carries(q) /\ Proposes(q)
    BY <2>2 DEF First, Carries, Proposes
  <2> HIDE DEF q
  <2> QED
    BY <2>3, <2>9, <2>10
<1>7. ASSUME NEW t \in Tokens, NEW u \in Users, NEW role \in Roles, SetRole(r, t, u, role)
      PROVE  Opening
  <2> DEFINE q == First("setRole", "none", u, "none", "none", role, 0, "none", 0)
  <2>1. q \in Request
    BY FirstTyped, Defaults DEF Ops
  <2>2. Blank("setRole") = First("setRole", "none", "none", "none", "none", "none", 0, "none", 0)
    BY DEF Blank, First
  <2>3. [First("setRole", "none", "none", "none", "none", "none", 0, "none", 0) EXCEPT !.user = u]
         = First("setRole", "none", u, "none", "none", "none", 0, "none", 0)
    BY DEF First
  <2>4. [First("setRole", "none", u, "none", "none", "none", 0, "none", 0) EXCEPT !.role = role]
         = q
    BY DEF First
  <2>5. [Blank("setRole") EXCEPT !.user = u, !.role = role] = q
    BY <2>2, <2>3, <2>4
  <2>6. Begin(r, q)
    BY <1>7, <2>5 DEF SetRole
  <2>7. q.op # "none" /\ q.at = "write" /\ Carries(q) /\ Proposes(q)
    BY DEF First, Carries, Proposes
  <2> HIDE DEF q
  <2> QED
    BY <2>1, <2>6, <2>7
<1>8. ASSUME NEW t \in Tokens, NEW u \in Users, ResetPassword(r, t, u)
      PROVE  Opening
  <2> DEFINE q == First("resetPassword", "none", u, "none", "none", "none", 0, "none", 0)
  <2>1. q \in Request
    BY FirstTyped, Defaults DEF Ops
  <2>2. Begin(r, q)
    BY <1>8 DEF ResetPassword, First, Blank
  <2>3. q.op # "none" /\ q.at = "write" /\ Carries(q) /\ Proposes(q)
    BY DEF First, Carries, Proposes
  <2> HIDE DEF q
  <2> QED
    BY <2>1, <2>2, <2>3
<1>9. ASSUME NEW t \in Tokens, NEW u \in Users, DeleteUser(r, t, u)
      PROVE  Opening
  <2> DEFINE q == First("deleteUser", "none", u, "none", "none", "none", 0, "none", 0)
  <2>1. q \in Request
    BY FirstTyped, Defaults DEF Ops
  <2>2. Begin(r, q)
    BY <1>9 DEF DeleteUser, First, Blank
  <2>3. q.op # "none" /\ q.at = "write" /\ Carries(q) /\ Proposes(q)
    BY DEF First, Carries, Proposes
  <2> HIDE DEF q
  <2> QED
    BY <2>1, <2>2, <2>3
<1>10. ASSUME NEW t \in Tokens, NEW u \in Users, LogoutAll(r, t, u)
      PROVE  Opening
  <2> DEFINE q == First("logoutAll", "none", u, "none", "none", "none", 0, "none", 0)
  <2>1. q \in Request
    BY FirstTyped, Defaults DEF Ops
  <2>2. Begin(r, q)
    BY <1>10 DEF LogoutAll, First, Blank
  <2>3. q.op # "none" /\ q.at = "write" /\ Carries(q) /\ Proposes(q)
    BY DEF First, Carries, Proposes
  <2> HIDE DEF q
  <2> QED
    BY <2>1, <2>2, <2>3
<1>11. ASSUME NEW t \in Tokens, NEW i \in Invitations, Cancel(r, t, i)
      PROVE  Opening
  <2> DEFINE q == First("cancel", "none", "none", "none", "none", "none", 0, i, 0)
  <2>1. q \in Request
    BY FirstTyped, Defaults DEF Ops
  <2>2. Begin(r, q)
    BY <1>11 DEF Cancel, First, Blank
  <2>3. q.op # "none" /\ q.at = "write" /\ Carries(q) /\ Proposes(q)
    BY DEF First, Carries, Proposes
  <2> HIDE DEF q
  <2> QED
    BY <2>1, <2>2, <2>3
<1>12. ASSUME NEW t \in Tokens, NEW i \in Invitations, Resend(r, t, i)
      PROVE  Opening
  <2> DEFINE q == First("resend", sessions[t].user, "none", "none", "none", "none", 0, i, 0)
  <2>1. sessions[t] \in Session
    BY <1>12 DEF Resend, Admin, Live, TypeOK
  <2>2. sessions[t].user \in Users
    BY <2>1 DEF Session
  <2>3. q \in Request
    BY <2>2, FirstTyped, Defaults DEF Ops
  <2>4. Blank("resend") = First("resend", "none", "none", "none", "none", "none", 0, "none", 0)
    BY DEF Blank, First
  <2>5. [First("resend", "none", "none", "none", "none", "none", 0, "none", 0) EXCEPT !.by = sessions[t].user]
         = First("resend", sessions[t].user, "none", "none", "none", "none", 0, "none", 0)
    BY DEF First
  <2>6. [First("resend", sessions[t].user, "none", "none", "none", "none", 0, "none", 0) EXCEPT !.invitation = i]
         = q
    BY DEF First
  <2>7. [Blank("resend") EXCEPT !.by = sessions[t].user, !.invitation = i] = q
    BY <2>4, <2>5, <2>6
  <2>8. Begin(r, q)
    BY <1>12, <2>7 DEF Resend
  <2>9. q.op # "none" /\ q.at = "write" /\ Carries(q) /\ Proposes(q)
    BY <2>2 DEF First, Carries, Proposes
  <2> HIDE DEF q
  <2> QED
    BY <2>3, <2>8, <2>9
<1>13. ASSUME NEW i \in Invitations, Accept(r, i)
      PROVE  Opening
  <2> DEFINE q == First("accept", "none", "none", "none", invitations[i].email, invitations[i].role, 0, i, invitations[i].link)
  <2>1. invitations[i] \in Invitation
    BY <1>13 DEF Accept, Pending, Offered, TypeOK
  <2>2. invitations[i].email \in Emails /\ invitations[i].role \in Roles /\ invitations[i].link \in 0 .. MaxLink
    BY <2>1, BoundsAssumption DEF Invitation
  <2>3. q \in Request
    BY <2>2, FirstTyped, Defaults DEF Ops
  <2>4. Blank("accept") = First("accept", "none", "none", "none", "none", "none", 0, "none", 0)
    BY DEF Blank, First
  <2>5. [First("accept", "none", "none", "none", "none", "none", 0, "none", 0) EXCEPT !.invitation = i]
         = First("accept", "none", "none", "none", "none", "none", 0, i, 0)
    BY DEF First
  <2>6. [First("accept", "none", "none", "none", "none", "none", 0, i, 0) EXCEPT !.link = invitations[i].link]
         = First("accept", "none", "none", "none", "none", "none", 0, i, invitations[i].link)
    BY DEF First
  <2>7. [First("accept", "none", "none", "none", "none", "none", 0, i, invitations[i].link) EXCEPT !.email = invitations[i].email]
         = First("accept", "none", "none", "none", invitations[i].email, "none", 0, i, invitations[i].link)
    BY DEF First
  <2>8. [First("accept", "none", "none", "none", invitations[i].email, "none", 0, i, invitations[i].link) EXCEPT !.role = invitations[i].role]
         = q
    BY DEF First
  <2>9. [Blank("accept") EXCEPT !.invitation = i, !.link = invitations[i].link, !.email = invitations[i].email, !.role = invitations[i].role] = q
    BY <2>4, <2>5, <2>6, <2>7, <2>8
  <2>10. Begin(r, q)
    BY <1>13, <2>9 DEF Accept
  <2>11. q.op # "none" /\ q.at = "write" /\ Carries(q) /\ Proposes(q)
    BY <1>13, <2>2 DEF First, Carries, Proposes, Accept, Pending
  <2> HIDE DEF q
  <2> QED
    BY <2>3, <2>10, <2>11
<1>14. ASSUME Bootstrap(r)
      PROVE  Opening
  <2> DEFINE q == First("bootstrap", "none", "none", "none", DefaultEmail, "admin", 0, "none", 0)
  <2>1. q \in Request
    BY DefaultAssumption, FirstTyped, Defaults DEF Ops
  <2>2. Blank("bootstrap") = First("bootstrap", "none", "none", "none", "none", "none", 0, "none", 0)
    BY DEF Blank, First
  <2>3. [First("bootstrap", "none", "none", "none", "none", "none", 0, "none", 0) EXCEPT !.email = DefaultEmail]
         = First("bootstrap", "none", "none", "none", DefaultEmail, "none", 0, "none", 0)
    BY DEF First
  <2>4. [First("bootstrap", "none", "none", "none", DefaultEmail, "none", 0, "none", 0) EXCEPT !.role = "admin"]
         = q
    BY DEF First
  <2>5. [Blank("bootstrap") EXCEPT !.email = DefaultEmail, !.role = "admin"] = q
    BY <2>2, <2>3, <2>4
  <2>6. Begin(r, q)
    BY <1>14, <2>5 DEF Bootstrap
  <2>7. q.op # "none" /\ q.at = "write" /\ Carries(q) /\ Proposes(q)
    BY DefaultAssumption DEF First, Carries, Proposes
  <2> HIDE DEF q
  <2> QED
    BY <2>1, <2>6, <2>7
<1> QED
  BY <1>1, <1>2, <1>3, <1>4, <1>5, <1>6, <1>7, <1>8, <1>9, <1>10, <1>11, <1>12, <1>13, <1>14 DEF Opens

-----------------------------------------------------------------------------
\* The steps, one by one

Filled == \A r \in Requests : requests[r] # Idle => Carries(requests[r])

\* Every step begins a request, is one of the others' steps, or lets something pass its time.
LEMMA NextCases ==
  ASSUME Next
  PROVE  \/ \E r \in Requests :
              \/ Opens(r)
              \/ StoreSession(r) \/ DeleteSession(r) \/ ReplaceSession(r) \/ SetOwnPassword(r)
              \/ InsertCreated(r) \/ UpdateRole(r) \/ UpdatePassword(r) \/ DropSessions(r)
              \/ RemoveUser(r) \/ DeleteSessions(r) \/ InsertInvitation(r) \/ DeleteInvitation(r)
              \/ UpdateLink(r) \/ InsertAccepted(r) \/ MarkUsed(r) \/ InsertBootstrap(r)
              \/ Throw(r)
         \/ \E t \in Tokens : Expire(t)
         \/ \E i \in Invitations : Lapse(i)
BY DEF Next, OwnRequest, AdminRequest, PublicRequest, Opens

\* Each step keeps the types.
LEMMA TypeStep ==
  ASSUME TypeOK, Filled, [Next]_vars
  PROVE  TypeOK'
<1>1. ASSUME NEW r \in Requests, Opens(r)
      PROVE  TypeOK'
  BY <1>1, BeginningsTyped, BeginTyped
<1>2. ASSUME NEW r \in Requests, StoreSession(r)
      PROVE  TypeOK'
  <2>1. requests[r].user \in Users /\ requests[r].role \in Roles /\ requests[r].password \in Passwords
    BY <1>2, AtWork DEF StoreSession, Filled, Carries, Writes
  <2> QED
    BY <2>1, <1>2, EndTyped DEF StoreSession, TypeOK, Session
<1>3. ASSUME NEW r \in Requests, DeleteSession(r)
      PROVE  TypeOK'
  BY <1>3, EndTyped DEF DeleteSession, TypeOK
<1>4. ASSUME NEW r \in Requests, ReplaceSession(r)
      PROVE  TypeOK'
  <2>1. requests[r].token \in Tokens
    BY <1>4, AtWork DEF ReplaceSession, Filled, Carries, Writes
  <2>2. CASE Live(requests[r].token)
    <3>1. sessions[requests[r].token] \in Session
      BY <2>1, <2>2 DEF Live, TypeOK
    <3> QED
      BY <3>1, <2>1, <2>2, <1>4, EndTyped DEF ReplaceSession, TypeOK
  <2>3. CASE ~Live(requests[r].token)
    BY <2>3, <1>4, EndTyped DEF ReplaceSession, TypeOK
  <2> QED
    BY <2>2, <2>3
<1>5. ASSUME NEW r \in Requests, SetOwnPassword(r)
      PROVE  TypeOK'
  <2>1. requests[r].user \in Users
    BY <1>5, AtWork DEF SetOwnPassword, Filled, Carries, Writes
  <2> QED
    BY <2>1, <1>5, EndTyped, WriteTyped DEF SetOwnPassword, TypeOK
<1>6. ASSUME NEW r \in Requests, InsertCreated(r)
      PROVE  TypeOK'
  <2>1. requests[r].email \in Emails /\ requests[r].role \in Roles
    BY <1>6, AtWork DEF InsertCreated, Filled, Carries, Writes
  <2>2. users' \in [Users -> User \cup {NoUser}]
    BY <2>1, <1>6, InsertTyped DEF InsertCreated
  <2> QED
    BY <2>2, <1>6, EndTyped DEF InsertCreated, TypeOK
<1>7. ASSUME NEW r \in Requests, UpdateRole(r)
      PROVE  TypeOK'
  <2>1. requests[r].user \in Users /\ requests[r].role \in Roles
    BY <1>7, AtWork DEF UpdateRole, Filled, Carries, Writes
  <2>2. users' \in [Users -> User \cup {NoUser}]
    BY <2>1, <1>7 DEF UpdateRole, TypeOK, Exists, User
  <2> QED
    BY <2>2, <1>7, EndTyped DEF UpdateRole, TypeOK
<1>8. ASSUME NEW r \in Requests, UpdatePassword(r)
      PROVE  TypeOK'
  <2>1. requests[r].user \in Users
    BY <1>8, AtWork DEF UpdatePassword, Filled, Carries, Writes
  <2>2. users' \in [Users -> User \cup {NoUser}]
    BY <2>1, <1>8, WriteTyped DEF UpdatePassword
  <2> DEFINE p == IF Exists(requests[r].user) THEN users[requests[r].user].password + 1 ELSE 0
  <2>3. p \in Passwords
    BY <2>1, <1>8, WriteTyped, Defaults DEF UpdatePassword
  <2> HIDE DEF p
  <2>4. requests' = [requests EXCEPT ![r] = [[requests[r] EXCEPT !.at = "second"] EXCEPT !.password = p]]
    BY <1>8 DEF UpdatePassword, TypeOK, p
  <2>5. [[requests[r] EXCEPT !.at = "second"] EXCEPT !.password = p] \in Request
    BY <2>3, <1>8, AtWork DEF UpdatePassword, Request
  <2> QED
    BY <2>2, <2>4, <2>5, <1>8 DEF UpdatePassword, TypeOK
<1>9. ASSUME NEW r \in Requests, DropSessions(r)
      PROVE  TypeOK'
  <2>1. requests[r].user \in Users \cup {"none"} /\ requests[r].password \in Passwords
    BY <1>9, AtWork DEF DropSessions
  <2>2. users' \in [Users -> User \cup {NoUser}]
    BY <2>1, <1>9 DEF DropSessions, TypeOK, Exists, User
  <2> QED
    BY <2>2, <1>9, EndTyped, WithoutTyped DEF DropSessions, TypeOK
<1>10. ASSUME NEW r \in Requests, RemoveUser(r)
      PROVE  TypeOK'
  BY <1>10, EndTyped, WithoutTyped DEF RemoveUser, TypeOK
<1>11. ASSUME NEW r \in Requests, DeleteSessions(r)
      PROVE  TypeOK'
  BY <1>11, EndTyped, WithoutTyped DEF DeleteSessions, TypeOK
<1>12. ASSUME NEW r \in Requests, InsertInvitation(r)
      PROVE  TypeOK'
  <2>1. requests[r].by \in Users /\ requests[r].email \in Emails /\ requests[r].role \in Roles
    BY <1>12, AtWork DEF InsertInvitation, Filled, Carries, Writes
  <2> QED
    BY <2>1, <1>12, EndTyped, BoundsAssumption DEF InsertInvitation, TypeOK, Invitation
<1>13. ASSUME NEW r \in Requests, DeleteInvitation(r)
      PROVE  TypeOK'
  BY <1>13, EndTyped DEF DeleteInvitation, TypeOK
<1>14. ASSUME NEW r \in Requests, UpdateLink(r)
      PROVE  TypeOK'
  <2>1. requests[r].by \in Users /\ requests[r].invitation \in Invitations
    BY <1>14, AtWork DEF UpdateLink, Filled, Carries, Writes
  <2>2. CASE Offered(requests[r].invitation)
    <3> DEFINE i == requests[r].invitation
    <3>1. invitations[i] \in Invitation
      BY <2>1, <2>2 DEF Offered, TypeOK
    <3>2. invitations[i].link + 1 \in 1 .. MaxLink
      BY <3>1, <2>2, <1>14, BoundsAssumption DEF UpdateLink, Invitation
    <3> DEFINE sent == [[[invitations[i] EXCEPT !.link = invitations[i].link + 1]
                          EXCEPT !.expired = FALSE] EXCEPT !.by = requests[r].by]
    <3>3. sent \in Invitation
      BY <3>1, <3>2, <2>1 DEF Invitation
    <3>4. invitations' = [invitations EXCEPT ![i] = sent]
      BY <2>1, <2>2, <1>14 DEF UpdateLink, TypeOK
    <3> QED
      BY <3>3, <3>4, <1>14, EndTyped DEF UpdateLink, TypeOK
  <2>3. CASE ~Offered(requests[r].invitation)
    BY <2>3, <1>14, EndTyped DEF UpdateLink, TypeOK
  <2> QED
    BY <2>2, <2>3
<1>15. ASSUME NEW r \in Requests, InsertAccepted(r)
      PROVE  TypeOK'
  <2>1. requests[r].email \in Emails /\ requests[r].role \in Roles
    BY <1>15, AtWork DEF InsertAccepted, Filled, Carries, Writes
  <2>2. users' \in [Users -> User \cup {NoUser}]
    BY <2>1, <1>15, InsertTyped DEF InsertAccepted
  <2>3. requests' \in [Requests -> Request]
    BY <1>15, AtWork DEF InsertAccepted, GoOn, TypeOK, Request
  <2> QED
    BY <2>2, <2>3, <1>15 DEF InsertAccepted, TypeOK
<1>16. ASSUME NEW r \in Requests, MarkUsed(r)
      PROVE  TypeOK'
  <2>1. invitations' \in [Invitations -> Invitation \cup {NoInvitation}]
    BY <1>16 DEF MarkUsed, TypeOK, Offered, Invitation
  <2> QED
    BY <2>1, <1>16, EndTyped DEF MarkUsed, TypeOK
<1>17. ASSUME NEW r \in Requests, InsertBootstrap(r)
      PROVE  TypeOK'
  <2>1. requests[r].email \in Emails /\ requests[r].role \in Roles
    BY <1>17, AtWork DEF InsertBootstrap, Filled, Carries, Writes
  <2>2. users' \in [Users -> User \cup {NoUser}]
    BY <2>1, <1>17, InsertTyped DEF InsertBootstrap
  <2> QED
    BY <2>2, <1>17, EndTyped DEF InsertBootstrap, TypeOK
<1>18. ASSUME NEW r \in Requests, Throw(r)
      PROVE  TypeOK'
  BY <1>18, EndTyped DEF Throw, TypeOK
<1>19. ASSUME NEW t \in Tokens, Expire(t)
      PROVE  TypeOK'
  BY <1>19, EndTyped DEF Expire, TypeOK
<1>20. ASSUME NEW i \in Invitations, Lapse(i)
      PROVE  TypeOK'
  BY <1>20 DEF Lapse, TypeOK, Offered, Invitation
<1>21. CASE UNCHANGED vars
  BY <1>21 DEF TypeOK, vars
<1> QED
  BY <1>1, <1>2, <1>3, <1>4, <1>5, <1>6, <1>7, <1>8, <1>9, <1>10, <1>11, <1>12, <1>13, <1>14, <1>15, <1>16, <1>17, <1>18, <1>19, <1>20, <1>21, NextCases

\* Each step leaves the requests that are not idle with what their writes need.
LEMMA EndFilled ==
  ASSUME TypeOK, Filled, NEW r \in Requests, End(r)
  PROVE  Filled'
BY DEF TypeOK, Filled, End, Carries

LEMMA FilledStep ==
  ASSUME TypeOK, Filled, [Next]_vars
  PROVE  Filled'
<1>1. ASSUME NEW r \in Requests, Opens(r)
      PROVE  Filled'
  <2> PICK q \in Request : Begin(r, q) /\ q.op # "none" /\ q.at = "write" /\ Carries(q)
    BY <1>1, BeginningsTyped
  <2> QED
    BY DEF Begin, Filled, Carries, TypeOK
<1>2. ASSUME NEW r \in Requests, StoreSession(r)
      PROVE  Filled'
  BY <1>2, EndFilled DEF StoreSession
<1>3. ASSUME NEW r \in Requests, DeleteSession(r)
      PROVE  Filled'
  BY <1>3, EndFilled DEF DeleteSession
<1>4. ASSUME NEW r \in Requests, ReplaceSession(r)
      PROVE  Filled'
  BY <1>4, EndFilled DEF ReplaceSession
<1>5. ASSUME NEW r \in Requests, SetOwnPassword(r)
      PROVE  Filled'
  BY <1>5, EndFilled DEF SetOwnPassword
<1>6. ASSUME NEW r \in Requests, InsertCreated(r)
      PROVE  Filled'
  BY <1>6, EndFilled DEF InsertCreated
<1>7. ASSUME NEW r \in Requests, UpdateRole(r)
      PROVE  Filled'
  BY <1>7, EndFilled DEF UpdateRole
<1>8. ASSUME NEW r \in Requests, UpdatePassword(r)
      PROVE  Filled'
  <2>1. /\ requests[r] # Idle /\ Carries(requests[r])
        /\ requests'[r].op = requests[r].op /\ requests'[r].user = requests[r].user
        /\ requests[r].op = "resetPassword"
    BY <1>8, AtWork DEF UpdatePassword, Filled, Writes, TypeOK
  <2>2. \A s \in Requests : s # r => requests'[s] = requests[s]
    BY <1>8 DEF UpdatePassword, TypeOK
  <2> QED
    BY <2>1, <2>2 DEF Filled, Carries
<1>9. ASSUME NEW r \in Requests, DropSessions(r)
      PROVE  Filled'
  BY <1>9, EndFilled DEF DropSessions
<1>10. ASSUME NEW r \in Requests, RemoveUser(r)
      PROVE  Filled'
  BY <1>10, EndFilled DEF RemoveUser
<1>11. ASSUME NEW r \in Requests, DeleteSessions(r)
      PROVE  Filled'
  BY <1>11, EndFilled DEF DeleteSessions
<1>12. ASSUME NEW r \in Requests, InsertInvitation(r)
      PROVE  Filled'
  BY <1>12, EndFilled DEF InsertInvitation
<1>13. ASSUME NEW r \in Requests, DeleteInvitation(r)
      PROVE  Filled'
  BY <1>13, EndFilled DEF DeleteInvitation
<1>14. ASSUME NEW r \in Requests, UpdateLink(r)
      PROVE  Filled'
  BY <1>14, EndFilled DEF UpdateLink
<1>15. ASSUME NEW r \in Requests, InsertAccepted(r)
      PROVE  Filled'
  <2>1. /\ requests[r] # Idle /\ Carries(requests[r]) /\ requests[r].op = "accept"
        /\ requests'[r] = [requests[r] EXCEPT !.at = "second"]
    BY <1>15, AtWork DEF InsertAccepted, GoOn, Filled, Writes, TypeOK
  <2>2. /\ requests'[r].op = "accept" /\ requests'[r].email = requests[r].email
        /\ requests'[r].invitation = requests[r].invitation
    BY <2>1, <1>15, AtWork DEF InsertAccepted
  <2>3. \A s \in Requests : s # r => requests'[s] = requests[s]
    BY <1>15 DEF InsertAccepted, GoOn, TypeOK
  <2> QED
    BY <2>1, <2>2, <2>3 DEF Filled, Carries
<1>16. ASSUME NEW r \in Requests, MarkUsed(r)
      PROVE  Filled'
  BY <1>16, EndFilled DEF MarkUsed
<1>17. ASSUME NEW r \in Requests, InsertBootstrap(r)
      PROVE  Filled'
  BY <1>17, EndFilled DEF InsertBootstrap
<1>18. ASSUME NEW r \in Requests, Throw(r)
      PROVE  Filled'
  BY <1>18, EndFilled DEF Throw
<1>19. ASSUME NEW t \in Tokens, Expire(t)
      PROVE  Filled'
  BY <1>19 DEF Expire, Filled, Carries
<1>20. ASSUME NEW i \in Invitations, Lapse(i)
      PROVE  Filled'
  BY <1>20 DEF Lapse, Filled, Carries
<1>21. CASE UNCHANGED vars
  BY <1>21 DEF vars, Filled, Carries
<1> QED
  BY <1>1, <1>2, <1>3, <1>4, <1>5, <1>6, <1>7, <1>8, <1>9, <1>10, <1>11, <1>12, <1>13, <1>14, <1>15, <1>16, <1>17, <1>18, <1>19, <1>20, <1>21, NextCases

\* Requests, tables and sessions keep their types whatever overlaps.
THEOREM TypeCorrect == Spec => []TypeOK
<1>1. Init => TypeOK /\ Filled
  BY InitTyped DEF Init, Filled
<1>2. TypeOK /\ Filled /\ [Next]_vars => (TypeOK /\ Filled)'
  BY TypeStep, FilledStep
<1> QED
  BY <1>1, <1>2, PTL DEF Spec

-----------------------------------------------------------------------------
\* Sessions and accounts

\* No account's row is the missing one, and no session's.
LEMMA RowsAreRows == NoUser \notin User /\ NoSession \notin Session
BY DEF NoUser, User, NoSession, Session

LEMMA OpensOnly ==
  ASSUME TypeOK, NEW r \in Requests, Opens(r)
  PROVE  UNCHANGED <<users, sessions, invitations>>
BY BeginningsTyped DEF Begin

\* Accounts that stay keep what an admin's reset left in their row.
LEMMA InsertKeeps ==
  ASSUME TypeOK, NEW email \in Emails, NEW role \in Roles, InsertUser(email, role)
  PROVE  /\ \A u \in Users : Exists(u) => Exists(u)' /\ users'[u] = users[u]
         /\ \E u \in Users : Exists(u)' /\ users'[u].email = email
<1> PICK u \in Users : ~Referred(u) /\ users' = [users EXCEPT ![u] = NewUser(email, role)]
  BY DEF InsertUser
<1>1. NewUser(email, role) # NoUser /\ NewUser(email, role).email = email
  BY DEF NewUser, NoUser
<1>2. ~Exists(u)
  BY DEF Referred
<1>3. users'[u] = NewUser(email, role) /\ \A v \in Users : v # u => users'[v] = users[v]
  BY DEF TypeOK
<1> QED
  BY <1>1, <1>2, <1>3 DEF Exists

LEMMA WriteKeeps ==
  ASSUME TypeOK, NEW u \in Users, WritePassword(u)
  PROVE  \A v \in Users : Exists(v) =>
           Exists(v)' /\ users'[v].reset = users[v].reset /\ users'[v].email = users[v].email
<1> SUFFICES ASSUME NEW v \in Users, Exists(v)
             PROVE  Exists(v)' /\ users'[v].reset = users[v].reset /\ users'[v].email = users[v].email
  OBVIOUS
<1>1. users[v] \in User /\ users'[v] \in User \cup {NoUser}
  BY WriteTyped DEF Exists, TypeOK
<1>2. CASE v = u
  <2>1. users'[v] = [users[v] EXCEPT !.password = users[v].password + 1]
    BY <1>2 DEF WritePassword, TypeOK
  <2>2. users'[v] \in User
    BY <2>1, <1>1, WriteTyped, <1>2 DEF User
  <2> QED
    BY <2>1, <2>2, <1>1, RowsAreRows DEF Exists, User
<1>3. CASE v # u
  BY <1>3 DEF WritePassword, Exists, TypeOK
<1> QED
  BY <1>2, <1>3

\* The same of a change of the role, and of the mark a reset leaves.
LEMMA UpdateKeeps ==
  ASSUME TypeOK, Filled, NEW r \in Requests, UpdateRole(r)
  PROVE  \A v \in Users : Exists(v) =>
           Exists(v)' /\ users'[v].reset = users[v].reset /\ users'[v].email = users[v].email
<1> SUFFICES ASSUME NEW v \in Users, Exists(v)
             PROVE  Exists(v)' /\ users'[v].reset = users[v].reset /\ users'[v].email = users[v].email
  OBVIOUS
<1>1. users[v] \in User /\ requests[r].role \in Roles
  BY AtWork DEF Exists, TypeOK, UpdateRole
<1>2. CASE v = requests[r].user
  <2>1. users'[v] = [users[v] EXCEPT !.role = requests[r].role]
    BY <1>2 DEF UpdateRole, TypeOK
  <2>2. users'[v] \in User
    BY <2>1, <1>1 DEF User
  <2> QED
    BY <2>1, <2>2, <1>1, RowsAreRows DEF Exists, User
<1>3. CASE v # requests[r].user
  BY <1>3 DEF UpdateRole, Exists, TypeOK
<1> QED
  BY <1>2, <1>3

LEMMA DropKeeps ==
  ASSUME TypeOK, Filled, NEW r \in Requests, DropSessions(r)
  PROVE  \A v \in Users : Exists(v) =>
           /\ Exists(v)' /\ users'[v].email = users[v].email
           /\ v # requests[r].user => users'[v].reset = users[v].reset
<1> SUFFICES ASSUME NEW v \in Users, Exists(v)
             PROVE  /\ Exists(v)' /\ users'[v].email = users[v].email
                    /\ v # requests[r].user => users'[v].reset = users[v].reset
  OBVIOUS
<1>1. users[v] \in User /\ requests[r].password \in Passwords
  BY AtWork DEF Exists, TypeOK, DropSessions
<1>2. CASE users'[v] = users[v]
  BY <1>2 DEF Exists
<1>3. CASE users'[v] # users[v]
  <2>1. v = requests[r].user /\ users'[v] = [users[v] EXCEPT !.reset = requests[r].password]
    BY <1>3 DEF DropSessions, TypeOK
  <2>2. users'[v] \in User
    BY <2>1, <1>1 DEF User
  <2> QED
    BY <2>1, <2>2, <1>1, RowsAreRows DEF Exists, User
<1> QED
  BY <1>2, <1>3

LEMMA Owners ==
  ASSUME TypeOK, NEW t \in Tokens, Live(t)
  PROVE  sessions[t] \in Session /\ sessions[t].user \in Users
BY DEF TypeOK, Live, Session

\* Each step leaves every session with an account.
LEMMA OwnedStep ==
  ASSUME TypeOK, Filled, SessionsOwned, [Next]_vars
  PROVE  SessionsOwned'
<1>1. ASSUME NEW r \in Requests, Opens(r)
      PROVE  SessionsOwned'
  BY <1>1, OpensOnly DEF SessionsOwned, Live, Exists
<1>2. ASSUME NEW r \in Requests, StoreSession(r)
      PROVE  SessionsOwned'
  BY <1>2 DEF StoreSession, SessionsOwned, Live, Exists, TypeOK
<1>3. ASSUME NEW r \in Requests, DeleteSession(r)
      PROVE  SessionsOwned'
  BY <1>3 DEF DeleteSession, SessionsOwned, Live, Exists, TypeOK
<1>4. ASSUME NEW r \in Requests, ReplaceSession(r)
      PROVE  SessionsOwned'
  <2> DEFINE old == requests[r].token
  <2>1. old \in Tokens
    BY <1>4, AtWork DEF ReplaceSession, Filled, Carries, Writes
  <2>2. CASE Live(old)
    <3> PICK t \in Tokens :
          FreshToken(t) /\ sessions' = [sessions EXCEPT ![old] = NoSession, ![t] = sessions[old]]
      BY <2>2, <1>4 DEF ReplaceSession
    <3>1. t # old
      BY <2>2 DEF FreshToken
    <3>2. \A s \in Tokens : sessions'[s] = IF s = t THEN sessions[old]
                                           ELSE IF s = old THEN NoSession ELSE sessions[s]
      BY <2>1, <3>1 DEF TypeOK
    <3>3. UNCHANGED users
      BY <1>4 DEF ReplaceSession
    <3> HIDE DEF old
    <3> QED
      BY <2>1, <2>2, <3>2, <3>3 DEF SessionsOwned, Live, Exists
  <2>3. CASE ~Live(old)
    BY <2>3, <1>4 DEF ReplaceSession, SessionsOwned, Live, Exists
  <2> QED
    BY <2>2, <2>3
<1>5. ASSUME NEW r \in Requests, SetOwnPassword(r)
      PROVE  SessionsOwned'
  <2>1. requests[r].user \in Users
    BY <1>5, AtWork DEF SetOwnPassword, Filled, Carries, Writes
  <2>2. \A u \in Users : Exists(u) => Exists(u)'
    BY <2>1, <1>5, WriteKeeps DEF SetOwnPassword
  <2> QED
    BY <2>2, <1>5, Owners DEF SetOwnPassword, SessionsOwned, Live
<1>6. ASSUME NEW r \in Requests, InsertCreated(r)
      PROVE  SessionsOwned'
  <2>1. requests[r].email \in Emails /\ requests[r].role \in Roles
    BY <1>6, AtWork DEF InsertCreated, Filled, Carries, Writes
  <2>2. \A u \in Users : Exists(u) => Exists(u)'
    BY <2>1, <1>6, InsertKeeps DEF InsertCreated
  <2> QED
    BY <2>2, <1>6, Owners DEF InsertCreated, SessionsOwned, Live
<1>7. ASSUME NEW r \in Requests, UpdateRole(r)
      PROVE  SessionsOwned'
  BY <1>7, UpdateKeeps, Owners DEF UpdateRole, SessionsOwned, Live
<1>8. ASSUME NEW r \in Requests, UpdatePassword(r)
      PROVE  SessionsOwned'
  <2>1. requests[r].user \in Users
    BY <1>8, AtWork DEF UpdatePassword, Filled, Carries, Writes
  <2>2. \A u \in Users : Exists(u) => Exists(u)'
    BY <2>1, <1>8, WriteKeeps DEF UpdatePassword
  <2> QED
    BY <2>2, <1>8, Owners DEF UpdatePassword, SessionsOwned, Live
<1>9. ASSUME NEW r \in Requests, DropSessions(r)
      PROVE  SessionsOwned'
  BY <1>9, DropKeeps, Owners DEF DropSessions, SessionsOwned, Live, Without
<1>10. ASSUME NEW r \in Requests, RemoveUser(r)
      PROVE  SessionsOwned'
  BY <1>10, Owners DEF RemoveUser, SessionsOwned, Live, Exists, Without, TypeOK
<1>11. ASSUME NEW r \in Requests, DeleteSessions(r)
      PROVE  SessionsOwned'
  BY <1>11, Owners DEF DeleteSessions, SessionsOwned, Live, Exists, Without, TypeOK
<1>12. ASSUME NEW r \in Requests, InsertInvitation(r)
      PROVE  SessionsOwned'
  BY <1>12 DEF InsertInvitation, SessionsOwned, Live, Exists
<1>13. ASSUME NEW r \in Requests, DeleteInvitation(r)
      PROVE  SessionsOwned'
  BY <1>13 DEF DeleteInvitation, SessionsOwned, Live, Exists
<1>14. ASSUME NEW r \in Requests, UpdateLink(r)
      PROVE  SessionsOwned'
  BY <1>14 DEF UpdateLink, SessionsOwned, Live, Exists
<1>15. ASSUME NEW r \in Requests, InsertAccepted(r)
      PROVE  SessionsOwned'
  <2>1. requests[r].email \in Emails /\ requests[r].role \in Roles
    BY <1>15, AtWork DEF InsertAccepted, Filled, Carries, Writes
  <2>2. \A u \in Users : Exists(u) => Exists(u)'
    BY <2>1, <1>15, InsertKeeps DEF InsertAccepted
  <2> QED
    BY <2>2, <1>15, Owners DEF InsertAccepted, SessionsOwned, Live
<1>16. ASSUME NEW r \in Requests, MarkUsed(r)
      PROVE  SessionsOwned'
  BY <1>16 DEF MarkUsed, SessionsOwned, Live, Exists
<1>17. ASSUME NEW r \in Requests, InsertBootstrap(r)
      PROVE  SessionsOwned'
  <2>1. requests[r].email \in Emails /\ requests[r].role \in Roles
    BY <1>17, AtWork DEF InsertBootstrap, Filled, Carries, Writes
  <2>2. \A u \in Users : Exists(u) => Exists(u)'
    BY <2>1, <1>17, InsertKeeps DEF InsertBootstrap
  <2> QED
    BY <2>2, <1>17, Owners DEF InsertBootstrap, SessionsOwned, Live
<1>18. ASSUME NEW r \in Requests, Throw(r)
      PROVE  SessionsOwned'
  BY <1>18 DEF Throw, SessionsOwned, Live, Exists
<1>19. ASSUME NEW t \in Tokens, Expire(t)
      PROVE  SessionsOwned'
  BY <1>19 DEF Expire, SessionsOwned, Live, Exists, TypeOK
<1>20. ASSUME NEW i \in Invitations, Lapse(i)
      PROVE  SessionsOwned'
  BY <1>20 DEF Lapse, SessionsOwned, Live, Exists
<1>21. CASE UNCHANGED vars
  BY <1>21 DEF vars, SessionsOwned, Live, Exists
<1> QED
  BY <1>1, <1>2, <1>3, <1>4, <1>5, <1>6, <1>7, <1>8, <1>9, <1>10, <1>11, <1>12, <1>13, <1>14, <1>15, <1>16, <1>17, <1>18, <1>19, <1>20, <1>21, NextCases

\* A session that requireAuth accepts is that of an account that exists.
THEOREM SessionsAreOwned == Spec => []SessionsOwned
<1>1. Init => TypeOK /\ Filled /\ SessionsOwned
  BY InitTyped DEF Init, Filled, SessionsOwned, Live
<1>2. TypeOK /\ Filled /\ SessionsOwned /\ [Next]_vars => (TypeOK /\ Filled /\ SessionsOwned)'
  BY TypeStep, FilledStep, OwnedStep
<1> QED
  BY <1>1, <1>2, PTL DEF Spec

\* Each step leaves no session, but a late one, that is older than its account's reset.
LEMMA ResetStep ==
  ASSUME TypeOK, Filled, SessionsOwned, ResetHolds, [Next]_vars
  PROVE  ResetHolds'
<1>1. ASSUME NEW r \in Requests, Opens(r)
      PROVE  ResetHolds'
  BY <1>1, OpensOnly DEF ResetHolds, Live
<1>2. ASSUME NEW r \in Requests, StoreSession(r)
      PROVE  ResetHolds'
  <2>1. requests[r].user \in Users /\ requests[r].password \in Passwords
        /\ users[requests[r].user] \in User
    BY <1>2, AtWork DEF StoreSession, Filled, Carries, Writes, Exists, TypeOK
  <2> DEFINE q == requests[r]
  <2> PICK t \in Tokens : sessions' = [sessions EXCEPT ![t] =
            [user |-> q.user, role |-> q.role, password |-> q.password,
             late |-> q.password < users[q.user].reset]]
    BY <1>2 DEF StoreSession
  <2>2. CASE q.password < users[q.user].reset
    <3>1. sessions'[t].late
      BY <2>2 DEF TypeOK
    <3> QED
      BY <3>1, <1>2 DEF StoreSession, ResetHolds, Live, TypeOK
  <2>3. CASE q.password >= users[q.user].reset
    <3>1. sessions'[t].user = q.user /\ sessions'[t].password = q.password
      BY DEF TypeOK
    <3> QED
      BY <3>1, <2>3, <1>2 DEF StoreSession, ResetHolds, Live, TypeOK
  <2> QED
    BY <2>1, <2>2, <2>3 DEF User, Passwords
<1>3. ASSUME NEW r \in Requests, DeleteSession(r)
      PROVE  ResetHolds'
  BY <1>3 DEF DeleteSession, ResetHolds, Live, TypeOK
<1>4. ASSUME NEW r \in Requests, ReplaceSession(r)
      PROVE  ResetHolds'
  <2> DEFINE old == requests[r].token
  <2>1. old \in Tokens
    BY <1>4, AtWork DEF ReplaceSession, Filled, Carries, Writes
  <2>2. CASE Live(old)
    <3> PICK t \in Tokens :
          FreshToken(t) /\ sessions' = [sessions EXCEPT ![old] = NoSession, ![t] = sessions[old]]
      BY <2>2, <1>4 DEF ReplaceSession
    <3>1. t # old
      BY <2>2 DEF FreshToken
    <3>2. \A s \in Tokens : sessions'[s] = IF s = t THEN sessions[old]
                                           ELSE IF s = old THEN NoSession ELSE sessions[s]
      BY <2>1, <3>1 DEF TypeOK
    <3>3. UNCHANGED users
      BY <1>4 DEF ReplaceSession
    <3> HIDE DEF old
    <3> QED
      BY <2>1, <2>2, <3>2, <3>3 DEF ResetHolds, Live
  <2>3. CASE ~Live(old)
    BY <2>3, <1>4 DEF ReplaceSession, ResetHolds, Live
  <2> QED
    BY <2>2, <2>3
<1>5. ASSUME NEW r \in Requests, SetOwnPassword(r)
      PROVE  ResetHolds'
  <2>1. requests[r].user \in Users
    BY <1>5, AtWork DEF SetOwnPassword, Filled, Carries, Writes
  <2>2. \A u \in Users : Exists(u) => users'[u].reset = users[u].reset
    BY <2>1, <1>5, WriteKeeps DEF SetOwnPassword
  <2> QED
    BY <2>2, <1>5, Owners DEF SetOwnPassword, SessionsOwned, ResetHolds, Live
<1>6. ASSUME NEW r \in Requests, InsertCreated(r)
      PROVE  ResetHolds'
  <2>1. requests[r].email \in Emails /\ requests[r].role \in Roles
    BY <1>6, AtWork DEF InsertCreated, Filled, Carries, Writes
  <2>2. \A u \in Users : Exists(u) => users'[u] = users[u]
    BY <2>1, <1>6, InsertKeeps DEF InsertCreated
  <2> QED
    BY <2>2, <1>6, Owners DEF InsertCreated, SessionsOwned, ResetHolds, Live
<1>7. ASSUME NEW r \in Requests, UpdateRole(r)
      PROVE  ResetHolds'
  BY <1>7, UpdateKeeps, Owners DEF UpdateRole, SessionsOwned, ResetHolds, Live
<1>8. ASSUME NEW r \in Requests, UpdatePassword(r)
      PROVE  ResetHolds'
  <2>1. requests[r].user \in Users
    BY <1>8, AtWork DEF UpdatePassword, Filled, Carries, Writes
  <2>2. \A u \in Users : Exists(u) => users'[u].reset = users[u].reset
    BY <2>1, <1>8, WriteKeeps DEF UpdatePassword
  <2> QED
    BY <2>2, <1>8, Owners DEF UpdatePassword, SessionsOwned, ResetHolds, Live
<1>9. ASSUME NEW r \in Requests, DropSessions(r)
      PROVE  ResetHolds'
  <2>1. \A t \in Tokens : Live(t)' =>
          Live(t) /\ sessions'[t] = sessions[t] /\ sessions[t].user # requests[r].user
    BY <1>9 DEF DropSessions, Without, Live
  <2>2. \A u \in Users : Exists(u) /\ u # requests[r].user => users'[u].reset = users[u].reset
    BY <1>9, DropKeeps
  <2> QED
    BY <2>1, <2>2, Owners DEF SessionsOwned, ResetHolds
<1>10. ASSUME NEW r \in Requests, RemoveUser(r)
      PROVE  ResetHolds'
  BY <1>10, Owners DEF RemoveUser, SessionsOwned, ResetHolds, Live, Without, TypeOK
<1>11. ASSUME NEW r \in Requests, DeleteSessions(r)
      PROVE  ResetHolds'
  BY <1>11 DEF DeleteSessions, ResetHolds, Live, Without
<1>12. ASSUME NEW r \in Requests, InsertInvitation(r)
      PROVE  ResetHolds'
  BY <1>12 DEF InsertInvitation, ResetHolds, Live
<1>13. ASSUME NEW r \in Requests, DeleteInvitation(r)
      PROVE  ResetHolds'
  BY <1>13 DEF DeleteInvitation, ResetHolds, Live
<1>14. ASSUME NEW r \in Requests, UpdateLink(r)
      PROVE  ResetHolds'
  BY <1>14 DEF UpdateLink, ResetHolds, Live
<1>15. ASSUME NEW r \in Requests, InsertAccepted(r)
      PROVE  ResetHolds'
  <2>1. requests[r].email \in Emails /\ requests[r].role \in Roles
    BY <1>15, AtWork DEF InsertAccepted, Filled, Carries, Writes
  <2>2. \A u \in Users : Exists(u) => users'[u] = users[u]
    BY <2>1, <1>15, InsertKeeps DEF InsertAccepted
  <2> QED
    BY <2>2, <1>15, Owners DEF InsertAccepted, SessionsOwned, ResetHolds, Live
<1>16. ASSUME NEW r \in Requests, MarkUsed(r)
      PROVE  ResetHolds'
  BY <1>16 DEF MarkUsed, ResetHolds, Live
<1>17. ASSUME NEW r \in Requests, InsertBootstrap(r)
      PROVE  ResetHolds'
  <2>1. requests[r].email \in Emails /\ requests[r].role \in Roles
    BY <1>17, AtWork DEF InsertBootstrap, Filled, Carries, Writes
  <2>2. \A u \in Users : Exists(u) => users'[u] = users[u]
    BY <2>1, <1>17, InsertKeeps DEF InsertBootstrap
  <2> QED
    BY <2>2, <1>17, Owners DEF InsertBootstrap, SessionsOwned, ResetHolds, Live
<1>18. ASSUME NEW r \in Requests, Throw(r)
      PROVE  ResetHolds'
  BY <1>18 DEF Throw, ResetHolds, Live
<1>19. ASSUME NEW t \in Tokens, Expire(t)
      PROVE  ResetHolds'
  BY <1>19 DEF Expire, ResetHolds, Live, TypeOK
<1>20. ASSUME NEW i \in Invitations, Lapse(i)
      PROVE  ResetHolds'
  BY <1>20 DEF Lapse, ResetHolds, Live
<1>21. CASE UNCHANGED vars
  BY <1>21 DEF vars, ResetHolds, Live
<1> QED
  BY <1>1, <1>2, <1>3, <1>4, <1>5, <1>6, <1>7, <1>8, <1>9, <1>10, <1>11, <1>12, <1>13, <1>14, <1>15, <1>16, <1>17, <1>18, <1>19, <1>20, <1>21, NextCases

\* A reset of a password that has ended closed every session of an older password, and
\* only a login that had read the account before stores one after it.
THEOREM ResetsHold == Spec => []ResetHolds
<1> DEFINE Inv == TypeOK /\ Filled /\ SessionsOwned /\ ResetHolds
<1>1. Init => Inv
  BY InitTyped DEF Init, Filled, SessionsOwned, ResetHolds, Live
<1>2. Inv /\ [Next]_vars => Inv'
  BY TypeStep, FilledStep, OwnedStep, ResetStep
<1>3. Inv => ResetHolds
  OBVIOUS
<1> QED
  BY <1>1, <1>2, <1>3, PTL DEF Spec

-----------------------------------------------------------------------------
\* Invitations

\* The pairs that must not overlap for acceptances to be sound.
AcceptApart == {{"accept", "cancel"}, {"accept", "resend"}, {"accept", "deleteUser"}} \subseteq Apart

NoneOverlap == \A r, s \in Requests :
  r # s /\ requests[r] # Idle /\ requests[s] # Idle => {requests[r].op, requests[s].op} \notin Apart

\* What an acceptance in progress may rely on: its invitation is there, for its e-mail
\* address, and its link is good as long as no account has that address.
Sound(r) ==
  LET q == requests[r] IN
  /\ Offered(q.invitation) /\ invitations[q.invitation].email = q.email
  /\ Taken(q.email) \/ (q.at = "write" /\ LinkGood(r))
AcceptsSound == \A r \in Requests : requests[r].op = "accept" => Sound(r)

\* A request keeps its operation until it ends.
LEMMA EndNone ==
  ASSUME TypeOK, NoneOverlap, NEW r \in Requests, End(r)
  PROVE  NoneOverlap'
BY DEF TypeOK, NoneOverlap, End

LEMMA NoneStep ==
  ASSUME TypeOK, Filled, NoneOverlap, [Next]_vars
  PROVE  NoneOverlap'
<1>1. ASSUME NEW r \in Requests, Opens(r)
      PROVE  NoneOverlap'
  <2> PICK q \in Request : Begin(r, q) /\ q.op # "none"
    BY <1>1, BeginningsTyped
  <2>1. requests'[r] = q /\ \A s \in Requests : s # r => requests'[s] = requests[s]
    BY DEF Begin, TypeOK
  <2>2. \A s \in Requests : s # r /\ requests[s] # Idle => {q.op, requests[s].op} \notin Apart
    BY DEF Begin, MayBegin
  <2>3. ASSUME NEW s \in Requests
        PROVE  {q.op, requests[s].op} = {requests[s].op, q.op}
    OBVIOUS
  <2> QED
    BY <2>1, <2>2, <2>3 DEF NoneOverlap
<1>2. ASSUME NEW r \in Requests, StoreSession(r)
      PROVE  NoneOverlap'
  BY <1>2, EndNone DEF StoreSession
<1>3. ASSUME NEW r \in Requests, DeleteSession(r)
      PROVE  NoneOverlap'
  BY <1>3, EndNone DEF DeleteSession
<1>4. ASSUME NEW r \in Requests, ReplaceSession(r)
      PROVE  NoneOverlap'
  BY <1>4, EndNone DEF ReplaceSession
<1>5. ASSUME NEW r \in Requests, SetOwnPassword(r)
      PROVE  NoneOverlap'
  BY <1>5, EndNone DEF SetOwnPassword
<1>6. ASSUME NEW r \in Requests, InsertCreated(r)
      PROVE  NoneOverlap'
  BY <1>6, EndNone DEF InsertCreated
<1>7. ASSUME NEW r \in Requests, UpdateRole(r)
      PROVE  NoneOverlap'
  BY <1>7, EndNone DEF UpdateRole
<1>8. ASSUME NEW r \in Requests, UpdatePassword(r)
      PROVE  NoneOverlap'
  <2>1. \A s \in Requests : requests'[s].op = requests[s].op /\ (s # r => requests'[s] = requests[s])
    BY <1>8, AtWork DEF UpdatePassword, TypeOK
  <2>2. requests[r] # Idle
    BY <1>8, AtWork DEF UpdatePassword
  <2> QED
    BY <2>1, <2>2 DEF NoneOverlap
<1>9. ASSUME NEW r \in Requests, DropSessions(r)
      PROVE  NoneOverlap'
  BY <1>9, EndNone DEF DropSessions
<1>10. ASSUME NEW r \in Requests, RemoveUser(r)
      PROVE  NoneOverlap'
  BY <1>10, EndNone DEF RemoveUser
<1>11. ASSUME NEW r \in Requests, DeleteSessions(r)
      PROVE  NoneOverlap'
  BY <1>11, EndNone DEF DeleteSessions
<1>12. ASSUME NEW r \in Requests, InsertInvitation(r)
      PROVE  NoneOverlap'
  BY <1>12, EndNone DEF InsertInvitation
<1>13. ASSUME NEW r \in Requests, DeleteInvitation(r)
      PROVE  NoneOverlap'
  BY <1>13, EndNone DEF DeleteInvitation
<1>14. ASSUME NEW r \in Requests, UpdateLink(r)
      PROVE  NoneOverlap'
  BY <1>14, EndNone DEF UpdateLink
<1>15. ASSUME NEW r \in Requests, InsertAccepted(r)
      PROVE  NoneOverlap'
  <2>1. \A s \in Requests : requests'[s].op = requests[s].op /\ (s # r => requests'[s] = requests[s])
    BY <1>15, AtWork DEF InsertAccepted, GoOn, TypeOK
  <2>2. requests[r] # Idle
    BY <1>15, AtWork DEF InsertAccepted
  <2> QED
    BY <2>1, <2>2 DEF NoneOverlap
<1>16. ASSUME NEW r \in Requests, MarkUsed(r)
      PROVE  NoneOverlap'
  BY <1>16, EndNone DEF MarkUsed
<1>17. ASSUME NEW r \in Requests, InsertBootstrap(r)
      PROVE  NoneOverlap'
  BY <1>17, EndNone DEF InsertBootstrap
<1>18. ASSUME NEW r \in Requests, Throw(r)
      PROVE  NoneOverlap'
  BY <1>18, EndNone DEF Throw
<1>19. ASSUME NEW t \in Tokens, Expire(t)
      PROVE  NoneOverlap'
  BY <1>19 DEF Expire, NoneOverlap
<1>20. ASSUME NEW i \in Invitations, Lapse(i)
      PROVE  NoneOverlap'
  BY <1>20 DEF Lapse, NoneOverlap
<1>21. CASE UNCHANGED vars
  BY <1>21 DEF vars, NoneOverlap
<1> QED
  BY <1>1, <1>2, <1>3, <1>4, <1>5, <1>6, <1>7, <1>8, <1>9, <1>10, <1>11, <1>12, <1>13, <1>14, <1>15, <1>16, <1>17, <1>18, <1>19, <1>20, <1>21, NextCases

\* No acceptance is in progress next to an operation kept apart from it.
LEMMA NoAccept ==
  ASSUME TypeOK, NoneOverlap, AcceptApart, NEW r \in Requests,
         \E op \in {"cancel", "resend", "deleteUser"} : Writes(r, op)
  PROVE  \A s \in Requests : requests[s].op # "accept"
<1> SUFFICES ASSUME NEW s \in Requests, requests[s].op = "accept"
             PROVE  FALSE
  OBVIOUS
<1>1. requests[r].op \in {"cancel", "resend", "deleteUser"} /\ requests[r] # Idle
  BY AtWork DEF Writes
<1>2. requests[s] # Idle /\ s # r
  BY <1>1 DEF Idle
<1>3. {requests[s].op, requests[r].op} \notin Apart
  BY <1>1, <1>2 DEF NoneOverlap
<1> QED
  BY <1>1, <1>3 DEF AcceptApart

\* What a step keeps when no account is removed and no offered invitation is changed.
StaysWell ==
  /\ \A u \in Users : Exists(u) => Exists(u)' /\ users'[u].email = users[u].email
  /\ \A i \in Invitations : Offered(i) =>
       /\ Offered(i)' /\ invitations'[i].email = invitations[i].email
       /\ invitations'[i].used = invitations[i].used
       /\ invitations'[i].link = invitations[i].link

LEMMA KeptSound ==
  ASSUME Filled, AcceptsSound, StaysWell, NEW s \in Requests,
         requests'[s] = requests[s], requests[s].op = "accept"
  PROVE  Sound(s)'
<1>1. Sound(s) /\ requests[s].invitation \in Invitations
  BY DEF AcceptsSound, Filled, Carries, Idle
<1>2. Taken(requests[s].email) => Taken(requests[s].email)'
  BY DEF Taken, StaysWell
<1>3. LinkGood(s) => LinkGood(s)'
  BY <1>1 DEF LinkGood, StaysWell
<1> QED
  BY <1>1, <1>2, <1>3 DEF Sound, StaysWell

LEMMA KeptStep ==
  ASSUME Filled, AcceptsSound, StaysWell,
         \A s \in Requests : requests'[s].op = "accept" => requests'[s] = requests[s]
  PROVE  AcceptsSound'
BY KeptSound DEF AcceptsSound

LEMMA EndOthers ==
  ASSUME TypeOK, NEW r \in Requests, End(r)
  PROVE  \A s \in Requests : requests'[s].op = "accept" => s # r /\ requests'[s] = requests[s]
BY DEF TypeOK, End, Idle

\* A request that begins is an acceptance of a good link, or another operation.
LEMMA OpensSound ==
  ASSUME TypeOK, NEW r \in Requests, Opens(r), requests'[r].op = "accept"
  PROVE  Sound(r)'
<1> PICK q \in Request : Begin(r, q) /\ q.at = "write" /\ Proposes(q)
  BY BeginningsTyped
<1>1. requests'[r] = q /\ UNCHANGED <<users, invitations>>
  BY DEF Begin, TypeOK
<1> QED
  BY <1>1 DEF Proposes, Sound, LinkGood, Offered

LEMMA OfferedRows == NoInvitation \notin Invitation
BY DEF NoInvitation, Invitation

\* Each step leaves every acceptance in progress sound.
LEMMA AcceptStep ==
  ASSUME TypeOK, Filled, NoneOverlap, AcceptApart, AcceptsSound, [Next]_vars
  PROVE  AcceptsSound'
<1>1. ASSUME NEW r \in Requests, Opens(r)
      PROVE  AcceptsSound'
  <2>1. UNCHANGED <<users, sessions, invitations>>
    BY <1>1, OpensOnly
  <2>2. StaysWell
    BY <2>1 DEF StaysWell, Exists, Offered
  <2>3. \A s \in Requests : s # r => requests'[s] = requests[s]
    BY <1>1, BeginningsTyped DEF Begin, TypeOK
  <2>4. ASSUME NEW s \in Requests, requests'[s].op = "accept"
        PROVE  Sound(s)'
    <3>1. CASE s = r
      BY <3>1, <2>4, <1>1, OpensSound
    <3>2. CASE s # r
      <4>1. requests'[s] = requests[s]
        BY <3>2, <2>3
      <4>2. requests[s].op = "accept"
        BY <4>1, <2>4
      <4> QED
        BY <4>1, <4>2, <2>2, KeptSound
    <3> QED
      BY <3>1, <3>2
  <2> QED
    BY <2>4 DEF AcceptsSound
<1>2. ASSUME NEW r \in Requests, StoreSession(r)
      PROVE  AcceptsSound'
  <2>1. StaysWell
    BY <1>2 DEF StoreSession, StaysWell, Exists, Offered
  <2> QED
    BY <2>1, <1>2, EndOthers, KeptStep DEF StoreSession
<1>3. ASSUME NEW r \in Requests, DeleteSession(r)
      PROVE  AcceptsSound'
  <2>1. StaysWell
    BY <1>3 DEF DeleteSession, StaysWell, Exists, Offered
  <2> QED
    BY <2>1, <1>3, EndOthers, KeptStep DEF DeleteSession
<1>4. ASSUME NEW r \in Requests, ReplaceSession(r)
      PROVE  AcceptsSound'
  <2>1. StaysWell
    BY <1>4 DEF ReplaceSession, StaysWell, Exists, Offered
  <2> QED
    BY <2>1, <1>4, EndOthers, KeptStep DEF ReplaceSession
<1>5. ASSUME NEW r \in Requests, SetOwnPassword(r)
      PROVE  AcceptsSound'
  <2>1. requests[r].user \in Users
    BY <1>5, AtWork DEF SetOwnPassword, Filled, Carries, Writes
  <2>2. StaysWell
    BY <2>1, <1>5, WriteKeeps DEF SetOwnPassword, StaysWell, Offered
  <2> QED
    BY <2>2, <1>5, EndOthers, KeptStep DEF SetOwnPassword
<1>6. ASSUME NEW r \in Requests, InsertCreated(r)
      PROVE  AcceptsSound'
  <2>1. requests[r].email \in Emails /\ requests[r].role \in Roles
    BY <1>6, AtWork DEF InsertCreated, Filled, Carries, Writes
  <2>2. StaysWell
    BY <2>1, <1>6, InsertKeeps DEF InsertCreated, StaysWell, Offered
  <2> QED
    BY <2>2, <1>6, EndOthers, KeptStep DEF InsertCreated
<1>7. ASSUME NEW r \in Requests, UpdateRole(r)
      PROVE  AcceptsSound'
  <2>1. StaysWell
    BY <1>7, UpdateKeeps DEF UpdateRole, StaysWell, Offered
  <2> QED
    BY <2>1, <1>7, EndOthers, KeptStep DEF UpdateRole
<1>8. ASSUME NEW r \in Requests, UpdatePassword(r)
      PROVE  AcceptsSound'
  <2>1. requests[r].user \in Users
    BY <1>8, AtWork DEF UpdatePassword, Filled, Carries, Writes
  <2>2. StaysWell
    BY <2>1, <1>8, WriteKeeps DEF UpdatePassword, StaysWell, Offered
  <2>3. \A s \in Requests : s # r => requests'[s] = requests[s]
    BY <1>8 DEF UpdatePassword, TypeOK
  <2>4. requests'[r].op = "resetPassword"
    BY <1>8, AtWork DEF UpdatePassword, Writes, TypeOK
  <2> QED
    BY <2>2, <2>3, <2>4, KeptStep
<1>9. ASSUME NEW r \in Requests, DropSessions(r)
      PROVE  AcceptsSound'
  <2>1. StaysWell
    BY <1>9, DropKeeps DEF DropSessions, StaysWell, Offered
  <2> QED
    BY <2>1, <1>9, EndOthers, KeptStep DEF DropSessions
<1>10. ASSUME NEW r \in Requests, RemoveUser(r)
      PROVE  AcceptsSound'
  <2>1. \A s \in Requests : requests'[s].op # "accept"
    BY <1>10, NoAccept, EndOthers DEF RemoveUser
  <2> QED
    BY <2>1 DEF AcceptsSound
<1>11. ASSUME NEW r \in Requests, DeleteSessions(r)
      PROVE  AcceptsSound'
  <2>1. StaysWell
    BY <1>11 DEF DeleteSessions, StaysWell, Exists, Offered
  <2> QED
    BY <2>1, <1>11, EndOthers, KeptStep DEF DeleteSessions
<1>12. ASSUME NEW r \in Requests, InsertInvitation(r)
      PROVE  AcceptsSound'
  <2>1. StaysWell
    BY <1>12 DEF InsertInvitation, StaysWell, Exists, Offered, FreshInvitation, TypeOK
  <2> QED
    BY <2>1, <1>12, EndOthers, KeptStep DEF InsertInvitation
<1>13. ASSUME NEW r \in Requests, DeleteInvitation(r)
      PROVE  AcceptsSound'
  <2>1. \A s \in Requests : requests'[s].op # "accept"
    BY <1>13, NoAccept, EndOthers DEF DeleteInvitation
  <2> QED
    BY <2>1 DEF AcceptsSound
<1>14. ASSUME NEW r \in Requests, UpdateLink(r)
      PROVE  AcceptsSound'
  <2>1. \A s \in Requests : requests'[s].op # "accept"
    BY <1>14, NoAccept, EndOthers DEF UpdateLink
  <2> QED
    BY <2>1 DEF AcceptsSound
<1>15. ASSUME NEW r \in Requests, InsertAccepted(r)
      PROVE  AcceptsSound'
  <2>1. requests[r].email \in Emails /\ requests[r].role \in Roles
    BY <1>15, AtWork DEF InsertAccepted, Filled, Carries, Writes
  <2>2. StaysWell
    BY <2>1, <1>15, InsertKeeps DEF InsertAccepted, StaysWell, Offered
  <2>3. \A s \in Requests : s # r => requests'[s] = requests[s]
    BY <1>15 DEF InsertAccepted, GoOn, TypeOK
  <2>4. /\ requests'[r].email = requests[r].email
        /\ requests'[r].invitation = requests[r].invitation
    BY <1>15, AtWork DEF InsertAccepted, GoOn, TypeOK
  <2>5. Taken(requests[r].email)'
    BY <2>1, <2>4, <1>15, InsertKeeps DEF InsertAccepted, Taken, Exists
  <2>6. Sound(r) /\ requests[r].invitation \in Invitations
    BY <1>15, AtWork DEF InsertAccepted, Writes, AcceptsSound, Filled, Carries
  <2>7. Sound(r)'
    BY <2>2, <2>4, <2>5, <2>6 DEF Sound, StaysWell, Taken
  <2>8. ASSUME NEW s \in Requests, s # r, requests'[s].op = "accept"
        PROVE  Sound(s)'
    BY <2>2, <2>3, <2>8, KeptSound
  <2> QED
    BY <2>7, <2>8 DEF AcceptsSound
<1>16. ASSUME NEW r \in Requests, MarkUsed(r)
      PROVE  AcceptsSound'
  <2> DEFINE i == requests[r].invitation
  <2>1. requests[r].op = "accept" /\ requests[r].at = "second" /\ i \in Invitations
    BY <1>16, AtWork DEF MarkUsed, Seconds, Filled, Carries
  <2>2. Offered(i) /\ invitations[i].email = requests[r].email /\ Taken(requests[r].email)
    BY <2>1 DEF AcceptsSound, Sound
  <2>3. /\ invitations[i] \in Invitation /\ UNCHANGED users
        /\ invitations' = [invitations EXCEPT ![i].used = TRUE]
    BY <2>1, <2>2, <1>16 DEF MarkUsed, Offered, TypeOK
  <2>4. invitations'[i] \in Invitation /\ invitations'[i].email = invitations[i].email
    BY <2>1, <2>3 DEF TypeOK, Invitation
  <2>5. \A j \in Invitations : j # i => invitations'[j] = invitations[j]
    BY <2>1, <2>3 DEF TypeOK
  <2>6. ASSUME NEW s \in Requests, requests'[s].op = "accept"
        PROVE  Sound(s)'
    <3>1. requests'[s] = requests[s] /\ requests[s].op = "accept"
      BY <2>6, <1>16, EndOthers DEF MarkUsed
    <3>2. Sound(s) /\ requests[s].invitation \in Invitations
      BY <3>1 DEF AcceptsSound, Filled, Carries, Idle
    <3>3. CASE requests[s].invitation = i
      <4>1. requests[s].email = requests[r].email
        BY <3>2, <3>3, <2>2 DEF Sound
      <4>2. Taken(requests[s].email)'
        BY <4>1, <3>1, <2>2, <2>3 DEF Taken, Exists
      <4>3. invitations'[i] # NoInvitation
        BY <2>4, OfferedRows DEF Offered
      <4> QED
        BY <3>1, <3>2, <3>3, <4>2, <4>3, <2>4 DEF Sound, Offered
    <3>4. CASE requests[s].invitation # i
      <4>1. invitations'[requests[s].invitation] = invitations[requests[s].invitation]
        BY <3>2, <3>4, <2>5
      <4> HIDE DEF i
      <4> QED
        BY <3>1, <3>2, <4>1, <2>3 DEF Sound, Taken, Exists, Offered, LinkGood
    <3> QED
      BY <3>3, <3>4
  <2> QED
    BY <2>6 DEF AcceptsSound
<1>17. ASSUME NEW r \in Requests, InsertBootstrap(r)
      PROVE  AcceptsSound'
  <2>1. requests[r].email \in Emails /\ requests[r].role \in Roles
    BY <1>17, AtWork DEF InsertBootstrap, Filled, Carries, Writes
  <2>2. StaysWell
    BY <2>1, <1>17, InsertKeeps DEF InsertBootstrap, StaysWell, Offered
  <2> QED
    BY <2>2, <1>17, EndOthers, KeptStep DEF InsertBootstrap
<1>18. ASSUME NEW r \in Requests, Throw(r)
      PROVE  AcceptsSound'
  <2>1. StaysWell
    BY <1>18 DEF Throw, StaysWell, Exists, Offered
  <2> QED
    BY <2>1, <1>18, EndOthers, KeptStep DEF Throw
<1>19. ASSUME NEW t \in Tokens, Expire(t)
      PROVE  AcceptsSound'
  <2>1. StaysWell
    BY <1>19 DEF Expire, StaysWell, Exists, Offered
  <2> QED
    BY <2>1, <1>19, KeptStep DEF Expire
<1>20. ASSUME NEW i \in Invitations, Lapse(i)
      PROVE  AcceptsSound'
  <2>1. invitations[i] \in Invitation /\ invitations' = [invitations EXCEPT ![i].expired = TRUE]
    BY <1>20 DEF Lapse, Offered, TypeOK
  <2>2. invitations'[i] \in Invitation /\ invitations'[i] = [invitations[i] EXCEPT !.expired = TRUE]
    BY <2>1 DEF TypeOK, Invitation
  <2>3. \A j \in Invitations : j # i => invitations'[j] = invitations[j]
    BY <2>1 DEF TypeOK
  <2>4. /\ invitations'[i].email = invitations[i].email /\ invitations'[i].used = invitations[i].used
        /\ invitations'[i].link = invitations[i].link /\ invitations'[i] # NoInvitation
    BY <2>1, <2>2, OfferedRows DEF Invitation
  <2>5. UNCHANGED users
    BY <1>20 DEF Lapse
  <2>6. StaysWell
    BY <2>3, <2>4, <2>5 DEF StaysWell, Exists, Offered
  <2> QED
    BY <2>6, <1>20, KeptStep DEF Lapse
<1>21. CASE UNCHANGED vars
  <2>1. StaysWell
    BY <1>21 DEF vars, StaysWell, Exists, Offered
  <2> QED
    BY <2>1, <1>21, KeptStep DEF vars
<1> QED
  BY <1>1, <1>2, <1>3, <1>4, <1>5, <1>6, <1>7, <1>8, <1>9, <1>10, <1>11, <1>12, <1>13, <1>14, <1>15, <1>16, <1>17, <1>18, <1>19, <1>20, <1>21, NextCases

\* A step that makes an account of an acceptance is that acceptance's own.
LEMMA AcceptingStep ==
  ASSUME TypeOK, Filled, AcceptsSound, [Next]_vars, NEW a \in Requests, Accepting(a)
  PROVE  LinkGood(a)
<1>0. requests[a].op = "accept" /\ requests[a].at = "write" /\ users' # users /\ requests'[a].at = "second"
  BY DEF Accepting, Writes
<1>1. ASSUME NEW r \in Requests, Opens(r)
      PROVE  LinkGood(a)
  BY <1>0, <1>1, OpensOnly
<1>2. ASSUME NEW r \in Requests, StoreSession(r)
      PROVE  LinkGood(a)
  BY <1>0, <1>2 DEF StoreSession
<1>3. ASSUME NEW r \in Requests, DeleteSession(r)
      PROVE  LinkGood(a)
  BY <1>0, <1>3 DEF DeleteSession
<1>4. ASSUME NEW r \in Requests, ReplaceSession(r)
      PROVE  LinkGood(a)
  BY <1>0, <1>4 DEF ReplaceSession
<1>5. ASSUME NEW r \in Requests, SetOwnPassword(r)
      PROVE  LinkGood(a)
  <2>1. r # a => requests'[a] = requests[a]
    BY <1>5 DEF SetOwnPassword, End, TypeOK
  <2>2. r # a
    BY <1>0, <1>5 DEF SetOwnPassword, Writes, Seconds
  <2> QED
    BY <1>0, <2>1, <2>2
<1>6. ASSUME NEW r \in Requests, InsertCreated(r)
      PROVE  LinkGood(a)
  <2>1. r # a => requests'[a] = requests[a]
    BY <1>6 DEF InsertCreated, End, TypeOK
  <2>2. r # a
    BY <1>0, <1>6 DEF InsertCreated, Writes, Seconds
  <2> QED
    BY <1>0, <2>1, <2>2
<1>7. ASSUME NEW r \in Requests, UpdateRole(r)
      PROVE  LinkGood(a)
  <2>1. r # a => requests'[a] = requests[a]
    BY <1>7 DEF UpdateRole, End, TypeOK
  <2>2. r # a
    BY <1>0, <1>7 DEF UpdateRole, Writes, Seconds
  <2> QED
    BY <1>0, <2>1, <2>2
<1>8. ASSUME NEW r \in Requests, UpdatePassword(r)
      PROVE  LinkGood(a)
  <2>1. r # a => requests'[a] = requests[a]
    BY <1>8 DEF UpdatePassword, TypeOK
  <2>2. r # a
    BY <1>0, <1>8 DEF UpdatePassword, Writes, Seconds
  <2> QED
    BY <1>0, <2>1, <2>2
<1>9. ASSUME NEW r \in Requests, DropSessions(r)
      PROVE  LinkGood(a)
  <2>1. r # a => requests'[a] = requests[a]
    BY <1>9 DEF DropSessions, End, TypeOK
  <2>2. r # a
    BY <1>0, <1>9 DEF DropSessions, Writes, Seconds
  <2> QED
    BY <1>0, <2>1, <2>2
<1>10. ASSUME NEW r \in Requests, RemoveUser(r)
      PROVE  LinkGood(a)
  <2>1. r # a => requests'[a] = requests[a]
    BY <1>10 DEF RemoveUser, End, TypeOK
  <2>2. r # a
    BY <1>0, <1>10 DEF RemoveUser, Writes, Seconds
  <2> QED
    BY <1>0, <2>1, <2>2
<1>11. ASSUME NEW r \in Requests, DeleteSessions(r)
      PROVE  LinkGood(a)
  BY <1>0, <1>11 DEF DeleteSessions
<1>12. ASSUME NEW r \in Requests, InsertInvitation(r)
      PROVE  LinkGood(a)
  BY <1>0, <1>12 DEF InsertInvitation
<1>13. ASSUME NEW r \in Requests, DeleteInvitation(r)
      PROVE  LinkGood(a)
  BY <1>0, <1>13 DEF DeleteInvitation
<1>14. ASSUME NEW r \in Requests, UpdateLink(r)
      PROVE  LinkGood(a)
  BY <1>0, <1>14 DEF UpdateLink
<1>15. ASSUME NEW r \in Requests, InsertAccepted(r)
      PROVE  LinkGood(a)
  <2>1. r # a => requests'[a] = requests[a]
    BY <1>15 DEF InsertAccepted, GoOn, TypeOK
  <2>2. r = a
    BY <1>0, <2>1
  <2>3. ~Taken(requests[a].email) /\ requests[a].op = "accept"
    BY <2>2, <1>15 DEF InsertAccepted, InsertUser, Writes
  <2> QED
    BY <2>3 DEF AcceptsSound, Sound
<1>16. ASSUME NEW r \in Requests, MarkUsed(r)
      PROVE  LinkGood(a)
  BY <1>0, <1>16 DEF MarkUsed
<1>17. ASSUME NEW r \in Requests, InsertBootstrap(r)
      PROVE  LinkGood(a)
  <2>1. r # a => requests'[a] = requests[a]
    BY <1>17 DEF InsertBootstrap, End, TypeOK
  <2>2. r # a
    BY <1>0, <1>17 DEF InsertBootstrap, Writes, Seconds
  <2> QED
    BY <1>0, <2>1, <2>2
<1>18. ASSUME NEW r \in Requests, Throw(r)
      PROVE  LinkGood(a)
  BY <1>0, <1>18 DEF Throw
<1>19. ASSUME NEW t \in Tokens, Expire(t)
      PROVE  LinkGood(a)
  BY <1>0, <1>19 DEF Expire
<1>20. ASSUME NEW i \in Invitations, Lapse(i)
      PROVE  LinkGood(a)
  BY <1>0, <1>20 DEF Lapse
<1>21. CASE UNCHANGED vars
  BY <1>0, <1>21 DEF vars
<1> QED
  BY <1>1, <1>2, <1>3, <1>4, <1>5, <1>6, <1>7, <1>8, <1>9, <1>10, <1>11, <1>12, <1>13, <1>14, <1>15, <1>16, <1>17, <1>18, <1>19, <1>20, <1>21, NextCases

\* Where acceptances are kept apart from cancellations, resendings and removals of
\* accounts, no account is made of an invitation that is gone, used or sent again.
THEOREM AcceptsAreGood == AcceptApart => (Spec => AcceptsGoodLinks)
<1> DEFINE Inv == TypeOK /\ Filled /\ NoneOverlap /\ AcceptsSound
<1> SUFFICES ASSUME AcceptApart
             PROVE  Spec => AcceptsGoodLinks
  OBVIOUS
<1>1. Init => Inv
  BY InitTyped DEF Init, Filled, NoneOverlap, AcceptsSound, Idle
<1>2. Inv /\ [Next]_vars => Inv'
  BY TypeStep, FilledStep, NoneStep, AcceptStep
<1>3. Inv /\ [Next]_vars => [\A r \in Requests : Accepting(r) => LinkGood(r)]_vars
  BY AcceptingStep
<1> QED
  BY <1>1, <1>2, <1>3, PTL DEF Spec, AcceptsGoodLinks

-----------------------------------------------------------------------------
\* One account for an e-mail address

\* A step that makes no account and changes no address makes no twins.
SameAddresses ==
  \A v \in Users : Exists(v)' => Exists(v) /\ users'[v].email = users[v].email

LEMMA SameUnique ==
  ASSUME EmailsUnique, SameAddresses
  PROVE  EmailsUnique'
BY DEF EmailsUnique, SameAddresses, Exists

\* An inserted row has an address nobody has: the UNIQUE constraint refuses another.
LEMMA InsertUnique ==
  ASSUME TypeOK, EmailsUnique, NEW email \in Emails, NEW role \in Roles, InsertUser(email, role)
  PROVE  EmailsUnique'
<1> PICK w \in Users : ~Referred(w) /\ users' = [users EXCEPT ![w] = NewUser(email, role)]
  BY DEF InsertUser
<1>1. users'[w].email = email /\ \A v \in Users : v # w => users'[v] = users[v]
  BY DEF TypeOK, NewUser
<1>2. \A v \in Users : v # w /\ Exists(v)' => Exists(v) /\ users'[v].email # email
  BY <1>1 DEF InsertUser, Taken, Exists
<1> QED
  BY <1>1, <1>2 DEF EmailsUnique, Exists

\* A new password and a new role leave the address.
LEMMA WriteSame ==
  ASSUME TypeOK, NEW u \in Users, WritePassword(u)
  PROVE  SameAddresses
<1>1. \A v \in Users : ~Exists(v) => users'[v] = users[v]
  BY DEF WritePassword, TypeOK, Exists
<1> QED
  BY <1>1, WriteKeeps DEF SameAddresses, Exists

LEMMA UpdateSame ==
  ASSUME TypeOK, Filled, NEW r \in Requests, UpdateRole(r)
  PROVE  SameAddresses
<1>1. \A v \in Users : ~Exists(v) => users'[v] = users[v]
  BY DEF UpdateRole, TypeOK, Exists
<1> QED
  BY <1>1, UpdateKeeps DEF SameAddresses, Exists

LEMMA DropSame ==
  ASSUME TypeOK, Filled, NEW r \in Requests, DropSessions(r)
  PROVE  SameAddresses
<1>1. \A v \in Users : ~Exists(v) => users'[v] = users[v]
  BY DEF DropSessions, TypeOK, Exists
<1> QED
  BY <1>1, DropKeeps DEF SameAddresses, Exists

LEMMA RemoveSame ==
  ASSUME TypeOK, NEW r \in Requests, RemoveUser(r)
  PROVE  SameAddresses
BY DEF RemoveUser, SameAddresses, Exists, TypeOK, NoUser

\* Each step leaves the addresses apart.
LEMMA UniqueStep ==
  ASSUME TypeOK, Filled, EmailsUnique, [Next]_vars
  PROVE  EmailsUnique'
<1>1. ASSUME UNCHANGED users
      PROVE  EmailsUnique'
  BY <1>1 DEF EmailsUnique, Exists
<1>2. ASSUME NEW r \in Requests, InsertCreated(r) \/ InsertAccepted(r) \/ InsertBootstrap(r)
      PROVE  EmailsUnique'
  <2>1. requests[r].email \in Emails /\ requests[r].role \in Roles
    BY <1>2, AtWork DEF InsertCreated, InsertAccepted, InsertBootstrap, Filled, Carries, Writes
  <2> QED
    BY <2>1, <1>2, InsertUnique DEF InsertCreated, InsertAccepted, InsertBootstrap
<1>3. ASSUME NEW r \in Requests, SetOwnPassword(r) \/ UpdatePassword(r)
      PROVE  EmailsUnique'
  <2>1. requests[r].user \in Users
    BY <1>3, AtWork DEF SetOwnPassword, UpdatePassword, Filled, Carries, Writes
  <2> QED
    BY <2>1, <1>3, WriteSame, SameUnique DEF SetOwnPassword, UpdatePassword
<1>4. ASSUME NEW r \in Requests, UpdateRole(r) \/ DropSessions(r) \/ RemoveUser(r)
      PROVE  EmailsUnique'
  BY <1>4, UpdateSame, DropSame, RemoveSame, SameUnique
<1>5. ASSUME NEW r \in Requests,
             \/ Opens(r) \/ StoreSession(r) \/ DeleteSession(r) \/ ReplaceSession(r)
             \/ DeleteSessions(r) \/ InsertInvitation(r) \/ DeleteInvitation(r)
             \/ UpdateLink(r) \/ MarkUsed(r) \/ Throw(r)
      PROVE  UNCHANGED users
  BY <1>5, OpensOnly DEF StoreSession, DeleteSession, ReplaceSession, DeleteSessions,
     InsertInvitation, DeleteInvitation, UpdateLink, MarkUsed, Throw
<1>6. ASSUME NEW t \in Tokens, Expire(t)
      PROVE  UNCHANGED users
  BY <1>6 DEF Expire
<1>7. ASSUME NEW i \in Invitations, Lapse(i)
      PROVE  UNCHANGED users
  BY <1>7 DEF Lapse
<1>8. CASE UNCHANGED vars
  BY <1>8, <1>1 DEF vars
<1> QED
  BY <1>1, <1>2, <1>3, <1>4, <1>5, <1>6, <1>7, <1>8, NextCases

\* No two accounts bear one e-mail address, however many requests make accounts at once.
THEOREM EmailsStayUnique == Spec => []EmailsUnique
<1>1. Init => TypeOK /\ Filled /\ EmailsUnique
  BY InitTyped DEF Init, Filled, EmailsUnique, Exists
<1>2. TypeOK /\ Filled /\ EmailsUnique /\ [Next]_vars => (TypeOK /\ Filled /\ EmailsUnique)'
  BY TypeStep, FilledStep, UniqueStep
<1> QED
  BY <1>1, <1>2, PTL DEF Spec

-----------------------------------------------------------------------------
\* Accounts within Access

LEMMA StepsAreSteps ==
  ASSUME [AccessNext]_allVars
  PROVE  [Next]_vars
<1>1. ASSUME NEW c \in Changes,
             \/ changes[c] = Still /\ Begins(c)
             \/ LookUp(c) \/ Insert(c) \/ Revoke(c) \/ RevokeAll(c) \/ RemoveAgent(c)
             \/ ForgetAgent(c) \/ Choose(c) \/ ThrowChange(c)
      PROVE  UNCHANGED vars
  BY <1>1 DEF Begins, BeginGrant, BeginRevoke, BeginRevokeAll, BeginDeleteAgent, BeginChoose,
     BeginChange, LookUp, Insert, Revoke, RevokeAll, RemoveAgent, ForgetAgent, Choose, ThrowChange
<1>2. ASSUME NEW s \in Servers, Purge(s)
      PROVE  UNCHANGED vars
  BY <1>2 DEF Purge
<1>3. ASSUME NEW t \in Tokens, NEW a \in Agents, Unchoose(t, a)
      PROVE  UNCHANGED vars
  BY <1>3 DEF Unchoose
<1> QED
  BY <1>1, <1>2, <1>3 DEF AccessNext, AccountStep, ChangeStep, allVars

\* Whatever is done about roles and preferences, the accounts are those of Accounts; so what
\* is proved of Accounts holds here.
THEOREM AccessIsAccounts == AccessSpec => Spec
<1>1. AccessInit => Init
  BY DEF AccessInit
<1>2. [AccessNext]_allVars => [Next]_vars
  BY StepsAreSteps
<1> QED
  BY <1>1, <1>2, PTL DEF AccessSpec, Spec

-----------------------------------------------------------------------------
\* Types

AccessTables ==
  /\ agents \subseteq Agents
  /\ place \in [Servers -> Agents \cup {"none"}]
  /\ assignments \in [Assignments -> Assignment \cup {NoAssignment}]
  /\ choices \in [Users -> [Agents \cup {"all"} -> SUBSET BOOLEAN]]
  /\ changes \in [Changes -> Change]

\* What a change carries, by its kind.
LEMMA ChangeKinds ==
  ASSUME NEW q \in Change
  PROVE  /\ q.op \in {"grant", "insert"} => q.row \in Assignment
         /\ q.op = "grant" => [q EXCEPT !.op = "insert"] \in Change
         /\ q.op = "revoke" => q.id \in Assignments
         /\ q.op = "revokeAll" => q.user \in Users /\ q.resource \in Agents \cup Servers
         /\ q.op \in {"deleteAgent", "forgetAgent"} => q.agent \in Agents
         /\ q.op = "deleteAgent" => [q EXCEPT !.op = "forgetAgent"] \in Change
         /\ q.op = "choose" =>
              q.user \in Users /\ q.agent \in Agents \cup {"all"} /\ q.on \in BOOLEAN
BY DEF Change, Still

\* A change that ends, or throws, leaves the others.
LEMMA EndChangeTyped ==
  ASSUME changes \in [Changes -> Change], NEW c \in Changes, EndChange(c)
  PROVE  changes' \in [Changes -> Change]
BY DEF EndChange, Change

LEMMA BeginChangeTyped ==
  ASSUME AccessTables, NEW c \in Changes, NEW q \in Change, BeginChange(c, q)
  PROVE  AccessTables'
BY DEF AccessTables, BeginChange

\* The record of a beginning change is one.
LEMMA BeginsTyped ==
  ASSUME TypeOK, AccessTables, NEW c \in Changes, Begins(c)
  PROVE  AccessTables'
<1>1. ASSUME NEW t \in Tokens, NEW x \in Assignment, BeginGrant(c, t, x)
      PROVE  AccessTables'
  <2>1. [op |-> "grant", row |-> x] \in Change
    BY DEF Change
  <2> QED
    BY <1>1, <2>1, BeginChangeTyped DEF BeginGrant
<1>2. ASSUME NEW t \in Tokens, NEW i \in Assignments, BeginRevoke(c, t, i)
      PROVE  AccessTables'
  <2>1. [op |-> "revoke", id |-> i] \in Change
    BY DEF Change
  <2> QED
    BY <1>2, <2>1, BeginChangeTyped DEF BeginRevoke
<1>3. ASSUME NEW t \in Tokens, NEW u \in Users, NEW p \in Agents \cup Servers,
             BeginRevokeAll(c, t, u, p)
      PROVE  AccessTables'
  <2>1. [op |-> "revokeAll", user |-> u, resource |-> p] \in Change
    BY DEF Change
  <2> QED
    BY <1>3, <2>1, BeginChangeTyped DEF BeginRevokeAll
<1>4. ASSUME NEW t \in Tokens, NEW a \in Agents, BeginDeleteAgent(c, t, a)
      PROVE  AccessTables'
  <2>1. [op |-> "deleteAgent", agent |-> a] \in Change
    BY DEF Change
  <2> QED
    BY <1>4, <2>1, BeginChangeTyped DEF BeginDeleteAgent
<1>5. ASSUME NEW t \in Tokens, NEW a \in Agents \cup {"all"}, NEW on \in BOOLEAN,
             BeginChoose(c, t, a, on)
      PROVE  AccessTables'
  <2> DEFINE u == sessions[t].user
  <2>1. u \in Users
    BY <1>5, Owners DEF BeginChoose
  <2>2. [op |-> "choose", user |-> u, agent |-> a, on |-> on, found |-> choices[u][a] # {}] \in Change
    BY <2>1 DEF Change
  <2> QED
    BY <1>5, <2>2, BeginChangeTyped DEF BeginChoose
<1> QED
  BY <1>1, <1>2, <1>3, <1>4, <1>5 DEF Begins

\* The cascades and the deletions leave rows or nothing.
LEMMA KeptTyped ==
  ASSUME AccessTables, NEW present
  PROVE  KeptRows(present) \in [Assignments -> Assignment \cup {NoAssignment}]
BY DEF AccessTables, KeptRows

\* A choice that is set.
LEMMA ChoiceTyped ==
  ASSUME AccessTables, NEW u \in Users, NEW a \in Agents \cup {"all"},
         NEW answers \in SUBSET BOOLEAN
  PROVE  [choices EXCEPT ![u][a] = answers]
           \in [Users -> [Agents \cup {"all"} -> SUBSET BOOLEAN]]
BY DEF AccessTables

LEMMA AccessStepTyped ==
  ASSUME TypeOK, Filled, AccessTables, [AccessNext]_allVars
  PROVE  AccessTables'
<1>1. CASE AccountStep
  <2>1. NoChoices \in [Agents \cup {"all"} -> SUBSET BOOLEAN]
    BY DEF NoChoices
  <2>2. choices' \in [Users -> [Agents \cup {"all"} -> SUBSET BOOLEAN]]
    BY <1>1, <2>1 DEF AccountStep, AccessTables
  <2>3. assignments' \in [Assignments -> Assignment \cup {NoAssignment}]
    BY <1>1, KeptTyped DEF AccountStep
  <2> QED
    BY <1>1, <2>2, <2>3 DEF AccountStep, AccessTables
<1>2. ASSUME NEW c \in Changes, Begins(c)
      PROVE  AccessTables'
  BY <1>2, BeginsTyped
<1>3. ASSUME NEW c \in Changes, LookUp(c)
      PROVE  AccessTables'
  <2>1. changes[c] \in Change
    BY DEF AccessTables
  <2>2. changes' \in [Changes -> Change]
    BY <1>3, <2>1, ChangeKinds, EndChangeTyped DEF LookUp, GoTo, AccessTables
  <2> QED
    BY <1>3, <2>2 DEF LookUp, AccessTables
<1>4. ASSUME NEW c \in Changes, Insert(c)
      PROVE  AccessTables'
  <2>1. changes[c] \in Change
    BY DEF AccessTables
  <2>2. changes[c].row \in Assignment
    BY <1>4, <2>1, ChangeKinds DEF Insert
  <2> QED
    BY <1>4, <2>2, EndChangeTyped DEF Insert, AccessTables
<1>5. ASSUME NEW c \in Changes, Revoke(c)
      PROVE  AccessTables'
  BY <1>5, EndChangeTyped DEF Revoke, AccessTables
<1>6. ASSUME NEW c \in Changes, RevokeAll(c)
      PROVE  AccessTables'
  BY <1>6, EndChangeTyped DEF RevokeAll, DropRows, AccessTables
<1>7. ASSUME NEW c \in Changes, RemoveAgent(c)
      PROVE  AccessTables'
  <2>1. changes[c] \in Change
    BY DEF AccessTables
  <2>2. changes' \in [Changes -> Change] /\ changes[c].agent \in Agents
    BY <1>7, <2>1, ChangeKinds DEF RemoveAgent, GoTo, AccessTables
  <2>3. choices' \in [Users -> [Agents \cup {"all"} -> SUBSET BOOLEAN]]
    BY <1>7, <2>2 DEF RemoveAgent, AccessTables
  <2> QED
    BY <1>7, <2>2, <2>3 DEF RemoveAgent, AccessTables
<1>8. ASSUME NEW c \in Changes, ForgetAgent(c)
      PROVE  AccessTables'
  BY <1>8, EndChangeTyped DEF ForgetAgent, DropRows, AccessTables
<1>9. ASSUME NEW c \in Changes, Choose(c)
      PROVE  AccessTables'
  <2> DEFINE q == changes[c]
  <2>1. q.user \in Users /\ q.agent \in Agents \cup {"all"} /\ q.on \in BOOLEAN
    BY <1>9, ChangeKinds DEF Choose, AccessTables
  <2>2. choices[q.user][q.agent] \in SUBSET BOOLEAN
    BY <2>1 DEF AccessTables
  <2>3. \E answers \in SUBSET BOOLEAN : choices' = [choices EXCEPT ![q.user][q.agent] = answers]
    <3>1. CASE q.found
      <4>1. (IF choices[q.user][q.agent] = {} THEN {} ELSE {q.on}) \in SUBSET BOOLEAN
        BY <2>1
      <4> QED
        BY <1>9, <3>1, <4>1 DEF Choose
    <3>2. CASE ~q.found
      <4>1. choices[q.user][q.agent] \cup {q.on} \in SUBSET BOOLEAN
        BY <2>1, <2>2
      <4> QED
        BY <1>9, <3>2, <4>1 DEF Choose
    <3> QED
      BY <3>1, <3>2
  <2>4. PICK answers \in SUBSET BOOLEAN : choices' = [choices EXCEPT ![q.user][q.agent] = answers]
    BY <2>3
  <2> HIDE DEF q
  <2>5. choices' \in [Users -> [Agents \cup {"all"} -> SUBSET BOOLEAN]]
    BY <2>1, <2>4, ChoiceTyped
  <2> QED
    BY <1>9, <2>5, EndChangeTyped DEF Choose, AccessTables
<1>10. ASSUME NEW c \in Changes, ThrowChange(c)
      PROVE  AccessTables'
  BY <1>10, EndChangeTyped DEF ThrowChange, AccessTables
<1>11. ASSUME NEW s \in Servers, Purge(s)
      PROVE  AccessTables'
  BY <1>11 DEF Purge, AccessTables
<1>12. ASSUME NEW t \in Tokens, NEW a \in Agents, Unchoose(t, a)
      PROVE  AccessTables'
  <2>1. sessions[t].user \in Users
    BY <1>12, Owners DEF Unchoose
  <2> QED
    BY <1>12, <2>1, ChoiceTyped DEF Unchoose, AccessTables
<1>13. CASE UNCHANGED allVars
  BY <1>13 DEF allVars, accessVars, AccessTables
<1> QED
  BY <1>1, <1>2, <1>3, <1>4, <1>5, <1>6, <1>7, <1>8, <1>9, <1>10, <1>11, <1>12, <1>13
     DEF AccessNext, ChangeStep

LEMMA AccessInitTyped == AccessInit => TypeOK /\ Filled /\ AccessTables
<1> SUFFICES ASSUME AccessInit
             PROVE  TypeOK /\ Filled /\ AccessTables
  OBVIOUS
<1>1. TypeOK /\ Filled
  BY InitTyped DEF AccessInit, Init, Filled
<1>2. AccessTables
  BY DEF AccessInit, AccessRest, AccessTables, NoChoices, Change
<1> QED
  BY <1>1, <1>2

LEMMA AccessTyped ==
  ASSUME TypeOK, Filled, AccessTables, [AccessNext]_allVars
  PROVE  (TypeOK /\ Filled /\ AccessTables)'
BY StepsAreSteps, TypeStep, FilledStep, AccessStepTyped

\* The tables of roles and preferences keep their types whatever overlaps.
THEOREM AccessTypeCorrect == AccessSpec => []AccessTypeOK
<1>1. TypeOK /\ Filled /\ AccessTables /\ [AccessNext]_allVars
        => (TypeOK /\ Filled /\ AccessTables)'
  BY AccessTyped
<1>2. TypeOK /\ AccessTables => AccessTypeOK
  BY DEF AccessTables, AccessTypeOK
<1> QED
  BY AccessInitTyped, <1>1, <1>2, PTL DEF AccessSpec

-----------------------------------------------------------------------------
\* The list and the check

\* An assignment reaches a server just when its resource is the server, its agent, or all.
LEMMA ExpansionReaches ==
  ASSUME NEW x \in Assignment, NEW s \in Servers, place[s] \in Agents, place[s] # "none"
  PROVE  s \in Expansion(x) <=> x.resource \in {s, place[s], "all"}
<1>1. CASE x.scope = "global"
  BY <1>1, PlacesAssumption DEF Assignment, Expansion
<1>2. CASE x.scope = "agent"
  BY <1>2, PlacesAssumption DEF Assignment, Expansion, Placed
<1>3. CASE x.scope = "server"
  BY <1>3, PlacesAssumption DEF Assignment, Expansion
<1> QED
  BY <1>1, <1>2, <1>3 DEF Assignment

\* Somebody who is no admin has a role on a server just when some assignment reaches it.
LEMMA RolesFromRows ==
  ASSUME NEW u, NEW system, system # "admin", NEW s \in Servers, place[s] # "none"
  PROVE  EffectiveRoles(u, system, s) # {}
           <=> \E x \in RowsOf(u) : x.resource \in {s, place[s], "all"}
<1>1. \A p : RolesAt(u, p) # {} <=> \E x \in RowsOf(u) : x.resource = p
  BY DEF RolesAt
<1>2. EffectiveRoles(u, system, s)
        = MostSpecific(RolesAt(u, s), MostSpecific(RolesAt(u, place[s]), RolesAt(u, "all")))
  BY DEF EffectiveRoles, EffectiveRolesForAgent
<1>3. EffectiveRoles(u, system, s) # {}
        <=> RolesAt(u, s) # {} \/ RolesAt(u, place[s]) # {} \/ RolesAt(u, "all") # {}
  BY <1>2 DEF MostSpecific
<1> QED
  BY <1>1, <1>3

\* Every role views.
LEMMA RolesView ==
  ASSUME NEW u, NEW system, NEW s
  PROVE  May(u, system, s, "view_server") <=> EffectiveRoles(u, system, s) # {}
BY DEF May, Capabilities

LEMMA TypedAgree ==
  ASSUME AccessTables
  PROVE  VisibleIsViewable
<1> SUFFICES ASSUME NEW u \in Users, NEW system \in Roles, NEW s \in Servers, place[s] # "none"
             PROVE  s \in VisibleServers(u, system) <=> May(u, system, s, "view_server")
  BY DEF VisibleIsViewable
<1>1. CASE system = "admin"
  BY <1>1, RolesView DEF VisibleServers, EffectiveRoles
<1>2. CASE system # "admin"
  <2>1. place[s] \in Agents /\ RowsOf(u) \subseteq Assignment
    BY DEF AccessTables, RowsOf, Rows
  <2>2. s \in VisibleServers(u, system) <=> \E x \in RowsOf(u) : s \in Expansion(x)
    BY <1>2 DEF VisibleServers
  <2>3. s \in VisibleServers(u, system)
          <=> \E x \in RowsOf(u) : x.resource \in {s, place[s], "all"}
    BY <2>1, <2>2, ExpansionReaches
  <2> QED
    BY <1>2, <2>3, RolesFromRows, RolesView
<1> QED
  BY <1>1, <1>2

\* A server that exists is listed for just those who may view it.
THEOREM ListsAreViewable == AccessSpec => []VisibleIsViewable
<1>1. TypeOK /\ Filled /\ AccessTables /\ [AccessNext]_allVars
        => (TypeOK /\ Filled /\ AccessTables)'
  BY AccessTyped
<1>2. AccessTables => VisibleIsViewable
  BY TypedAgree
<1> QED
  BY AccessInitTyped, <1>1, <1>2, PTL DEF AccessSpec

\* Whoever is to be alerted about an agent exists and has a role on it: the recipients'
\* query, which looks at assignments to the agent and to all, and the roles' agree.
THEOREM RecipientsAreAssigned == AccessSpec => []RecipientsHaveRole
<1>1. RecipientsHaveRole
  <2> SUFFICES ASSUME NEW a \in agents, NEW u \in Recipients(a)
               PROVE  Exists(u) /\ EffectiveRolesForAgent(u, users[u].role, a) # {}
    BY DEF RecipientsHaveRole
  <2> QED
    BY DEF Recipients, Candidates, EffectiveRolesForAgent, MostSpecific
<1> QED
  BY <1>1, PTL

-----------------------------------------------------------------------------
\* No row twice

\* Every step but an insertion takes assignments away, if it does anything to them.
OnlyTakes == \A i \in Assignments : assignments'[i] \in {assignments[i], NoAssignment}

LEMMA TakingKeepsTwins ==
  ASSUME TwinsOnlyGlobal, OnlyTakes
  PROVE  TwinsOnlyGlobal'
BY DEF TwinsOnlyGlobal, OnlyTakes

LEMMA TwinsStep ==
  ASSUME AccessTables, TwinsOnlyGlobal, [AccessNext]_allVars
  PROVE  TwinsOnlyGlobal'
<1>1. CASE AccountStep
  BY <1>1, TakingKeepsTwins DEF AccountStep, KeptRows, OnlyTakes
<1>2. ASSUME NEW c \in Changes, Insert(c)
      PROVE  TwinsOnlyGlobal'
  <2> DEFINE x == changes[c].row
  <2> PICK i \in Assignments : assignments[i] = NoAssignment /\ assignments' = [assignments EXCEPT ![i] = x]
    BY <1>2 DEF Insert
  <2>1. assignments'[i] = x /\ \A j \in Assignments : j # i => assignments'[j] = assignments[j]
    BY DEF AccessTables
  <2>2. \A j \in Assignments : assignments[j] = x /\ x # NoAssignment => x.resource = "all"
    BY <1>2 DEF Insert, Rows
  <2> QED
    BY <2>1, <2>2 DEF TwinsOnlyGlobal
<1>3. ASSUME NEW c \in Changes, Revoke(c) \/ RevokeAll(c) \/ ForgetAgent(c)
      PROVE  TwinsOnlyGlobal'
  BY <1>3, TakingKeepsTwins DEF Revoke, RevokeAll, ForgetAgent, DropRows, OnlyTakes, AccessTables
<1>4. ASSUME UNCHANGED assignments
      PROVE  TwinsOnlyGlobal'
  BY <1>4 DEF TwinsOnlyGlobal
<1>5. ASSUME NEW c \in Changes,
             Begins(c) \/ LookUp(c) \/ RemoveAgent(c) \/ Choose(c) \/ ThrowChange(c)
      PROVE  UNCHANGED assignments
  BY <1>5 DEF Begins, BeginGrant, BeginRevoke, BeginRevokeAll, BeginDeleteAgent, BeginChoose,
     BeginChange, LookUp, RemoveAgent, Choose, ThrowChange
<1>6. ASSUME NEW s \in Servers, Purge(s)
      PROVE  UNCHANGED assignments
  BY <1>6 DEF Purge
<1>7. ASSUME NEW t \in Tokens, NEW a \in Agents, Unchoose(t, a)
      PROVE  UNCHANGED assignments
  BY <1>7 DEF Unchoose
<1>8. CASE UNCHANGED allVars
  BY <1>8, <1>4 DEF allVars, accessVars
<1> QED
  BY <1>1, <1>2, <1>3, <1>4, <1>5, <1>6, <1>7, <1>8 DEF AccessNext, ChangeStep

\* What keeps a user's answers from contradicting each other: there is at most one to a
\* question; and where two preferences of one user are not set at once, one that is to be
\* inserted finds none.
Single(answers) == answers = {} \/ \E on \in BOOLEAN : answers = {on}
ChoicesSingle == \A u \in Users, a \in Agents \cup {"all"} : Single(choices[u][a])
Chooses(c) == changes[c].op = "choose"
ChoosersApart ==
  \A c, d \in Changes : c # d /\ Chooses(c) /\ Chooses(d) => changes[c].user # changes[d].user
InsertsFirst ==
  \A c \in Changes : Chooses(c) /\ ~changes[c].found =>
    choices[changes[c].user][changes[c].agent] = {}
ChoicesInv == ChoicesSingle /\ ChoosersApart /\ InsertsFirst

\* A step that begins no choice and only takes answers away.
LEMMA TakingKeepsChoices ==
  ASSUME AccessTables, ChoicesInv,
         \A c \in Changes : Chooses(c)' => changes'[c] = changes[c],
         \A u \in Users, a \in Agents \cup {"all"} : choices'[u][a] \in {choices[u][a], {}}
  PROVE  ChoicesInv'
<1>1. ChoicesSingle'
  BY DEF ChoicesInv, ChoicesSingle, Single
<1>2. ChoosersApart'
  BY DEF ChoicesInv, ChoosersApart, Chooses
<1>3. InsertsFirst'
  <2> SUFFICES ASSUME NEW c \in Changes, Chooses(c)', ~changes'[c].found
               PROVE  choices'[changes'[c].user][changes'[c].agent] = {}
    BY DEF InsertsFirst
  <2>1. changes'[c] = changes[c] /\ Chooses(c)
    BY DEF Chooses
  <2>2. changes[c].user \in Users /\ changes[c].agent \in Agents \cup {"all"}
    BY <2>1, ChangeKinds DEF AccessTables, Chooses
  <2> QED
    BY <2>1, <2>2 DEF ChoicesInv, InsertsFirst
<1> QED
  BY <1>1, <1>2, <1>3 DEF ChoicesInv

\* Ending a change begins no choice.
LEMMA EndChangeChooses ==
  ASSUME AccessTables, NEW c \in Changes, EndChange(c)
  PROVE  \A d \in Changes : Chooses(d)' => d # c /\ changes'[d] = changes[d]
BY DEF AccessTables, EndChange, Chooses, Still

LEMMA BeginChooses ==
  ASSUME AccessTables, NEW c \in Changes, NEW q, BeginChange(c, q), q.op # "choose"
  PROVE  /\ \A d \in Changes : Chooses(d)' => changes'[d] = changes[d]
         /\ UNCHANGED choices
BY DEF AccessTables, BeginChange, Chooses

LEMMA GoToChooses ==
  ASSUME AccessTables, NEW c \in Changes, NEW op \in {"insert", "forgetAgent"}, GoTo(c, op)
  PROVE  \A d \in Changes : Chooses(d)' => changes'[d] = changes[d]
<1>1. changes[c] \in Change
  BY DEF AccessTables
<1>2. [changes[c] EXCEPT !.op = op].op = op
  BY <1>1 DEF Change, Still
<1>3. changes'[c].op = op /\ \A d \in Changes : d # c => changes'[d] = changes[d]
  BY <1>2 DEF GoTo, AccessTables
<1> QED
  BY <1>3 DEF Chooses

LEMMA ChoicesStep ==
  ASSUME TypeOK, AccessTables, ~SlowChoices, ChoicesInv, [AccessNext]_allVars
  PROVE  ChoicesInv'
<1>1. CASE AccountStep
  <2>1. \A u \in Users, a \in Agents \cup {"all"} : choices'[u][a] \in {choices[u][a], {}}
    BY <1>1 DEF AccountStep, NoChoices
  <2> QED
    BY <1>1, <2>1, TakingKeepsChoices DEF AccountStep
<1>2. ASSUME NEW c \in Changes, NEW t \in Tokens, NEW a \in Agents \cup {"all"}, NEW on \in BOOLEAN,
             changes[c] = Still, BeginChoose(c, t, a, on)
      PROVE  ChoicesInv'
  <2> DEFINE u == sessions[t].user
             q == [op |-> "choose", user |-> u, agent |-> a, on |-> on, found |-> choices[u][a] # {}]
  <2>1. \A d \in Changes : Chooses(d) => changes[d].user # u
    BY <1>2 DEF BeginChoose, Chooses
  <2>2. changes' = [changes EXCEPT ![c] = q] /\ UNCHANGED choices
    BY <1>2 DEF BeginChoose, BeginChange
  <2>3. changes'[c] = q /\ \A d \in Changes : d # c => changes'[d] = changes[d]
    BY <2>2 DEF AccessTables
  <2>4. q.user = u /\ q.agent = a /\ (~q.found => choices[u][a] = {})
    OBVIOUS
  <2> HIDE DEF q
  <2>5. ChoosersApart'
    BY <2>1, <2>3, <2>4 DEF ChoicesInv, ChoosersApart, Chooses
  <2>6. InsertsFirst'
    BY <2>2, <2>3, <2>4 DEF ChoicesInv, InsertsFirst, Chooses
  <2> QED
    BY <2>2, <2>5, <2>6 DEF ChoicesInv, ChoicesSingle
<1>3. ASSUME NEW c \in Changes, Begins(c),
             ~\E t \in Tokens, a \in Agents \cup {"all"}, on \in BOOLEAN : BeginChoose(c, t, a, on)
      PROVE  ChoicesInv'
  <2>1. \E q : BeginChange(c, q) /\ q.op # "choose"
    <3>1. ASSUME NEW t \in Tokens, NEW x \in Assignment, BeginGrant(c, t, x)
          PROVE  \E q : BeginChange(c, q) /\ q.op # "choose"
      BY <3>1 DEF BeginGrant
    <3>2. ASSUME NEW t \in Tokens, NEW i \in Assignments, BeginRevoke(c, t, i)
          PROVE  \E q : BeginChange(c, q) /\ q.op # "choose"
      BY <3>2 DEF BeginRevoke
    <3>3. ASSUME NEW t \in Tokens, NEW u \in Users, NEW p \in Agents \cup Servers,
                 BeginRevokeAll(c, t, u, p)
          PROVE  \E q : BeginChange(c, q) /\ q.op # "choose"
      BY <3>3 DEF BeginRevokeAll
    <3>4. ASSUME NEW t \in Tokens, NEW a \in Agents, BeginDeleteAgent(c, t, a)
          PROVE  \E q : BeginChange(c, q) /\ q.op # "choose"
      BY <3>4 DEF BeginDeleteAgent
    <3> QED
      BY <1>3, <3>1, <3>2, <3>3, <3>4 DEF Begins
  <2> QED
    BY <2>1, BeginChooses, TakingKeepsChoices
<1>4. ASSUME NEW c \in Changes, LookUp(c) \/ RemoveAgent(c)
      PROVE  ChoicesInv'
  <2>1. EndChange(c) \/ GoTo(c, "insert") \/ GoTo(c, "forgetAgent")
    BY <1>4 DEF LookUp, RemoveAgent
  <2>2. \A d \in Changes : Chooses(d)' => changes'[d] = changes[d]
    BY <2>1, EndChangeChooses, GoToChooses
  <2>3. \A u \in Users, a \in Agents \cup {"all"} : choices'[u][a] \in {choices[u][a], {}}
    BY <1>4 DEF LookUp, RemoveAgent, AccessTables
  <2> QED
    BY <2>2, <2>3, TakingKeepsChoices
<1>5. ASSUME NEW c \in Changes,
             Insert(c) \/ Revoke(c) \/ RevokeAll(c) \/ ForgetAgent(c) \/ ThrowChange(c)
      PROVE  ChoicesInv'
  <2>1. EndChange(c) /\ UNCHANGED choices
    BY <1>5 DEF Insert, Revoke, RevokeAll, ForgetAgent, ThrowChange
  <2> QED
    BY <2>1, EndChangeChooses, TakingKeepsChoices
<1>6. ASSUME NEW c \in Changes, Choose(c)
      PROVE  ChoicesInv'
  <2> DEFINE v == changes[c].user
             b == changes[c].agent
             on == changes[c].on
  <2>1. v \in Users /\ b \in Agents \cup {"all"} /\ on \in BOOLEAN /\ Chooses(c)
    BY <1>6, ChangeKinds DEF Choose, AccessTables, Chooses
  <2>2. PICK answers : choices' = [choices EXCEPT ![v][b] = answers] /\ Single(answers)
    <3>1. CASE changes[c].found
      <4>1. Single(IF choices[v][b] = {} THEN {} ELSE {on})
        BY <2>1 DEF Single
      <4> QED
        BY <1>6, <3>1, <4>1 DEF Choose
    <3>2. CASE ~changes[c].found
      <4>1. choices[v][b] = {}
        BY <3>2, <2>1 DEF ChoicesInv, InsertsFirst
      <4>2. Single(choices[v][b] \cup {on})
        BY <4>1, <2>1 DEF Single
      <4> QED
        BY <1>6, <3>2, <4>2 DEF Choose
    <3> QED
      BY <3>1, <3>2
  <2>3. \A d \in Changes : Chooses(d)' => d # c /\ changes'[d] = changes[d]
    BY <1>6, EndChangeChooses DEF Choose
  <2>4. \A w \in Users, a \in Agents \cup {"all"} :
          choices'[w][a] = IF w = v /\ a = b THEN answers ELSE choices[w][a]
    BY <2>1, <2>2 DEF AccessTables
  <2> HIDE DEF v, b, on
  <2>5. ChoicesSingle'
    BY <2>2, <2>4 DEF ChoicesInv, ChoicesSingle
  <2>6. ChoosersApart'
    BY <2>3 DEF ChoicesInv, ChoosersApart, Chooses
  <2>7. InsertsFirst'
    <3> SUFFICES ASSUME NEW d \in Changes, Chooses(d)', ~changes'[d].found
                 PROVE  choices'[changes'[d].user][changes'[d].agent] = {}
      BY DEF InsertsFirst
    <3>1. d # c /\ changes'[d] = changes[d] /\ Chooses(d)
      BY <2>3 DEF Chooses
    <3>2. changes[d].user \in Users /\ changes[d].agent \in Agents \cup {"all"}
      BY <3>1, ChangeKinds DEF AccessTables, Chooses
    <3>3. changes[d].user # v
      BY <2>1, <3>1 DEF ChoicesInv, ChoosersApart, v
    <3> QED
      BY <2>4, <3>1, <3>2, <3>3 DEF ChoicesInv, InsertsFirst
  <2> QED
    BY <2>5, <2>6, <2>7 DEF ChoicesInv
<1>7. ASSUME NEW s \in Servers, Purge(s)
      PROVE  ChoicesInv'
  BY <1>7, TakingKeepsChoices DEF Purge
<1>8. ASSUME NEW t \in Tokens, NEW a \in Agents, Unchoose(t, a)
      PROVE  ChoicesInv'
  <2>1. \A u \in Users, p \in Agents \cup {"all"} : choices'[u][p] \in {choices[u][p], {}}
    BY <1>8 DEF Unchoose, AccessTables
  <2> QED
    BY <1>8, <2>1, TakingKeepsChoices DEF Unchoose
<1>9. CASE UNCHANGED allVars
  BY <1>9, TakingKeepsChoices DEF allVars, accessVars
<1> QED
  BY <1>1, <1>2, <1>3, <1>4, <1>5, <1>6, <1>7, <1>8, <1>9 DEF AccessNext, ChangeStep, Begins

LEMMA SingleIsClear ==
  ASSUME ChoicesSingle
  PROVE  ChoicesClear
<1> SUFFICES ASSUME NEW u \in Users, NEW a \in Agents \cup {"all"}
             PROVE  Cardinality(choices[u][a]) <= 1
  BY DEF ChoicesClear
<1>1. CASE choices[u][a] = {}
  BY <1>1, FS_EmptySet
<1>2. ASSUME NEW on, choices[u][a] = {on}
      PROVE  Cardinality(choices[u][a]) <= 1
  BY <1>2, FS_Singleton
<1> QED
  BY <1>1, <1>2 DEF ChoicesSingle, Single

\* Handlers that look before they insert insert no row twice, whatever overlaps: e-mail
\* addresses and assignments by their UNIQUE constraints; a user's answers for all agents,
\* where NULL escapes the constraint, if no two preferences of one user are set at once.
THEOREM RowsStayDistinct == ~SlowChoices => (AccessSpec => []RowsDistinct)
<1> DEFINE Inv == /\ TypeOK /\ Filled /\ AccessTables
                  /\ EmailsUnique /\ TwinsOnlyGlobal /\ ChoicesInv
<1> SUFFICES ASSUME ~SlowChoices
             PROVE  AccessSpec => []RowsDistinct
  OBVIOUS
<1>1. AccessInit => Inv
  <2> SUFFICES ASSUME AccessInit
               PROVE  Inv
    OBVIOUS
  <2>1. EmailsUnique
    BY DEF AccessInit, Init, EmailsUnique, Exists
  <2>2. TwinsOnlyGlobal
    BY DEF AccessInit, AccessRest, TwinsOnlyGlobal
  <2>3. ChoicesInv
    BY DEF AccessInit, AccessRest, NoChoices, ChoicesInv, ChoicesSingle, Single, ChoosersApart,
       InsertsFirst, Chooses, Still
  <2> QED
    BY <2>1, <2>2, <2>3, AccessInitTyped
<1>2. Inv /\ [AccessNext]_allVars => Inv'
  BY AccessTyped, StepsAreSteps, UniqueStep, TwinsStep, ChoicesStep
<1>3. Inv => RowsDistinct
  BY SingleIsClear DEF RowsDistinct, ChoicesInv
<1> QED
  BY <1>1, <1>2, <1>3, PTL DEF AccessSpec

-----------------------------------------------------------------------------
(* The pages.  A key is asked for by its page only, or is polled, or is    *)
(* marked by nobody; what a page shows at rest is current if its key is of *)
(* the first kind and no change it reads from is one nobody tells it of,   *)
(* for any number of changes under way and any order of their writes and   *)
(* answers.  The argument rests on the tables of PageCache, of which       *)
(* TablesAgree says that no other change concerns a key that its hook does *)
(* not mark.                                                               *)

Asking == {"agentConfig", "users", "invitations", "userRoleAssignments", "auditLogs",
           "notification-preferences", "notification-overrides"}

LEMMA UnpolledKeys ==
  ASSUME NEW k \in Keys, k \notin Polled
  PROVE  k \in Asking \cup Unmarked
BY DEF Keys, Polled, PolledLists, PolledFigures, Asking, Unmarked, AgentKeys, ContainerKeys,
       ServerKeys, ImageKeys, MetricsKeys, AccountKeys, RoleKeys, StorageKeys, PreferenceKeys

\* What a key that is asked for by its page only reads.
LEMMA FactsRead ==
  ASSUME NEW k \in Asking, NEW fact, <<k, fact>> \in AllReads
  PROVE  /\ k = "agentConfig" => fact = "settings"
         /\ k = "users" => fact \in {"users", "stamps"}
         /\ k = "invitations" => fact = "invitations"
         /\ k = "userRoleAssignments" => fact \in {"users", "roles"}
         /\ k = "auditLogs" => fact = "audit"
         /\ k = "notification-preferences" => fact = "preferences"
         /\ k = "notification-overrides" => fact = "overrides"
BY DEF Asking, AllReads, AgentReads, ConfigReads, TagReads, ContainerReads, PortReads, InspectReads,
       ServerReads, AllServersReads, OneServerReads, MetricsReads, HistoryReads, StorageReads,
       ImageReads, BackupReads, AuditReads, UserReads, InvitationReads, RoleReads, ChoiceReads,
       OverrideReads

\* Which changes write what such a key reads.
LEMMA WhoWrites ==
  ASSUME NEW m, NEW fact, <<m, fact>> \in AllWrites
  PROVE  /\ m \in Mutations
         /\ fact = "settings" => m \in {"deleteAgent", "updateAgentConfig", "deletePendingAgent"}
         /\ fact = "users" => m \in {"deleteUser", "updateUserSystemRole"}
         /\ fact = "stamps" => m = "changePassword"
         /\ fact = "invitations" => m \in InvitationMutations \cup {"deleteUser"}
         /\ fact = "roles" => m \in RoleMutations \cup {"deleteUser", "deleteAgent"}
         /\ fact = "preferences" => m = "updateNotificationPreferences"
         /\ fact = "overrides" => m \in {"deleteAgent", "setAgentNotificationOverride",
                                         "removeAgentNotificationOverride"}
BY DEF AllWrites, AgentWrites, TokenWrites, ContainerWrites, MakingWrites, ConfigWrites, RunWrites,
       RowWrites, InvitationWrites, AccountWrites, RoleWrites, BackupWrites, CommandWrites,
       PreferenceWrites, Mutations, AgentMutations, ContainerMutations, MakingMutations,
       ConfigMutations, RunMutations, RowMutations, InvitationMutations, AccountMutations,
       RoleMutations, BackupMutations, CommandMutations, PreferenceMutations

\* Every change that writes to the audit log tells its page, but for six.
LEMMA AuditsAreTold ==
  ASSUME NEW m, <<m, "audit">> \in AllWrites
  PROVE  \/ <<m, "auditLogs">> \in Tells
         \/ m \in {"deleteAgent", "generateEphemeralToken", "deletePendingAgent", "restartContainer",
                   "adoptServer", "changePassword"}
BY DEF AllWrites, AgentWrites, TokenWrites, ContainerWrites, MakingWrites, ConfigWrites, RunWrites,
       RowWrites, InvitationWrites, AccountWrites, RoleWrites, BackupWrites, CommandWrites,
       PreferenceWrites, ContainerMutations, MakingMutations, InvitationMutations, RoleMutations,
       BackupMutations, Tells, MakingTells, CleaningTells, RowTells, ConfigTells, ConfigMutations,
       BackupTells, InvitationTells, AccountTells, RoleTells, CommandTells

\* The hooks' marks against the handlers' writes: of the keys that are not
\* polled, a change concerns none that its hook leaves out, but for Untold.
LEMMA TablesAgree ==
  ASSUME NEW m \in Mutations, NEW k \in Keys, k \notin Polled, Affects(m, k)
  PROVE  <<m, k>> \in Tells \cup Untold
<1>1. CASE k \in Unmarked
  BY <1>1 DEF Untold
<1>2. CASE k \in Asking
  <2>1. PICK fact \in Facts : <<m, fact>> \in AllWrites /\ <<k, fact>> \in AllReads
    BY DEF Affects
  <2>2. CASE k = "auditLogs"
    BY <2>1, <2>2, <1>2, FactsRead, AuditsAreTold DEF Untold
  <2>3. CASE k = "agentConfig"
    BY <2>1, <2>3, <1>2, FactsRead, WhoWrites DEF Untold, Tells, AgentTells
  <2>4. CASE k = "users"
    BY <2>1, <2>4, <1>2, FactsRead, WhoWrites DEF Untold, Tells, AccountTells
  <2>5. CASE k = "invitations"
    BY <2>1, <2>5, <1>2, FactsRead, WhoWrites DEF Untold, Tells, InvitationTells
  <2>6. CASE k = "userRoleAssignments"
    BY <2>1, <2>6, <1>2, FactsRead, WhoWrites DEF Untold, Tells, AccountTells, RoleTells
  <2>7. CASE k \in {"notification-preferences", "notification-overrides"}
    BY <2>1, <2>7, <1>2, FactsRead, WhoWrites DEF Untold, Tells, PreferenceTells
  <2> QED
    BY <1>2, <2>2, <2>3, <2>4, <2>5, <2>6, <2>7 DEF Asking
<1> QED
  BY <1>1, <1>2, UnpolledKeys

-----------------------------------------------------------------------------
(* The variables keep to their sets: an answer is of now or old, a request *)
(* is idle, asked or answered, a change idle, sent or done.                *)
THEOREM PagesAreTyped == PagesSpec => []PagesTypeOK
<1>1. PagesInit => PagesTypeOK
  BY DEF PagesInit, PagesTypeOK
<1>2. PagesTypeOK /\ [PagesNext]_pageVars => PagesTypeOK'
  <2> SUFFICES ASSUME PagesTypeOK, [PagesNext]_pageVars
               PROVE  PagesTypeOK'
    OBVIOUS
  <2> USE DEF PagesTypeOK
  <2>1. CASE Mount \/ Unmount \/ Collect \/ GoStale \/ Refetch
    BY <2>1 DEF Mount, Unmount, Collect, GoStale, Refetch
  <2>2. CASE Handle \/ HandleMeasured \/ Retry \/ Fail
    BY <2>2 DEF Handle, HandleMeasured, Retry, Fail
  <2>3. CASE Receive
    <3>1. (missed /\ fetch = "old") \in BOOLEAN /\ (key \in Kept) \in BOOLEAN
      OBVIOUS
    <3> QED
      BY <2>3, <3>1 DEF Receive
  <2>4. ASSUME NEW m \in Mutations, Mutate(m) \/ Write(m) \/ Failed(m)
        PROVE  PagesTypeOK'
    BY <2>4 DEF Mutate, Write, Failed, Older
  <2>5. ASSUME NEW m \in Mutations, Settled(m)
        PROVE  PagesTypeOK'
    BY <2>5 DEF Settled
  <2>6. CASE Others \/ SwitchUser
    BY <2>6 DEF Others, SwitchUser, Outdated, Older
  <2>7. CASE Reload
    BY <2>7 DEF Reload
  <2>8. CASE UNCHANGED pageVars
    BY <2>8 DEF pageVars
  <2> QED
    BY <2>1, <2>2, <2>3, <2>4, <2>5, <2>6, <2>7, <2>8 DEF PagesNext
<1> QED
  BY <1>1, <1>2, PTL DEF PagesSpec

-----------------------------------------------------------------------------
(* PagesCurrent is of a page at rest.  Before it rests, an old answer is   *)
(* marked or a newer one is on its way, and an old answer on its way is    *)
(* itself known to come too late; or else the change that made it old has  *)
(* yet to be answered, or is missed for good.                              *)
Unanswered == \E m \in Mutations : mutations[m] = "done" /\ Affects(m, key)
Excused == missed \/ Unanswered

OldIsKnown == cache = "old" => Excused \/ marked \/ fetch \in {"asked", "now"}
LateIsKnown == fetch = "old" => Excused
RestIsKnown == (shown /\ fetch = "idle" /\ cache = "old") => Excused
PagesInv == key \notin Polled => OldIsKnown /\ LateIsKnown /\ RestIsKnown

LEMMA PagesStep ==
  ASSUME PagesTypeOK, PagesInv, [PagesNext]_pageVars
  PROVE  PagesInv'
<1> SUFFICES ASSUME key' \notin Polled
             PROVE  OldIsKnown' /\ LateIsKnown' /\ RestIsKnown'
  BY DEF PagesInv
<1>1. key' = key /\ key \in Keys
  BY DEF PagesNext, pageVars, PagesTypeOK, Mount, Unmount, Collect, GoStale, Refetch, Handle,
         HandleMeasured, Receive, Retry, Fail, Mutate, Write, Settled, Failed, Others, SwitchUser,
         Outdated, Reload
<1>2. OldIsKnown /\ LateIsKnown /\ RestIsKnown
  BY <1>1 DEF PagesInv
<1> USE DEF OldIsKnown, LateIsKnown, RestIsKnown, Excused
<1>3. mutations' = mutations => Unanswered' = Unanswered
  BY <1>1 DEF Unanswered, Affects
<1>4. CASE Mount \/ Unmount \/ Collect \/ GoStale \/ Refetch
  BY <1>2, <1>3, <1>4 DEF Mount, Unmount, Collect, GoStale, Refetch, Unread
<1>5. CASE Handle \/ HandleMeasured \/ Receive \/ Retry \/ Fail
  BY <1>2, <1>3, <1>5 DEF Handle, HandleMeasured, Receive, Retry, Fail
<1>6. ASSUME NEW m \in Mutations, Mutate(m)
      PROVE  OldIsKnown' /\ LateIsKnown' /\ RestIsKnown'
  <2>1. Unanswered => Unanswered'
    BY <1>1, <1>6 DEF Unanswered, Affects, Mutate, PagesTypeOK
  <2> QED
    BY <1>2, <1>6, <2>1 DEF Mutate
<1>7. ASSUME NEW m \in Mutations, Write(m)
      PROVE  OldIsKnown' /\ LateIsKnown' /\ RestIsKnown'
  <2>1. Unanswered'
    BY <1>1, <1>7 DEF Unanswered, Affects, Write, PagesTypeOK
  <2> QED
    BY <2>1
\* Answered: what only this change excused is marked, asked for again or missed.
<1>8. ASSUME NEW m \in Mutations, Settled(m)
      PROVE  OldIsKnown' /\ LateIsKnown' /\ RestIsKnown'
  <2>1. Unanswered => Unanswered' \/ (mutations[m] = "done" /\ Affects(m, key))
    BY <1>1, <1>8 DEF Unanswered, Affects, Settled, PagesTypeOK
  <2>2. CASE <<m, key>> \in Tells
    BY <1>2, <1>8, <2>1, <2>2 DEF Settled, Restarts, PagesTypeOK
  <2>3. CASE <<m, key>> \notin Tells
    <3>1. Affects(m, key) => <<m, key>> \in Untold
      BY <1>1, <2>3, TablesAgree
    <3> QED
      BY <1>2, <1>8, <2>1, <2>3, <3>1 DEF Settled
  <2> QED
    BY <2>2, <2>3
<1>9. ASSUME NEW m \in Mutations, Failed(m)
      PROVE  OldIsKnown' /\ LateIsKnown' /\ RestIsKnown'
  <2>1. Unanswered => Unanswered' \/ (mutations[m] = "done" /\ Affects(m, key))
    BY <1>1, <1>9 DEF Unanswered, Affects, Failed, PagesTypeOK
  <2> QED
    BY <1>2, <1>9, <2>1 DEF Failed
<1>10. CASE Others \/ SwitchUser
  BY <1>2, <1>3, <1>10 DEF Others, SwitchUser, Outdated, Older, PagesTypeOK
<1>11. CASE Reload
  BY <1>11 DEF Reload
<1>12. CASE UNCHANGED pageVars
  BY <1>2, <1>3, <1>12 DEF pageVars
<1> QED
  BY <1>4, <1>5, <1>6, <1>7, <1>8, <1>9, <1>10, <1>11, <1>12 DEF PagesNext

(* No order of a page's coming and going, its requests, and the writes and *)
(* answers of any number of changes leaves a page showing an old answer    *)
(* for a change its hooks could have told it of (the marks of              *)
(* hooks/useServers.ts, useBackups.ts, useUsers.ts and their components    *)
(* against the handlers' writes).                                          *)
THEOREM PagesAreCurrent == PagesSpec => []PagesCurrent
<1>1. PagesInit => PagesInv
  BY DEF PagesInit, PagesInv, OldIsKnown, LateIsKnown, RestIsKnown
<1>2. PagesTypeOK /\ PagesInv /\ [PagesNext]_pageVars => PagesInv'
  BY PagesStep
<1>3. PagesInv => PagesCurrent
  BY DEF PagesInv, RestIsKnown, Excused, Unanswered, PagesCurrent
<1> QED
  BY <1>1, <1>2, <1>3, PagesAreTyped, PTL DEF PagesSpec

=============================================================================
