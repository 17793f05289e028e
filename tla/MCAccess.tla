------------------------------ MODULE MCAccess ------------------------------
(***************************************************************************)
(* Access, and Accounts in it, for TLC: the ids up to permutation, and the *)
(* requests and changes of one behaviour taken from one of four groups:    *)
(* those about passwords and sessions, about accounts and invitations,     *)
(* about roles, or about notification preferences.  The last two groups    *)
(* begin when an admin and a second user have logged in.  An operator's    *)
(* assignment is granted like a viewer's and left out, and in the group    *)
(* about roles sessions end with their account only.                       *)
(*                                                                         *)
(* In a fifth group the accounts rest and the pages of a browser are read: *)
(* any one key of PageCache, with one change under way at a time for the   *)
(* keys that are polled, that nobody marks or that nearly every change     *)
(* concerns, and two for the others.                                       *)
(***************************************************************************)
EXTENDS Access, PageCache, TLC

VARIABLE group

Groups ==
  [sessions |-> {"login", "logout", "refresh", "ownPassword", "createUser",
                 "resetPassword", "deleteUser", "logoutAll"},
   invitations |-> {"login", "createUser", "deleteUser", "invite", "cancel",
                    "resend", "accept", "bootstrap"},
   roles |-> {"setRole", "deleteUser", "grant", "insert", "revoke", "revokeAll",
              "deleteAgent", "forgetAgent"},
   choices |-> {"deleteUser", "deleteAgent", "forgetAgent", "choose"}]

SessionOf(u) == [user |-> u, role |-> users[u].role, password |-> 0, late |-> FALSE]
TwoLoggedIn ==
  \E u, v \in Users, t, w \in Tokens :
    /\ u # v /\ t # w
    /\ users = [x \in Users |->
         CASE x = u -> NewUser(DefaultEmail, "admin")
           [] x = v -> NewUser(CHOOSE e \in Emails : e # DefaultEmail, "none")
           [] OTHER -> NoUser]
    /\ sessions = [x \in Tokens |->
         CASE x = t -> SessionOf(u) [] x = w -> SessionOf(v) [] OTHER -> NoSession]

MCInit ==
  \/ /\ AccessInit /\ PagesInit
     /\ \/ group = "pages"
        \/ group \in {"sessions", "invitations"} /\ key = "users"
  \/ /\ TwoLoggedIn
     /\ invitations = [i \in Invitations |-> NoInvitation]
     /\ requests = [r \in Requests |-> Idle]
     /\ AccessRest
     /\ group \in {"roles", "choices"}
     /\ PagesInit /\ key = "users"

Busy == {r \in Requests : requests[r] # Idle} \cup {c \in Changes : changes[c] # Still}

Tables ==
  /\ \/ AccountStep
     \/ group \in {"roles", "choices"} /\ ChangeStep
  /\ \A r \in Requests : requests'[r] # Idle => requests'[r].op \in Groups[group]
  /\ \A c \in Changes : changes'[c] # Still => changes'[c].op \in Groups[group]
  /\ group \in {"roles", "choices"} => Cardinality(Busy') <= 2
  /\ group = "roles" =>
       /\ \A c \in Changes : changes'[c].op = "grant" => changes'[c].row.role # "operator"
       /\ sessions' # sessions => users' # users

\* Nearly every change concerns these keys, or they are polled.
Crowded == {"auditLogs"} \cup Polled \cup Unmarked

MCNext ==
  \/ group # "pages" /\ Tables /\ UNCHANGED <<group, pageVars>>
  \/ /\ group = "pages" /\ PagesNext
     /\ key \in Crowded => Cardinality({m \in Mutations : mutations'[m] # "idle"}) <= 1
     /\ UNCHANGED <<group, allVars>>

MCSpec == MCInit /\ [][MCNext]_<<allVars, group, pageVars>>

Symmetry == Permutations(Users) \cup Permutations(Tokens) \cup Permutations(Requests)
            \cup Permutations(Assignments) \cup Permutations(Changes)
=============================================================================
