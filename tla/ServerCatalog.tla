--------------------------- MODULE ServerCatalog ---------------------------
(***************************************************************************)
(* What the servers of an agent are to their users: a server is created    *)
(* once, under a name no other server has, and is then listed until it is  *)
(* deleted.  A deleted server keeps its name; it comes back only while     *)
(* somebody asks for it, and leaves for good only by a purge or a clean-up *)
(* of failed servers.                                                      *)
(***************************************************************************)
CONSTANTS Servers, Names

VARIABLES
  place,    \* place[s] \in {"unborn", "listed", "deleted", "gone"}
  nameOf,   \* nameOf[s]: the name of s, while listed or deleted
  wanted    \* the servers somebody has asked to have back or rebuilt

vars == <<place, nameOf, wanted>>

Holds(s, n) == place[s] \in {"listed", "deleted"} /\ nameOf[s] = n

Init ==
  /\ place = [s \in Servers |-> "unborn"]
  /\ nameOf \in [Servers -> Names]
  /\ wanted = {}

Move(s, from, to) ==
  /\ place[s] \in from
  /\ place' = [place EXCEPT ![s] = to]
  /\ UNCHANGED wanted

Create(s, n) ==
  /\ Move(s, {"unborn"}, "listed")
  /\ \A t \in Servers : ~Holds(t, n)
  /\ nameOf' = [nameOf EXCEPT ![s] = n]

Delete(s)   == Move(s, {"listed"}, "deleted") /\ UNCHANGED nameOf
ComeBack(s) == s \in wanted /\ Move(s, {"deleted"}, "listed") /\ UNCHANGED nameOf
Remove(s)   == Move(s, {"listed", "deleted"}, "gone") /\ \E n \in Names : nameOf' = [nameOf EXCEPT ![s] = n]

\* Somebody asks for s, or is done asking.
Want(s)   == wanted' = wanted \cup {s} /\ UNCHANGED <<place, nameOf>>
Settle(s) == wanted' = wanted \ {s} /\ UNCHANGED <<place, nameOf>>

Next == \E s \in Servers :
  \/ \E n \in Names : Create(s, n)
  \/ Delete(s) \/ ComeBack(s) \/ Remove(s) \/ Want(s) \/ Settle(s)

Spec == Init /\ [][Next]_vars
=============================================================================
