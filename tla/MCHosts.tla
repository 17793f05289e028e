------------------------------ MODULE MCHosts ------------------------------
(***************************************************************************)
(* What an agent does on its host, for TLC: move a server's data, find     *)
(* ports and a place for a new or an adopted server, make and restore      *)
(* backups while others are under way, ask the servers for their players,  *)
(* and raise the alarm when it cannot reach the manager.  None of these    *)
(* reads the state of another (a server's data are moved and backed up     *)
(* long after it has been placed; what a backup and a move of one server   *)
(* do to each other is left out), so a behaviour is about one of them.     *)
(***************************************************************************)
EXTENDS Backups, DataMoves, OutageAlerts, PlayerFigures

CONSTANTS
  Names, First, Games, Udps, Foreign, Mounts, PlacementFaults  \* Placement, with Requests

VARIABLES
  part,        \* what the behaviour is about
  \* those of Placement, whose rows, requests, queue, directories and marks are renamed
  servers, placements, asked, adopting, containers, bound, places, happened

P == INSTANCE Placement WITH
       Faults <- PlacementFaults, rows <- servers, requests <- placements, queue <- asked,
       dirs <- places, marks <- happened

ASSUME HostsAssumption ==
  P!PlacementAssumption /\ FiguresAssumption /\ AlertsAssumption

placeVars == <<servers, placements, asked, adopting, containers, bound, places, happened>>
dataVars == <<movesVars, placeVars, vars>>
ownVars == <<figureVars, alertVars>>
allVars == <<part, dataVars, ownVars>>

\* What a behaviour is not about begins in one way.
HostsInit ==
  /\ part \in {"moves", "placement", "backups", "figures", "outages"}
  /\ MovesInit /\ P!PlacementInit /\ Init /\ FiguresInit /\ AlertsInit
  /\ part # "moves" => container.runs
  /\ part # "placement" => containers["old"].runs /\ containers["old"].place = "own"
  /\ part # "backups" => up
  /\ part # "outages" => token /\ recipients = 0

HostsNext ==
  \/ part = "moves" /\ MovesNext /\ UNCHANGED <<part, placeVars, vars, ownVars>>
  \/ part = "placement" /\ P!PlacementNext /\ UNCHANGED <<part, movesVars, vars, ownVars>>
  \/ part = "backups" /\ Next /\ UNCHANGED <<part, movesVars, placeVars, ownVars>>
  \/ part = "figures" /\ FiguresNext /\ UNCHANGED <<part, dataVars, alertVars>>
  \/ part = "outages" /\ AlertsNext /\ UNCHANGED <<part, dataVars, figureVars>>

HostsSpec == HostsInit /\ [][HostsNext]_allVars

-----------------------------------------------------------------------------
\* Properties; MovesHold and NeverAnew are those of DataMoves, BackupsHold and RetentionSpares
\* those of Backups.

\* The state of each part has its type.
HostsTypeOK ==
  CASE part = "moves" -> MovesTypeOK
    [] part = "placement" -> P!TypeOK
    [] part = "backups" -> TypeOK
    [] part = "figures" -> FiguresTypeOK
    [] part = "outages" -> AlertsTypeOK

\* Rows and containers belong together: a container that was made is some row's; an adopted
\* server stands on the newest world of the container it replaces, if that had its data in a
\* directory of its own and had stopped; and no two rows have one name or one port unless
\* both were looked up before either was there.
RowsTrue ==
  part = "placement" => P!Owned /\ P!AdoptedWhole /\ P!PortsApart /\ P!PicksFit

\* What an agent tells by itself is so: the players it reports are those of the run there is,
\* two polls after any change, and none of an earlier run come into the charts; its alert
\* is about an outage of ten minutes, once, "back online" about one that is over, and both go
\* to those the manager named last.
ToldTruly ==
  /\ part = "figures" => PointsCurrent /\ FiguresRecover
  /\ part = "outages" => AlertsEarned /\ AlertsAnswered /\ RecipientsKept
=============================================================================
