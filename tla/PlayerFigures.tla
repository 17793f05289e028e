---------------------------- MODULE PlayerFigures ----------------------------
(***************************************************************************)
(* The players of each server: the agent's poll over RCON connections that *)
(* it keeps from one poll to the next, the figures it has of the last      *)
(* ones, the copy the Durable Object shows, and the points of the charts,  *)
(* which a loop of its own makes of the figures.                           *)
(*                                                                         *)
(* Every start of a server's game gives it a new run, a number; 0 is a     *)
(* server that does not run.  A figure is the run it was taken of, or 0:   *)
(* no connection, no players.  All servers have RCON configured.  A list   *)
(* of containers and what is read of each, a command and its answer, are   *)
(* one step.                                                               *)
(***************************************************************************)
EXTENDS Naturals, Functions

CONSTANTS
  Servers,
  Runs,    \* bound on the runs of a server
  Breaks,  \* bound on the connection's breaks and the DO's restarts
  PollFaults   \* bound on what fails

FiguresAssumption == {Runs, Breaks, PollFaults} \subseteq Nat

VARIABLES
  runs,         \* runs[s]: the run of s
  lastRun,      \* lastRun[s]: its last one, over or not
  link,         \* is the agent authenticated?
  connections,  \* RCON connections: of a server to a run
  stats,        \* the agent's latest figures
  found,        \* of the poll under way: the servers it found and their runs
  todo,         \* those it still has to ask
  allStats,     \* the figures it has got
  stage,        \* where it stands
  playerStats,  \* the figures the DO has
  point,        \* one of the points last stored, if any
  polled,       \* how many polls have ended that found the run of s: 0, 1, or more in a row (history)
  spoilt,       \* those whose answer has failed in the poll under way (history)
  breaks, faults

pollVars == <<found, todo, allStats, stage>>
runVars == <<runs, lastRun>>
boundVars == <<breaks, faults>>
figureVars == <<runVars, link, connections, stats, pollVars, playerStats, point, polled, spoilt, boundVars>>

Partial(S) == UNION {[D -> S] : D \in SUBSET Servers}
None == [s \in {} |-> 0]
Joined(f, g) == [s \in DOMAIN f \cup DOMAIN g |-> IF s \in DOMAIN f THEN f[s] ELSE g[s]]
With(f, s, value) == Joined([t \in {s} |-> value], f)

FiguresTypeOK ==
  /\ runs \in [Servers -> 0 .. Runs] /\ lastRun \in [Servers -> 0 .. Runs] /\ link \in BOOLEAN
  /\ {connections, found} \subseteq Partial(1 .. Runs)
  /\ {stats, allStats, playerStats} \subseteq Partial(0 .. Runs)
  /\ todo \subseteq DOMAIN found /\ stage \in {"idle", "collecting", "updating"}
  /\ point \in {None} \cup [run : 1 .. Runs, count : 0 .. Runs, settled : BOOLEAN]
  /\ polled \in [Servers -> 0 .. 2] /\ spoilt \subseteq Servers
  /\ breaks \in 0 .. Breaks /\ faults \in 0 .. PollFaults

FiguresInit ==
  /\ runs = [s \in Servers |-> 0] /\ lastRun = [s \in Servers |-> 0] /\ link = TRUE
  /\ connections = None /\ stats = None
  /\ found = None /\ todo = {} /\ allStats = None /\ stage = "idle"
  /\ playerStats = None /\ point = None /\ polled = [s \in Servers |-> 0] /\ spoilt = {}
  /\ breaks = 0 /\ faults = 0

Running == {s \in Servers : runs[s] # 0}
Fault == faults < PollFaults /\ faults' = faults + 1
Spared == UNCHANGED faults

-----------------------------------------------------------------------------
\* The host and the connection

Start(s) ==
  /\ runs[s] = 0 /\ lastRun[s] < Runs
  /\ lastRun' = [lastRun EXCEPT ![s] = @ + 1] /\ runs' = [runs EXCEPT ![s] = lastRun'[s]]
  /\ UNCHANGED <<link, connections, stats, pollVars, playerStats, point, polled, spoilt, boundVars>>

Stop(s) ==
  /\ runs[s] # 0 /\ runs' = [runs EXCEPT ![s] = 0] /\ polled' = [polled EXCEPT ![s] = 0]
  /\ UNCHANGED <<lastRun, link, connections, stats, pollVars, playerStats, point, spoilt, boundVars>>

Break ==
  /\ link /\ breaks < Breaks /\ breaks' = breaks + 1
  /\ link' = FALSE
  /\ playerStats' \in {playerStats, None}
  /\ UNCHANGED <<runVars, connections, stats, pollVars, point, polled, spoilt, faults>>

Reconnect ==
  /\ ~link /\ link' = TRUE
  /\ UNCHANGED <<runVars, connections, stats, pollVars, playerStats, point, polled, spoilt, boundVars>>

-----------------------------------------------------------------------------
\* The poll

\* History: a poll that misses a server's run breaks the row of those that found it.
Missed(S) == polled' = [s \in Servers |-> IF s \in S /\ polled[s] = 2 THEN 1 ELSE polled[s]]

\* discoverServers lists the containers and inspects each; what cannot be inspected counts as
\* not running, and with none running all figures and connections go.
Discover ==
  /\ stage = "idle" /\ link
  /\ \/ Fault /\ UNCHANGED <<connections, stats, pollVars, polled>>
     \/ \E inspected \in SUBSET Running :
          /\ Missed(Running \ inspected)
          /\ IF inspected = Running THEN Spared ELSE Fault
          /\ \/ /\ inspected = {}
                /\ connections' = None /\ stats' = None
                /\ UNCHANGED pollVars
             \/ /\ inspected # {}
                /\ found' = Restrict(runs, inspected) /\ todo' = inspected
                /\ stage' = "collecting"
                /\ UNCHANGED <<connections, stats, allStats>>
  /\ UNCHANGED <<runVars, link, playerStats, point, spoilt, breaks>>

Without(f, S) == Restrict(f, DOMAIN f \ S)

\* A connection stands while the run does that it was made to.
Standing(s) == s \in DOMAIN connections /\ connections[s] = runs[s]

\* May a connection be made to the container that was found?  To that of another run, if it is the same.
Reaches(s) == s \notin DOMAIN connections /\ runs[s] # 0

Replies(s) ==
  /\ connections' = With(connections, s, runs[s])
  /\ allStats' = With(allStats, s, runs[s])

\* Mutant: it is kept.
FailureKept(s) ==
  /\ UNCHANGED connections
  /\ allStats' = With(allStats, s, 0)

\* A connection that does not answer is closed.
Failure(s) ==
  /\ connections' = Without(connections, {s})
  /\ allStats' = With(allStats, s, 0)

CollectServerStats(s) ==
  /\ stage = "collecting" /\ s \in todo /\ todo' = todo \ {s}
  /\ \/ (Standing(s) \/ Reaches(s)) /\ Spared /\ Replies(s) /\ UNCHANGED spoilt
     \/ ~Standing(s) /\ found[s] # runs[s] /\ Spared /\ Failure(s) /\ UNCHANGED spoilt
     \/ s \in DOMAIN connections /\ ~Standing(s) /\ Spared /\ Failure(s) /\ UNCHANGED spoilt
     \/ (Standing(s) \/ Reaches(s)) /\ Fault /\ Failure(s) /\ spoilt' = spoilt \cup {s}
  /\ UNCHANGED <<runVars, link, stats, found, stage, playerStats, point, polled, breaks>>

\* The connections of servers that were not found go, with the figures.
CloseStopped ==
  /\ stage = "collecting" /\ todo = {}
  /\ LET stopped == DOMAIN connections \ DOMAIN found
     IN  connections' = Without(connections, stopped) /\ stats' = Without(stats, stopped)
  /\ stage' = "updating"
  /\ UNCHANGED <<runVars, link, found, todo, allStats, playerStats, point, polled, spoilt, boundVars>>

\* History: the polls that have found the runs there are.
Count ==
  /\ polled' = [s \in Servers |->
       IF s \notin DOMAIN found \/ found[s] # runs[s] THEN polled[s]
       ELSE IF s \in spoilt \/ polled[s] = 0 THEN 1 ELSE 2]
  /\ spoilt' = {}

Told == playerStats' = IF link THEN Joined(allStats, playerStats) ELSE playerStats

\* Mutant: a figure without connection is not worth keeping.
UpdateStatsConnected ==
  /\ stage = "updating" /\ stage' = "idle" /\ found' = None /\ allStats' = None
  /\ stats' = Joined(Restrict(allStats, {s \in DOMAIN allStats : allStats[s] # 0}), stats) /\ Told
  /\ Count
  /\ UNCHANGED <<runVars, link, connections, todo, point, boundVars>>

\* The figures are kept and sent; the DO adds them to those it has.
UpdateStats ==
  /\ stage = "updating" /\ stage' = "idle" /\ found' = None /\ allStats' = None
  /\ stats' = Joined(allStats, stats) /\ Told
  /\ Count
  /\ UNCHANGED <<runVars, link, connections, todo, point, boundVars>>

PollStep == Discover \/ (\E s \in Servers : CollectServerStats(s)) \/ CloseStopped \/ UpdateStats

-----------------------------------------------------------------------------
\* The charts

PointOf(s) == [run |-> runs[s], count |-> stats[s], settled |-> polled[s] > 0]

\* collectAndSend and the rows the DO makes of it; of points without a count nothing is said.
CollectAndSend ==
  /\ link
  /\ \E s \in Running \cap DOMAIN stats : point' = PointOf(s)
  /\ UNCHANGED <<runVars, link, connections, stats, pollVars, playerStats, polled, spoilt, boundVars>>

FiguresNext ==
  \/ (\E s \in Servers : Start(s) \/ Stop(s))
  \/ Break \/ Reconnect \/ PollStep \/ CollectAndSend

FiguresSpec == FiguresInit /\ [][FiguresNext]_figureVars

-----------------------------------------------------------------------------
\* Properties

\* Once a poll has seen a server's run to the end, the charts count the players of that run or
\* none, never those that an earlier one has left in the figures.
PointsCurrent == point # None /\ point.settled => point.count \in {0, point.run}

\* Connections are kept from poll to poll, over stops, restarts and new containers; all the
\* same two polls in a row that could ask a server leave the players it has.
FiguresRecover ==
  \A s \in Servers :
    polled[s] = 2 /\ stage = "idle" => s \in DOMAIN stats /\ stats[s] = runs[s]
=============================================================================
