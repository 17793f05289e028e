# zedops: specifications, model checking and proofs

zedops manages game servers that run as containers on other people's hosts. A
Cloudflare Worker (`src/manager/src/index.ts`, `routes/`) serves the dashboard's
requests and keeps the tables in D1. One Durable Object (DO) per agent
(`durable-objects/AgentConnection.ts`) holds the agent's WebSocket, forwards
questions to it and awaits the answers. The agent (`src/agent/*.go`) runs on
the host, talks to Docker and keeps the data directories and backups.

This directory holds TLA+ modules translated from that code, TLC configurations
that check them on small instances, and TLAPS proofs for every instance.
`PROJECT.json` maps every definition to the lines it models and lists the
runs, the mutants that show each property can fail, the hazards and the findings.

## 1. Inventory

For each component: the state it keeps, its operations, how it meets the others,
what is hard about it and what would make it correct. The last column of the table
says where it is modelled.

| component | code | modelled in |
|---|---|---|
| Agent presence | `AgentConnection.ts` 94-216, 440-506, 744-787, 887-1126, 1287-1363; `reconnect.go`; `main.go` 229-399; `agents.ts` 110-299 | `AgentPresence`, `AlertLedger` |
| Game servers and status sync | `agents.ts` 776-3458; `AgentConnection.ts` 2452-3219; `server.go`; `docker.go` | `ServerLifecycle`, `ServerCatalog` |
| Questions to the agent | `AgentConnection.ts` 731-739, 1443-1471; `main.go` 433-490, 1504-1545 | inside `ServerLifecycle`, `RconSessions`, `DataMoves`, `Placement` |
| Log streaming | `AgentConnection.ts` 1117, 1747 ff.; `main.go` 760-1010; `docker.go`; `logcapture.go`; `useLogStream.ts`, `useAgentLogStream.ts` | `LogStreams`, `AgentLog` |
| Backups | `backup.go`; `agents.ts` 3622-3923; `AgentConnection.ts` 436-472, 3392-3642 | `Backups` |
| RCON | `rcon.go`; `AgentConnection.ts`; `main.go`; `useRcon.ts` | `RconSessions` |
| Ports, adoption, moving data | `server.go`; `network.go`; `servers.ts`; `agents.ts`; `AgentServerList.tsx` | `DataMoves`, `Placement` |
| Accounts | `users.ts`, `auth.ts`, `invitations.ts`, `middleware/auth.ts`, `index.ts` | `Accounts` |
| Permissions, preferences | `lib/permissions.ts`, `role-assignments.ts`, `preferences.ts` | `Access` |
| Agent updates | `autoupdate.go`, `index.ts`, `admin.ts`, `AgentConnection.ts` | `AgentUpdates` |
| Agent-side outage alerts | `alert.go`, `reconnect.go`, `main.go` | `OutageAlerts` |
| Player statistics | `playerstats.go`, `metricscollector.go`, `AgentConnection.ts` | `PlayerFigures` |
| Audit rows | `lib/audit.ts`, `audit.ts` | those of terminals in `RconSessions`; which changes write one, and whether the page of the log learns of it, in `PageCache` |
| Mail templates, Docker's images and networks, the other metrics | several | no: nothing reads them back into a decision |
| Pages and their cached answers | `frontend/src/lib/api.ts`, `hooks/*.ts`, the components that ask by themselves; the handlers that answer | `PageCache` |
| Frontend, the rest | `src/frontend` | the hooks that keep a connection (`LogStreams`, `AgentLog`, `RconSessions`) and the page that remembers an old path (`DataMoves`); forms, lists and showcases: no |
| Migrations, CI | `manager/migrations`, scripts | no: the constraints that matter are in the modules that meet them |

**Agent presence.** State: the row of the agent (`status`, token hash, `last_seen`); in the DO
the flag `isRegistered` in memory, `agentId`, `disconnectedAt`, `alertSentAt` and an
alarm in storage, and the accepted sockets; in the agent its permanent and its
registration token. Operations: dial, register, authenticate, heartbeat, close,
alarm, the dashboard's listing with its sweep of stale rows, removal of an agent.
Hard: handlers interleave at every await of D1 or of an e-mail; a socket may close
after its successor authenticated; hibernation drops memory, a restart drops the
sockets without a close event; a D1 statement may fail. Correct means: the
row converges to the truth, a reconnected agent is reachable and its alarm is
cancelled, an outage is alerted once and closed once, and an agent with a valid
token never gives up for good.

**Game servers.** State: the table `servers`, the DO's pending questions, the
commands in the socket, the containers and data directories on the host.
Operations: create, start, stop, container start/stop/restart, soft delete,
purge, restore, rebuild, apply-config, clean-up of failed servers, status sync
(on request and after every registration). Hard: every operation is
read-row, write-row, ask the agent, write-row-by-id with no condition; an answer
may come after its timeout; a command may be carried out though nobody hears of it;
Docker may fail in the middle of a rebuild. Correct means: what is listed
as running can be controlled, a deleted server stays deleted, a sync leaves the
truth, no row stays in a transient status, and a purge wipes its own data only.

**Questions to the agent.** A reply subject per question, a map of pending questions
in the DO's memory, a timeout per kind of question. The agent answers in the order
it was asked, one command at a time, except for backups, which run in goroutines.

**Log streaming.** The DO keeps subscriptions in storage and the last lines of each log in
memory; the agent keeps a map from container to the cancel function of its goroutine.
The two sides count subscribers separately, and a broken connection clears half of them.
Correct means: what is watched is streamed, once, and can be stopped; what nobody
watches is not; two viewers see one sequence of lines.

**Backups.** Rows (`creating`, `complete`, `failed`), archives with a metadata file on
disk, a retention of ten, a sync that makes rows of files, a restore that stops
the server, renames the data away and rolls back on failure. Hard: creates and restores
are goroutines of the agent that outlive the request, and nothing keeps two of one
server apart; each may fail or be cut off half way; rows and files change
separately. Correct means: no data the server has had is lost by a restore, a listed
backup holds what was backed up, rows and files agree after a sync, retention
removes the oldest only.

**RCON.** A session table with an idle sweep on the agent, a copy in the DO that
hibernation loses, audit rows written from that copy. Correct means: every command
carried out is audited, no session is used after it was closed.

**Ports, adoption, moves.** Ports are checked against an answer of the agent that is
stale when the row is inserted; an adoption replaces a container by one with other
mounts; a move copies, verifies and deletes, and the path it moves from is known to the
browser only. Correct means: the newest world is always somewhere, and a server said to
run stands on it; a container belongs to a row; no two rows share a name or a game port.

**Accounts and permissions.** Users, invitations, sessions that carry the role; role
assignments per scope; preferences. No handler holds a transaction, and several hash a
password between reading and writing. Correct means: a session is that of an existing
account, a reset password shuts the others out, an account comes of a good invitation
only, the list of visible servers agrees with the check of one server, and an alert goes
to those with a role.

**Agent updates.** Version polling, a push that gives the alarm a longer grace period, and
an agent that replaces its binary and execs it. Correct means: a pushed version comes to
run, the agent that goes down for it is given the grace period, and an update is announced
if it took place.

**Agent-side alerts and player figures.** An e-mail of the agent's own after ten minutes
without authentication, and one when it is back, from goroutines of their own to recipients
cached on disk; a poll of every server's players over connections kept between polls,
two readers of its figures. Correct means: one alert per outage that lasted, "back online"
after it, and no player counted of a run that is over.

**Pages.** One answer per query key in the browser (TanStack Query), asked for when a page opens,
by a poll for some keys, and when the hook of a change marks the key. Requests and changes
overlap, and a request may have read the tables before a change that is answered first.
Nothing ties the list of keys a hook marks to what the handler behind it writes. Correct
means: a page at rest shows what the manager would say now, or is out of date for a change of
which it cannot know.

## 2. Plan

Order, most important first. Each module gets an abstract specification where there
is a promise to state, an invariant run, a liveness run where the scheduling supports it,
and a `_proofs` module for what should hold for every instance.

1. `AgentPresence` with `AlertLedger`: done, and proved (types, e-mails, hibernation, the ledger,
   reconnects, tokens).
2. `ServerLifecycle` with `ServerCatalog`: done, and proved (types, purges, control, syncs, the
   catalog).
3. `Backups`: done, and proved (types, worlds, syncs, faithful backups, the shelf).
4. `Accounts` and, extending it, `Access`: done, and proved (every property the run checks).
5. `LogStreams`, `AgentLog`, `RconSessions`, `AgentUpdates`, composed for TLC in
   `MCConnection`: done, and proved (every invariant the run checks).
6. `DataMoves`, `Placement`, `PlayerFigures`, `OutageAlerts`, composed with `Backups`
   in `MCHosts`: done, and proved (every property the run checks).
7. `PageCache`, in the run of `Access`: done, and proved.
8. Open: the sync that follows a registration with the presence of the agent as
   `AgentPresence` gives it; a backup and a move of one server at the same time.

The number of runs is kept small: components that do not read each other's state share a
run, whose behaviours are each about one of them (the variable `part` or `group`).

## 3. Modules and how they correspond to the code

### AgentPresence

One agent, its DO and its row. *Granularity.* A DO is single threaded and
delivers no event while a handler awaits its own storage, so a run of storage
operations is one step. It does deliver events while a handler awaits `fetch` or D1, so
each such await ends a step and the D1 statement is a step of its own: `AuthLookup`
is the SELECT of `handleAgentAuth`, `AuthAccept` what follows it up to the
e-mail's recipients, `AuthRecovered` the storage writes after them, `AuthUpdate` the
UPDATE and `AuthDone` the reply. `talk[c]`, `shut[c]` and `ring` say where the
handlers of socket `c` and of the alarm stand.

*Agent.* `Dial`, `Disconnect`, `ReceiveError`, `ReceiveAuthSuccess` and
`ReceiveRegisterSuccess` are `ConnectWithRetry`, `RunWithReconnect`, `register` and
`authenticate`: an error reply makes the agent exit for good, a lost connection makes it dial
again. *DO.* `Hibernate` drops `isRegistered` and restores it from storage
(`restoreState`); `Restart` drops the sockets without a close event. `Send` always
uses `AgentWebSocket`, the oldest accepted socket, as `getAgentWebSocket` does.
*Worker.* `ListingRead`/`ListingWrite` are the sweep in `GET /agents`, two steps because
the SELECT and the UPDATEs are; `Removal*` is `DELETE /agents/:id`, which deletes the row
though the DO could not be asked to disconnect the agent (`RemovalDisconnectFails`, counted by
`faults`).

Time is abstracted: an armed alarm may fire at any later moment, `LastSeenFresh` says when
the two-minute-old `last_seen` can be taken as evidence.

`AlertLedger` is the promise to the recipients of the presence e-mails: each offline
e-mail answers its own outage, each recovery e-mail an unanswered offline e-mail.
`AgentPresence!LedgerSpec` states the refinement.

### ServerLifecycle

The servers of one agent. A *request* is a record in `requests[r]` with its
operation, the row it read and where it stands; `Begin*` are the handlers up to the row they
read (with the guards that answer 4xx), the other actions are the handler between
two awaits: a write and the next question, or the answer and the last write. `Send` is
the DO's forwarding, `Timeout` its 504; `queue` is the socket; the `Agent*` actions
are the agent's handlers, one command each, with one disjunct for each place
where they may fail. `Disconnect` loses a suffix of the queue and what is left is
carried out unheard. `DORestart` also makes the Worker's `fetch` throw.

`Write`, `SetStatus` and `SetRunning` are the UPDATEs by id: they do nothing if the row has
gone in the meantime and have no other condition, which is what the code does.
`SyncStatus` is the decision of `syncServers`, by container *name*. A listing that fails in
Docker is answered without containers, which `syncServers` takes for none: `SyncListed` goes on
with that answer (`unlisted`) as with a listing.

The constants `Overlap` and `Faults` select what may happen. They are no abstraction
of the code: they name the runs under which a property holds, and the findings
are the same properties with one more kind of event allowed.

`ServerCatalog` is what a server is to its user: created under a name of its own,
listed until it is deleted, back only if somebody asks. `ServerLifecycle!CatalogSpec`
states the refinement. `MCServerLifecycle` adds the symmetry of requests for TLC.

### Backups

The backups of one server: the rows of D1, the requests of the Worker, and the
goroutines of the agent on its host. Requests are numbered, and a backup and a job
bear the number of their request. `Begin*` are the routes up to their question,
`CreateDone`, `DeleteDone`, `RestoreDone` and `Sync*` what follows the answer, one
action per D1 statement; a job ends with `End`, whose answer moves the request only if it
still waits (`Answer`), since the DO gives up (`GiveUp`) and the job does not.

*Host.* A directory or an archive is abstracted to what it holds: nothing, part of a world, all of
it but the end (`Torn`), or a whole world, numbered; a restore that succeeds begins a new world,
because the server plays on from there. `dirs[0]` is the data directory and `dirs[n]` the
`data.pre-restore.*` of restore `n`. `CreateBegin`, `CreatePack`, `CreateMeta`, `CreatePrune` are
`CreateBackup`, cut where another goroutine can come between; `RestoreBegin`, `RestoreMove`,
`RestoreExtract`, `RestoreBoot` are `RestoreFromBackup`, `RestoreMoveFail` and `RestoreFail` its
error paths. Nobody looks whether a file could be closed: with the fault `torn` an archive goes on
without its end, which a restore then fails to extract, with `short` an extraction succeeds though a
file is not whole. The fields `holds` and `clean` of a job say what a walk or an extraction began
with and whether another job changed the data directory under it; if so it may fail or go on, and
what it makes is a part. `mount` is the directory the container runs on, which is not the data
directory any more when the container could not be stopped before the rename.

`Overlap` and `Faults` name what may happen, as in `ServerLifecycle`. `Listed` is
`ListBackups`: metadata *and* archive. The deletion of a backup leaves the file where it
is, because the DO takes the question for the removal of a server.

### Accounts and Access

`Accounts` is the tables `users`, `sessions` and `invitations` and fourteen operations on
them. A request is a record: its first step (`Login`, `Invite`, `Accept`, ...) is the handler
up to its last look at the tables, with the guards that answer 4xx; then comes a step per
statement that writes (`StoreSession`, `InsertAccepted` and `MarkUsed`, ...), because the
handler hashes, signs or sends between, and `Throw` may end it before any of them. The
constraints of the schema are in the writing steps: UNIQUE e-mail makes `InsertUser` throw,
`RemoveUser` cascades. Passwords of an account are numbered; a session remembers the one
it was opened with. `Apart` lists pairs of operations that do not overlap: the run and the
theorem about acceptances need three of them (section 6).

`Access` extends it with agents, servers, role assignments and notification preferences.
`EffectiveRoles*`, `May`, `VisibleServers` and `Recipients` translate `lib/permissions.ts`
and the query of the alert's recipients; changes (`BeginGrant`, `LookUp`, `Insert`;
`Revoke`; `RemoveAgent`, `ForgetAgent`; `Choose`) look in one step and write in another,
with SQL's NULL as "all", which UNIQUE never finds equal to another. The list of servers
expands every assignment, the check of a server looks for the most specific:
`VisibleIsViewable` compares the two. `SlowChoices` lets two PATCHes of a user's preferences
overlap (section 6). `MCAccess` takes the operations of a behaviour from one of four groups,
and permutes ids; its fifth group is `PageCache`.

### LogStreams, AgentLog

The DO's handlers of subscriptions await its own storage only, so each is one step; the
agent's handlers take a message each, and every forwarder (a goroutine) reads, sends and
removes itself in steps of its own. A line is its number. Connections break with what is
under way, browsers vanish without a word, the DO hibernates (its lines go, its
subscriptions stay) or is restarted. History variables name what the code cannot know:
`unserved` is a container whose stream ended or was lost since it was asked for, `unstopped`
one whose last viewer went while the agent was away, `stale` a flag of before a restart.
`AgentLog` is the same for the agent's own log, whose capture buffer, channel and history
goroutine are its state; what is in a channel that is closed is in `leftover`, and its goroutine
goes on sending it (`Drain`) over whatever connection there is by then, next to the one of a
new subscription. With `Prompt` an agent's deferred removal from the map comes before
the next message is handled (section 6 has what happens otherwise).

### RconSessions

The agent's session table with its lock (`busy` is the command that runs outside it), the sweep by
the minute, the questions on their way; the DO's `rconSessions`, its audit rows, a terminal in the
browser with its three commands, and one-shot commands (connect, ask, disconnect from the Worker).
`Timeout` leaves a command running; `Hibernate` and `ManagerRestart` empty `rconSessions`;
`AgentRestart` closes the sessions. `forgotten` remembers which sessions the DO has lost.

### AgentUpdates

Versions are numbers. `Release` is GitHub, `Expire` and `Put` the Worker's five-minute cache;
`NotifyUpdate` the push; a check is a goroutine that asks, finds, renames, notices and
execs, each of which may fail; `Exec` replaces the process, `Restart` and
`Break` are systemd and the network. `HandleUpdateStarting`, `HandleAgentClose`,
`HandleAgentAuth` and `Alarm` are the DO's parts of it; the alert itself is in `AgentPresence`.

### DataMoves

One server's data directory, told apart by the world in it (newest, older, begun anew, part
of a copy), its row, the agent's default path and the handlers of apply-config: ask the
container for its path, move, rebuild, and, if the container is missing, look for the data
and create. `PatchConfig` tells the browser the old path, which only the browser keeps
(`pending`, lost by `Forget`). The agent takes one question at a time while the game goes on
saving (`Save`, `raced`). Faults: Docker, the copy, the deletion of the source, answers too
late, a crash in the middle; where a copy or the source is not deleted to the end, a part is
left (`Leavings`).

### Placement

A new server and an adoption: the checks of names and ports against rows, the agent's look
at the host, the INSERT with its UNIQUE constraints, then the container, one step per
question. `NextGame` is how ports are picked for who names none. An adoption stops
the old container, copies its mount, removes it and creates the new one; where the data lie
(`own`, `inside` a directory of another server, a standard name, no mount) is the initial
state's choice.

### PlayerFigures

Each run of a server's game is a number, and a figure is the run it was taken of. `PollStep` is the
agent's loop (`Discover` lists the containers and inspects each: with a fault all of it fails, or
some of the inspections, whose servers count as stopped; `CollectServerStats` connects if it must
and asks, `CloseStopped`, `Count`, `UpdateStats` sends), `CollectAndSend` the second loop, which
makes a point of a chart of the figures it finds, `playerStats` the DO's copy; servers start and
stop under it, connections break.

### OutageAlerts

The loop of `reconnect.go` with the clock `failing`, which authentication resets, the alert after
`Delay` ticks, the mailing goroutines, the recipients in memory and on disk, and
restarts of the process.

### PageCache

*Tables.* `AllReads` says which facts (rows of a table, or what the agent finds on its host) the
answer to a query key depends on, translated from the GET handlers, one set per handler;
`AllWrites` which facts a change may write, from the handlers that change something, cascades and
audit rows included; `Tells` which keys the change's hook marks when it has succeeded. A
change `Affects` a key if it writes what the key reads. Keys and changes bear the names of
the code. `Polled` keys are asked for again in any case; `Kept` ones are not asked for again by
a page that opens while their `staleTime` lasts.

*Machine.* The life of one key, any of them (two keys do not interact: a mark is made per key).
`Mount`, `Unmount`, `Collect`, `GoStale`, `Refetch`, `Receive`, `Retry` and `Fail` are what TanStack
Query does with its defaults, modelled from how `src/frontend` uses it and marked external in the
map; `Handle` is the manager's answer, `Mutate`, `Write`, `Settled` and `Failed` a change asked for,
carried out, answered, or answered with an error though it may have written. `Settled` marks the
keys of `Tells`; for a key that is shown it starts a request in the place of one that is under way,
but a key's first request is waited for (`Restarts`; the mutant `RestartsIdle` lets the marks join
any request). `Others` is a write this browser does not make, `SwitchUser` a logout or a login in
the same tab, `Reload` what `handleAuthError` does. Of an answer only its age is kept: "now" or
"old". `missed` is the history variable that says that the answer is out of date for a reason nobody
could tell the page: a change from elsewhere or one that failed, a first answer that had read before
the change and came after its marks, a measurement the agent keeps for five minutes, or a pair of
change and key that no hook marks (`Untold`, written out in the module, so that a mark that is
forgotten in a hook shows as a violation and not as one more exception).

*Left open.* Whether a failed background request leaves its answer marked is left to chance
(`Fail`), and one change of each kind is under way at a time.

## 4. Runs

| run | bounds | shows |
|---|---|---|
| `presence_overlap` | 2 connections, 1 fault, overlapping sockets | `TypeOK`, `MailsBounded`, `SurvivesHibernation` |
| `presence_serial` | 3 connections one after another, no fault | `ReconnectIsComplete`, `TokenHonoured`, `LedgerSpec` |
| `presence_live` | 2 connections, 1 fault, fair | `StatusConverges`, `OutageIsAnswered` |
| `server_serial` | 2 servers sharing a name, 13 requests in a row, Docker fails once the image is there, listings included | `TypeOK`, `Controllable`, `SyncTellsTruth`, `CatalogSpec` |
| `server_fifo` | 2 servers sharing a name, a user's request and a sync at once, 4 requests in all, every fault | `PurgeScoped` |
| `server_live` | 1 server, 2 overlapping requests, 4 in all, late answers, fair | `TransitEnds` |
| `backups_serial` | 4 requests in a row, retention of one, every fault | `TypeOK`, `WorldsKept`, `SyncMirrors`, `BackupsFaithful` |
| `access` | 3 users, 2 addresses, 2 tokens, 1 invitation sent twice, 2 requests, 2 changes, 1 agent with 1 server, 2 assignments; any query key with 2 changes under way (1 for keys that are polled, that no hook marks, and for the audit log) | `AccessTypeOK`, `SessionsOwned`, `ResetHolds`, `VisibleIsViewable`, `RecipientsHaveRole`, `RowsDistinct`, `AcceptsGoodLinks`, `PagesCurrent` |
| `connection` | 2 browsers, 1 container, 2 forwarders, 2 lines, 1 broken connection; 2 sessions, 1 terminal with 3 commands, 2 one-shot commands, 1 fault; 3 releases, 2 goroutines, 1 push, 1 fault; fair | `ConnectionTypeOK`, `StreamsFollowViewers`, `ViewsAgree`, `SessionsKept`, `UpdatesTold`, `SessionsEnd`, `Updated` |
| `hosts` | 2 paths, 2 applications, 2 changes of paths, every fault; 2 creations or adoptions, which pick ports or name 3 and 2, with port 1 free or foreign; 4 overlapping requests on backups, restores alone, the faults `extract`, `docker` and `throw`; 2 servers of 2 runs each, 1 failing poll, inspection or question; 2 outages, 2 processes | `HostsTypeOK`, `MovesHold`, `RowsTrue`, `BackupsHold`, `ToldTruly`, `NeverAnew`, `RetentionSpares` |
| `presence_stale_close` | 2 overlapping connections | `ReconnectIsComplete` fails |
| `adopted_without_mount` | 1 adoption | `DataPreserved` fails |

Some properties are conjunctions of those the modules state, in the last three passing runs
each under the part it is about; the modules' comments say what each is for:

* `presence_overlap`: `MailsBounded` is `AlertsBounded` and `RecoveriesBounded`.
* `access`: `RowsDistinct` is `EmailsUnique`, `TwinsOnlyGlobal` and `ChoicesClear`.
* `connection`: `StreamsFollowViewers` is `Served`, `Wanted`, `Cancellable` (containers),
  `FlagTrue`, `WatchedIsSent` (agent); `ViewsAgree` is that of `LogStreams`, `AgentViewsAgree` and
  `SentOnce`; `SessionsKept` is `SweepSparesUsed`, `Audited`, `ShotsTidy`; `UpdatesTold`
  is `GraceGiven` and `MailsTrue`.
* `hosts`: `MovesHold` is `WorldKept`, `Placed`, `NoLitter`; `RowsTrue` is `Owned`,
  `AdoptedWhole`, `PortsApart`, `PicksFit`; `BackupsHold` is `NeverRunsOnPart` and `ShelfBounded`;
  `ToldTruly` is `PointsCurrent`, `FiguresRecover`, `AlertsEarned`, `AlertsAnswered`,
  `RecipientsKept`.

*Why the bounds are enough.* Two connections are what a reconnect takes, and overlap of two sockets
is the only kind there is (the code never looks further than the first socket); the third connection
of `presence_serial` lets a second outage meet what the first one left in storage. Two servers with
one name are the smallest case in which a name is given away again: thirteen requests allow create,
purge, create and a full cycle of each operation on the second server. Two requests at once are
every race of a pair of handlers. For `Backups` a retention of one makes the second create prune;
four requests in a row are two backups, a restore between them or a failed one, and the sync that
repairs the table, or a deletion in the place of one of them; the four that overlap in `hosts` are three creates that end together
and a sync or a restore. In `access` a third user lets an account be removed and its address be
given away; two assignments are a wide and a narrow one, or twins; of a page's key a request, two
changes and a poll are every order of reading, writing and marking, and a third change adds none
(the theorem has no bound). In `connection` a second forwarder lets a stream be started again while
the one before ends, a second session a terminal be opened again; three releases let a push be
overtaken by a release. In `hosts` two paths and two changes are a move there and back, two requests
an application that overtakes another; the ports named and the foreign one are those that the picked
pairs may collide with; two runs, outages and processes are a first one and one that meets what it
left. `MaxFaults`, `MaxConns`, `MaxRequests`, `Requests`, `Keep` (ten in the code), `MaxPassword`,
`MaxLink`, `MaxLine`, `MaxQueue`, `MaxMutations`, `Drops`, `Breaks`, `Faults` (where a number),
`NewestRelease`, `Pushes`, `MaxPatches`, `Runs`, `Delay` (ten minutes), `Idle`, `Lists`, `Outages`
and `Processes` are the only bounds; counters are bounded by them.

*Deadlock* is not checked: with its connections, requests or faults used up the system stops.

*Fairness.* `AgentPresence!FairSpec`: a handler that may go on does (workerd runs it,
D1 answers), either end notices a connection the other has given up (pings every
30 s, read deadline), an alarm fires (the platform retries it), and somebody
looks at the dashboard now and then, which is what runs the sweep; the code has no other
trigger for it. Nothing is assumed of the agent's wish to connect.
`ServerLifecycle!FairSpec`: a handler goes on, a question ends by its answer or its
timeout (a `setTimeout` in every forwarding handler), the agent's loop takes the next
command. Users are never assumed to ask for anything. `Backups` has no liveness property:
nothing in it promises that a row leaves `creating` (section 6). `MCConnection!Spec`: the
agent goes on with what it was asked and what it has begun (`AgentStep`: the receive loop and the
updater's goroutines), its minutes pass (`Minute`: the ticker that sweeps idle sessions), and the DO
takes the messages and close events that are there (`DoStep`). Nothing is assumed of
browsers, users, releases or faults; `Updated` speaks of pushes after the last fault.

Every passing property has a mutant in `PROJECT.json`: the definition it replaces
and the plausible slip that breaks the property.

## 5. Proofs

Each theorem is of the specification the runs check, for every value of the constants. The
assumptions on constants are the `ASSUME`s of the modules, which TLC evaluates in the runs; a
hypothesis beyond them is part of the theorem's statement and named here. Every inductive
invariant was checked with TLC on the bounds of its run before it was proved. In the runs
only the statements of the third column of the table of section 4 appear; the strengthenings
below live in the `_proofs` modules.

`AgentPresence_proofs` (for every `MaxConns`, `MaxFaults`, `Overlap`, `MailConfigured`):

* `TypeCorrect`.
* `AlertsAreBounded`. The property is not inductive; the strengthening (`AlertsInv`) says
  that an armed alarm or a running one is paid for by an outage or a fault not yet used
  up. `RecoveriesAreBounded`: at most one handler at a time holds the right to send the
  recovery e-mail of an outage, because the right is taken from storage in the same step that
  reads it; `RecoveriesInv` counts outstanding rights as the cardinality of a set of
  sockets. `MailsAreBounded` is both.
* `HibernationIsSafe`: whoever sets `isRegistered` has stored `agentId` or is
  about to (`KeptInv`), and no other handler undoes it without a fault.
* `LedgerImplemented` (hypothesis `~Overlap`): the e-mails implement `AlertLedger`; it rests on
  `OneInUse` (one socket at a time has handlers to run) and `UnansweredInv` (a recovery
  e-mail under way is covered by an alert not yet answered).
* `ReconnectCompletes` and `TokensAreHonoured` (hypotheses `~Overlap` and `MaxFaults = 0`).
  `SerialInv` follows one connection from its first message to its close: the socket in use is the
  latest (`LatestInUse`), it has been sent one reply at most (`OneReply`), an agent that is up has
  been told so on its link (`UpOnReply`), who was told so is registered (`AcceptedIsRegistered`),
  and who was refused held a token that is not the row's (`RefusedIsForeign`). Both hypotheses are
  needed: with overlap the run `presence_stale_close` is a counterexample, and with a fault a failed
  statement of `alarm()` arms an alarm again, or one of authentication is answered like a rejected
  token (section 6). `ReconnectCompletes` speaks of the DO's memory and of its alarm. Of the status
  in the row it says nothing: a sweep that read the row before the reconnect may still write
  `offline` (section 6).

`ServerLifecycle_proofs` (for every set of servers, names, requests):

* `TypeCorrect`.
* `PurgesAreScoped` (hypothesis: user requests do not overlap; the status sync may overlap
  everything, every fault is allowed): a purge takes a directory from under no other server.
  `ScopeInv` strengthens it: names in the table are unique (`NamesUnique`); a row somebody acts
  on stays in the table under the name that was read (`Held`); containers, and commands that
  will create them, carry their row's name (`ContainersNamed`, `CreatesNamed`); and,
  the heart of it, every removal on its way is already measured against the containers
  of its name *and the creations ahead of it in the socket* (`WipesScoped`). The order of the
  socket is used there and nowhere else; the mutant `SendOvertaking` breaks it.
  `Heard` (an answer reaches only the request that waits for it) is needed because an
  answer moves a request. `StepKinds` sorts the actions into ten kinds of steps
  before the invariant is looked at, so each conjunct is argued once per kind.
* `RowsControl`, `ServersImplementCatalog` (hypothesis `Orderly`: `Overlap = {}` and `Faults
  \subseteq {"docker", "exit"}`), `SyncsTellTheTruth` (`Overlap = {}`, `Faults \subseteq
  {"docker"}`). `OrderInv`, above `ScopeInv`, says where a server stands while nobody works on it
  (`AtRest`: its only container is the one its row names, or there is none) and while one request
  does, step by step through the handler (`AtWork`, `AsRead`, and `Listed` for the clean-up's list
  of rows). For the syncs it is enough that each row already visited is true of the host (`Synced`),
  if the agent could tell what there is: after a listing that failed a sync writes `missing` to rows
  of live servers (section 6), and the next one that is told sets them right, whatever was done in
  between. For the catalog it is enough that `Place` and `Wanting` change as its actions say. The
  other faults are excluded because the statements are false with them, as TLC shows: a failed pull
  or removal leaves a container no row names, a late answer or a restart of the DO forgets one that
  was made, an outage lets a sync list a deleted server again; an exit under a sync makes what it
  writes untrue at once.

`Backups_proofs` (for every `MaxRequests`, `Keep`):

* `TypeCorrect`.
* `WorldsAreKept` (hypothesis `Overlap # "free"`, that is, two restores do not overlap and a restore
  does not run into a create; crashes, failing renames and overlapping creates are allowed):
  every world stays whole somewhere. `WorldsKept` is not inductive: an extraction writes into
  the data directory and a rollback removes it. `KeptInv` adds that there is one restore
  at a time (`OneRestore`), that the directory a restore will rename to is still free (`Fresh`),
  and that while one extracts the data directory holds no whole world (`WhileExtracting`), so
  nothing is lost when it is overwritten or removed. Most steps only settle requests
  and jobs: `SettlesKept` says once what they may do.
* `SyncsMirror` (hypothesis `Overlap = "none"`): a sync in progress has compared rows and files
  as they still are, and its list of things to do is the difference (`MirrorInv`).
* `BackupsAreFaithful` (hypothesis `Overlap # "free"`): a create that packs finds the
  directory as it found it first (`PackInv`). A backup whose end could not be written is listed too
  (fault `torn`): of such backups the property says that they lack the end of what the data
  directory holds and no more, and without that fault there are none.
* `NothingRunsOnPart` (besides, no `crash`, `move` or `short` among the faults): parts of archives are
  those of creates that pack (`PartsPacked`), and while a restore extracts nothing runs on the
  data directory and the world lies aside (`Extracting`, in `RunsInv`). An archive without its end
  (`torn`) is found out when it is extracted and rolled back. With a crash, a rename that fails in
  the rollback, or a file that falls short when it is extracted (`short`), it is false (section 6).
* `RetentionIsKept` (no hypothesis): what a prune removes is the set `Surplus`, and of a finite set
  of dated backups the oldest ones leave `Keep` newer ones behind; the argument over the minimal
  elements uses the library's facts on cardinality and well-founded order.
* `ShelfIsBounded` (no `crash`): as many backups more than `Keep` as there are creates that have yet
  to prune (`ShelfInv`). A crash between the archive and the prune leaves one too many.
* `BackupsHoldOut`: the last two properties together, as the run `hosts` checks them.

`Access_proofs`, first of `Accounts` (for any users, tokens, invitations and number of overlapping
requests, each of which may throw between two statements):

* `TypeCorrect`; with the types goes `Filled`: a request carries what its writes need.
* `SessionsAreOwned`: `SessionsOwned` is inductive given those, because a login stores its session
  by a foreign key and the removal of an account takes its sessions in the same statement.
* `ResetsHold`: likewise; a reset drops the account's sessions and marks it in one step.
* `AcceptsAreGood` (hypothesis `AcceptApart`: acceptances do not overlap with cancellations,
  resendings and removals of accounts). The strengthening (`AcceptsSound`) is that the invitation
  of an acceptance in progress is there, and that its link is good *or its address is
  taken*: two acceptors of one link may both be past the check, and UNIQUE lets one of them
  through. `NoneOverlap` carries `Apart` from the start of a request to its end. Most steps
  only keep accounts and offered invitations: `Kept`, `KeptSound` say so once.
* `EmailsStayUnique`: the three ways to make an account are the only ones, and each inserts under
  the UNIQUE constraint.

Then of `Access` itself (for any agents, servers, assignments and changes besides):

* `AccessIsAccounts`: a refinement step by step, so the theorems of `Accounts` hold of `Access`.
* `AccessTypeCorrect`, with `AccessTables` for what the tables say of each other.
* `ListsAreViewable`: the list of servers, which expands every assignment, and the check of one
  server, which looks for the most specific, agree: not by an invariant but as a theorem of
  the two algorithms over any typed tables (`TypedAgree`).
* `RecipientsAreAssigned`: likewise of the recipients' query and the effective role.
* `RowsStayDistinct` (hypothesis `~SlowChoices`: two PATCHes of one user's preferences do not
  overlap, else it is false, section 6): `ChoicesInv` adds that nobody else inserts between a
  look and its insert.

Of `PageCache`, in the same module (for every key and any number of overlapping changes and
requests):

* `PagesAreTyped`.
* `PagesAreCurrent`. `TablesAgree` compares the tables once and for all: a change that affects a key
  that is not polled is told to it or in `Untold`. The invariant (`PagesInv`) says of every moment
  what `PagesCurrent` says of a page at rest: an old answer is marked, or a newer one is on its
  way, or it is excused (`OldIsKnown`); an old answer on its way is excused (`LateIsKnown`), where a
  change that has written and is not answered yet excuses (`Unanswered`).

`RconSessions_proofs` (for any servers, sessions, terminals, one-shot commands and faults):

* `RconInvariant` and `SessionsKeep`, that is `SweepSparesUsed`, `Audited` and `ShotsTidy`. None of
  the three is inductive. The sweep: a command that uses a session has been at it for at most one
  tick, so the session has been idle for a minute at most (`Spared`). The audit: the row is written
  from the DO's copy of the session, long after the agent has carried the command out, so the
  invariant follows the session through the questions and answers between them: an id given out is
  not drawn again (`Drawn`), what goes to and fro is what was requested (`Agreed`), the DO knows a
  session, of the right server, from the answer to its connection to the one to its disconnection
  (`Remembering`), nothing is carried out on it after that (`Last`), and so a row that was written
  names the server that ran the command (`Recorded`). One-shot commands: the disconnection they owe
  is on its way as long as the session lives (`Tidied`). The assumption that "nobody" is no request
  only keeps the model's mark for "no asker" apart from the requests.

`MCConnection_proofs` (for any constants that meet the assumptions, every fault included), part by
part and then together:

* Of `AgentUpdates`, `TypeCorrect`; `GraceIsGiven`, by `NoticeInv`: a notice is sent on a connection
  that is there, and is known to the DO or ahead of the close as long as the agent that sent it goes
  down for the update; `UpdatesAreTold`, which adds `MailsTrue`, by `MailInv`: the binary on disk is
  never older than the process (`Newer`), and what the DO was told is the version of the process
  that is being replaced (`Follows`).
* `SessionsAreKept`: terminals and one-shot commands are two instances of `RconSessions`, of which a
  behaviour of the composition is a behaviour or a pause (`OnePart`).
* `ViewsAreAlike`. What the DO keeps of a log and what a browser shows of it have the same ends
  (`SameEnds`: each is cut at the front only, at bounds of their own), which a new line, a cut, a
  forgotten buffer and a history read anew keep (`LogsAgree`, `AgentLogAgrees`). The
  property compares each viewer with the DO's buffer, as far back as both go: of what the DO has
  forgotten it says nothing. For the agent's own log moreover: what a subscription has yet to send of
  its history or its channel is later than what it has sent, and in order (`Sent`); and of what the
  goroutines of closed channels still send, next to it, no line is newer than its history (`Left`).
  So a line may come twice, or after newer ones, but only from the time before the subscription;
  that the code lets it come at all is in section 6.
* `StreamsAreFollowed` (hypothesis `Prompt`: a cancelled forwarder ends before its container is
  streamed anew; without it the removal of an ended stream takes the entry of the next one, section
  6). A browser that comes or goes and the agent that hears of it are apart by the requests in the
  socket, so the invariant speaks of the *last* request about a container: it is not to stop while
  somebody watches (`Subscribed`), not to start while nobody does, and when there is none the agent
  does what is watched (`Serving`, `Resting`); `logStreams` holds just the forwarders that run
  (`Registered`). Of the agent's own log, the flag is what the agent will do once it has read what
  it was asked (`Believed`), and who has noticed a break has given up what depended on the
  connection (`Settled`).
* `ConnectionTypesCorrect`, and `UpdatesAreToldHere`, of the composition.

`DataMoves_proofs` (for any paths, any number of overlapping applications and every fault):

* `WorldIsKept`: while the agent moves data, the target is not the source and holds a part of a copy
  (`MovingWell`); a move is asked for with a path to move from (`Named`).
* `NeverMadeAnew`, that is `MovesSpec => NeverAnew`. While no answer was late, no path forgotten and
  no application overlapped another (`OnTime`, the excuses of the property itself), `Sound` holds:
  one request at a time (`OneActive`), the agent works on what that request waits for
  (`Outstanding`), and a request that does not move data any more goes on with a directory that has
  some (`Supplied`). With overlapping applications it is false: TLC finds three requests that make a
  world anew, which two do not (section 6), hence `overlap` among the excuses.
* `MovesHoldOut`: `MovesHold`, by `Settled`, which says where the data are while nothing moves and
  what a request that was answered has made, and `PartsMoving`: a part of a copy is that of the move
  there is, unless a crash left it (`Littered`). Larger instances (four requests, three paths) were
  searched for counterexamples before.
* `MovesTyped`: `MovesTypeOK`, whose hard part is a count. The ids in rows, handlers and questions
  are bounded by the containers made, and these by the requests: a request makes one container at
  most. It asks for a rebuild, and for a creation only once it has been told that there was nothing
  to rebuild; an answer nobody waits for any more cannot tell it so. `Spent` are the requests that
  can make no other (`Able`), which none leaves, and each container that is made adds one to them
  (`Counted`); that needs that no request has two such questions on its way (`AskedOnce`).
  `Requests` is assumed to be finite.

`MCHosts_proofs` (for any constants that meet the assumptions, every fault included):

* `PartsTogether`: a behaviour of the composition is one of each part, so the theorems about moves
  and about backups hold of it.
* `RowsAreTrue`. `PlaceInv0` is what every step keeps: a row has the name and ports of the request
  that inserted it (`RowsMatch`), a request knows its ports before it compares them (`PortsKnown`)
  and differs in its UDP port from the rows it has seen (`SeenDiffer`), the largest ports are some
  row's (`Maxima`, which is what makes the next ones free), and the agent is asked to make only what
  has a row (`AskedWell`). `OwnedInv` adds, as long as nobody has stopped waiting: each question on
  its way is its request's only one and is waited for (`Patient`), so a container that was made is
  one its handler has been told of or its row has (`Known`). `WorldsInv` is for `AdoptedWhole`,
  which is not inductive: as long as the old container is there nothing has been adopted and the
  newest world is in its directory, afterwards in the adopted server's, and in no directory of a
  server that was created; names being unique, no other server can have that directory.
* `AgentsTellTruly`, in the composition, and for each module by itself `AlertsAreTrue` and
  `FiguresAreTrue`. `AlertsInv` ties the loop's memory to the ledger of alerts (`Remembered`): the
  outage and process there are have been alerted just when the loop remembers it, or has said that
  the outage is over; every mail under way is about what the ledger has (`Written`). `FiguresInv`
  numbers the runs upwards (`RunsUpwards`): a poll that ends with the run it found has asked that
  run and no other (`PollWell`), a connection that outlived such a poll is to the run there is
  (`Seen`). A server that a poll has not found, because Docker would not inspect it, is out of the
  row of polls that `FiguresRecover` asks for, and its figures go until it is found again.
* `HostsTypesCorrect`, from the invariants above and the types of `DataMoves_proofs` and
  `Backups_proofs`.

*Only model-checked.* Everything temporal under fairness (`StatusConverges`, `OutageIsAnswered`,
`TransitEnds`, `SessionsEnd`, `Updated`), since the prover handles neither fairness nor ENABLED.
Every invariant and every action property of a passing run is stated by a theorem. Where a theorem
has a hypothesis (`~Overlap`, `Orderly`, `Prompt`, ...) it holds in the run that checks the
property.

## 6. Disagreements met while modelling

Kept as runs, see `findings`: a late close undoes a reconnect (`presence_stale_close`);
adopting a container without a mount removes the only place its world is in
(`adopted_without_mount`; `AdoptServerDialog.tsx` 200 has "Game data is preserved in place.").

Seen in the same models, by relaxing a run's constants, and not kept as runs:

* A sync lists a deleted server again: a server soft-deleted while the agent is away is
  `running` after the reconnect (`AgentConnection.ts` 3145; `CatalogSpec` in
  `ServerLifecycle` with one server, one name, one request at a time, four in all, and the
  fault `outage`; also with `pull`).
* Of two restores of one server the first, failing, brings the old data back under the
  second, which writes over it (`backup.go` 360, "safety net" 385; `WorldsKept` in `Backups`
  with three requests, `Overlap = "free"` and the faults `extract` and `late`).
* A registration whose reply is lost cannot be retried: the row is active, the agent has no
  token, the retry is answered 'Agent already registered' and the agent exits, although
  `reconnect.go` 27-29 has such failures "retried indefinitely". (`AgentPresence`: exited
  with a valid registration token.)
* The clean-up of failed servers sends its DELETE without `dataPath`, which the DO refuses with
  400; the answer is not looked at, the row goes and the container stays (`BeginCleanup`,
  `CleanupNext`).
* A sync that read the row while the server was being created writes `creating` back over
  the failure, for good (`TransitEnds` with syncs overlapping requests).
* A listing of containers that fails in Docker is answered without any, and the sync, which takes
  `containers || []` (`AgentConnection.ts` 3102), writes `missing` to every row but those in creation
  or deleted, of running servers too (`SyncTellsTruth` with `Got(r, {"ok", "unlisted"})`). A start
  then makes a container whose name is taken, which fails; the next sync that is told sets the rows
  right.
* A create that overlaps a restore archives a mixture and lists it (`BackupsFaithful` with
  `Overlap = "free"`); a failing rename in the rollback, or a crash between rename and
  extraction's end, leaves part of a world that a later start runs on (`NeverRunsOnPart`
  with `move` or `crash`).
* What closing the tar, the gzip stream and the archive returns is not looked at (`backup.go`
  520-523): an archive whose end could not be written gets its metadata, is listed and counts
  for the retention (`BackupsFaithful` without its exception); so with the files of a restore
  (592; `NeverRunsOnPart` with `short`).
* Whoever removes an agent while the DO cannot be asked to disconnect it (`agents.ts` 260) leaves it
  connected, without a row, until it dials again. An agent that reconnects while a sweep that has
  read its row is about to write stays `offline` in the list, as heartbeats do not write the status
  (`ListingWrite` after `AuthUpdate`).
* A single failed D1 statement during authentication is answered like a rejected
  token, and the agent exits (`TokenHonoured` with `MaxFaults = 1`).
* With overlapping sockets an armed alert can be lost (`OutageIsAnswered`). That replies go to the
  first socket (`AgentConnection.ts` 99) did not break `TokenHonoured` in a search with two
  connections that overlap in every way and no fault.
* Two overlapping purges of one server break `PurgeScoped`; so the theorem's
  assumption is needed.
* A DO restart during a create leaves the row in `creating` for good (`TransitEnds`).
* A purge while the agent is away removes the row and leaves the container; a create
  that times out leaves a container whose id no row has; a rebuild of a soft-deleted server
  brings it back without clearing `deleted_at`.

* Accounts: an acceptance that overlaps the cancellation of its invitation, a resending or
  the removal of the inviting account makes an account all the same (`AcceptsGoodLinks` with
  `Apart = {}`). A login that read the account before an admin's reset keeps a session of
  the old password (`late`). A role taken away stays in the tokens there are, and a refresh
  passes it on (`auth.ts`, `middleware/auth.ts` 91). Resending revives an expired invitation
  beside another one for the same address (`invitations.ts` 239-293 against 65-67).
* Roles: "won't create duplicate assignments" (`permissions.ts` 320) fails for overlapping
  global grants, whose NULL is not compared (`TwinsOnlyGlobal` excepts them); migration
  0009's "One role per user per scope per resource" fails by design, its UNIQUE includes the
  role. Two overlapping first PATCHes of the global preferences make two rows
  (`ChoicesClear` with `SlowChoices = TRUE`).
* Logs: with three browsers and `Prompt = FALSE` the removal of an ended stream from
  `logStreams` takes the entry of the stream started after it (`main.go` 846-849;
  `Cancellable`); after the restart of the DO its flag says that the agent sends its log, so
  nobody asks (`FlagTrue` without `stale`); a second viewer is not told that the agent is
  away; a second subscription appends the history to lines that are there. An unsubscription only
  closes the channel of the agent's log (`logcapture.go` 133-140): up to a hundred lines are still
  sent, and come twice or after newer ones if there is a new subscription by then (`RepeatsAreOld`
  says which). A stream that its agent has lost while it was asked for is not asked for again
  (`unserved`).
* RCON: commands of a session the DO has forgotten, timed-out commands that ran and
  one-shot commands are not audited (`Audited` excepts them).
* Moves: what the game saves while its data are moved is lost (`raced`); after a failed pull
  the old path is known to the browser only, and a move done already is asked for again and
  fails until the page is loaded anew; a path changed there and back makes a move of a
  directory to itself, which fails; a crash in a move leaves a copy that blocks every retry
  (`litter`); a rebuild that answers late leaves a container no row has; of two overlapping
  applications the last to end writes the status; a path the browser has forgotten makes the
  server begin anew (`NeverAnew` without `forgot`; comment at `agents.ts` 3236-3238).
* Placement: the rows' game ports are compared with game ports, UDP with UDP only; stopped
  containers are not seen by the host's check; two automatic picks end in a 500; failed and
  soft-deleted rows keep name and ports, so that a retry of an adoption is refused; an
  adoption that fails at create leaves no container, one that fails at the copy a stopped
  one; a directory that exists is taken for the server's own (`shared`); a create that
  outlasts the DO's 60 s leaves a container no row has (`late`).
* Updates: a push that reaches an agent while it replaces itself is lost; an older answer
  may be put into the cache over a newer one; the e-mail names the pushed version, which
  need not be the one that runs; an exec that fails after the notice makes an e-mail about
  nothing (`misled`).
* Outage alerts: the clock runs from failed authentications, and a manager that cannot be
  dialled never starts it; a process restarted during the outage alerts again, though the
  e-mail says it "is sent once per outage"; the recovery's goroutine may overtake the
  alert's; an empty list of recipients is not taken over (`main.go` 380), so the last one
  removed goes on being alerted.
* Player figures: a failed question counts as no players in the charts; a running server that Docker
  would not inspect (`playerstats.go` 203) loses its connection and its figures, and all do if it is
  the only one (127-136; `FiguresRecover` if such a poll counted like another); the figure of a
  stopped server stays until a poll sees it, so that the first point of a new run may count the old
  one's players (`settled`); the DO's copy never forgets a server.
* Pages: "audit logs are invalidated by mutations that create them" (`useAuditLogs.ts` 20)
  fails for six of them: restarts, adoptions, deletions of agents and of pending agents, new
  registration tokens and changed passwords (`agents.ts` 932, 1545, 275; `admin.ts` 71, 108;
  lemma `AuditsAreTold`). The dialog of an adoption reads `agent-config`, and the change of an
  agent's settings marks `agentConfig`. Deleting an account leaves its invitation and its
  roles on other pages (`Untold`). A page that comes while a change is under way may be
  answered from before it and marked by the change's end only (`PagesCurrent` without its
  exceptions).

Seen by reading only:

* `agents.ts` 359 calls `getEffectiveRoleForAgent` with three of its four arguments
  (`permissions.ts` 120): the agent's id is taken for the system role, and whoever is not an
  admin is refused the tags of the registry.
* The goroutine that forwards the agent's log reads `agentLogChan` when it begins to run, without the
  mutex (`main.go` 1886): one that begins only after the unsubscription waits for good, or shares the
  channel of the next subscription. The model has it begin at once.
* `copyFile` (`server.go` 983) ignores what closing the copy returns, and a move is verified by the
  number of files: one that falls short so late is not noticed, and the source is deleted. The models
  of moves and adoptions have copies that fail visibly or are whole.
* A wrong current password is answered 401 (`auth.ts` 239), which `api.ts` 28 takes for an
  expired session: the user is logged out.
* Logging out keeps the answers in memory (`UserContext.tsx` 44, `App.tsx` 22): the next
  account in the same tab first sees the last one's.

* `agents.ts` 2308 uses an undeclared `serverName`: a soft delete that did its work
  answers 500 and is not audited.
* Migration 0005 speaks of rows "auto-purged by background job"; `index.ts` schedules
  no such job.
* `DELETE /servers/failed` has a second, unreachable handler (2733-2824).
* The DO matches the deletion of a backup with its server-delete route
  (`AgentConnection.ts` 359), so the file stays; the next sync inserts its row again
  (modelled: `DeleteDone`, `SyncInsert`).
* A backup that outlives its timeout is later inserted by the sync with an id that
  exists, and from then on every sync of backups fails on the primary key (modelled:
  `SyncInsert`); `SyncMirrors` therefore speaks of the syncs that end well.
* A throw between the INSERT and the UPDATE of a create leaves its row in `creating`.
* `updatePendingAt` is written and never read; the downloaded binary is not verified;
  `SuggestNextAvailablePorts` is called by nobody; of three or more UDP ports
  `InspectContainer` takes two in the random order of a map.
* The permanent token is sent once: see the registration above (`AgentConnection.ts` 970).
* `useLogStream` and `useAgentLogStream` reconnect after their component is gone; `useRcon`
  leaves a socket open that was still connecting.

## 7. What is left out of the modelled parts

`AgentPresence`: the longer grace period after an update push and the update e-mails, log
streaming on registration, forged tokens, a second agent of the same name, the
one-per-recipient structure of an e-mail round. `ServerLifecycle`: permissions, ports and
images, audit rows, the column `data_exists` and its round trips, moving data, adoption, and
disagreement of the agent's row with its connection (that is `AgentPresence`). `Backups`:
permissions, progress messages, sizes and notes, the RCON save before packing, two archives
of one name (same second and note), servers without a container, other writers in the data
directory than backups, restores and the running server, and the column `status` of the
server that a restore sets to running. `Accounts`: tokens' signatures, rules on passwords,
themes, the audit log and e-mail. `Access`: of the three kinds of alert, whose columns are
set alike, one. `LogStreams`, `AgentLog`: acknowledgements nobody asks for. `AgentUpdates`:
architecture of the binary and its permissions. `DataMoves`: the configuration itself,
progress. `Placement`: names of removed servers, images, the RCON port on the host.
`PlayerFigures`: names of players, samples of CPU and memory. `OutageAlerts`: text of the
e-mails. Each is named at the head of its module.

`PageCache`: what the answers say (only whether the manager would say the same now), pages of
other tabs, the identity of rows (a change of one server marks as if it were any), and two
changes of one kind at a time. It assumes that a failed request is asked again and that
whoever looks has the role the page asks for.

Not modelled at all: the contents of audit rows (nothing reads them back into a decision;
which changes write one and whether the page learns of it is in `PageCache`, those of RCON
are in `RconSessions`), mail settings and templates (text), images and networks of Docker and
the sampling of metrics (thin calls whose outcomes are the failures of the agent's steps),
migrations and CI (one-time changes), and the frontend's forms, lists and showcases, which
keep no state that outlives a request.

The components composed in `MCConnection` and `MCHosts` share no state in the code but the
connection and the host's disk; what two of them do to each other (a backup during a move, a
log stream during an update) is left out.

## 8. Running

    tlc -workers 2 -config server_fifo.cfg MCServerLifecycle
    tlc -workers 2 -config hosts.cfg MCHosts
    tlapm ServerLifecycle_proofs.tla

The module of each configuration is in `PROJECT.json`. Every passing run ends within two and
a half minutes on two workers; each proof module takes one to eight minutes from nothing.
