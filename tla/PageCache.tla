----------------------------- MODULE PageCache -----------------------------
(***************************************************************************)
(* What the browser shows of the system.  Every page reads through the     *)
(* hooks of src/frontend/src/hooks, which keep one answer per query key    *)
(* (TanStack Query, with its defaults); every change goes through          *)
(* lib/api.ts, and when the manager has answered it the hook that made it  *)
(* marks some keys as out of date.  Nothing but these marks, the polls and *)
(* the pages' coming and going tells a page that it shows what was.        *)
(*                                                                         *)
(* The first half of the module is the tables: what each key's request     *)
(* reads, what each change writes, which keys its hook marks.  The second  *)
(* is the life of one key, any of them, with the changes that concern it   *)
(* under way: requests and changes are answered in any order, and a        *)
(* request has read before or after what overlaps with it.  Of an answer   *)
(* we keep whether it is what the manager would say now.                   *)
(*                                                                         *)
(* Each kind of change is under way once at a time, MaxMutations in all.   *)
(***************************************************************************)
EXTENDS Naturals, FiniteSets

CONSTANT MaxMutations
ASSUME PagesAssumption == MaxMutations \in Nat

-----------------------------------------------------------------------------
(* The query keys, by the functions of lib/api.ts that answer them; the    *)
(* lists of all servers and of one are fetched by their hooks.             *)

AgentKeys == {"agents", "agentConfig", "agent-config", "registryTags"}
ContainerKeys == {"containers", "container-inspect"}
ServerKeys == {"servers", "servers-all", "server"}
ImageKeys == {"image-defaults", "portAvailability"}
MetricsKeys == {"server-metrics", "server-metrics-history"}
AccountKeys == {"users", "invitations"}
RoleKeys == {"userRoleAssignments", "auditLogs"}
StorageKeys == {"server-storage", "backups"}
PreferenceKeys == {"notification-preferences", "notification-overrides"}

Keys == AgentKeys \cup ContainerKeys \cup ServerKeys \cup ImageKeys \cup MetricsKeys
        \cup AccountKeys \cup RoleKeys \cup StorageKeys \cup PreferenceKeys

(* Keys asked for again every few seconds while they are shown, and those  *)
(* whose answer is kept for a while before a page that comes asks again.   *)
PolledLists == {"servers", "servers-all", "server", "containers", "agents", "backups"}
PolledFigures == {"server-metrics", "server-metrics-history"}
Polled == PolledLists \cup PolledFigures
Kept == {"registryTags", "agent-config", "container-inspect", "image-defaults", "server-storage",
         "portAvailability", "auditLogs", "server-metrics", "server-metrics-history"}

(* What the answer to a key depends on: rows of the manager's tables, and  *)
(* what the agent finds on its host.                                       *)
AgentReads == {"agents"} \X {"agents", "settings", "servers", "roles"}
ConfigReads == {"agentConfig", "agent-config"} \X {"settings"}
TagReads == {"registryTags"} \X {"settings", "registry"}
ContainerReads == {"containers"} \X {"containers", "servers", "roles"}
PortReads == {"portAvailability"} \X {"servers", "containers"}
InspectReads == {"container-inspect"} \X {"containers"}
ServerReads == {"servers"} \X {"servers", "agents", "containers", "players", "roles"}
AllServersReads ==
  {"servers-all"} \X {"servers", "agents", "settings", "containers", "players", "roles"}
OneServerReads ==
  {"server"} \X {"servers", "agents", "settings", "containers", "players", "roles", "disk"}
MetricsReads == {"server-metrics"} \X {"servers", "containers", "figures"}
HistoryReads == {"server-metrics-history"} \X {"servers", "figures"}
StorageReads == {"server-storage"} \X {"paths", "settings", "disk"}
ImageReads == {"image-defaults"} \X {"images"}
BackupReads == {"backups"} \X {"backups"}
AuditReads == {"auditLogs"} \X {"audit"}
UserReads == {"users"} \X {"users", "stamps"}
InvitationReads == {"invitations"} \X {"invitations"}
RoleReads == {"userRoleAssignments"} \X {"users", "roles"}
ChoiceReads == {"notification-preferences"} \X {"preferences"}
OverrideReads == {"notification-overrides"} \X {"overrides"}

AllReads == AgentReads \cup ConfigReads \cup TagReads \cup ContainerReads \cup PortReads
            \cup InspectReads \cup ServerReads \cup AllServersReads \cup OneServerReads
            \cup MetricsReads \cup HistoryReads \cup StorageReads \cup ImageReads \cup BackupReads
            \cup AuditReads \cup UserReads \cup InvitationReads \cup RoleReads \cup ChoiceReads
            \cup OverrideReads

-----------------------------------------------------------------------------
(* The mutations, by the functions of lib/api.ts that ask for them.        *)

AgentMutations ==
  {"deleteAgent", "updateAgentConfig", "generateEphemeralToken", "deletePendingAgent"}
ContainerMutations == {"startContainer", "stopContainer", "restartContainer"}
MakingMutations == {"createServer", "adoptServer", "deleteServer", "rebuildServer"}
ConfigMutations == {"updateServerConfig", "applyServerConfig"}
RunMutations == {"cleanupFailedServers", "checkServerData", "startServer", "stopServer"}
RowMutations == {"purgeServer", "restoreServer", "syncServers"}
InvitationMutations == {"inviteUser", "resendInvitation", "cancelInvitation"}
AccountMutations == {"deleteUser", "changePassword", "updateUserSystemRole"}
RoleMutations == {"grantRoleAssignment", "revokeRoleAssignment"}
BackupMutations == {"createBackup", "deleteBackup", "restoreBackup", "syncBackups"}
CommandMutations == {"executeRconCommand"}
PreferenceMutations == {"updateNotificationPreferences", "setAgentNotificationOverride",
                      "removeAgentNotificationOverride"}

Mutations == AgentMutations \cup ContainerMutations \cup MakingMutations \cup ConfigMutations
           \cup RunMutations \cup RowMutations \cup InvitationMutations \cup AccountMutations
           \cup RoleMutations \cup BackupMutations \cup CommandMutations \cup PreferenceMutations

(* What a change may write, cascades and the audit log included.           *)
AgentWrites ==
  ({"deleteAgent"} \X {"agents", "settings", "servers", "containers", "backups", "roles",
                       "overrides", "audit"})
  \cup ({"updateAgentConfig"} \X {"settings"})
TokenWrites ==
  ({"generateEphemeralToken", "deletePendingAgent"} \X {"agents", "audit"})
  \cup ({"deletePendingAgent"} \X {"settings"})
ContainerWrites ==
  (ContainerMutations \X {"containers", "figures", "players"})
  \cup {<<"restartContainer", "audit">>}
MakingWrites ==
  (MakingMutations \X {"servers", "containers", "figures", "players", "audit"})
  \cup ({"createServer", "rebuildServer"} \X {"images"})
  \cup ({"createServer", "adoptServer"} \X {"paths", "disk"})
ConfigWrites ==
  ({"updateServerConfig"} \X {"servers", "paths", "audit"})
  \cup ({"applyServerConfig"} \X {"servers", "containers", "figures", "players", "disk", "images",
                                  "audit"})
RunWrites ==
  ({"startServer", "stopServer"} \X {"servers", "containers", "figures", "players", "audit"})
  \cup ({"startServer"} \X {"images", "disk"})
  \cup ({"cleanupFailedServers"} \X {"servers", "containers", "disk", "backups", "figures"})
  \cup {<<"checkServerData", "servers">>}
RowWrites ==
  ({"purgeServer", "restoreServer"} \X {"servers", "containers", "disk", "audit"})
  \cup ({"purgeServer"} \X {"backups", "figures"})
  \cup {<<"restoreServer", "images">>, <<"syncServers", "servers">>}
InvitationWrites ==
  (InvitationMutations \X {"invitations"}) \cup ({"inviteUser", "resendInvitation"} \X {"audit"})
AccountWrites ==
  ({"deleteUser", "updateUserSystemRole"} \X {"users", "audit"})
  \cup ({"deleteUser"} \X {"roles", "invitations"})
  \cup ({"changePassword"} \X {"stamps", "audit"})
RoleWrites == RoleMutations \X {"roles", "audit"}
BackupWrites ==
  (BackupMutations \X {"backups"})
  \cup ({"createBackup", "deleteBackup", "restoreBackup"} \X {"audit"})
  \cup ({"restoreBackup"} \X {"servers", "containers", "figures", "players", "disk"})
CommandWrites == {"executeRconCommand"} \X {"audit", "players", "disk"}
PreferenceWrites ==
  {<<"updateNotificationPreferences", "preferences">>}
  \cup ({"setAgentNotificationOverride", "removeAgentNotificationOverride"} \X {"overrides"})

AllWrites == AgentWrites \cup TokenWrites \cup ContainerWrites \cup MakingWrites \cup ConfigWrites
             \cup RunWrites \cup RowWrites \cup InvitationWrites \cup AccountWrites \cup RoleWrites
             \cup BackupWrites \cup CommandWrites \cup PreferenceWrites

Facts == {"agents", "settings", "servers", "paths", "containers", "images", "disk", "figures",
          "players", "registry", "backups", "audit", "users", "stamps", "invitations", "roles",
          "preferences", "overrides"}
Affects(m, k) == \E fact \in Facts : <<m, fact>> \in AllWrites /\ <<k, fact>> \in AllReads

(* The keys a change's hook marks when the change has been answered.       *)
MakingTells ==
  ({"createServer", "deleteServer", "rebuildServer"} \X {"servers", "containers", "auditLogs"})
CleaningTells ==
  {"cleanupFailedServers", "startServer", "stopServer"} \X {"servers", "containers", "auditLogs"}
RowTells ==
  ({"purgeServer", "restoreServer", "syncServers"} \X {"servers", "containers", "auditLogs"})
  \cup {<<"purgeServer", "servers-all">>}
ConfigTells ==
  (ConfigMutations \X {"server", "servers-all", "servers", "auditLogs"})
  \cup {<<"applyServerConfig", "containers">>}
ContainerTells == ContainerMutations \X {"containers"}
AdoptTells == {"adoptServer"} \X {"containers", "servers"}
BackupTells ==
  (BackupMutations \X {"backups"})
  \cup ({"createBackup", "deleteBackup", "restoreBackup"} \X {"auditLogs"})
  \cup {<<"restoreBackup", "servers">>}
InvitationTells ==
  (InvitationMutations \X {"invitations", "auditLogs"}) \cup {<<"inviteUser", "users">>}
AccountTells ==
  ({"deleteUser", "updateUserSystemRole"} \X {"users", "auditLogs"})
  \cup {<<"updateUserSystemRole", "userRoleAssignments">>}
RoleTells == RoleMutations \X {"userRoleAssignments", "auditLogs"}
AgentTells ==
  ({"deleteAgent", "updateAgentConfig"} \X {"agents"}) \cup {<<"updateAgentConfig", "agentConfig">>}
PendingTells == {<<"deletePendingAgent", "agents">>}
CommandTells == {<<"executeRconCommand", "auditLogs">>}
PreferenceTells ==
  {<<"updateNotificationPreferences", "notification-preferences">>}
  \cup ({"setAgentNotificationOverride", "removeAgentNotificationOverride"}
        \X {"notification-overrides"})

Tells == MakingTells \cup CleaningTells \cup RowTells \cup ConfigTells \cup ContainerTells
         \cup AdoptTells \cup BackupTells \cup InvitationTells \cup AccountTells \cup RoleTells
         \cup AgentTells \cup PendingTells \cup CommandTells \cup PreferenceTells

-----------------------------------------------------------------------------
VARIABLES
  key,      \* the key this is the life of
  shown,    \* whether a page that is open reads it
  cache,    \* its answer: "none", or what the manager would say "now", or an "old" one
  marked,   \* whether the answer has been marked as out of date
  fresh,    \* whether the answer is younger than the hook's staleTime
  fetch,    \* its request: "idle", "asked", or answered from "now" or "old" tables
  mutations,  \* [Mutations -> "idle", "sent", "done"]: done once it has written something
  missed    \* whether the answer is out of date, or will be, for a reason nobody told the page

pageVars == <<key, shown, cache, marked, fresh, fetch, mutations, missed>>

PagesTypeOK ==
  /\ key \in Keys
  /\ shown \in BOOLEAN /\ marked \in BOOLEAN /\ fresh \in BOOLEAN /\ missed \in BOOLEAN
  /\ cache \in {"none", "now", "old"}
  /\ fetch \in {"idle", "asked", "now", "old"}
  /\ mutations \in [Mutations -> {"idle", "sent", "done"}]

PagesInit ==
  /\ key \in Keys
  /\ shown = FALSE /\ cache = "none" /\ marked = FALSE /\ fresh = FALSE
  /\ fetch = "idle"
  /\ mutations = [m \in Mutations |-> "idle"]
  /\ missed = FALSE

Older(answer) == IF answer = "now" THEN "old" ELSE answer
Unread == cache = "none" \/ marked \/ ~fresh

(* A page that reads the key opens, asks unless the answer will do, and    *)
(* joins a request that is on its way; the last such page closes; the      *)
(* answer of a key nobody reads is dropped.                                *)
Mount ==
  /\ ~shown
  /\ shown' = TRUE
  /\ fetch' = (IF fetch = "idle" /\ Unread THEN "asked" ELSE fetch)
  /\ UNCHANGED <<key, cache, marked, fresh, mutations, missed>>

Unmount ==
  /\ shown
  /\ shown' = FALSE
  /\ UNCHANGED <<key, cache, marked, fresh, fetch, mutations, missed>>

Collect ==
  /\ ~shown /\ fetch = "idle" /\ cache # "none"
  /\ cache' = "none" /\ marked' = FALSE /\ fresh' = FALSE /\ missed' = FALSE
  /\ UNCHANGED <<key, shown, fetch, mutations>>

GoStale ==
  /\ fresh
  /\ fresh' = FALSE
  /\ UNCHANGED <<key, shown, cache, marked, fetch, mutations, missed>>

(* The poll, or the focus coming back to the window.                       *)
Refetch ==
  /\ shown /\ fetch = "idle"
  /\ key \in Polled \/ Unread
  /\ fetch' = "asked"
  /\ UNCHANGED <<key, shown, cache, marked, fresh, mutations, missed>>

(* The manager answers: from the tables, but for the sizes of a server's   *)
(* directories, which the agent measures once in five minutes.             *)
Handle ==
  /\ fetch = "asked"
  /\ fetch' = "now"
  /\ UNCHANGED <<key, shown, cache, marked, fresh, mutations, missed>>

HandleMeasured ==
  /\ fetch = "asked" /\ key = "server-storage"
  /\ fetch' = "old" /\ missed' = TRUE
  /\ UNCHANGED <<key, shown, cache, marked, fresh, mutations>>

Receive ==
  /\ fetch \in {"now", "old"}
  /\ cache' = fetch /\ fetch' = "idle"
  /\ marked' = FALSE
  /\ fresh' = (key \in Kept)
  /\ missed' = (missed /\ fetch = "old")
  /\ UNCHANGED <<key, shown, mutations>>

(* A request fails, its response lost or its question to the agent timed   *)
(* out, and is sent again, or is given up: the page then shows an error    *)
(* beside the answer it had.                                               *)
Retry ==
  /\ fetch \in {"now", "old"}
  /\ fetch' = "asked"
  /\ UNCHANGED <<key, shown, cache, marked, fresh, mutations, missed>>

Fail ==
  /\ fetch # "idle"
  /\ fetch' = "idle"
  /\ marked' \in {marked, TRUE}
  /\ missed' = (missed \/ cache = "old")
  /\ UNCHANGED <<key, shown, cache, fresh, mutations>>

(* This browser's user asks for a change; its handler writes, more than    *)
(* once if it writes in several places; its answer comes back.             *)
Concerns(m) == Affects(m, key) \/ <<m, key>> \in Tells

Mutate(m) ==
  /\ Concerns(m) /\ mutations[m] = "idle"
  /\ Cardinality({n \in Mutations : mutations[n] # "idle"}) < MaxMutations
  /\ mutations' = [mutations EXCEPT ![m] = "sent"]
  /\ UNCHANGED <<key, shown, cache, marked, fresh, fetch, missed>>

Write(m) ==
  /\ mutations[m] # "idle" /\ Affects(m, key)
  /\ mutations' = [mutations EXCEPT ![m] = "done"]
  /\ cache' = Older(cache) /\ fetch' = Older(fetch)
  /\ UNCHANGED <<key, shown, marked, fresh, missed>>

(* Six keys no hook ever marks: their answers are kept for the time given  *)
(* and read again by the next page.  Of the others, these mutations' hooks *)
(* leave out one that they concern, and a page goes on showing the old     *)
(* answer.                                                                 *)
Unmarked == {"agent-config", "registryTags", "container-inspect", "image-defaults",
             "portAvailability", "server-storage"}
Untold ==
  (Mutations \X Unmarked)
  \cup ({"deleteAgent", "generateEphemeralToken", "deletePendingAgent", "restartContainer",
         "adoptServer", "changePassword"} \X {"auditLogs"})
  \cup ({"deleteAgent"} \X {"agentConfig", "userRoleAssignments", "notification-overrides"})
  \cup ({"deleteUser"} \X {"invitations", "userRoleAssignments"})
  \cup {<<"deletePendingAgent", "agentConfig">>, <<"changePassword", "users">>}

(* A change succeeded, and its hook marks the keys it tells: a request for *)
(* a key that is shown is made, in the place of one that is on its way,    *)
(* but the first request of a key is waited for.                           *)
RestartsIdle == shown /\ fetch = "idle"   \* a bug: joins any request on its way
Restarts == shown /\ (fetch = "idle" \/ cache # "none")

Settled(m) ==
  /\ mutations[m] # "idle"
  /\ mutations' = [mutations EXCEPT ![m] = "idle"]
  /\ IF <<m, key>> \in Tells
       THEN /\ marked' = (marked \/ cache # "none" \/ fetch # "idle")
            /\ fetch' = (IF Restarts THEN "asked" ELSE fetch)
            /\ missed' = (missed \/ (fetch' = "old" /\ (~shown \/ cache = "none")))
       ELSE /\ missed' = (missed \/ (mutations[m] = "done" /\ <<m, key>> \in Untold))
            /\ UNCHANGED <<marked, fetch>>
  /\ UNCHANGED <<key, shown, cache, fresh>>

(* A change fails, though it may have written: nothing is marked.          *)
Failed(m) ==
  /\ mutations[m] # "idle"
  /\ missed' = (missed \/ (mutations[m] = "done" /\ Affects(m, key)))
  /\ mutations' = [mutations EXCEPT ![m] = "idle"]
  /\ UNCHANGED <<key, shown, cache, marked, fresh, fetch>>

(* Another user, the agent, a terminal or a change given up as failed      *)
(* writes; the tab is logged out, or in for another account, which keeps   *)
(* the answers of the last one.                                            *)
Outdated ==
  /\ cache' = Older(cache) /\ fetch' = Older(fetch)
  /\ missed' = (missed \/ cache # "none" \/ fetch \in {"now", "old"})
  /\ UNCHANGED <<key, marked, fresh, mutations>>
Others == Outdated /\ UNCHANGED shown
SwitchUser == Outdated /\ shown' = FALSE

(* A request answered with 401 sends the browser to the login page, whose  *)
(* load forgets everything.                                                *)
Reload ==
  /\ shown' = FALSE /\ cache' = "none" /\ marked' = FALSE /\ fresh' = FALSE
  /\ fetch' = "idle" /\ mutations' = [m \in Mutations |-> "idle"] /\ missed' = FALSE
  /\ UNCHANGED key

PagesNext ==
  \/ Mount \/ Unmount \/ Collect \/ GoStale \/ Refetch
  \/ Handle \/ HandleMeasured \/ Receive \/ Retry \/ Fail
  \/ \E m \in Mutations : Mutate(m) \/ Write(m) \/ Settled(m) \/ Failed(m)
  \/ Others \/ SwitchUser \/ Reload

PagesSpec == PagesInit /\ [][PagesNext]_pageVars

-----------------------------------------------------------------------------
(* What a page shows at rest is what the manager would say, or is out of   *)
(* date for a change of which the page cannot know: one whose answer is    *)
(* still to come, or that failed or came from elsewhere, one of Untold, or *)
(* one that a request had read past when nobody could ask again.  No order *)
(* of requests, changes and their answers leaves it out of date otherwise. *)
(* Keys that are polled are asked for again in any case (hooks/useServers, *)
(* useBackups, useUsers; lib/api.ts).                                      *)
PagesCurrent ==
  shown /\ fetch = "idle" /\ cache = "old" /\ key \notin Polled
    => missed \/ \E m \in Mutations : mutations[m] = "done" /\ Affects(m, key)
=============================================================================
