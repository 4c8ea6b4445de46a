------------------------------ MODULE Notices ------------------------------
(***************************************************************************)
(* From a component's failure to the bell: the warnings of the device      *)
(* worker and of the runtime (WarningRegistry, crates/app/src/runtime.rs), *)
(* the alerts the runtime numbers and keeps in a ring, and the             *)
(* notification center of the interface (crates/app/src/notifications.rs). *)
(*                                                                         *)
(* A warning is a source and one of its messages.  The interface sees the  *)
(* runtime through the snapshot published at the end of an output cycle.   *)
(* A definition whose name starts with Bug is not part of Spec.            *)
(***************************************************************************)
EXTENDS Naturals, FiniteSets, Sequences, SequencesExt

CONSTANTS
  DeviceSources,   \* sources that copy_device_sources_from copies, a sequence
  OwnSources,      \* sources the runtime sets itself
  Messages, NoMessage,
  AlertLimit,      \* ALERT_LIMIT
  EntryLimit, ToastLimit,   \* MAX_NOTIFICATION_ENTRIES, MAX_NOTIFICATION_TOASTS
  Changes,         \* bound: warnings the device worker sets
  OwnChanges,      \* bound: warnings the runtime sets itself
  Clicks           \* bound: what the user does, and errors of the interface

Devices == ToSet(DeviceSources)
Sources == Devices \cup OwnSources

NoticesAssumption ==
  /\ Devices \cap OwnSources = {}
  /\ NoMessage \notin Messages
  /\ AlertLimit \in Nat \ {0}
  /\ ToastLimit \in Nat \ {0} /\ EntryLimit \in Nat \ {0}
  /\ ToastLimit <= EntryLimit
  /\ Changes \in Nat /\ OwnChanges \in Nat /\ Clicks \in Nat

VARIABLES
  device,     \* the device worker's registry: a message for each source
  reported,   \* that of its last snapshot
  warnings,   \* the runtime's registry
  active,     \* snapshot.active_warnings
  alerts,     \* the ring: snapshot.recent_alerts, oldest first
  lastAlert,  \* next_alert_id, the last one given
  shown,      \* what the interface sees of active and alerts
  entries,    \* NotificationCenter: newest first
  toasts,     \* and the entries that are toasts, newest first
  lastEntry,  \* next_id, the last one given
  activeKeys, \* active_runtime_keys
  lastSeen,   \* last_runtime_alert_id
  enabled,    \* config.show_notifications: "yes" or "no"
  told,       \* history: warnings of the runtime's registry that got an entry while
              \* they were there
  standing,   \* history: warnings that got an entry and that every snapshot the
              \* interface looked at since calls active
  excuse,     \* history: "none", or why a warning may have stayed untold
  budget      \* what is left of the bounds

deviceVars  == <<device, reported>>
runtimeVars == <<warnings, active, alerts, lastAlert>>
centerVars  == <<entries, toasts, lastEntry, activeKeys, lastSeen>>
history     == <<told, standing>>
vars == <<deviceVars, runtimeVars, shown, centerVars, history, enabled, excuse, budget>>

Spends(what) == budget[what] > 0 /\ budget' = [budget EXCEPT ![what] = @ - 1]

(***************************************************************************)
(* WarningRegistry and RuntimeState.                                       *)
(***************************************************************************)

\* WarningRegistry::active_alerts.
ActiveIn(registry) ==
  {[source |-> s, message |-> registry[s]] :
     s \in {t \in DOMAIN registry : registry[t] # NoMessage}}

\* record_alert, for a sequence of warnings: each gets the next number, and the
\* ring keeps the newest.
RecordsAlerts(list) ==
  LET all == alerts \o [i \in DOMAIN list |-> [id |-> lastAlert + i, warning |-> list[i]]]
      first == IF Len(all) > AlertLimit THEN Len(all) - AlertLimit + 1 ELSE 1
  IN alerts' = SubSeq(all, first, Len(all)) /\ lastAlert' = lastAlert + Len(list)

\* What is no longer warned of is to be told again when it comes back.
Forgets == told' = told \cap ActiveIn(warnings') /\ UNCHANGED standing

\* set_warning and clear_warning of the runtime, at a command or in its cycle.
SetWarning(source, message) ==
  /\ Spends("own changes")
  /\ warnings[source] # message
  /\ warnings' = [warnings EXCEPT ![source] = message]
  /\ active' = ActiveIn(warnings')
  /\ RecordsAlerts(<<[source |-> source, message |-> message]>>)
  /\ Forgets
  /\ UNCHANGED <<deviceVars, shown, centerVars, enabled, excuse>>

ClearWarning(source) ==
  /\ warnings[source] # NoMessage
  /\ warnings' = [warnings EXCEPT ![source] = NoMessage]
  /\ active' = ActiveIn(warnings')
  /\ Forgets
  /\ UNCHANGED <<deviceVars, alerts, lastAlert, shown, centerVars, enabled>>
  /\ UNCHANGED <<excuse, budget>>

\* The same calls on the device worker's own state.
DeviceSetWarning(source, message) ==
  /\ Spends("changes")
  /\ device[source] # message
  /\ device' = [device EXCEPT ![source] = message]
  /\ UNCHANGED <<reported, runtimeVars, shown, centerVars, history, enabled, excuse>>

DeviceClearWarning(source) ==
  /\ device[source] # NoMessage
  /\ device' = [device EXCEPT ![source] = NoMessage]
  /\ UNCHANGED <<reported, runtimeVars, shown, centerVars, history, enabled, excuse>>
  /\ UNCHANGED budget

\* publish_device_snapshot.
Report ==
  /\ reported # device
  /\ reported' = device
  /\ UNCHANGED <<device, runtimeVars, shown, centerVars, history, enabled, excuse>>
  /\ UNCHANGED budget

\* The elements of a list at some of its places, in their order.
Picked(list, places) ==
  [i \in 1 .. Cardinality(places) |->
     list[CHOOSE n \in places : Cardinality({k \in places : k <= n}) = i]]

\* copy_device_sources_from: the messages that are new, in the sources' order.
\* A source whose warning is gone is copied but not returned.
Changed ==
  LET Message(n) == reported[DeviceSources[n]]
      fresh == {n \in DOMAIN DeviceSources :
                  Message(n) \notin {NoMessage, warnings[DeviceSources[n]]}}
  IN Picked([n \in DOMAIN DeviceSources |->
               [source |-> DeviceSources[n], message |-> Message(n)]], fresh)

\* Mutant: what the device worker warns of is not recorded.
BugCycle ==
  /\ warnings' = [s \in Sources |-> IF s \in Devices THEN reported[s] ELSE warnings[s]]
  /\ active' = IF Changed # <<>> THEN ActiveIn(warnings') ELSE active
  /\ UNCHANGED <<alerts, lastAlert>>
  /\ Forgets
  /\ shown' = [active |-> active', alerts |-> alerts']
  /\ excuse' = excuse
  /\ UNCHANGED <<deviceVars, centerVars, enabled, budget>>

\* merge_device_warnings, and the end of the output cycle: the snapshot is
\* published.  active_warnings is computed anew only when something is new.
Cycle ==
  /\ warnings' = [s \in Sources |-> IF s \in Devices THEN reported[s] ELSE warnings[s]]
  /\ active' = IF Changed # <<>> THEN ActiveIn(warnings') ELSE active
  /\ RecordsAlerts(Changed)
  /\ Forgets
  /\ shown' = [active |-> active', alerts |-> alerts']
  /\ excuse' = IF lastAlert' > lastSeen /\ alerts'[1].id > lastSeen + 1
                 THEN "overwritten" ELSE excuse
  /\ UNCHANGED <<deviceVars, centerVars, enabled, budget>>

(***************************************************************************)
(* NotificationCenter.                                                     *)
(***************************************************************************)

Shorten(list, limit) == SubSeq(list, 1, IF Len(list) < limit THEN Len(list) ELSE limit)

\* Mutant: toasts are never dropped.
BugPushes(keys) ==
  LET new == Reverse([i \in DOMAIN keys |-> [id |-> lastEntry + i, key |-> keys[i]]])
  IN /\ lastEntry' = lastEntry + Len(keys)
     /\ entries' = Shorten(new \o entries, EntryLimit)
     /\ toasts' = [i \in DOMAIN new |-> new[i].id] \o toasts

\* push_item, for a sequence of keys: each gets the next number, an entry and a
\* toast, and the oldest entries and toasts go.
Pushes(keys) ==
  LET new == Reverse([i \in DOMAIN keys |-> [id |-> lastEntry + i, key |-> keys[i]]])
  IN /\ lastEntry' = lastEntry + Len(keys)
     /\ entries' = Shorten(new \o entries, EntryLimit)
     /\ toasts' = Shorten([i \in DOMAIN new |-> new[i].id] \o toasts, ToastLimit)

\* The key of a message of the interface itself.
Own == [source |-> "Interface", message |-> NoMessage]

\* Mutant: a key stays known once its warning is gone.
BugKnown == activeKeys

\* The keys of ingest_runtime_alerts that are still active.
Known == activeKeys \cap shown.active

\* ingest_runtime_alerts: keys that are no longer active are forgotten; each
\* alert not seen before that is not active already becomes an entry, if
\* notifications are enabled.
Ingest ==
  LET list == shown.alerts
      fresh == {i \in DOMAIN list : list[i].id > lastSeen}
      new == {i \in fresh : /\ list[i].warning \notin Known
                            /\ \A j \in fresh : j < i => list[j].warning # list[i].warning}
      keys == Picked([i \in DOMAIN list |-> list[i].warning], new)
  IN /\ activeKeys' = Known \cup ToSet(keys)
     /\ \/ /\ enabled = "yes" /\ Pushes(keys)
           /\ told' = told \cup (ToSet(keys) \cap ActiveIn(warnings))
           /\ standing' = (standing \cap shown.active) \cup ToSet(keys)
        \/ /\ enabled = "no"
           /\ standing' = standing \cap shown.active
           /\ UNCHANGED <<entries, toasts, lastEntry, told>>
     /\ lastSeen' = IF fresh = {} THEN lastSeen ELSE Last(list).id
     /\ UNCHANGED <<deviceVars, runtimeVars, shown, enabled, excuse, budget>>

\* push_critical, push_critical_with_detail and push_update: the interface's own
\* message, unless there is an entry for it.
PushOwn ==
  /\ Spends("clicks")
  /\ enabled = "yes"
  /\ \A i \in DOMAIN entries : entries[i].key # Own
  /\ Pushes(<<Own>>)
  /\ UNCHANGED <<deviceVars, runtimeVars, shown, activeKeys, lastSeen, history>>
  /\ UNCHANGED <<enabled, excuse>>

\* prune: a toast's time is over.  The oldest is last.
Expire ==
  /\ toasts # <<>>
  /\ toasts' = Front(toasts)
  /\ UNCHANGED <<deviceVars, runtimeVars, shown, entries, lastEntry, activeKeys>>
  /\ UNCHANGED <<lastSeen, history, enabled, excuse, budget>>

\* Mutant: the toasts stay.
BugClearAll ==
  /\ entries # <<>> /\ Spends("clicks")
  /\ entries' = <<>>
  /\ UNCHANGED <<deviceVars, runtimeVars, shown, toasts, lastEntry, activeKeys>>
  /\ UNCHANGED <<lastSeen, history, enabled, excuse>>

\* clear_all in the popover.
ClearAll ==
  /\ entries # <<>> /\ Spends("clicks")
  /\ entries' = <<>> /\ toasts' = <<>>
  /\ UNCHANGED <<deviceVars, runtimeVars, shown, lastEntry, activeKeys>>
  /\ UNCHANGED <<lastSeen, history, enabled, excuse>>

\* The switch "Show in-app notifications" of general_settings.
Toggle ==
  /\ Spends("clicks")
  /\ enabled' = IF enabled = "yes" THEN "no" ELSE "yes"
  /\ excuse' = "muted"
  /\ UNCHANGED <<deviceVars, runtimeVars, shown, centerVars, history>>

(***************************************************************************)
(* The specification.                                                      *)
(***************************************************************************)

Warning == [source : Sources, message : Messages]

TypeOK ==
  /\ device \in [Devices -> Messages \cup {NoMessage}]
  /\ reported \in [Devices -> Messages \cup {NoMessage}]
  /\ warnings \in [Sources -> Messages \cup {NoMessage}]
  /\ active \subseteq Warning /\ shown.active \subseteq Warning
  /\ activeKeys \subseteq Warning /\ told \subseteq Warning /\ standing \subseteq Warning
  /\ Len(alerts) <= AlertLimit /\ Len(entries) <= EntryLimit
  /\ Len(toasts) <= ToastLimit
  /\ lastSeen \in 0 .. lastAlert
  /\ enabled \in {"yes", "no"}
  /\ excuse \in {"none", "overwritten", "muted"}

Init ==
  /\ device = [s \in Devices |-> NoMessage] /\ reported = device
  /\ warnings = [s \in Sources |-> NoMessage]
  /\ active = {} /\ alerts = <<>> /\ lastAlert = 0
  /\ shown = [active |-> {}, alerts |-> <<>>]
  /\ entries = <<>> /\ toasts = <<>> /\ lastEntry = 0 /\ activeKeys = {} /\ lastSeen = 0
  /\ enabled = "yes" /\ told = {} /\ standing = {} /\ excuse = "none"
  /\ budget = [s \in {"changes", "own changes", "clicks"} |->
               CASE s = "changes" -> Changes [] s = "own changes" -> OwnChanges
                 [] s = "clicks" -> Clicks]

Next ==
  \/ \E s \in OwnSources : ClearWarning(s) \/ \E m \in Messages : SetWarning(s, m)
  \/ \E s \in Devices :
       DeviceClearWarning(s) \/ \E m \in Messages : DeviceSetWarning(s, m)
  \/ Report \/ Cycle
  \/ Ingest \/ PushOwn \/ Expire \/ ClearAll \/ Toggle

Spec == Init /\ [][Next]_vars

\* The device worker and the runtime have a cycle of 1/30 s, and the interface
\* draws frames even when hidden (HIDDEN_REFRESH).
FairSpec == Spec /\ WF_vars(Report) /\ WF_vars(Cycle) /\ WF_vars(Ingest)

(***************************************************************************)
(* Properties.                                                             *)
(***************************************************************************)

\* A toast shows an entry (notification_toasts looks it up by its number), and
\* numbers tell entries apart.
ToastsHaveEntries ==
  /\ \A i \in DOMAIN toasts : \E j \in DOMAIN entries : entries[j].id = toasts[i]
  /\ \A i, j \in DOMAIN entries : i < j => entries[i].id > entries[j].id
  /\ Len(toasts) <= ToastLimit

\* A warning that lasts is told, sooner or later, each time it comes up: unless the
\* user switched notifications off, more alerts than the ring holds came before the
\* interface looked, or it was told before and the interface has had no snapshot
\* since that does without it; a device's warning stays in the snapshot when it is
\* gone (record_alert, merge_device_warnings, ingest_runtime_alerts).
WarningIsTold ==
  \A s \in Devices, m \in Messages :
    LET warning == [source |-> s, message |-> m]
    IN (device[s] = m) ~>
         \/ device[s] # m \/ excuse # "none"
         \/ warning \in told \cup standing

\* What the snapshot calls active is active (test
\* flow_warning_registry_preserves_source_ownership_and_priority).  It does not
\* hold: merge_device_warnings leaves a warning there that is gone.
ActiveIsCurrent == active = ActiveIn(warnings)
=============================================================================
