--------------------------- MODULE CommandMailbox ---------------------------
(***************************************************************************)
(* How a command of the user interface reaches the runtime: the bounded    *)
(* mailbox of crates/app/src/runtime_mailbox.rs between the thread of the  *)
(* interface (application.rs), which never waits, and the loop of the      *)
(* runtime thread (run in runtime.rs).                                     *)
(*                                                                         *)
(* Ordered commands queue up to Capacity and are refused beyond; a restart *)
(* already pending is not queued twice.  Settings and output modes wait in *)
(* two slots that keep the last of each.  The loop receives one command,   *)
(* drains some more, and then lets the output cycle run if it is due.      *)
(*                                                                         *)
(* A definition whose name starts with Bug is not part of Spec: it is the  *)
(* definition after it with a plausible defect, which a property catches.  *)
(***************************************************************************)
EXTENDS Integers, Sequences

CONSTANTS
  Modes,       \* OutputMode
  Targets,     \* RestartTarget
  Capacity,    \* COMMAND_CAPACITY of the ordered queue
  Burst,       \* MAX_COMMANDS_PER_OUTPUT_CYCLE
  MaxReloads   \* bound: how often an admin profile is loaded

MailboxAssumption ==
  /\ Modes # {} /\ "none" \notin Targets
  /\ Capacity \in Nat \ {0} /\ Burst \in Nat \ {0} /\ MaxReloads \in Nat

VARIABLES
  wish,        \* interface: config.output_mode
  unsaved,     \* interface: pending_settings_save, "yes" or "no"
  sending,     \* interface: the target between insert and try_send, or NoTarget
  reloads,     \* profiles loaded so far
  ordered,     \* the queue of the sync_channel
  settings, modeSlot,   \* CoalescedCommands
  pendingRestarts,
  shutdown,    \* "no" or "requested"
  inbox,       \* "open", or "closed" once the runtime has dropped it
  loop,        \* where the runtime thread is
  held,        \* the command it has received and not yet run
  marked,      \* whether mark_dequeued was applied to it, "yes" or "no"
  processed,   \* commands of this turn of the loop
  mode,        \* runtime: config.output_mode
  sinceCycle,  \* history: ordered commands run since the last output cycle
  wanted       \* history: restarts accepted and not begun since

uiVars     == <<wish, unsaved, sending, reloads>>
slotVars   == <<settings, modeSlot>>
engineVars == <<loop, held, marked, processed, mode, sinceCycle>>
vars == <<uiVars, ordered, slotVars, pendingRestarts, shutdown, inbox, engineVars, wanted>>

Nothing   == <<"Nothing">>
NoTarget  == "none"
Toggle    == <<"Toggle">>          \* Start, Stop, Rescan and the like
Restart(t)   == <<"Restart", t>>
SetMode(m)   == <<"SetMode", m>>
Update(m)    == <<"UpdateSettings", m>>
Reload(m)    == <<"ReloadSettings", m>>

OrderedCommands  == {Toggle} \cup {Restart(t) : t \in Targets}
SettingsCommands == {Update(m) : m \in Modes} \cup {Reload(m) : m \in Modes}
ModeCommands     == {SetMode(m) : m \in Modes}

Kind(command)   == command[1]
Target(command) == command[2]
ModeOf(command) == command[2]

(***************************************************************************)
(* The interface.  Its calls never block.                                  *)
(***************************************************************************)

\* set_mode: the setting now, the command now, the file later.
UiSetMode ==
  /\ sending = NoTarget
  /\ \E m \in Modes \ {wish} :
       /\ wish' = m
       /\ modeSlot' = IF inbox = "closed" THEN modeSlot ELSE SetMode(m)
  /\ unsaved' = "yes"
  /\ UNCHANGED <<sending, reloads, ordered, settings, pendingRestarts, shutdown, inbox,
                 engineVars, wanted>>

\* Any other setting: only the debounced save will tell the runtime.
UiChangeSetting ==
  /\ sending = NoTarget /\ unsaved' = "yes"
  /\ UNCHANGED <<wish, sending, reloads, ordered, slotVars, pendingRestarts, shutdown,
                 inbox, engineVars, wanted>>

\* flush_settings.
UiFlush ==
  /\ sending = NoTarget /\ unsaved = "yes"
  /\ unsaved' = "no"
  /\ settings' = IF inbox = "closed" THEN settings ELSE Update(wish)
  /\ UNCHANGED <<wish, sending, reloads, ordered, modeSlot, pendingRestarts, shutdown,
                 inbox, engineVars, wanted>>

\* load_admin_config: the profile replaces the configuration.
UiReload ==
  /\ sending = NoTarget /\ reloads < MaxReloads
  /\ reloads' = reloads + 1
  /\ wish' \in Modes
  /\ settings' = IF inbox = "closed" THEN settings ELSE Reload(wish')
  /\ unsaved' = "no"
  /\ UNCHANGED <<sending, ordered, modeSlot, pendingRestarts, shutdown, inbox,
                 engineVars, wanted>>

\* As if the channel had no bound.
BugUnboundedQueue ==
  /\ sending = NoTarget /\ inbox = "open"
  /\ ordered' = Append(ordered, Toggle)
  /\ UNCHANGED <<uiVars, slotVars, pendingRestarts, shutdown, inbox, engineVars, wanted>>

\* dispatch of an ordered command; a full queue answers Busy.
UiToggle ==
  /\ sending = NoTarget /\ inbox = "open" /\ Len(ordered) < Capacity
  /\ ordered' = Append(ordered, Toggle)
  /\ UNCHANGED <<uiVars, slotVars, pendingRestarts, shutdown, inbox, engineVars, wanted>>

\* dispatch of a restart, first part: one that is pending already is accepted
\* without being queued again.
UiRestart ==
  /\ sending = NoTarget /\ inbox = "open"
  /\ \E t \in Targets :
       \/ /\ t \in pendingRestarts
          /\ wanted' = wanted \cup {t}
          /\ UNCHANGED <<sending, pendingRestarts>>
       \/ /\ t \notin pendingRestarts
          /\ pendingRestarts' = pendingRestarts \cup {t}
          /\ sending' = t
          /\ UNCHANGED wanted
  /\ UNCHANGED <<wish, unsaved, reloads, ordered, slotVars, shutdown, inbox, engineVars>>

\* As if a refused restart stayed pending.
BugBusyStaysPending ==
  /\ sending # NoTarget
  /\ sending' = NoTarget
  /\ IF Len(ordered) < Capacity /\ inbox = "open"
       THEN ordered' = Append(ordered, Restart(sending)) /\ wanted' = wanted \cup {sending}
       ELSE UNCHANGED <<ordered, wanted>>
  /\ UNCHANGED <<wish, unsaved, reloads, slotVars, pendingRestarts, shutdown, inbox,
                 engineVars>>

\* Second part: try_send, and remove_pending_restart when it fails.
UiRestartSend ==
  /\ sending # NoTarget
  /\ sending' = NoTarget
  /\ IF Len(ordered) < Capacity /\ inbox = "open"
       THEN /\ ordered' = Append(ordered, Restart(sending))
            /\ wanted' = wanted \cup {sending}
            /\ UNCHANGED pendingRestarts
       ELSE /\ pendingRestarts' = pendingRestarts \ {sending}
            /\ UNCHANGED <<ordered, wanted>>
  /\ UNCHANGED <<wish, unsaved, reloads, slotVars, shutdown, inbox, engineVars>>

\* Exit, and the drop of RuntimeHandle.
UiExit ==
  /\ sending = NoTarget /\ shutdown' = "requested"
  /\ UNCHANGED <<uiVars, ordered, slotVars, pendingRestarts, inbox, engineVars, wanted>>

(***************************************************************************)
(* The runtime thread.                                                     *)
(***************************************************************************)

\* take_coalesced: settings before the mode.
BugModeFirst ==
  IF modeSlot # Nothing
    THEN held' = modeSlot /\ modeSlot' = Nothing /\ UNCHANGED settings
    ELSE held' = settings /\ settings' = Nothing /\ UNCHANGED modeSlot

TakeCoalesced ==
  IF settings # Nothing
    THEN held' = settings /\ settings' = Nothing /\ UNCHANGED modeSlot
    ELSE held' = modeSlot /\ modeSlot' = Nothing /\ UNCHANGED settings

\* recv_timeout or try_recv has the first ordered command, ...
ReceiveOrdered ==
  /\ ordered # <<>>
  /\ held' = Head(ordered) /\ ordered' = Tail(ordered)
  /\ UNCHANGED slotVars

\* ... or, when there is none (any more), a coalesced one.
ReceiveCoalesced ==
  /\ ordered = <<>> /\ (settings # Nothing \/ modeSlot # Nothing)
  /\ TakeCoalesced
  /\ UNCHANGED ordered

NothingToReceive == ordered = <<>> /\ settings = Nothing /\ modeSlot = Nothing

\* As if the loop went on draining as long as there is something.
BugDrainsAll == loop \in {"wait", "drain"}

\* The first command of a turn, which the loop waits for, and the further ones
\* of its burst.
MayReceive ==
  \/ loop = "wait"
  \/ loop = "drain" /\ shutdown = "no" /\ processed < Burst

Receive ==
  /\ MayReceive /\ held = Nothing
  /\ ReceiveOrdered \/ ReceiveCoalesced
  /\ loop' = "drain" /\ marked' = "no"
  /\ UNCHANGED <<uiVars, pendingRestarts, shutdown, inbox, processed, mode, sinceCycle,
                 wanted>>

\* A turn begins unless the shutdown is asked for.
TurnBegins ==
  /\ loop = "top" /\ shutdown = "no"
  /\ loop' = "wait" /\ processed' = 0
  /\ UNCHANGED <<uiVars, ordered, slotVars, pendingRestarts, shutdown, inbox, held, marked,
                 mode, sinceCycle, wanted>>

\* recv_timeout saw no ordered command before the next deadline and found no
\* coalesced one either.
WaitEnds ==
  /\ loop = "wait" /\ held = Nothing /\ NothingToReceive
  /\ loop' = "drain"
  /\ UNCHANGED <<uiVars, ordered, slotVars, pendingRestarts, shutdown, inbox, held, marked,
                 processed, mode, sinceCycle, wanted>>

\* mark_dequeued, before the command runs: from now on the same restart may be
\* asked for again.
MarkDequeued ==
  /\ held # Nothing /\ marked = "no"
  /\ marked' = "yes"
  /\ IF Kind(held) = "Restart"
       THEN pendingRestarts' = pendingRestarts \ {Target(held)} /\ wanted' = wanted \ {Target(held)}
       ELSE UNCHANGED <<pendingRestarts, wanted>>
  /\ UNCHANGED <<uiVars, ordered, slotVars, shutdown, inbox, loop, held, processed, mode,
                 sinceCycle>>

\* RuntimeEngine::command, as far as the mode goes.  Neither count goes on
\* beyond what tells it from Burst.
Run ==
  /\ held # Nothing /\ marked = "yes"
  /\ held' = Nothing
  /\ mode' = IF Kind(held) \in {"SetMode", "UpdateSettings", "ReloadSettings"}
               THEN ModeOf(held) ELSE mode
  /\ processed' = IF processed < Burst THEN processed + 1 ELSE processed
  /\ sinceCycle' = IF held \in OrderedCommands /\ sinceCycle <= Burst
                     THEN sinceCycle + 1 ELSE sinceCycle
  /\ UNCHANGED <<uiVars, ordered, slotVars, pendingRestarts, shutdown, inbox, loop, marked,
                 wanted>>

\* The burst is over: nothing to drain, or enough drained.
DrainEnds ==
  /\ loop = "drain" /\ held = Nothing /\ shutdown = "no"
  /\ NothingToReceive \/ processed >= Burst
  /\ loop' = "step"
  /\ UNCHANGED <<uiVars, ordered, slotVars, pendingRestarts, shutdown, inbox, held, marked,
                 processed, mode, sinceCycle, wanted>>

\* RuntimeEngine::step runs an output cycle when one is due.
Cycle ==
  /\ loop = "step"
  /\ loop' = "top"
  /\ sinceCycle' \in {0, sinceCycle}
  /\ UNCHANGED <<uiVars, ordered, slotVars, pendingRestarts, shutdown, inbox, held, marked,
                 processed, mode, wanted>>

\* The request is looked at before a turn, and before its output cycle.
LoopEnds ==
  /\ loop \in {"top", "drain"} /\ held = Nothing /\ shutdown = "requested"
  /\ loop' = "ended"
  /\ UNCHANGED <<uiVars, ordered, slotVars, pendingRestarts, shutdown, inbox, held, marked,
                 processed, mode, sinceCycle, wanted>>

\* After shutdown_workers the inbox is dropped, with what it still holds.
InboxDropped ==
  /\ loop = "ended" /\ inbox = "open"
  /\ inbox' = "closed" /\ ordered' = <<>>
  /\ UNCHANGED <<uiVars, slotVars, pendingRestarts, shutdown, engineVars, wanted>>

-----------------------------------------------------------------------------

Init ==
  /\ wish \in Modes /\ mode = wish
  /\ unsaved = "no" /\ sending = NoTarget /\ reloads = 0
  /\ ordered = <<>> /\ settings = Nothing /\ modeSlot = Nothing
  /\ pendingRestarts = {} /\ shutdown = "no" /\ inbox = "open"
  /\ loop = "top" /\ held = Nothing /\ marked = "no" /\ processed = 0
  /\ sinceCycle = 0 /\ wanted = {}

Interface ==
  \/ UiSetMode \/ UiChangeSetting \/ UiFlush \/ UiReload \/ UiToggle \/ UiRestart
  \/ UiRestartSend \/ UiExit

Engine ==
  \/ TurnBegins \/ Receive \/ WaitEnds \/ MarkDequeued \/ Run \/ DrainEnds \/ Cycle
  \/ LoopEnds \/ InboxDropped

Next == Interface \/ Engine

Spec == Init /\ [][Next]_vars

\* The runtime thread runs, whatever the interface goes on sending.
FairSpec == Spec /\ WF_vars(Engine)

-----------------------------------------------------------------------------
(***************************************************************************)
(* Properties.                                                             *)
(***************************************************************************)

Queued == {ordered[i] : i \in DOMAIN ordered}

\* Every variable keeps its type, and both queues their bound.
TypeOK ==
  /\ wish \in Modes /\ mode \in Modes /\ unsaved \in {"yes", "no"}
  /\ sending \in Targets \cup {NoTarget} /\ reloads \in 0..MaxReloads
  /\ Queued \subseteq OrderedCommands /\ Len(ordered) <= Capacity
  /\ settings \in SettingsCommands \cup {Nothing} /\ modeSlot \in ModeCommands \cup {Nothing}
  /\ pendingRestarts \subseteq Targets /\ wanted \subseteq Targets
  /\ shutdown \in {"no", "requested"} /\ inbox \in {"open", "closed"}
  /\ loop \in {"top", "wait", "drain", "step", "ended"}
  /\ held \in OrderedCommands \cup SettingsCommands \cup ModeCommands \cup {Nothing}
  /\ marked \in {"yes", "no"} /\ processed \in 0..Burst /\ sinceCycle \in 0..Burst + 1

\* A target is pending exactly while its restart is about to be queued, queued
\* once, or received and not yet begun: it can neither get stuck, so that no
\* later restart is ever queued, nor be queued twice
\* (pending_restarts, shared by dispatch and mark_dequeued).
PendingIsUnderway ==
  inbox = "open" => \A t \in Targets :
    LET queued == {i \in DOMAIN ordered : ordered[i] = Restart(t)}
        heldNow == held = Restart(t) /\ marked = "no"
    IN  /\ t \in pendingRestarts <=> sending = t \/ queued # {} \/ heldNow
        /\ \A i, j \in queued : i = j
        /\ ~(queued # {} /\ heldNow) /\ ~(sending = t /\ (queued # {} \/ heldNow))

\* Once everything sent was run, the runtime is in the mode the interface
\* shows: the last wins over all earlier settings and modes, although the two
\* wait in different slots (CoalescedCommands).  A profile that is loaded while
\* a mode waits is the exception: its settings are taken before that mode.
LastWins ==
  reloads = 0 /\ inbox = "open" /\ settings = Nothing /\ modeSlot = Nothing
    /\ Kind(held) \notin {"SetMode", "UpdateSettings", "ReloadSettings"}
  => mode = wish

\* Between two output cycles the runtime runs at most Burst ordered commands,
\* as the documentation says; the loop counts anew with every turn.
AtMostBurstPerCycle == sinceCycle <= Burst

\* An accepted restart begins, or the runtime ends; even one that was accepted
\* by joining a restart that the runtime had received already.
RestartBegins ==
  \A t \in Targets : t \in wanted ~> t \notin wanted \/ inbox = "closed"

\* However fast the interface sends, the runtime comes back to its output cycle.
OutputGoesOn == []<>(loop \in {"step", "ended"})

=============================================================================
