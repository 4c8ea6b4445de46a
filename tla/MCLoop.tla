-------------------------------- MODULE MCLoop --------------------------------
(***************************************************************************)
(* One run for the pace of the runtime's loop and of the captures          *)
(* (FramePacing), the loop's mailbox (CommandMailbox) and the way of the   *)
(* reference picture between the interface, the loop and the workers       *)
(* (ReferenceFlow), which share no state.  A behaviour picks one of them;  *)
(* the others stay as they began.                                          *)
(***************************************************************************)
EXTENDS FramePacing

CONSTANTS Modes, Targets, Capacity, Burst, MaxReloads,
          MaxFrame, MaxImport, JobCapacity, MaxClicks, Timeouts, Failures

VARIABLES
  part,        \* the component that moves
  \* CommandMailbox
  wish, unsaved, sending, reloads, ordered, settings, modeSlot,
  pendingRestarts, shutdown, inbox, loop, held, marked, processed, mode,
  sinceCycle, wanted,
  \* ReferenceFlow
  dialog, previous, clicks, snapshot, referenceInbox, candidate, reference,
  generation, inFlight, jobs, results, worker, disk, pending, screen, event,
  published, seen

Mailbox   == INSTANCE CommandMailbox
Reference == INSTANCE ReferenceFlow WITH inbox <- referenceInbox

mailboxVars == <<wish, unsaved, sending, reloads, ordered, settings, modeSlot,
                 pendingRestarts, shutdown, inbox, loop, held, marked,
                 processed, mode, sinceCycle, wanted>>
referenceVars == <<dialog, previous, clicks, snapshot, referenceInbox, candidate,
                   reference, generation, inFlight, jobs, results, worker, disk,
                   pending, screen, event, published, seen>>

ASSUME LoopAssumption == Mailbox!MailboxAssumption /\ Reference!PicturesAssumption

MCInit ==
  /\ part \in {"pace", "mailbox", "reference"}
  /\ Init
  /\ Mailbox!Init /\ (part # "mailbox" => wish = CHOOSE m \in Modes : TRUE)
  /\ Reference!Init

MCNext ==
  \/ part = "pace" /\ Next /\ UNCHANGED <<part, mailboxVars, referenceVars>>
  \/ part = "mailbox" /\ Mailbox!Next /\ UNCHANGED <<part, vars, referenceVars>>
  \/ /\ part = "reference" /\ Reference!Next
     /\ UNCHANGED <<part, vars, mailboxVars>>

\* The fairness of each component, for the behaviours that run it.
MCSpec ==
  /\ MCInit
  /\ [][MCNext]_<<part, vars, mailboxVars, referenceVars>>
  /\ WF_mailboxVars(part = "mailbox" /\ Mailbox!Engine)
  /\ WF_referenceVars(part = "reference" /\ Reference!UiLooks)
  /\ WF_referenceVars(part = "reference" /\ Reference!EngineCommand)
  /\ WF_referenceVars(part = "reference" /\ Reference!EngineStep)
  /\ WF_referenceVars(part = "reference" /\ Reference!Worker)
  /\ WF_referenceVars(part = "reference" /\ Reference!Device)

\* The pending-restart set and the queue agree, and the runtime ends in the mode the
\* interface shows (CommandMailbox); no candidate is saved twice, and a picture that
\* comes into use is the one on disk (ReferenceFlow).
LoopIsSafe ==
  /\ [](part = "mailbox" =>
          Mailbox!TypeOK /\ Mailbox!PendingIsUnderway /\ Mailbox!LastWins)
  /\ [](part = "reference" => Reference!TypeOK /\ Reference!SavedOnce)
  /\ Reference!MemoryFollowsDisk

\* Under a flood of commands restarts begin and output cycles go on
\* (CommandMailbox), and a save under way ends (ReferenceFlow).
LoopGoesOn ==
  /\ Mailbox!RestartBegins
  /\ part = "mailbox" => Mailbox!OutputGoesOn
  /\ Reference!InFlightEnds
===============================================================================
