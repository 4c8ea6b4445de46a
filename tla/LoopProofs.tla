------------------------------ MODULE LoopProofs ------------------------------
(***************************************************************************)
(* Proofs about the components that MCLoop composes: the pace of pictures, *)
(* the loop's mailbox, and the reference picture.  Every component has an  *)
(* inductive invariant of its own; a behaviour of MCLoop is a behaviour of *)
(* each of them, most of them resting.                                     *)
(***************************************************************************)
EXTENDS MCLoop, Sequences, TLAPS, WellFoundedInduction

----------------------------------------------------------------------------
(***************************************************************************)
(* The pace of pictures (FramePacing), for every interval, tolerance and   *)
(* time.                                                                   *)
(***************************************************************************)

\* The deadline is ahead of the last frame, but not by more than an interval
\* and the tolerance, and more than an interval ahead of the one before.
PaceInv ==
    /\ TypeOK
    /\ DeadlinesAccounted
    /\ accepted = 0 => deadline <= now
    /\ accepted > 0 => /\ deadline > last
                       /\ deadline <= last + Interval + Tolerance
    /\ accepted >= 2 => deadline > before + Interval

\* Whole intervals past a time that has gone by, and not one more.
LEMMA WholeIntervals ==
    ASSUME NEW elapsed \in Nat, NEW interval \in Nat \ {0}
    PROVE  LET steps == (elapsed \div interval) + 1
           IN /\ steps \in Nat \ {0}
              /\ interval * steps \in Nat
              /\ elapsed < interval * steps
              /\ interval * steps <= elapsed + interval
              /\ interval <= interval * steps
              /\ elapsed = 0 => interval * steps = interval
<1> DEFINE whole == elapsed \div interval
<1>1. /\ whole \in Nat
      /\ interval * whole <= elapsed
      /\ elapsed < interval * whole + interval
  BY SMT
<1>2. interval * (whole + 1) = interval * whole + interval
      /\ interval * whole \in Nat
  BY <1>1, SMT
<1>3. elapsed = 0 => interval * whole = 0
  BY <1>1, <1>2
<1> HIDE DEF whole
<1>4. /\ whole + 1 \in Nat \ {0}
      /\ interval * (whole + 1) \in Nat
      /\ elapsed < interval * (whole + 1)
      /\ interval * (whole + 1) <= elapsed + interval
      /\ interval <= interval * (whole + 1)
      /\ elapsed = 0 => interval * (whole + 1) = interval
  BY <1>1, <1>2, <1>3
<1> QED
  BY <1>4 DEF whole

\* The deadline is accounted for at the start.
LEMMA PaceInit == Init => PaceInv
BY PacingAssumption DEF Init, PaceInv, TypeOK, DeadlinesAccounted

\* A frame that is let through moves the deadline by whole intervals.
LEMMA PaceAccept ==
    ASSUME PaceInv, NEW time \in Nat, now <= time, Accept(time)
    PROVE  PaceInv'
<1> DEFINE ahead == Interval * Steps(time)
<1>1. Elapsed(time) \in Nat
  BY DEF PaceInv, TypeOK, Elapsed
<1>2. /\ Steps(time) \in Nat \ {0} /\ ahead \in Nat
      /\ Elapsed(time) < ahead
      /\ ahead <= Elapsed(time) + Interval
      /\ Interval <= ahead
      /\ Elapsed(time) = 0 => ahead = Interval
  BY <1>1, WholeIntervals, PacingAssumption DEF Steps
<1>3. /\ now' = time /\ before' = last /\ last' = time /\ start' = start
      /\ accepted' = accepted + 1
      /\ skipped' = skipped + (Steps(time) - 1)
      /\ deadline' = deadline + ahead
      /\ time + Tolerance >= deadline
  BY DEF Accept, IsDue
<1>4. deadline' > time /\ deadline' <= time + Interval + Tolerance
  <2> HIDE DEF ahead
  <2>1. CASE time > deadline
    <3>1. Elapsed(time) = time - deadline
      BY <2>1 DEF Elapsed
    <3> QED
      BY <1>2, <1>3, <2>1, <3>1, PacingAssumption DEF PaceInv, TypeOK
  <2>2. CASE ~(time > deadline)
    <3>1. ahead = Interval
      BY <1>2, <2>2 DEF Elapsed
    <3> QED
      BY <1>3, <2>2, <3>1, PacingAssumption DEF PaceInv, TypeOK
  <2> QED
    BY <2>1, <2>2
<1>5. accepted' >= 2 => deadline' > before' + Interval
  <2> HIDE DEF ahead
  <2>1. ASSUME accepted' >= 2 PROVE deadline > last
    BY <1>3, <2>1 DEF PaceInv, TypeOK
  <2> QED
    BY <1>2, <1>3, <2>1, PacingAssumption DEF PaceInv, TypeOK
<1>6. DeadlinesAccounted'
  <2>1. accepted' + skipped' = (accepted + skipped) + Steps(time)
    BY <1>2, <1>3 DEF PaceInv, TypeOK
  <2>2. \A m, n \in Nat : (m + n) * Interval = m * Interval + Interval * n
    BY PacingAssumption, SMT
  <2>3. accepted + skipped \in Nat
    BY DEF PaceInv, TypeOK
  <2>4. (accepted' + skipped') * Interval =
          (accepted + skipped) * Interval + ahead
    BY <1>2, <2>1, <2>2, <2>3
  <2>5. (accepted + skipped) * Interval \in Nat
    BY <2>3, PacingAssumption, SMT
  <2> HIDE DEF ahead
  <2> QED
    BY <1>2, <1>3, <2>4, <2>5 DEF PaceInv, TypeOK, DeadlinesAccounted
<1>7. TypeOK'
  <2> HIDE DEF ahead
  <2> QED
    BY <1>2, <1>3 DEF PaceInv, TypeOK
<1>8. accepted' > 0 /\ accepted' # 0 /\ last' = time
  BY <1>3 DEF PaceInv, TypeOK
<1> QED
  BY <1>4, <1>5, <1>6, <1>7, <1>8 DEF PaceInv

\* So does no other step.
LEMMA PaceNext == PaceInv /\ [Next]_vars => PaceInv'
<1> SUFFICES ASSUME PaceInv, [Next]_vars PROVE PaceInv'
  OBVIOUS
<1>1. CASE UNCHANGED vars
  BY <1>1 DEF PaceInv, TypeOK, DeadlinesAccounted, vars
<1>2. CASE Next
  <2>1. PICK gap \in Gaps :
          Accept(now + gap) \/ Skip(now + gap) \/ Restart(now + gap)
    BY <1>2 DEF Next
  <2>2. now + gap \in Nat /\ now <= now + gap
    BY PacingAssumption DEF PaceInv, TypeOK
  <2>3. CASE Accept(now + gap)
    BY <2>2, <2>3, PaceAccept
  <2>4. CASE Skip(now + gap)
    BY <2>2, <2>4 DEF Skip, PaceInv, TypeOK, DeadlinesAccounted
  <2>5. CASE Restart(now + gap)
    BY <2>2, <2>5, PacingAssumption
       DEF Restart, PaceInv, TypeOK, DeadlinesAccounted
  <2> QED
    BY <2>1, <2>3, <2>4, <2>5
<1> QED
  BY <1>1, <1>2

----------------------------------------------------------------------------
\* For every interval and tolerance, no deadline is forgotten and the
\* deadlines do not drift.
THEOREM NothingForgotten == Spec => []DeadlinesAccounted
<1>1. PaceInv => DeadlinesAccounted
  BY DEF PaceInv
<1> QED
  BY <1>1, PaceInit, PaceNext, PTL DEF Spec

\* For every interval and tolerance, no three frames pass within an interval.
THEOREM NeverBursts == Spec => NoBurst
<1>1. PaceInv /\ [Next]_vars =>
        [(accepted >= 2 /\ accepted' > accepted)
           => (last' - before > Interval - Tolerance)]_vars
  <2> SUFFICES ASSUME PaceInv, Next, accepted >= 2, accepted' > accepted
               PROVE  last' - before > Interval - Tolerance
    OBVIOUS
  <2>1. PICK gap \in Gaps :
          Accept(now + gap) \/ Skip(now + gap) \/ Restart(now + gap)
    BY DEF Next
  <2>2. now + gap \in Nat
    BY PacingAssumption DEF PaceInv, TypeOK
  <2>3. Accept(now + gap)
    BY <2>1 DEF Skip, Restart, PaceInv, TypeOK
  <2>4. last' = now + gap /\ now + gap + Tolerance >= deadline
    BY <2>3 DEF Accept, IsDue
  <2> QED
    BY <2>2, <2>4, PacingAssumption DEF PaceInv, TypeOK
<1> QED
  BY <1>1, PaceInit, PaceNext, PTL DEF Spec, NoBurst

\* For every interval and tolerance, a frame is passed over only less than an
\* interval after one that was not.
THEOREM NothingElseIsPassedOver == Spec => PassedOverIsCovered
<1>1. PaceInv /\ [Next]_vars =>
        [(now' # now /\ accepted' = accepted /\ start' = start)
           => (accepted > 0 /\ now' < last + Interval)]_vars
  <2> SUFFICES ASSUME PaceInv, Next, now' # now, accepted' = accepted,
                      start' = start
               PROVE  accepted > 0 /\ now' < last + Interval
    OBVIOUS
  <2>1. PICK gap \in Gaps :
          Accept(now + gap) \/ Skip(now + gap) \/ Restart(now + gap)
    BY DEF Next
  <2>2. now + gap \in Nat /\ now <= now + gap
    BY PacingAssumption DEF PaceInv, TypeOK
  <2>3. ~Accept(now + gap)
    BY DEF Accept, PaceInv, TypeOK
  <2>4. ~Restart(now + gap)
    BY <2>2 DEF Restart, PaceInv, TypeOK
  <2>5. Skip(now + gap)
    BY <2>1, <2>3, <2>4
  <2>6. now' = now + gap /\ now + gap + Tolerance < deadline
    BY <2>2, <2>5, PacingAssumption DEF Skip, IsDue, PaceInv, TypeOK
  <2> QED
    BY <2>2, <2>6, PacingAssumption DEF PaceInv, TypeOK
<1> QED
  BY <1>1, PaceInit, PaceNext, PTL DEF Spec, PassedOverIsCovered

\* Both: a steady rate, for every interval and tolerance.
THEOREM SteadyRate == Spec => Paced
  BY NeverBursts, NothingElseIsPassedOver DEF Paced

----------------------------------------------------------------------------
(***************************************************************************)
(* The mailbox (CommandMailbox).                                           *)
(***************************************************************************)

\* A target is queued.
IsQueued(t)   == \E i \in DOMAIN ordered : ordered[i] = Mailbox!Restart(t)
\* It was received and its restart has not begun.
IsReceived(t) == held = Mailbox!Restart(t) /\ marked = "no"

\* What PendingIsUnderway says of one target.
Once(t) ==
  /\ t \in pendingRestarts <=> sending = t \/ IsQueued(t) \/ IsReceived(t)
  /\ \A i, j \in DOMAIN ordered :
       ordered[i] = Mailbox!Restart(t) /\ ordered[j] = Mailbox!Restart(t) => i = j
  /\ ~(IsQueued(t) /\ IsReceived(t))
  /\ ~(sending = t /\ (IsQueued(t) \/ IsReceived(t)))

\* The mode in which the runtime will be once all that waits was run is the one
\* the interface shows.  Settings are taken before a mode, so theirs counts only
\* while no mode waits; and the command that was received counts only while
\* neither does.
LastIsWish ==
  IF modeSlot # Mailbox!Nothing THEN modeSlot = Mailbox!SetMode(wish)
  ELSE IF settings # Mailbox!Nothing THEN Mailbox!ModeOf(settings) = wish
  ELSE IF held \in Mailbox!SettingsCommands \cup Mailbox!ModeCommands
        THEN Mailbox!ModeOf(held) = wish
  ELSE mode = wish

\* The queue is a sequence of ordered commands.
MailboxTyped == Mailbox!TypeOK /\ ordered \in Seq(Mailbox!OrderedCommands)

\* The inductive invariant of the mailbox.
MailboxInv ==
  /\ MailboxTyped
  /\ inbox = "open" => \A t \in Targets : Once(t)
  /\ reloads = 0 /\ inbox = "open" => LastIsWish

\* What the proofs need to know of the constants.
LEMMA MailboxConstants ==
  /\ Mailbox!NoTarget \notin Targets
  /\ Capacity \in Nat /\ Capacity > 0 /\ Burst \in Nat /\ Burst > 0
  /\ MaxReloads \in Nat
BY LoopAssumption DEF Mailbox!MailboxAssumption, Mailbox!NoTarget

\* The commands of the three kinds, and what they carry.
LEMMA CommandShapes ==
  /\ \A c \in Mailbox!SettingsCommands :
       /\ Mailbox!ModeOf(c) \in Modes
       /\ Mailbox!Kind(c) \in {"UpdateSettings", "ReloadSettings"}
  /\ \A c \in Mailbox!ModeCommands : Mailbox!ModeOf(c) \in Modes
        /\ Mailbox!Kind(c) = "SetMode"
  /\ \A c \in Mailbox!OrderedCommands \cup {Mailbox!Nothing} :
       Mailbox!Kind(c) \notin {"UpdateSettings", "ReloadSettings", "SetMode"}
  /\ \A c \in Mailbox!OrderedCommands : Mailbox!Kind(c) \in {"Restart", "Toggle"}
  /\ \A c \in Mailbox!OrderedCommands :
       Mailbox!Kind(c) = "Restart" =>
         Mailbox!Target(c) \in Targets /\ c = Mailbox!Restart(Mailbox!Target(c))
  /\ Mailbox!Nothing \notin Mailbox!OrderedCommands \cup Mailbox!SettingsCommands
        \cup Mailbox!ModeCommands
  /\ Mailbox!Kind(Mailbox!Nothing) = "Nothing"
BY DEF Mailbox!OrderedCommands, Mailbox!SettingsCommands, Mailbox!ModeCommands,
   Mailbox!Toggle, Mailbox!Restart, Mailbox!ModeOf, Mailbox!Kind,
   Mailbox!Target, Mailbox!Nothing, Mailbox!Update, Mailbox!Reload, Mailbox!SetMode

\* The commands that the interface makes.
LEMMA CommandsMade ==
  /\ Mailbox!Toggle \in Mailbox!OrderedCommands /\ Mailbox!Kind(Mailbox!Toggle) = "Toggle"
  /\ \A t \in Targets : Mailbox!Restart(t) \in Mailbox!OrderedCommands
        /\ Mailbox!Kind(Mailbox!Restart(t)) = "Restart"
                        /\ Mailbox!Target(Mailbox!Restart(t)) = t
  /\ \A m \in Modes :
       /\ Mailbox!SetMode(m) \in Mailbox!ModeCommands
             /\ Mailbox!ModeOf(Mailbox!SetMode(m)) = m
       /\ Mailbox!Update(m) \in Mailbox!SettingsCommands
             /\ Mailbox!ModeOf(Mailbox!Update(m)) = m
       /\ Mailbox!Reload(m) \in Mailbox!SettingsCommands
BY DEF Mailbox!OrderedCommands, Mailbox!SettingsCommands, Mailbox!ModeCommands,
   Mailbox!Toggle, Mailbox!Restart, Mailbox!ModeOf, Mailbox!Kind,
   Mailbox!Target, Mailbox!Update, Mailbox!Reload, Mailbox!SetMode

\* The invariant says what the two properties say.
LEMMA MailboxInvImplies ==
  ASSUME MailboxInv
  PROVE  Mailbox!TypeOK /\ Mailbox!PendingIsUnderway /\ Mailbox!LastWins
<1>1. Mailbox!PendingIsUnderway
  BY DEF MailboxInv, Once, IsQueued, IsReceived, Mailbox!PendingIsUnderway
<1>2. Mailbox!LastWins
  <2> SUFFICES ASSUME reloads = 0, inbox = "open",
                      settings = Mailbox!Nothing, modeSlot = Mailbox!Nothing,
                      Mailbox!Kind(held) \notin
                        {"SetMode", "UpdateSettings", "ReloadSettings"}
               PROVE  mode = wish
    BY DEF Mailbox!LastWins
  <2>1. held \notin Mailbox!SettingsCommands \cup Mailbox!ModeCommands
    BY CommandShapes
  <2> QED BY <2>1 DEF MailboxInv, LastIsWish
<1> QED BY <1>1, <1>2 DEF MailboxInv, MailboxTyped

\* The invariant holds at the start.
LEMMA MailboxInit == Mailbox!Init => MailboxInv
<1> SUFFICES ASSUME Mailbox!Init PROVE MailboxInv
  OBVIOUS
<1>1. MailboxTyped
  BY MailboxConstants DEF Mailbox!Init, MailboxTyped, Mailbox!TypeOK, Mailbox!Queued
<1>2. ASSUME NEW t \in Targets PROVE Once(t)
  BY MailboxConstants, CommandShapes, CommandsMade DEF Mailbox!Init, Once, IsQueued,
     IsReceived
<1>3. LastIsWish
  BY CommandShapes DEF Mailbox!Init, LastIsWish
<1> QED BY <1>1, <1>2, <1>3 DEF MailboxInv

\* A queue that grows at its end.
LEMMA QueueGrows ==
  ASSUME NEW q \in Seq(Mailbox!OrderedCommands), NEW c \in Mailbox!OrderedCommands
  PROVE  /\ Append(q, c) \in Seq(Mailbox!OrderedCommands)
         /\ Len(Append(q, c)) = Len(q) + 1
         /\ DOMAIN Append(q, c) = 1 .. Len(q) + 1 /\ DOMAIN q = 1 .. Len(q)
         /\ \A i \in DOMAIN q : Append(q, c)[i] = q[i]
         /\ Append(q, c)[Len(q) + 1] = c
         /\ Len(q) \in Nat
OBVIOUS

\* A queue whose first command is taken.
LEMMA QueueShrinks ==
  ASSUME NEW q \in Seq(Mailbox!OrderedCommands), q # <<>>
  PROVE  /\ Head(q) \in Mailbox!OrderedCommands /\ Head(q) = q[1]
         /\ Tail(q) \in Seq(Mailbox!OrderedCommands) /\ Len(Tail(q)) = Len(q) - 1
         /\ DOMAIN Tail(q) = 1 .. Len(q) - 1 /\ DOMAIN q = 1 .. Len(q)
         /\ \A i \in 1 .. Len(q) - 1 : Tail(q)[i] = q[i + 1]
         /\ Len(q) \in Nat /\ Len(q) > 0
OBVIOUS

\* Nothing that a target's restart is about has changed.
LEMMA OnceStays ==
  ASSUME NEW t \in Targets, Once(t),
         UNCHANGED <<pendingRestarts, sending, ordered, held, marked>>
  PROVE  Once(t)'
BY DEF Once, IsQueued, IsReceived

\* Nothing that the mode depends on has changed.
LEMMA LastStays ==
  ASSUME LastIsWish, UNCHANGED <<wish, settings, modeSlot, held, mode>>
  PROVE  LastIsWish'
BY DEF LastIsWish

\* A call of the interface preserves the types.
LEMMA InterfaceTyped ==
  ASSUME MailboxTyped, Mailbox!Interface
  PROVE  MailboxTyped'
<1> USE MailboxConstants, CommandsMade DEF MailboxTyped, Mailbox!TypeOK,
      Mailbox!Queued, Mailbox!engineVars, Mailbox!uiVars, Mailbox!slotVars
<1>1. CASE Mailbox!UiSetMode
  BY <1>1 DEF Mailbox!UiSetMode
<1>2. CASE Mailbox!UiChangeSetting
  BY <1>2 DEF Mailbox!UiChangeSetting
<1>3. CASE Mailbox!UiFlush
  BY <1>3 DEF Mailbox!UiFlush
<1>4. CASE Mailbox!UiReload
  BY <1>4 DEF Mailbox!UiReload
<1>5. CASE Mailbox!UiToggle
  <2>1. ordered' \in Seq(Mailbox!OrderedCommands) /\ Len(ordered') <= Capacity
    BY <1>5, QueueGrows DEF Mailbox!UiToggle
  <2> QED BY <1>5, <2>1 DEF Mailbox!UiToggle
<1>6. CASE Mailbox!UiRestart
  BY <1>6 DEF Mailbox!UiRestart
<1>7. CASE Mailbox!UiRestartSend
  <2>1. sending \in Targets
    BY <1>7 DEF Mailbox!UiRestartSend
  <2>2. ordered' \in Seq(Mailbox!OrderedCommands) /\ Len(ordered') <= Capacity
    BY <1>7, <2>1, QueueGrows DEF Mailbox!UiRestartSend
  <2> QED BY <1>7, <2>1, <2>2 DEF Mailbox!UiRestartSend
<1>8. CASE Mailbox!UiExit
  BY <1>8 DEF Mailbox!UiExit
<1> QED BY <1>1, <1>2, <1>3, <1>4, <1>5, <1>6, <1>7, <1>8 DEF Mailbox!Interface

\* A step of the runtime preserves the types.
LEMMA EngineTyped ==
  ASSUME MailboxTyped, Mailbox!Engine
  PROVE  MailboxTyped'
<1> USE MailboxConstants, CommandShapes DEF MailboxTyped, Mailbox!TypeOK,
      Mailbox!Queued, Mailbox!uiVars, Mailbox!slotVars
<1>1. CASE Mailbox!TurnBegins
  BY <1>1 DEF Mailbox!TurnBegins
<1>2. CASE Mailbox!Receive
  <2>1. CASE Mailbox!ReceiveOrdered
    <3>1. held' \in Mailbox!OrderedCommands /\ ordered' \in Seq(Mailbox!OrderedCommands)
          /\ Len(ordered') <= Capacity
      BY <2>1, QueueShrinks DEF Mailbox!ReceiveOrdered
    <3> QED BY <1>2, <2>1, <3>1 DEF Mailbox!Receive, Mailbox!ReceiveOrdered
  <2>2. CASE Mailbox!ReceiveCoalesced
    BY <1>2, <2>2 DEF Mailbox!Receive, Mailbox!ReceiveCoalesced, Mailbox!TakeCoalesced
  <2> QED BY <1>2, <2>1, <2>2 DEF Mailbox!Receive
<1>3. CASE Mailbox!WaitEnds
  BY <1>3 DEF Mailbox!WaitEnds
<1>4. CASE Mailbox!MarkDequeued
  BY <1>4 DEF Mailbox!MarkDequeued
<1>5. CASE Mailbox!Run
  <2>1. mode' \in Modes
    BY <1>5 DEF Mailbox!Run
  <2>2. processed' \in 0..Burst /\ sinceCycle' \in 0..Burst + 1
    BY <1>5 DEF Mailbox!Run
  <2> QED BY <1>5, <2>1, <2>2 DEF Mailbox!Run
<1>6. CASE Mailbox!DrainEnds
  BY <1>6 DEF Mailbox!DrainEnds
<1>7. CASE Mailbox!Cycle
  BY <1>7 DEF Mailbox!Cycle
<1>8. CASE Mailbox!LoopEnds
  BY <1>8 DEF Mailbox!LoopEnds
<1>9. CASE Mailbox!InboxDropped
  <2>1. ordered' \in Seq(Mailbox!OrderedCommands) /\ Len(ordered') = 0
    BY <1>9 DEF Mailbox!InboxDropped
  <2> QED BY <1>9, <2>1 DEF Mailbox!InboxDropped, Mailbox!engineVars
<1> QED BY <1>1, <1>2, <1>3, <1>4, <1>5, <1>6, <1>7, <1>8, <1>9 DEF Mailbox!Engine

\* A target's restart is under way once, whoever moves.
LEMMA OnceKept ==
  ASSUME MailboxTyped, Mailbox!Next, NEW t \in Targets, Once(t), inbox = "open",
        inbox' = "open"
  PROVE  Once(t)'
<1> USE DEF MailboxTyped
<1>1. ordered \in Seq(Mailbox!OrderedCommands) /\ sending \in Targets
      \cup {Mailbox!NoTarget}
  BY DEF Mailbox!TypeOK
<1>2. CASE UNCHANGED <<pendingRestarts, sending, ordered, held, marked>>
  BY <1>2, OnceStays
<1>3. CASE Mailbox!UiToggle
  <2>1. /\ ordered' = Append(ordered, Mailbox!Toggle)
        /\ UNCHANGED <<pendingRestarts, sending, held, marked>>
    BY <1>3 DEF Mailbox!UiToggle, Mailbox!uiVars, Mailbox!engineVars
  <2>2. Mailbox!Toggle # Mailbox!Restart(t)
    BY CommandsMade
  <2>3. \A i \in DOMAIN ordered' :
          ordered'[i] = Mailbox!Restart(t)
                => i \in DOMAIN ordered /\ ordered[i] = Mailbox!Restart(t)
    BY <1>1, <2>1, <2>2, QueueGrows, CommandsMade
  <2>4. \A i \in DOMAIN ordered : i \in DOMAIN ordered' /\ ordered'[i] = ordered[i]
    BY <1>1, <2>1, QueueGrows, CommandsMade
  <2>5. IsQueued(t)' <=> IsQueued(t)
    BY <2>3, <2>4 DEF IsQueued
  <2>6. IsReceived(t)' <=> IsReceived(t)
    BY <2>1 DEF IsReceived
  <2> QED BY <2>1, <2>3, <2>5, <2>6 DEF Once
<1>4. CASE Mailbox!UiRestart
  <2>1. sending = Mailbox!NoTarget /\ UNCHANGED <<ordered, held, marked>>
    BY <1>4 DEF Mailbox!UiRestart, Mailbox!engineVars
  <2>2. (IsQueued(t)' <=> IsQueued(t)) /\ (IsReceived(t)' <=> IsReceived(t))
    BY <2>1 DEF IsQueued, IsReceived
  <2>3. PICK u \in Targets :
          \/ u \in pendingRestarts /\ UNCHANGED <<sending, pendingRestarts>>
          \/ /\ u \notin pendingRestarts
             /\ pendingRestarts' = pendingRestarts \cup {u} /\ sending' = u
    BY <1>4 DEF Mailbox!UiRestart
  <2>4. sending # t
    BY <2>1, MailboxConstants
  <2>5. CASE UNCHANGED <<sending, pendingRestarts>>
    BY <2>1, <2>2, <2>5 DEF Once
  <2>6. CASE u \notin pendingRestarts /\ pendingRestarts' = pendingRestarts \cup {u}
             /\ sending' = u
    BY <2>1, <2>2, <2>4, <2>6 DEF Once
  <2> QED BY <2>3, <2>5, <2>6
<1>5. CASE Mailbox!UiRestartSend
  <2>1. sending \in Targets /\ sending' = Mailbox!NoTarget /\ sending' # t
        /\ UNCHANGED <<held, marked>>
    BY <1>1, <1>5, MailboxConstants DEF Mailbox!UiRestartSend, Mailbox!engineVars
  <2>2. IsReceived(t)' <=> IsReceived(t)
    BY <2>1 DEF IsReceived
  <2>3. CASE ordered' = Append(ordered, Mailbox!Restart(sending))
        /\ UNCHANGED pendingRestarts
    <3>1. Mailbox!Restart(sending) \in Mailbox!OrderedCommands
          /\ (Mailbox!Restart(sending) = Mailbox!Restart(t) => sending = t)
      BY <2>1, CommandsMade
    <3>2. \A i \in DOMAIN ordered : i \in DOMAIN ordered' /\ ordered'[i] = ordered[i]
      BY <1>1, <2>3, <3>1, QueueGrows
    <3>3. \A i \in DOMAIN ordered' :
            ordered'[i] = Mailbox!Restart(t) =>
              \/ i \in DOMAIN ordered /\ ordered[i] = Mailbox!Restart(t)
              \/ sending = t /\ i = Len(ordered) + 1
      BY <1>1, <2>3, <3>1, QueueGrows
    <3>4. CASE sending # t
      <4>1. IsQueued(t)' <=> IsQueued(t)
        BY <3>2, <3>3, <3>4 DEF IsQueued
      <4> QED BY <2>1, <2>2, <2>3, <3>3, <3>4, <4>1 DEF Once
    <3>5. CASE sending = t
      <4>1. ~IsQueued(t) /\ ~IsReceived(t) /\ t \in pendingRestarts
        BY <3>5 DEF Once
      <4>2. Len(ordered) + 1 \in DOMAIN ordered'
            /\ ordered'[Len(ordered) + 1] = Mailbox!Restart(t)
        BY <1>1, <2>3, <3>1, <3>5, QueueGrows
      <4>3. IsQueued(t)'
        BY <4>2 DEF IsQueued
      <4>4. \A i \in DOMAIN ordered' : ordered'[i] = Mailbox!Restart(t)
            => i = Len(ordered) + 1
        BY <3>3, <4>1 DEF IsQueued
      <4> QED BY <2>1, <2>2, <2>3, <4>1, <4>3, <4>4 DEF Once
    <3> QED BY <3>4, <3>5
  <2>4. CASE pendingRestarts' = pendingRestarts \ {sending} /\ UNCHANGED ordered
    <3>1. IsQueued(t)' <=> IsQueued(t)
      BY <2>4 DEF IsQueued
    <3> QED BY <2>1, <2>2, <2>4, <3>1 DEF Once
  <2> QED BY <1>5, <2>3, <2>4 DEF Mailbox!UiRestartSend
<1>6. CASE Mailbox!Receive
  <2>1. held = Mailbox!Nothing /\ marked' = "no" /\ UNCHANGED <<pendingRestarts, sending>>
    BY <1>6 DEF Mailbox!Receive, Mailbox!uiVars
  <2>2. ~IsReceived(t)
    BY <2>1, CommandShapes, CommandsMade DEF IsReceived
  <2>3. CASE Mailbox!ReceiveOrdered
    <3>1. ordered # <<>> /\ held' = Head(ordered) /\ ordered' = Tail(ordered)
      BY <2>3 DEF Mailbox!ReceiveOrdered
    <3>2. /\ held' = ordered[1] /\ DOMAIN ordered = 1 .. Len(ordered)
          /\ DOMAIN ordered' = 1 .. Len(ordered) - 1 /\ Len(ordered) \in Nat
                /\ Len(ordered) > 0
          /\ \A i \in 1 .. Len(ordered) - 1 : ordered'[i] = ordered[i + 1]
      BY <1>1, <3>1, QueueShrinks
    <3>3. IsReceived(t)' <=> ordered[1] = Mailbox!Restart(t)
      BY <2>1, <3>2 DEF IsReceived
    <3>4. \A i \in DOMAIN ordered' : i + 1 \in DOMAIN ordered
          /\ ordered'[i] = ordered[i + 1]
      BY <3>2
    <3>5. \A i \in DOMAIN ordered :
            i # 1 => i - 1 \in DOMAIN ordered' /\ ordered'[i - 1] = ordered[i]
      <4> SUFFICES ASSUME NEW i \in DOMAIN ordered, i # 1
                   PROVE  i - 1 \in DOMAIN ordered' /\ ordered'[i - 1] = ordered[i]
        OBVIOUS
      <4>1. i - 1 \in 1 .. Len(ordered) - 1 /\ (i - 1) + 1 = i
        BY <3>2
      <4>2. ordered'[i - 1] = ordered[(i - 1) + 1]
        BY <3>2, <4>1
      <4> QED BY <3>2, <4>1, <4>2
    <3>6. 1 \in DOMAIN ordered
      BY <3>2
    <3>7. IsQueued(t)' \/ IsReceived(t)' <=> IsQueued(t)
      BY <3>3, <3>4, <3>5, <3>6 DEF IsQueued
    <3>8. \A i, j \in DOMAIN ordered' :
            ordered'[i] = Mailbox!Restart(t) /\ ordered'[j] = Mailbox!Restart(t) => i = j
      <4> SUFFICES ASSUME NEW i \in DOMAIN ordered', NEW j \in DOMAIN ordered',
                          ordered'[i] = Mailbox!Restart(t), ordered'[j] = Mailbox!Restart(t)
                   PROVE  i = j
        OBVIOUS
      <4>1. i + 1 = j + 1
        BY <3>4 DEF Once
      <4> QED BY <3>2, <4>1
    <3>9. ~(IsQueued(t)' /\ IsReceived(t)')
      <4> SUFFICES ASSUME NEW i \in DOMAIN ordered', ordered'[i] = Mailbox!Restart(t),
                          ordered[1] = Mailbox!Restart(t)
                   PROVE  FALSE
        BY <3>3 DEF IsQueued
      <4>1. i + 1 = 1
        BY <3>4, <3>6 DEF Once
      <4> QED BY <3>2, <4>1
    <3> QED BY <2>1, <2>2, <3>7, <3>8, <3>9 DEF Once
  <2>4. CASE Mailbox!ReceiveCoalesced
    <3>1. UNCHANGED ordered /\ held' \in Mailbox!SettingsCommands
          \cup Mailbox!ModeCommands \cup {Mailbox!Nothing}
      BY <2>4 DEF Mailbox!ReceiveCoalesced, Mailbox!TakeCoalesced, Mailbox!TypeOK
    <3>2. held' # Mailbox!Restart(t)
      BY <3>1, CommandShapes, CommandsMade
    <3>3. ~IsReceived(t)' /\ (IsQueued(t)' <=> IsQueued(t))
      BY <3>1, <3>2 DEF IsReceived, IsQueued
    <3> QED BY <2>1, <2>2, <3>1, <3>3 DEF Once
  <2> QED BY <1>6, <2>3, <2>4 DEF Mailbox!Receive
<1>7. CASE Mailbox!MarkDequeued
  <2>1. marked = "no" /\ marked' = "yes" /\ UNCHANGED <<sending, ordered, held>>
    BY <1>7 DEF Mailbox!MarkDequeued, Mailbox!uiVars
  <2>2. ~IsReceived(t)' /\ (IsQueued(t)' <=> IsQueued(t))
    BY <2>1 DEF IsReceived, IsQueued
  <2>3. CASE held = Mailbox!Restart(t)
    <3>1. pendingRestarts' = pendingRestarts \ {t}
      BY <1>7, <2>3, CommandsMade DEF Mailbox!MarkDequeued
    <3>2. IsReceived(t)
      BY <2>1, <2>3 DEF IsReceived
    <3> QED BY <2>1, <2>2, <3>1, <3>2 DEF Once
  <2>4. CASE held # Mailbox!Restart(t)
    <3>1. ~IsReceived(t)
      BY <2>4 DEF IsReceived
    <3>2. held \in Mailbox!OrderedCommands \cup Mailbox!SettingsCommands
          \cup Mailbox!ModeCommands \cup {Mailbox!Nothing}
      BY DEF Mailbox!TypeOK
    <3>3. Mailbox!Kind(held) = "Restart" => held = Mailbox!Restart(Mailbox!Target(held))
      BY <3>2, CommandShapes
    <3>4. t \in pendingRestarts' <=> t \in pendingRestarts
      BY <1>7, <2>4, <3>3 DEF Mailbox!MarkDequeued
    <3> QED BY <2>1, <2>2, <3>1, <3>4 DEF Once
  <2> QED BY <2>3, <2>4
<1>8. CASE Mailbox!Run
  <2>1. marked = "yes" /\ UNCHANGED <<pendingRestarts, sending, ordered, marked>>
    BY <1>8 DEF Mailbox!Run, Mailbox!uiVars
  <2>2. ~IsReceived(t) /\ ~IsReceived(t)' /\ (IsQueued(t)' <=> IsQueued(t))
    BY <2>1 DEF IsReceived, IsQueued
  <2> QED BY <2>1, <2>2 DEF Once
<1> QED
  BY <1>2, <1>3, <1>4, <1>5, <1>6, <1>7, <1>8 DEF Mailbox!Next, Mailbox!Interface,
     Mailbox!Engine, Mailbox!UiSetMode,
     Mailbox!UiChangeSetting, Mailbox!UiFlush, Mailbox!UiReload, Mailbox!UiExit,
     Mailbox!TurnBegins, Mailbox!WaitEnds, Mailbox!DrainEnds, Mailbox!Cycle,
     Mailbox!LoopEnds, Mailbox!InboxDropped, Mailbox!uiVars, Mailbox!engineVars

\* What waits ends in the mode the interface shows, whoever moves, as long as no
\* profile was loaded.
LEMMA LastKept ==
  ASSUME MailboxTyped, Mailbox!Next, inbox = "open", inbox' = "open", reloads' = 0,
         reloads = 0 => LastIsWish
  PROVE  LastIsWish'
<1>1. reloads = 0 /\ LastIsWish
  <2>1. reloads \in Nat
    BY MailboxConstants DEF MailboxTyped, Mailbox!TypeOK
  <2>2. reloads' = reloads \/ reloads' = reloads + 1
    BY DEF Mailbox!Next, Mailbox!Interface, Mailbox!Engine, Mailbox!UiSetMode,
       Mailbox!UiChangeSetting, Mailbox!UiFlush, Mailbox!UiReload, Mailbox!UiToggle,
       Mailbox!UiRestart, Mailbox!UiRestartSend, Mailbox!UiExit, Mailbox!TurnBegins,
       Mailbox!Receive, Mailbox!WaitEnds, Mailbox!MarkDequeued, Mailbox!Run,
       Mailbox!DrainEnds, Mailbox!Cycle, Mailbox!LoopEnds, Mailbox!InboxDropped,
       Mailbox!uiVars
  <2>3. reloads = 0
    BY <2>1, <2>2
  <2> QED BY <2>3
<1>2. CASE UNCHANGED <<wish, settings, modeSlot, held, mode>>
  BY <1>1, <1>2, LastStays
<1>3. CASE Mailbox!UiSetMode
  <2>1. wish' \in Modes /\ modeSlot' = Mailbox!SetMode(wish')
    BY <1>3 DEF Mailbox!UiSetMode
  <2>2. modeSlot' # Mailbox!Nothing
    BY <2>1, CommandsMade, CommandShapes
  <2> QED BY <2>1, <2>2 DEF LastIsWish
<1>4. CASE Mailbox!UiFlush
  <2>1. settings' = Mailbox!Update(wish) /\ wish \in Modes /\ UNCHANGED <<wish, modeSlot>>
    BY <1>4 DEF Mailbox!UiFlush, MailboxTyped, Mailbox!TypeOK
  <2>2. settings' # Mailbox!Nothing /\ Mailbox!ModeOf(settings') = wish
    BY <2>1, CommandsMade, CommandShapes
  <2> QED BY <1>1, <2>1, <2>2 DEF LastIsWish
<1>5. CASE Mailbox!UiReload
  BY <1>1, <1>5 DEF Mailbox!UiReload
<1>6. CASE Mailbox!Receive
  <2>1. held = Mailbox!Nothing /\ UNCHANGED <<wish, mode>>
    BY <1>6 DEF Mailbox!Receive, Mailbox!uiVars
  <2>2. held \notin Mailbox!SettingsCommands \cup Mailbox!ModeCommands
    BY <2>1, CommandShapes
  <2>3. CASE Mailbox!ReceiveOrdered
    <3>1. UNCHANGED <<settings, modeSlot>> /\ held' \in Mailbox!OrderedCommands
      BY <2>3, QueueShrinks DEF Mailbox!ReceiveOrdered, Mailbox!slotVars, MailboxTyped
    <3>2. held' \notin Mailbox!SettingsCommands \cup Mailbox!ModeCommands
      BY <3>1, CommandShapes
    <3> QED BY <1>1, <2>1, <2>2, <3>1, <3>2 DEF LastIsWish
  <2>4. CASE Mailbox!ReceiveCoalesced /\ settings # Mailbox!Nothing
    <3>1. held' = settings /\ settings' = Mailbox!Nothing /\ UNCHANGED modeSlot
      BY <2>4 DEF Mailbox!ReceiveCoalesced, Mailbox!TakeCoalesced
    <3>2. settings \in Mailbox!SettingsCommands
      BY <2>4 DEF MailboxTyped, Mailbox!TypeOK
    <3> QED BY <1>1, <2>1, <2>4, <3>1, <3>2 DEF LastIsWish
  <2>5. CASE Mailbox!ReceiveCoalesced /\ settings = Mailbox!Nothing
    <3>1. held' = modeSlot /\ modeSlot' = Mailbox!Nothing /\ UNCHANGED settings
          /\ modeSlot # Mailbox!Nothing
      BY <2>5 DEF Mailbox!ReceiveCoalesced, Mailbox!TakeCoalesced
    <3>2. modeSlot = Mailbox!SetMode(wish) /\ wish \in Modes
          /\ modeSlot \in Mailbox!ModeCommands
      BY <1>1, <3>1 DEF LastIsWish, MailboxTyped, Mailbox!TypeOK
    <3>3. Mailbox!ModeOf(held') = wish
      BY <3>1, <3>2, CommandsMade
    <3> QED BY <2>1, <2>5, <3>1, <3>2, <3>3 DEF LastIsWish
  <2> QED BY <1>6, <2>3, <2>4, <2>5 DEF Mailbox!Receive
<1>7. CASE Mailbox!Run
  <2>1. held' = Mailbox!Nothing /\ UNCHANGED <<wish, settings, modeSlot>>
    BY <1>7 DEF Mailbox!Run, Mailbox!uiVars, Mailbox!slotVars
  <2>2. held' \notin Mailbox!SettingsCommands \cup Mailbox!ModeCommands
    BY <2>1, CommandShapes
  <2>3. held \in Mailbox!OrderedCommands \cup Mailbox!SettingsCommands
        \cup Mailbox!ModeCommands \cup {Mailbox!Nothing}
    BY DEF MailboxTyped, Mailbox!TypeOK
  <2>4. CASE held \in Mailbox!SettingsCommands \cup Mailbox!ModeCommands
    <3>1. mode' = Mailbox!ModeOf(held)
      BY <1>7, <2>4, CommandShapes DEF Mailbox!Run
    <3> QED BY <1>1, <2>1, <2>2, <2>4, <3>1 DEF LastIsWish
  <2>5. CASE held \notin Mailbox!SettingsCommands \cup Mailbox!ModeCommands
    <3>1. mode' = mode
      BY <1>7, <2>3, <2>5, CommandShapes DEF Mailbox!Run
    <3> QED BY <1>1, <2>1, <2>2, <2>5, <3>1 DEF LastIsWish
  <2> QED BY <2>4, <2>5
<1> QED
  BY <1>2, <1>3, <1>4, <1>5, <1>6, <1>7 DEF Mailbox!Next, Mailbox!Interface,
     Mailbox!Engine, Mailbox!UiChangeSetting,
     Mailbox!UiToggle, Mailbox!UiRestart, Mailbox!UiRestartSend, Mailbox!UiExit,
     Mailbox!TurnBegins, Mailbox!WaitEnds, Mailbox!MarkDequeued,
     Mailbox!DrainEnds, Mailbox!Cycle, Mailbox!LoopEnds, Mailbox!InboxDropped,
     Mailbox!uiVars, Mailbox!slotVars, Mailbox!engineVars

\* Every step keeps the invariant.
LEMMA MailboxNext == MailboxInv /\ [Mailbox!Next]_(Mailbox!vars) => MailboxInv'
<1> SUFFICES ASSUME MailboxInv, [Mailbox!Next]_(Mailbox!vars) PROVE MailboxInv'
  OBVIOUS
<1>1. CASE Mailbox!Next
  <2>1. MailboxTyped'
    BY <1>1, InterfaceTyped, EngineTyped DEF MailboxInv, Mailbox!Next
  <2>2. inbox' = "open" => inbox = "open"
    BY <1>1 DEF Mailbox!Next, Mailbox!Interface, Mailbox!Engine, Mailbox!UiSetMode,
       Mailbox!UiChangeSetting, Mailbox!UiFlush, Mailbox!UiReload, Mailbox!UiToggle,
       Mailbox!UiRestart, Mailbox!UiRestartSend, Mailbox!UiExit, Mailbox!TurnBegins,
       Mailbox!Receive, Mailbox!WaitEnds, Mailbox!MarkDequeued, Mailbox!Run,
       Mailbox!DrainEnds, Mailbox!Cycle, Mailbox!LoopEnds, Mailbox!InboxDropped
  <2>3. ASSUME inbox' = "open", NEW t \in Targets PROVE Once(t)'
    BY <1>1, <2>2, <2>3, OnceKept DEF MailboxInv
  <2>4. ASSUME inbox' = "open", reloads' = 0 PROVE LastIsWish'
    BY <1>1, <2>2, <2>4, LastKept DEF MailboxInv
  <2> QED BY <2>1, <2>3, <2>4 DEF MailboxInv
<1>2. CASE UNCHANGED Mailbox!vars
  BY <1>2 DEF MailboxInv, MailboxTyped, Mailbox!TypeOK, Mailbox!Queued, Once,
     IsQueued, IsReceived, LastIsWish,
     Mailbox!vars, Mailbox!uiVars, Mailbox!slotVars, Mailbox!engineVars
<1> QED BY <1>1, <1>2

\* The inductive invariant of the mailbox, for any capacity, burst and modes.
THEOREM MailboxInvariance == Mailbox!Spec => []MailboxInv
<1> QED BY MailboxInit, MailboxNext, PTL DEF Mailbox!Spec

----------------------------------------------------------------------------
(***************************************************************************)
(* The reference picture (ReferenceFlow).                                  *)
(***************************************************************************)

\* Results that put a picture into use.
Installing == {"Load", "Persist", "Import"}
\* The worker has a job.
Busy == worker \notin {Reference!Waiting, Reference!Gone}
\* Jobs, and what is answered to them.
Job == Reference!JobOf(Installing)
Answers == Reference!JobOf(Installing \cup {"LoadFailed", "Failed"})

\* What a job is about: a save saves a frame, an import a picture; the newest job has
\* the largest number.
Whole(job, newest) ==
  /\ job.kind = "Persist" => job.picture \in Reference!Frames
  /\ job.kind = "Import" => job.picture \in Reference!Pictures
  /\ job.generation \in 1 .. newest

\* Messages name what they are about.
MessagesAreWhole ==
  \A i \in DOMAIN referenceInbox :
    referenceInbox[i].name = "ImportReference"
          => referenceInbox[i].picture \in Reference!Pictures

\* So do jobs and results.
JobsAreWhole ==
  /\ \A i \in DOMAIN jobs : Whole(jobs[i], generation)
  /\ Busy => worker \in Job /\ Whole(worker, generation)
  /\ \A i \in DOMAIN results : Whole(results[i], generation)

\* Results, the job executed and the jobs that wait are in the order in which they
\* were submitted.
InOrder ==
  /\ \A i, j \in DOMAIN jobs : i < j => jobs[i].generation < jobs[j].generation
  /\ \A i, j \in DOMAIN results : i < j => results[i].generation < results[j].generation
  /\ \A i \in DOMAIN results, j \in DOMAIN jobs :
       results[i].generation < jobs[j].generation
  /\ Busy => /\ \A j \in DOMAIN jobs : worker.generation < jobs[j].generation
             /\ \A i \in DOMAIN results : results[i].generation < worker.generation

\* The result of the newest job, if it installs a picture, is what the file holds.
NewestIsOnDisk ==
  \A i \in DOMAIN results :
    results[i].generation = generation /\ results[i].kind \in Installing
      => results[i].picture = disk

\* No frame, or none that is newer.
NotAfter(one, other) == one # Reference!None /\ other # Reference!None => one <= other

\* A candidate never gives way to an older frame, on its way from the device to
\* the job that saves it.
FramesRise ==
  /\ NotAfter(inFlight.frame, candidate) /\ NotAfter(inFlight.frame, published.candidate)
  /\ NotAfter(inFlight.frame, event.candidate)
  /\ NotAfter(candidate, published.candidate) /\ NotAfter(candidate, event.candidate)
  /\ NotAfter(published.candidate, event.candidate)
  /\ inFlight.frame <= screen /\ candidate <= screen /\ published.candidate <= screen
  /\ event.candidate <= screen

\* The saves that no poll has seen yet.
Saves == {job \in Reference!Unpolled : job.kind = "Persist"}

\* The save in flight is the newest of those not polled, and of the newest frame;
\* an older save is of an older frame.
SavesRise ==
  /\ \A job \in Saves :
       /\ job.picture <= inFlight.frame /\ job.generation <= inFlight.generation
       /\ job.generation < inFlight.generation => job.picture < inFlight.frame
  /\ \A job, other \in Saves :
       job.generation < other.generation => job.picture < other.picture
  /\ \A job, other \in Saves : job.generation = other.generation => job = other

\* The inductive invariant of the reference picture.
ReferenceInv ==
  /\ Reference!TypeOK /\ MessagesAreWhole /\ JobsAreWhole /\ InOrder /\ NewestIsOnDisk
  /\ FramesRise /\ SavesRise

\* What the proofs need to know of the constants.
LEMMA ReferenceConstants ==
  /\ MaxFrame \in Nat /\ MaxFrame > 0 /\ MaxImport \in Nat
  /\ JobCapacity \in Nat /\ JobCapacity > 0 /\ MaxClicks \in Nat
  /\ Reference!None = 0 /\ \A f \in Reference!Frames : f \in Nat /\ f > 0
  /\ Reference!Frames \subseteq Reference!Pictures
  /\ Reference!Imports \subseteq Reference!Pictures
        /\ Reference!Stored \in Reference!Pictures
              /\ Reference!None \notin Reference!Pictures
BY LoopAssumption DEF Reference!PicturesAssumption, Reference!None,
   Reference!Frames, Reference!Imports, Reference!Stored, Reference!Pictures

\* No job looks like a worker that waits or is gone.
LEMMA JobsAreBusy ==
  /\ \A job \in Job : job \notin {Reference!Waiting, Reference!Gone}
        /\ job.kind \in Installing
  /\ Reference!Gone # Reference!Waiting
BY DEF Job, Reference!JobOf, Installing, Reference!Waiting, Reference!Gone

\* A set of numbers that is not empty has a least one.
LEMMA LeastNumber ==
  ASSUME NEW S \in SUBSET Nat, S # {}
  PROVE  \E least \in S : \A n \in S : least <= n
<1>1. PICK least \in S : \A n \in S : ~(<<n, least>> \in OpToRel(<, Nat))
  BY WFMin, NatLessThanWellFounded
<1>2. ASSUME NEW n \in S PROVE least <= n
  <2>1. n < least => <<n, least>> \in OpToRel(<, Nat)
    BY DEF OpToRel
  <2>2. n \in Nat /\ least \in Nat /\ ~(n < least)
    BY <1>1, <2>1
  <2> QED BY <2>2
<1> QED BY <1>2

\* What poll_reference_results begins with.
Unread ==
  [candidate |-> candidate, reference |-> reference.picture,
   installs |-> reference.installs, inFlight |-> inFlight, discard |-> FALSE]

\* A function that polls the first n results.
PollsTo(f, n) ==
  f = [k \in 0 .. n |-> IF k = 0 THEN Unread ELSE Reference!Apply(f[k - 1], results[k])]

\* What has been polled so far goes on with the next result.
LEMMA PollsOn ==
  ASSUME NEW n \in Nat, NEW f, PollsTo(f, n)
  PROVE  \E g : PollsTo(g, n + 1)
<1> DEFINE g == [k \in 0 .. n + 1 |-> IF k <= n THEN f[k]
      ELSE Reference!Apply(f[n], results[n + 1])]
<1> DEFINE h == [k \in 0 .. n + 1 |-> IF k = 0 THEN Unread
      ELSE Reference!Apply(g[k - 1], results[k])]
<1>1. ASSUME NEW k \in 0 .. n + 1 PROVE g[k] = h[k]
  <2>1. CASE k = 0
    <3>1. f[0] = Unread
      BY DEF PollsTo
    <3> QED BY <2>1, <3>1
  <2>2. CASE k \in 1 .. n
    <3>1. f[k] = Reference!Apply(f[k - 1], results[k])
      BY <2>2 DEF PollsTo
    <3>2. g[k] = f[k] /\ g[k - 1] = f[k - 1] /\ h[k] = Reference!Apply(g[k - 1], results[k])
      BY <2>2
    <3> QED BY <3>1, <3>2
  <2>3. CASE k = n + 1
    <3>1. g[k] = Reference!Apply(f[n], results[k]) /\ k - 1 = n
      BY <2>3
    <3>2. g[n] = f[n] /\ h[k] = Reference!Apply(g[k - 1], results[k])
      BY <2>3
    <3> QED BY <3>1, <3>2
  <2> QED BY <2>1, <2>2, <2>3
<1>2. g = h
  BY <1>1
<1>3. PollsTo(g, n + 1)
  BY <1>2 DEF PollsTo
<1> QED BY <1>3

\* All results can be polled.
LEMMA PollsAll ==
  ASSUME results \in Seq(Answers)
  PROVE  \E f : PollsTo(f, Len(results))
<1> DEFINE Stuck == {n \in Nat : ~ \E f : PollsTo(f, n)}
<1>1. Stuck = {}
  <2> SUFFICES ASSUME Stuck # {} PROVE FALSE
    OBVIOUS
  <2>1. PICK least \in Stuck : \A n \in Stuck : least <= n
    BY LeastNumber
  <2>2. least # 0
    <3> DEFINE f == [k \in 0 .. 0 |-> IF k = 0 THEN Unread
          ELSE Reference!Apply(Unread, results[k])]
    <3>1. f = [k \in 0 .. 0 |-> IF k = 0 THEN Unread
          ELSE Reference!Apply(f[k - 1], results[k])]
      OBVIOUS
    <3>2. PollsTo(f, 0)
      BY <3>1 DEF PollsTo
    <3> HIDE DEF f
    <3> QED BY <2>1, <3>2
  <2>3. least - 1 \in Nat /\ least - 1 \notin Stuck /\ (least - 1) + 1 = least
    BY <2>1, <2>2
  <2>4. PICK f : PollsTo(f, least - 1)
    BY <2>3
  <2>5. \E g : PollsTo(g, (least - 1) + 1)
    BY <2>3, <2>4, PollsOn
  <2> QED BY <2>1, <2>3, <2>5
<1>2. Len(results) \in Nat
  OBVIOUS
<1> QED BY <1>1, <1>2

\* So Polled begins with what the engine has, and goes on with every result.
LEMMA PolledStep ==
  ASSUME results \in Seq(Answers)
  PROVE  /\ Reference!Polled[0] = Unread
         /\ \A n \in 1 .. Len(results) : Reference!Polled[n] = Reference!Apply(Reference!Polled[n - 1], results[n])
<1>1. PollsTo(Reference!Polled, Len(results))
  BY PollsAll DEF Reference!Polled, PollsTo, Unread
<1>2. Len(results) \in Nat
  OBVIOUS
<1>3. Reference!Polled = [k \in 0 .. Len(results) |->
                 IF k = 0 THEN Unread ELSE Reference!Apply(Reference!Polled[k - 1],
                       results[k])]
  BY <1>1 DEF PollsTo
<1> HIDE DEF Reference!Polled
<1> QED BY <1>2, <1>3

-----------------------------------------------------------------------------

\* The state of the engine while it polls.
Polling ==
  [candidate : Reference!Frames \cup {Reference!None}, reference : Reference!Pictures
        \cup {Reference!None}, installs : Nat,
   inFlight : [frame : Reference!Frames \cup {Reference!None}, generation : Nat],
         discard : BOOLEAN]

\* Installing a picture sets it, counts it and nothing else of the state.
LEMMA InstallFacts ==
  ASSUME NEW state \in Polling, NEW picture \in Reference!Pictures \cup {Reference!None}
  PROVE  /\ Reference!Install(state, picture) \in Polling
         /\ Reference!Install(state, picture).candidate = state.candidate
         /\ Reference!Install(state, picture).inFlight = state.inFlight
         /\ Reference!Install(state, picture).reference = picture
         /\ Reference!Install(state, picture).installs = state.installs + 1
<1> DEFINE one == [state EXCEPT !.reference = picture]
<1> DEFINE two == [one EXCEPT !.installs = @ + 1]
<1> DEFINE three == [two EXCEPT !.discard = TRUE]
<1>1. /\ one \in Polling /\ one.candidate = state.candidate /\ one.inFlight = state.inFlight
      /\ one.reference = picture /\ one.installs = state.installs
  BY DEF Polling
<1> HIDE DEF one
<1>2. /\ two \in Polling /\ two.candidate = state.candidate /\ two.inFlight = state.inFlight
      /\ two.reference = picture /\ two.installs = state.installs + 1
  BY <1>1 DEF Polling
<1> HIDE DEF two
<1>3. /\ three \in Polling /\ three.candidate = state.candidate
      /\ three.inFlight = state.inFlight
      /\ three.reference = picture /\ three.installs = state.installs + 1
  BY <1>2 DEF Polling
<1>4. Reference!Install(state, picture) = three
  BY DEF Reference!Install, one, two, three
<1> QED BY <1>3, <1>4

\* One result: it lands, and installs its picture only if it is the newest's.
LEMMA ApplyFacts ==
  ASSUME NEW state \in Polling, NEW result \in Answers, result.generation > 0
  PROVE  /\ Reference!Apply(state, result) \in Polling
         /\ Reference!Apply(state, result).candidate \in {state.candidate, Reference!None}
         /\ Reference!Apply(state, result).inFlight =
              IF state.inFlight.generation = result.generation THEN Reference!NoFlight
              ELSE state.inFlight
         /\ result.generation # generation \/ result.kind \notin Installing =>
              /\ Reference!Apply(state, result).installs = state.installs
         /\ result.generation # generation =>
              /\ Reference!Apply(state, result).reference = state.reference
         /\ Reference!Apply(state, result).installs # state.installs =>
              /\ Reference!Apply(state, result).reference = result.picture
<1> DEFINE flight == IF state.inFlight.generation = result.generation
      THEN Reference!NoFlight
                     ELSE state.inFlight
<1> DEFINE landed == [state EXCEPT !.inFlight = flight]
<1>1. flight \in [frame : Reference!Frames \cup {Reference!None}, generation : Nat]
  BY DEF Reference!NoFlight, Polling
<1>2. /\ landed \in Polling /\ landed.inFlight = flight
         /\ landed.candidate = state.candidate
      /\ landed.installs = state.installs /\ landed.reference = state.reference
  BY <1>1 DEF Polling
<1>3. landed = [state EXCEPT !.inFlight =
                  IF @.generation = result.generation THEN Reference!NoFlight ELSE @]
  OBVIOUS
<1>4. result.picture \in Reference!Pictures \cup {Reference!None}
      /\ result.kind \in Installing \cup {"LoadFailed", "Failed"}
  BY DEF Answers, Reference!JobOf
<1> HIDE DEF flight
<1> DEFINE applied == Reference!Apply(state, result)
<1>5. applied =
        IF result.generation # generation \/ result.kind = "Failed" THEN landed
        ELSE CASE result.kind = "LoadFailed" -> [landed EXCEPT !.reference = Reference!None]
               [] result.kind = "Load" -> Reference!Install(landed, result.picture)
               [] result.kind = "Import" ->
                    Reference!Install([landed EXCEPT !.candidate = Reference!None],
                    result.picture)
               [] result.kind = "Persist" /\ state.candidate = result.picture ->
                    Reference!Install([landed EXCEPT !.candidate = Reference!None],
                    result.picture)
               [] OTHER -> landed
  BY <1>3 DEF Reference!Apply
<1> HIDE DEF landed, applied
<1>6. ASSUME NEW s \in Polling
      PROVE  LET new == Reference!Install(s, result.picture)
             IN  /\ new \in Polling /\ new.candidate = s.candidate
                   /\ new.inFlight = s.inFlight
                 /\ new.reference = result.picture /\ new.installs = s.installs + 1
  BY <1>4, InstallFacts
<1>7. LET s == [landed EXCEPT !.candidate = Reference!None]
      IN  s \in Polling /\ s.candidate = Reference!None /\ s.inFlight = landed.inFlight
          /\ s.installs = landed.installs
  BY <1>2 DEF Polling
<1>8. LET s == [landed EXCEPT !.reference = Reference!None]
      IN  /\ s \in Polling /\ s.candidate = landed.candidate /\ s.inFlight = landed.inFlight
          /\ s.installs = landed.installs
  BY <1>2 DEF Polling
<1>9. CASE applied = landed
  BY <1>2, <1>9 DEF applied, flight
<1>10. CASE applied = [landed EXCEPT !.reference = Reference!None]
      /\ result.generation = generation
            /\ result.kind = "LoadFailed"
  BY <1>2, <1>8, <1>10 DEF applied, flight, Installing
<1>11. CASE applied = Reference!Install(landed, result.picture)
      /\ result.generation = generation
            /\ result.kind \in Installing
  BY <1>2, <1>6, <1>11 DEF applied, flight
<1>12. CASE applied = Reference!Install([landed EXCEPT !.candidate = Reference!None],
      result.picture)
            /\ result.generation = generation /\ result.kind \in Installing
  BY <1>2, <1>6, <1>7, <1>12 DEF applied, flight
<1>13. CASE result.generation # generation \/ result.kind = "Failed"
  BY <1>5, <1>9, <1>13
<1>14. CASE result.generation = generation /\ result.kind = "LoadFailed"
  BY <1>5, <1>10, <1>14
<1>15. CASE result.generation = generation /\ result.kind = "Load"
  BY <1>5, <1>11, <1>15 DEF Installing
<1>16. CASE result.generation = generation /\ result.kind = "Import"
  BY <1>5, <1>12, <1>16 DEF Installing
<1>17. CASE result.generation = generation /\ result.kind = "Persist"
  BY <1>5, <1>9, <1>12, <1>17 DEF Installing
<1> QED BY <1>4, <1>13, <1>14, <1>15, <1>16, <1>17 DEF Installing

\* What polling n of the results has come to.
PolledFacts(n) ==
  /\ Reference!Polled[n] \in Polling
  /\ Reference!Polled[n].candidate \in {candidate, Reference!None}
  /\ Reference!Polled[n].inFlight \in {inFlight, Reference!NoFlight}
  /\ \A k \in 1 .. n : results[k].generation = inFlight.generation =>
       Reference!Polled[n].inFlight = Reference!NoFlight
  /\ (\A k \in 1 .. n : results[k].generation # inFlight.generation) =>
       Reference!Polled[n].inFlight = inFlight
  /\ Reference!Polled[n].installs # reference.installs =>
       /\ Reference!Polled[n].reference = disk
       /\ \E k \in 1 .. n : results[k].generation = generation

\* Each further result is applied to what the ones before it left.
LEMMA PolledNext ==
  ASSUME ReferenceInv, NEW n \in 1 .. Len(results), PolledFacts(n - 1)
  PROVE  PolledFacts(n)
<1> DEFINE earlier == Reference!Polled[n - 1]
<1> DEFINE after == Reference!Polled[n]
<1> DEFINE result == results[n]
<1>1. results \in Seq(Answers) /\ n \in DOMAIN results /\ Len(results) \in Nat
      /\ DOMAIN results = 1 .. Len(results)
  BY DEF ReferenceInv, Reference!TypeOK, Answers, Installing, Reference!JobOf
<1>2. result \in Answers
  BY <1>1
<1>3. result.generation \in 1 .. generation /\ generation \in Nat
  BY <1>1 DEF ReferenceInv, JobsAreWhole, Whole, Reference!TypeOK
<1>4. after = Reference!Apply(earlier, result)
  BY <1>1, PolledStep
<1>5. earlier \in Polling
  BY DEF PolledFacts
<1> HIDE DEF earlier, after, result
<1>6. /\ after \in Polling /\ after.candidate \in {earlier.candidate, Reference!None}
      /\ after.inFlight = IF earlier.inFlight.generation = result.generation
            THEN Reference!NoFlight
                          ELSE earlier.inFlight
      /\ (result.generation # generation \/ result.kind \notin Installing) =>
            after.installs = earlier.installs
      /\ result.generation # generation => after.reference = earlier.reference
      /\ after.installs # earlier.installs => after.reference = result.picture
  BY <1>2, <1>3, <1>4, <1>5, ApplyFacts
<1>7. after.candidate \in {candidate, Reference!None}
  BY <1>6 DEF earlier, PolledFacts
<1>8. after.inFlight \in {inFlight, Reference!NoFlight}
  BY <1>6 DEF earlier, PolledFacts
<1>9. ASSUME NEW k \in 1 .. n, results[k].generation = inFlight.generation
      PROVE  after.inFlight = Reference!NoFlight
  <2>1. CASE k = n
    <3>1. result.generation = inFlight.generation
      BY <1>9, <2>1 DEF result
    <3> QED BY <1>6, <3>1 DEF earlier, PolledFacts
  <2>2. CASE k \in 1 .. n - 1
    <3>1. earlier.inFlight = Reference!NoFlight
      BY <1>9, <2>2 DEF earlier, PolledFacts
    <3> QED BY <1>6, <3>1
  <2> QED BY <1>1, <2>1, <2>2
<1>10. ASSUME \A k \in 1 .. n : results[k].generation # inFlight.generation
       PROVE  after.inFlight = inFlight
  <2>1. earlier.inFlight = inFlight
    BY <1>1, <1>10 DEF earlier, PolledFacts
  <2>2. result.generation # inFlight.generation
    BY <1>1, <1>10 DEF result
  <2> QED BY <1>6, <2>1, <2>2
<1>11. ASSUME after.installs # reference.installs
       PROVE  after.reference = disk /\ \E k \in 1 .. n : results[k].generation = generation
  <2>1. CASE earlier.installs # reference.installs
    <3>1. earlier.reference = disk /\ \E k \in 1 .. n - 1 :
          results[k].generation = generation
      BY <2>1 DEF earlier, PolledFacts
    <3>2. PICK k \in 1 .. n - 1 : results[k].generation = generation
      BY <3>1
    <3>3. results[k].generation < results[n].generation
      BY <1>1, <3>2 DEF ReferenceInv, InOrder
    <3>4. result.generation # generation
      BY <1>3, <3>2, <3>3 DEF result
    <3> QED BY <1>1, <1>6, <3>1, <3>2, <3>4
  <2>2. CASE earlier.installs = reference.installs
    <3>1. after.installs # earlier.installs
      BY <1>11, <2>2
    <3>2. result.generation = generation /\ result.kind \in Installing
          /\ after.reference = result.picture
      BY <1>6, <3>1
    <3>3. result.picture = disk
      BY <1>1, <3>2 DEF result, ReferenceInv, NewestIsOnDisk
    <3> QED BY <1>1, <3>2, <3>3 DEF result
  <2> QED BY <2>1, <2>2
<1> QED BY <1>6, <1>7, <1>8, <1>9, <1>10, <1>11 DEF after, PolledFacts

\* What polling them all comes to.
LEMMA AfterPollFacts ==
  ASSUME ReferenceInv
  PROVE  PolledFacts(Len(results)) /\ Reference!AfterPoll = Reference!Polled[Len(results)]
<1> DEFINE Wrong == {n \in 0 .. Len(results) : ~PolledFacts(n)}
<1>1. Len(results) \in Nat /\ results \in Seq(Answers)
  BY DEF ReferenceInv, Reference!TypeOK, Answers, Installing, Reference!JobOf
<1>2. PolledFacts(0)
  <2>1. Reference!Polled[0] = Unread
    BY <1>1, PolledStep
  <2>2. /\ candidate \in Reference!Frames \cup {Reference!None}
        /\ reference \in [picture : Reference!Pictures
              \cup {Reference!None}, installs : Nat]
        /\ inFlight \in [frame : Reference!Frames \cup {Reference!None}, generation : Nat]
    BY DEF ReferenceInv, Reference!TypeOK
  <2> QED BY <2>1, <2>2 DEF PolledFacts, Unread, Polling
<1>3. Wrong = {}
  <2> SUFFICES ASSUME Wrong # {} PROVE FALSE
    OBVIOUS
  <2>1. Wrong \in SUBSET Nat
    BY <1>1
  <2>2. PICK least \in Wrong : \A n \in Wrong : least <= n
    BY <2>1, LeastNumber
  <2>3. least \in 1 .. Len(results) /\ least - 1 \in 0 .. Len(results)
    BY <1>1, <1>2, <2>2
  <2>4. PolledFacts(least - 1)
    BY <1>1, <2>2, <2>3
  <2> QED BY <2>2, <2>3, <2>4, PolledNext
<1>4. Len(results) \in 0 .. Len(results)
  BY <1>1
<1> QED BY <1>3, <1>4 DEF Reference!AfterPoll

-----------------------------------------------------------------------------

\* A sequence that grows at its end.
LEMMA GrowsAtEnd ==
  ASSUME NEW S, NEW q \in Seq(S), NEW e \in S
  PROVE  /\ Append(q, e) \in Seq(S) /\ Len(Append(q, e)) = Len(q) + 1
         /\ DOMAIN Append(q, e) = 1 .. Len(q) + 1 /\ DOMAIN q = 1 .. Len(q)
               /\ Len(q) \in Nat
         /\ \A i \in DOMAIN q : i \in DOMAIN Append(q, e) /\ Append(q, e)[i] = q[i]
         /\ \A i \in DOMAIN Append(q, e) :
              \/ i \in DOMAIN q /\ Append(q, e)[i] = q[i]
              \/ i = Len(q) + 1 /\ Append(q, e)[i] = e
OBVIOUS

\* A sequence whose head is taken.
LEMMA HeadIsTaken ==
  ASSUME NEW S, NEW q \in Seq(S), q # <<>>
  PROVE  /\ Head(q) \in S /\ Head(q) = q[1] /\ 1 \in DOMAIN q
         /\ Tail(q) \in Seq(S) /\ Len(Tail(q)) = Len(q) - 1 /\ Len(q) \in Nat
         /\ DOMAIN Tail(q) = 1 .. Len(q) - 1 /\ DOMAIN q = 1 .. Len(q)
         /\ \A i \in DOMAIN Tail(q) : i + 1 \in DOMAIN q /\ Tail(q)[i] = q[i + 1]
OBVIOUS

\* What is not polled, one by one.
LEMMA UnpolledFacts ==
  \A job : job \in Reference!Unpolled <=>
    \/ \E i \in DOMAIN jobs : job = jobs[i]
    \/ \E i \in DOMAIN results : job = results[i]
    \/ Busy /\ job = worker
<1>1. Reference!Unpolled = {jobs[i] : i \in DOMAIN jobs}
      \cup {results[i] : i \in DOMAIN results}
                   \cup (IF Busy THEN {worker} ELSE {})
  BY DEF Reference!Unpolled, Reference!Range, Busy
<1> QED BY <1>1

\* And after a step.
LEMMA UnpolledNext ==
  \A job : job \in Reference!Unpolled' <=>
    \/ \E i \in DOMAIN jobs' : job = jobs'[i]
    \/ \E i \in DOMAIN results' : job = results'[i]
    \/ Busy' /\ job = worker'
<1>1. Reference!Unpolled' = {jobs'[i] : i \in DOMAIN jobs'}
      \cup {results'[i] : i \in DOMAIN results'}
                   \cup (IF Busy' THEN {worker'} ELSE {})
  BY DEF Reference!Unpolled, Reference!Range, Busy
<1> QED BY <1>1

\* The types of the three parts of the worker.
LEMMA WorkerTyped ==
  ASSUME Reference!TypeOK
  PROVE  /\ jobs \in Seq(Job) /\ results \in Seq(Answers) /\ Job \subseteq Answers
         /\ Len(jobs) \in Nat /\ Len(results) \in Nat
         /\ DOMAIN jobs = 1 .. Len(jobs) /\ DOMAIN results = 1 .. Len(results)
         /\ worker \in {Reference!Waiting, Reference!Gone} \cup Job
         /\ generation \in Nat /\ generation > 0
         /\ inFlight \in [frame : Reference!Frames
               \cup {Reference!None}, generation : 0 .. generation]
BY DEF Reference!TypeOK, Job, Answers, Installing, Reference!JobOf

\* What is not polled keeps its number between one and the newest.
LEMMA UnpolledTyped ==
  ASSUME Reference!TypeOK, JobsAreWhole, NEW job \in Reference!Unpolled
  PROVE  job \in Answers /\ Whole(job, generation)
<1>1. /\ jobs \in Seq(Job) /\ results \in Seq(Answers) /\ Job \subseteq Answers
  BY WorkerTyped
<1>2. CASE \E i \in DOMAIN jobs : job = jobs[i]
  BY <1>1, <1>2 DEF JobsAreWhole
<1>3. CASE \E i \in DOMAIN results : job = results[i]
  BY <1>1, <1>3 DEF JobsAreWhole
<1>4. CASE Busy /\ job = worker
  BY <1>1, <1>4 DEF JobsAreWhole
<1> QED BY <1>2, <1>3, <1>4, UnpolledFacts

\* Nothing the saves depend on becomes more.
LEMMA SavesStay ==
  ASSUME SavesRise, Saves' \subseteq Saves, UNCHANGED inFlight
  PROVE  SavesRise'
BY DEF SavesRise

\* What a worker that rests keeps.
LEMMA WorkerStays ==
  ASSUME JobsAreWhole, InOrder, NewestIsOnDisk,
         UNCHANGED <<jobs, results, worker, disk, generation>>
  PROVE  JobsAreWhole' /\ InOrder' /\ NewestIsOnDisk' /\ Saves' = Saves
<1>1. (Busy' <=> Busy) /\ Reference!Unpolled' = Reference!Unpolled
  BY DEF Busy, Reference!Unpolled, Reference!Range
<1> QED BY <1>1 DEF JobsAreWhole, InOrder, NewestIsOnDisk, Whole, Saves

\* A job is submitted, or refused.
LEMMA SubmitKeeps ==
  ASSUME Reference!TypeOK, JobsAreWhole, InOrder, NewestIsOnDisk, SavesRise,
         NEW kind \in {"Persist", "Import"}, NEW picture \in Reference!Pictures,
               Reference!Submit(kind, picture),
         kind = "Persist" => /\ picture \in Reference!Frames /\ picture # inFlight.frame
                             /\ NotAfter(inFlight.frame, picture),
         UNCHANGED <<results, worker, disk>>
  PROVE  /\ jobs' \in Seq(Job) /\ Len(jobs') <= JobCapacity
         /\ generation' \in Nat \ {0}
         /\ inFlight' \in [frame : Reference!Frames
               \cup {Reference!None}, generation : 0 .. generation']
         /\ JobsAreWhole' /\ InOrder' /\ NewestIsOnDisk' /\ SavesRise'
         /\ inFlight' = inFlight \/ (kind = "Persist" /\ inFlight'.frame = picture)
<1> DEFINE job == [kind |-> kind, picture |-> picture, generation |-> generation + 1]
<1> DEFINE flight == [frame |-> picture, generation |-> generation + 1]
<1>1. /\ jobs \in Seq(Job) /\ results \in Seq(Answers) /\ Job \subseteq Answers
      /\ Len(jobs) \in Nat /\ Len(jobs) <= JobCapacity /\ generation \in Nat
            /\ generation > 0
      /\ inFlight \in [frame : Reference!Frames
            \cup {Reference!None}, generation : 0 .. generation]
  BY WorkerTyped DEF Reference!TypeOK
<1>2. CASE UNCHANGED <<generation, jobs, inFlight>>
  <2>1. JobsAreWhole' /\ InOrder' /\ NewestIsOnDisk' /\ Saves' = Saves
    BY <1>2, WorkerStays
  <2>2. SavesRise'
    BY <1>2, <2>1, SavesStay
  <2> QED BY <1>1, <1>2, <2>1, <2>2
<1>3. CASE /\ Len(jobs) < JobCapacity /\ generation' = generation + 1
           /\ jobs' = Append(jobs, job)
           /\ inFlight' = IF kind = "Persist" THEN flight ELSE inFlight
  <2>1. job \in Job /\ job.kind = kind /\ job.picture = picture
        /\ job.generation = generation + 1
    BY <1>1, ReferenceConstants DEF Job, Reference!JobOf, Installing
  <2>2. kind = "Persist" => flight \in [frame : Reference!Frames
        \cup {Reference!None}, generation : 0 .. generation']
                            /\ flight.frame = picture /\ flight.generation = generation + 1
    BY <1>1, <1>3
  <2> HIDE DEF job, flight
  <2>3. /\ jobs' \in Seq(Job) /\ Len(jobs') = Len(jobs) + 1
        /\ \A i \in DOMAIN jobs : i \in DOMAIN jobs' /\ jobs'[i] = jobs[i]
        /\ \A i \in DOMAIN jobs' :
             \/ i \in DOMAIN jobs /\ jobs'[i] = jobs[i]
             \/ i = Len(jobs) + 1 /\ jobs'[i] = job
        /\ DOMAIN jobs = 1 .. Len(jobs)
    BY <1>1, <1>3, <2>1, GrowsAtEnd
  <2>4. (Busy' <=> Busy) /\ generation' \in Nat \ {0} /\ generation' = generation + 1
    BY <1>1, <1>3 DEF Busy
  <2>5. inFlight' \in [frame : Reference!Frames
        \cup {Reference!None}, generation : 0 .. generation']
    BY <1>1, <1>3, <2>2
  <2>6. Whole(job, generation')
    BY <1>1, <2>1, <2>4 DEF Whole
  <2>7. ASSUME NEW other \in Answers, Whole(other, generation)
        PROVE Whole(other, generation') /\ other.generation < generation'
                                                        /\ other.generation < job.generation
    BY <1>1, <2>1, <2>4, <2>7 DEF Whole
  <2>8. JobsAreWhole'
    <3>1. ASSUME NEW i \in DOMAIN jobs' PROVE Whole(jobs'[i], generation')
      <4>1. CASE i \in DOMAIN jobs /\ jobs'[i] = jobs[i]
        <5>1. jobs[i] \in Answers /\ Whole(jobs[i], generation)
          BY <1>1, <4>1 DEF JobsAreWhole
        <5> QED BY <2>7, <4>1, <5>1
      <4>2. CASE jobs'[i] = job
        BY <2>6, <4>2
      <4> QED BY <2>3, <4>1, <4>2
    <3>2. ASSUME Busy' PROVE worker' \in Job /\ Whole(worker', generation')
      <4>1. worker \in Job /\ Whole(worker, generation) /\ worker' = worker
        BY <2>4, <3>2 DEF JobsAreWhole
      <4> QED BY <1>1, <2>7, <4>1
    <3>3. ASSUME NEW i \in DOMAIN results' PROVE Whole(results'[i], generation')
      <4>1. results[i] \in Answers /\ Whole(results[i], generation) /\ results' = results
        BY <1>1 DEF JobsAreWhole
      <4> QED BY <2>7, <4>1
    <3> QED BY <3>1, <3>2, <3>3 DEF JobsAreWhole
  <2>9. ASSUME NEW i \in DOMAIN jobs PROVE jobs[i].generation < job.generation
    BY <1>1, <2>7 DEF JobsAreWhole
  <2>10. ASSUME NEW i \in DOMAIN results PROVE results[i].generation < job.generation
    BY <1>1, <2>7 DEF JobsAreWhole
  <2>11. ASSUME Busy PROVE worker.generation < job.generation
    BY <1>1, <2>7, <2>11 DEF JobsAreWhole
  <2>12. InOrder'
    <3>1. ASSUME NEW i \in DOMAIN jobs', NEW j \in DOMAIN jobs', i < j
          PROVE  jobs'[i].generation < jobs'[j].generation
      <4>1. i \in DOMAIN jobs /\ jobs'[i] = jobs[i]
        BY <1>1, <2>3, <3>1
      <4>2. CASE j \in DOMAIN jobs /\ jobs'[j] = jobs[j]
        BY <3>1, <4>1, <4>2 DEF InOrder
      <4>3. CASE jobs'[j] = job
        BY <2>9, <4>1, <4>3
      <4> QED BY <2>3, <4>2, <4>3
    <3>2. ASSUME NEW i \in DOMAIN results', NEW j \in DOMAIN jobs'
          PROVE  results'[i].generation < jobs'[j].generation
      BY <2>3, <2>10 DEF InOrder
    <3>3. ASSUME Busy', NEW j \in DOMAIN jobs'
          PROVE worker'.generation < jobs'[j].generation
      BY <2>3, <2>4, <2>11, <3>3 DEF InOrder
    <3>4. /\ \A i, j \in DOMAIN results' : i < j
             => results'[i].generation < results'[j].generation
          /\ Busy' => \A i \in DOMAIN results' : results'[i].generation < worker'.generation
      BY <2>4 DEF InOrder
    <3> QED BY <3>1, <3>2, <3>3, <3>4 DEF InOrder
  <2>13. NewestIsOnDisk'
    <3>1. \A i \in DOMAIN results : results[i].generation \in 1 .. generation
      BY DEF JobsAreWhole, Whole
    <3>2. \A i \in DOMAIN results : results[i].generation # generation'
      BY <1>1, <2>4, <3>1
    <3> QED BY <3>2 DEF NewestIsOnDisk
  <2>14. \A one : one \in Saves' => one \in Saves \/ (one = job /\ kind = "Persist")
    <3>1. \A one : one \in Reference!Unpolled' => one \in Reference!Unpolled \/ one = job
      <4> SUFFICES ASSUME NEW one, one \in Reference!Unpolled'
            PROVE one \in Reference!Unpolled \/ one = job
        OBVIOUS
      <4>1. \/ \E i \in DOMAIN jobs' : one = jobs'[i]
            \/ \E i \in DOMAIN results' : one = results'[i]
            \/ Busy' /\ one = worker'
        BY UnpolledNext
      <4> QED BY <2>3, <2>4, <4>1, UnpolledFacts
    <3> QED BY <2>1, <3>1 DEF Saves
  <2>15. SavesRise'
    <3>1. CASE kind # "Persist"
      <4>1. Saves' \subseteq Saves /\ inFlight' = inFlight
        BY <1>3, <2>14, <3>1
      <4> QED BY <4>1, SavesStay
    <3>2. CASE kind = "Persist"
      <4>1. inFlight'.frame = picture /\ inFlight'.generation = generation + 1
            /\ inFlight.frame \in Reference!Frames \cup {Reference!None} /\ picture \in Nat
            /\ inFlight.frame \in Nat /\ picture > 0
        BY <1>1, <1>3, <2>2, <3>2, ReferenceConstants
      <4>2. ASSUME NEW one \in Saves
            PROVE  /\ one.picture < picture /\ one.picture \in Nat
                   /\ one.generation < generation + 1 /\ one.generation \in Nat
        <5>1. one \in Reference!Unpolled /\ one.kind = "Persist"
          BY DEF Saves
        <5>2. one.picture \in Reference!Frames /\ one.generation \in 1 .. generation
          BY <5>1, UnpolledTyped DEF Whole
        <5>3. one.picture <= inFlight.frame
          BY DEF SavesRise
        <5>4. one.picture \in Nat /\ one.picture > 0 /\ Reference!None = 0
          BY <5>2, ReferenceConstants
        <5>5. inFlight.frame # Reference!None
          BY <4>1, <5>3, <5>4
        <5>6. inFlight.frame <= picture /\ inFlight.frame # picture
          BY <3>2, <4>1, <5>4, <5>5 DEF NotAfter
        <5>7. one.picture < picture
          BY <4>1, <5>3, <5>4, <5>6
        <5> QED BY <1>1, <5>2, <5>4, <5>7
      <4>3. ASSUME NEW one \in Saves'
            PROVE  /\ one.picture <= inFlight'.frame
                      /\ one.generation <= inFlight'.generation
                   /\ one.generation < inFlight'.generation => one.picture < inFlight'.frame
        BY <1>1, <2>1, <2>14, <4>1, <4>2
      <4>4. ASSUME NEW one \in Saves', NEW other \in Saves',
            one.generation < other.generation
            PROVE  one.picture < other.picture
        <5>1. CASE one \in Saves /\ other \in Saves
          BY <4>4, <5>1 DEF SavesRise
        <5>2. CASE one \in Saves /\ other = job
          BY <2>1, <4>2, <5>2
        <5>3. CASE one = job
          BY <1>1, <2>1, <2>14, <4>2, <4>4, <5>3
        <5> QED BY <2>14, <5>1, <5>2, <5>3
      <4>5. ASSUME NEW one \in Saves', NEW other \in Saves',
            one.generation = other.generation
            PROVE  one = other
        <5>1. CASE one \in Saves /\ other \in Saves
          BY <4>5, <5>1 DEF SavesRise
        <5>2. CASE one \in Saves /\ other = job
          BY <1>1, <2>1, <4>2, <4>5, <5>2
        <5>3. CASE one = job /\ other \in Saves
          BY <1>1, <2>1, <4>2, <4>5, <5>3
        <5> QED BY <2>14, <5>1, <5>2, <5>3
      <4> QED BY <4>3, <4>4, <4>5 DEF SavesRise
    <3> QED BY <3>1, <3>2
  <2>16. Len(jobs') <= JobCapacity
    BY <1>1, <1>3, <2>3, ReferenceConstants
  <2>17. inFlight' = inFlight \/ (kind = "Persist" /\ inFlight'.frame = picture)
    BY <1>3, <2>2
  <2> QED BY <2>3, <2>4, <2>5, <2>8, <2>12, <2>13, <2>15, <2>16, <2>17
<1> QED BY <1>2, <1>3 DEF Reference!Submit

-----------------------------------------------------------------------------

\* What the interface sends.
Messages ==
  [name : {"DiscardReferenceCandidate", "CaptureReferenceCandidate",
           "ConfirmReferenceCandidate", "ImportReference"},
   picture : Reference!Pictures \cup {Reference!None}]

\* The invariant holds at the start.
LEMMA ReferenceInit == Reference!Init => ReferenceInv
<1> SUFFICES ASSUME Reference!Init PROVE ReferenceInv
  OBVIOUS
<1> USE DEF Reference!Init
<1> DEFINE first == [kind |-> "Load", picture |-> Reference!None, generation |-> 1]
<1>1. /\ first \in Job /\ jobs = <<first>> /\ jobs \in Seq(Job) /\ Len(jobs) = 1
      /\ DOMAIN jobs = {1} /\ jobs[1] = first /\ results = <<>> /\ DOMAIN results = {}
      /\ ~Busy /\ first.kind = "Load" /\ first.generation = 1 /\ generation = 1
  BY DEF Job, Reference!JobOf, Installing, Busy
<1> HIDE DEF first
<1>2. Reference!TypeOK
  <2>1. /\ dialog = "Idle" /\ previous \in Nat /\ clicks \in 0 .. MaxClicks
        /\ snapshot \in [candidate : Reference!Frames
              \cup {Reference!None}, reference : Reference!Pictures \cup {Reference!None},
                         installs : Nat]
        /\ referenceInbox \in Seq(Messages) /\ candidate \in Reference!Frames
              \cup {Reference!None}
        /\ reference \in [picture : Reference!Pictures
              \cup {Reference!None}, installs : Nat]
    BY ReferenceConstants
  <2>2. /\ generation \in Nat \ {0}
        /\ inFlight \in [frame : Reference!Frames
              \cup {Reference!None}, generation : 0 .. generation]
        /\ jobs \in Seq(Reference!JobOf({"Load", "Persist", "Import"}))
              /\ Len(jobs) <= JobCapacity
        /\ results \in Seq(Reference!JobOf({"Load", "Persist", "Import", "LoadFailed",
              "Failed"}))
        /\ Len(results) <= JobCapacity
        /\ worker = Reference!Waiting /\ disk \in Reference!Pictures
              /\ pending \subseteq {"discard", "capture"}
    BY <1>1, ReferenceConstants DEF Reference!NoFlight, Job, Installing
  <2>3. /\ screen \in Reference!Frames
        /\ event \in [id : Nat, candidate : Reference!Frames \cup {Reference!None}]
        /\ published \in [id : 0 .. event.id, candidate : Reference!Frames
              \cup {Reference!None}]
        /\ seen \in 0 .. published.id
    BY ReferenceConstants DEF Reference!Frames
  <2> QED BY <2>1, <2>2, <2>3 DEF Reference!TypeOK, Messages
<1>3. MessagesAreWhole
  BY DEF MessagesAreWhole
<1>4. JobsAreWhole /\ InOrder /\ NewestIsOnDisk
  BY <1>1 DEF JobsAreWhole, InOrder, NewestIsOnDisk, Whole
<1>5. FramesRise
  BY ReferenceConstants DEF FramesRise, NotAfter, Reference!NoFlight
<1>6. SavesRise
  <2>1. \A job \in Reference!Unpolled : job = first
    BY <1>1, UnpolledFacts
  <2>2. Saves = {}
    BY <1>1, <2>1 DEF Saves
  <2> QED BY <2>2 DEF SavesRise
<1> QED BY <1>2, <1>3, <1>4, <1>5, <1>6 DEF ReferenceInv

\* Only the interface or its messages have changed.
LEMMA RestStays ==
  ASSUME ReferenceInv,
         UNCHANGED <<candidate, inFlight, generation, jobs, results, worker, disk, event,
                     published, screen>>
  PROVE  JobsAreWhole' /\ InOrder' /\ NewestIsOnDisk' /\ FramesRise' /\ SavesRise'
<1>1. JobsAreWhole' /\ InOrder' /\ NewestIsOnDisk' /\ Saves' = Saves
  BY WorkerStays DEF ReferenceInv
<1>2. SavesRise'
  BY <1>1, SavesStay DEF ReferenceInv
<1>3. FramesRise'
  BY DEF ReferenceInv, FramesRise
<1> QED BY <1>1, <1>2, <1>3

\* A message more.
LEMMA MessagesGrow ==
  ASSUME ReferenceInv, NEW name \in {"DiscardReferenceCandidate",
        "CaptureReferenceCandidate",
                                     "ConfirmReferenceCandidate", "ImportReference"},
         NEW picture \in Reference!Pictures \cup {Reference!None},
         name = "ImportReference" => picture \in Reference!Pictures,
         Reference!Sends(name, picture)
  PROVE  referenceInbox' \in Seq(Messages) /\ MessagesAreWhole'
<1> DEFINE message == Reference!Message(name, picture)
<1>1. referenceInbox \in Seq(Messages) /\ MessagesAreWhole
  BY DEF ReferenceInv, Reference!TypeOK, Messages
<1>2. message \in Messages /\ message.name = name /\ message.picture = picture
  BY DEF Reference!Message, Messages
<1>3. referenceInbox' = Append(referenceInbox, message)
  BY DEF Reference!Sends
<1> HIDE DEF message
<1>4. /\ referenceInbox' \in Seq(Messages)
      /\ \A i \in DOMAIN referenceInbox' :
           \/ i \in DOMAIN referenceInbox /\ referenceInbox'[i] = referenceInbox[i]
           \/ referenceInbox'[i] = message
  BY <1>1, <1>2, <1>3, GrowsAtEnd
<1> QED BY <1>1, <1>2, <1>4 DEF MessagesAreWhole

\* The dialog and the user's calls.
LEMMA UiKeeps ==
  ASSUME ReferenceInv, Reference!Ui \/ Reference!UiLooks \/ Reference!UiTimeout
  PROVE  ReferenceInv'
<1> USE DEF Reference!uiVars, Reference!engineVars, Reference!workerVars,
      Reference!deviceVars
<1>1. UNCHANGED <<candidate, reference, inFlight, generation, jobs, results, worker,
      disk, event,
                  published, screen, seen, pending, snapshot>>
  BY DEF Reference!Ui, Reference!UiLooks, Reference!UiTimeout, Reference!UiPrepare,
     Reference!UiConfirm, Reference!UiCancel, Reference!UiImport,
     Reference!UiCapture, Reference!UiCaptured,
     Reference!UiLost, Reference!UiSaved, Reference!Becomes
<1>2. JobsAreWhole' /\ InOrder' /\ NewestIsOnDisk' /\ FramesRise' /\ SavesRise'
  BY <1>1, RestStays
<1>3. referenceInbox' \in Seq(Messages) /\ MessagesAreWhole'
  <2>1. CASE UNCHANGED referenceInbox
    BY <2>1 DEF ReferenceInv, Reference!TypeOK, Messages, MessagesAreWhole
  <2>2. CASE \E name \in {"DiscardReferenceCandidate", "CaptureReferenceCandidate",
                          "ConfirmReferenceCandidate"} :
                                Reference!Sends(name, Reference!None)
    BY <2>2, MessagesGrow
  <2>3. CASE \E picture \in Reference!Imports : Reference!Sends("ImportReference", picture)
    BY <2>3, MessagesGrow, ReferenceConstants
  <2> QED
    BY <2>1, <2>2, <2>3 DEF Reference!Ui, Reference!UiLooks, Reference!UiTimeout,
       Reference!UiPrepare, Reference!UiConfirm, Reference!UiCancel,
       Reference!UiImport,
       Reference!UiCapture, Reference!UiCaptured, Reference!UiLost,
       Reference!UiSaved, Reference!Becomes
<1>4. dialog' \in {"Idle", "PreparingCandidate", "CapturingCandidate", "Review",
                   "SavingCandidate", "Confirmed", "CaptureFailed", "SaveFailed"}
      /\ clicks' \in 0 .. MaxClicks
  BY ReferenceConstants DEF ReferenceInv, Reference!TypeOK, Reference!Ui,
     Reference!UiLooks, Reference!UiTimeout, Reference!UiPrepare,
     Reference!UiConfirm,
     Reference!UiCancel, Reference!UiImport, Reference!UiCapture,
     Reference!UiCaptured, Reference!UiLost, Reference!UiSaved, Reference!Becomes,
     Reference!Clicks
<1>5. previous' \in Nat
  <2>1. Reference!SequenceShown \in Nat /\ previous \in Nat
    BY DEF ReferenceInv, Reference!TypeOK, Reference!SequenceShown
  <2> QED
    BY <2>1 DEF Reference!Ui, Reference!UiLooks, Reference!UiTimeout,
       Reference!UiPrepare, Reference!UiConfirm, Reference!UiCancel,
       Reference!UiImport, Reference!UiCapture,
       Reference!UiCaptured, Reference!UiLost, Reference!UiSaved, Reference!Becomes
<1> HIDE DEF Reference!uiVars, Reference!engineVars, Reference!workerVars,
      Reference!deviceVars
<1>6. Reference!TypeOK'
  BY <1>1, <1>3, <1>4, <1>5 DEF ReferenceInv, Reference!TypeOK, Messages
<1> QED BY <1>2, <1>3, <1>6 DEF ReferenceInv

\* The engine runs a command.
LEMMA CommandKeeps ==
  ASSUME ReferenceInv, Reference!EngineCommand
  PROVE  ReferenceInv'
<1>1. /\ referenceInbox # <<>> /\ referenceInbox' = Tail(referenceInbox)
      /\ Reference!Discard \/ Reference!Capture \/ Reference!Confirm \/ Reference!Import
      /\ UNCHANGED <<dialog, previous, clicks, snapshot, seen, results, worker, disk,
            screen,
                     event, published>>
  BY DEF Reference!EngineCommand, Reference!uiVars
<1>2. referenceInbox \in Seq(Messages) /\ MessagesAreWhole /\ Reference!TypeOK
      /\ JobsAreWhole /\ InOrder
      /\ NewestIsOnDisk /\ FramesRise /\ SavesRise
  BY DEF ReferenceInv, Reference!TypeOK, Messages
<1>3. /\ referenceInbox' \in Seq(Messages) /\ Head(referenceInbox) \in Messages
      /\ Head(referenceInbox).name = "ImportReference"
            => Head(referenceInbox).picture \in Reference!Pictures
      /\ MessagesAreWhole'
  <2>1. /\ Head(referenceInbox) \in Messages /\ Head(referenceInbox) = referenceInbox[1]
        /\ 1 \in DOMAIN referenceInbox /\ referenceInbox' \in Seq(Messages)
        /\ \A i \in DOMAIN referenceInbox' :
             i + 1 \in DOMAIN referenceInbox /\ referenceInbox'[i] = referenceInbox[i + 1]
    BY <1>1, <1>2, HeadIsTaken
  <2> QED BY <1>2, <2>1 DEF MessagesAreWhole
<1>4. CASE UNCHANGED <<reference, generation, inFlight, jobs>>
           /\ candidate' \in {candidate, Reference!None}
                 /\ pending' \subseteq {"discard", "capture"}
  <2>1. JobsAreWhole' /\ InOrder' /\ NewestIsOnDisk' /\ Saves' = Saves
    BY <1>1, <1>2, <1>4, WorkerStays
  <2>2. SavesRise'
    BY <1>2, <1>4, <2>1, SavesStay
  <2>3. FramesRise'
    BY <1>1, <1>2, <1>4, ReferenceConstants DEF FramesRise, NotAfter, Reference!TypeOK
  <2>4. Reference!TypeOK'
    BY <1>1, <1>2, <1>3, <1>4 DEF Reference!TypeOK, Messages
  <2> QED BY <1>3, <2>1, <2>2, <2>3, <2>4 DEF ReferenceInv
<1>5. ASSUME NEW kind \in {"Persist", "Import"}, NEW picture \in Reference!Pictures,
      Reference!Submit(kind, picture),
             kind = "Persist" => picture = candidate /\ picture # inFlight.frame,
             UNCHANGED <<candidate, reference, pending>>
      PROVE  ReferenceInv'
  <2>1. kind = "Persist" => picture \in Reference!Frames
        /\ NotAfter(inFlight.frame, picture)
    BY <1>2, <1>5, ReferenceConstants DEF Reference!TypeOK, FramesRise
  <2>2. /\ jobs' \in Seq(Job) /\ Len(jobs') <= JobCapacity
        /\ generation' \in Nat \ {0}
        /\ inFlight' \in [frame : Reference!Frames
              \cup {Reference!None}, generation : 0 .. generation']
        /\ JobsAreWhole' /\ InOrder' /\ NewestIsOnDisk' /\ SavesRise'
        /\ inFlight' = inFlight \/ (kind = "Persist" /\ inFlight'.frame = picture)
    BY <1>1, <1>2, <1>5, <2>1, SubmitKeeps
  <2>3. FramesRise'
    <3>1. CASE inFlight' = inFlight
      BY <1>1, <1>2, <1>5, <3>1 DEF FramesRise
    <3>2. CASE inFlight'.frame = candidate
      <4>1. candidate \in Nat
        BY <1>2, ReferenceConstants DEF Reference!TypeOK
      <4> QED BY <1>1, <1>2, <1>5, <3>2, <4>1 DEF FramesRise, NotAfter
    <3> QED BY <1>5, <2>2, <3>1, <3>2
  <2>4. Reference!TypeOK'
    BY <1>1, <1>2, <1>3, <1>5, <2>2 DEF Reference!TypeOK, Messages, Job, Installing
  <2> QED BY <1>3, <2>2, <2>3, <2>4 DEF ReferenceInv
<1>6. CASE Reference!Discard
  BY <1>2, <1>4, <1>6 DEF Reference!Discard, Reference!TypeOK
<1>7. CASE Reference!Capture
  BY <1>2, <1>4, <1>7 DEF Reference!Capture, Reference!TypeOK
<1>8. CASE Reference!Confirm
  <2>1. CASE UNCHANGED <<generation, inFlight, jobs>>
    BY <1>2, <1>4, <1>8, <2>1 DEF Reference!Confirm, Reference!TypeOK
  <2>2. CASE candidate \notin {Reference!None, inFlight.frame}
        /\ Reference!Submit("Persist", candidate)
    <3>1. candidate \in Reference!Pictures
      BY <1>2, <2>2, ReferenceConstants DEF Reference!TypeOK
    <3> QED BY <1>5, <1>8, <2>2, <3>1 DEF Reference!Confirm
  <2> QED BY <1>8, <2>1, <2>2 DEF Reference!Confirm
<1>9. CASE Reference!Import
  <2>1. Head(referenceInbox).picture \in Reference!Pictures
    BY <1>3, <1>9 DEF Reference!Import
  <2> QED BY <1>5, <1>9, <2>1 DEF Reference!Import
<1> QED BY <1>1, <1>6, <1>7, <1>8, <1>9

\* The engine polls its results, takes over the device's candidate and shows both.
LEMMA EngineStepKeeps ==
  ASSUME ReferenceInv, Reference!EngineStep
  PROVE  /\ ReferenceInv'
         /\ reference'.installs # reference.installs => reference'.picture = disk
<1> DEFINE after == Reference!AfterPoll
<1> DEFINE new == IF published.id > seen THEN published.candidate ELSE after.candidate
<1>1. Reference!TypeOK /\ JobsAreWhole /\ InOrder /\ NewestIsOnDisk /\ FramesRise
      /\ SavesRise
      /\ MessagesAreWhole
  BY DEF ReferenceInv
<1>2. /\ after \in Polling /\ after.candidate \in {candidate, Reference!None}
      /\ after.inFlight \in {inFlight, Reference!NoFlight}
      /\ \A k \in DOMAIN results : results[k].generation = inFlight.generation =>
           after.inFlight = Reference!NoFlight
      /\ (\A k \in DOMAIN results : results[k].generation # inFlight.generation) =>
           after.inFlight = inFlight
      /\ after.installs # reference.installs => after.reference = disk
  BY <1>1, AfterPollFacts, WorkerTyped DEF PolledFacts
<1>3. /\ results' = <<>> /\ candidate' = new /\ seen' = published.id
      /\ reference' = [picture |-> after.reference, installs |-> after.installs]
      /\ inFlight' = after.inFlight
      /\ pending' \in {pending, pending \cup {"discard"}}
      /\ snapshot' = [candidate |-> new, reference |-> after.reference,
                      installs |-> after.installs]
      /\ UNCHANGED <<referenceInbox, generation, jobs, worker, disk, screen, event,
                     published, dialog, previous, clicks>>
  BY DEF Reference!EngineStep, Reference!uiVars
<1> HIDE DEF after
<1>4. new \in {published.candidate, candidate, Reference!None}
      /\ new \in Reference!Frames \cup {Reference!None}
  BY <1>1, <1>2 DEF Reference!TypeOK
<1>5. reference'.installs # reference.installs => reference'.picture = disk
  BY <1>2, <1>3
<1> HIDE DEF new
<1>6. Reference!TypeOK'
  <2>1. /\ after.reference \in Reference!Pictures \cup {Reference!None}
           /\ after.installs \in Nat
    BY <1>2 DEF Polling
  <2>2. /\ snapshot' \in [candidate : Reference!Frames
           \cup {Reference!None}, reference : Reference!Pictures \cup {Reference!None},
                          installs : Nat]
        /\ reference' \in [picture : Reference!Pictures
              \cup {Reference!None}, installs : Nat]
    BY <1>3, <1>4, <2>1
  <2>3. /\ inFlight' \in [frame : Reference!Frames
           \cup {Reference!None}, generation : 0 .. generation']
        /\ pending' \subseteq {"discard", "capture"}
    BY <1>1, <1>2, <1>3 DEF Reference!TypeOK, Reference!NoFlight
  <2>4. /\ results' \in Seq(Reference!JobOf({"Load", "Persist", "Import",
           "LoadFailed", "Failed"}))
        /\ Len(results') <= JobCapacity
    BY <1>3, ReferenceConstants
  <2>5. published \in [id : 0 .. event.id, candidate : Reference!Frames
        \cup {Reference!None}] /\ event.id \in Nat
    BY <1>1 DEF Reference!TypeOK
  <2>6. seen' \in 0 .. published'.id
    BY <1>3, <2>5
  <2>7. candidate' \in Reference!Frames \cup {Reference!None}
    BY <1>3, <1>4
  <2> QED BY <1>1, <1>3, <2>2, <2>3, <2>4, <2>6, <2>7 DEF Reference!TypeOK
<1>7. MessagesAreWhole'
  BY <1>1, <1>3 DEF MessagesAreWhole
<1>8. (Busy' <=> Busy) /\ DOMAIN results' = {}
  BY <1>3 DEF Busy
<1>9. JobsAreWhole' /\ InOrder' /\ NewestIsOnDisk'
  BY <1>1, <1>3, <1>8 DEF JobsAreWhole, InOrder, NewestIsOnDisk
<1>10. FramesRise'
  <2>1. inFlight'.frame \in {inFlight.frame, Reference!None}
    BY <1>2, <1>3 DEF Reference!NoFlight
  <2>2. candidate' \in {published.candidate, candidate, Reference!None}
    BY <1>3, <1>4
  <2>3. candidate \in Nat /\ published.candidate \in Nat /\ screen \in Nat
        /\ Reference!None = 0
    BY <1>1, ReferenceConstants DEF Reference!TypeOK
  <2> QED BY <1>1, <1>3, <2>1, <2>2, <2>3 DEF FramesRise, NotAfter
<1>11. SavesRise'
  <2>1. \A job : job \in Reference!Unpolled' <=>
          (\E i \in DOMAIN jobs : job = jobs[i]) \/ (Busy /\ job = worker)
    BY <1>3, <1>8, UnpolledNext
  <2>2. Saves' \subseteq Saves
    BY <2>1, UnpolledFacts DEF Saves
  <2>3. CASE inFlight' = inFlight
    BY <1>1, <2>2, <2>3, SavesStay
  <2>4. CASE \E k \in DOMAIN results : results[k].generation = inFlight.generation
    <3>1. PICK k \in DOMAIN results : results[k].generation = inFlight.generation
      BY <2>4
    <3>2. ASSUME NEW job \in Saves' PROVE FALSE
      <4>1. results[k].generation < job.generation
        BY <1>1, <2>1, <3>2 DEF Saves, InOrder
      <4>2. job \in Saves /\ job \in Reference!Unpolled
        BY <2>2, <3>2 DEF Saves
      <4>3. job.generation <= inFlight.generation
        BY <1>1, <4>2 DEF SavesRise
      <4>4. job.generation \in Nat /\ inFlight.generation \in Nat
        BY <1>1, <4>2, UnpolledTyped, WorkerTyped DEF Whole
      <4> QED BY <3>1, <4>1, <4>3, <4>4
    <3> QED BY <3>2 DEF SavesRise
  <2> QED BY <1>2, <1>3, <2>3, <2>4
<1> QED BY <1>5, <1>6, <1>7, <1>9, <1>10, <1>11 DEF ReferenceInv

\* The worker takes a job.
LEMMA TakeKeeps ==
  ASSUME ReferenceInv, Reference!WorkerTake
  PROVE  ReferenceInv'
<1>1. Reference!TypeOK /\ JobsAreWhole /\ InOrder /\ NewestIsOnDisk /\ FramesRise
      /\ SavesRise
      /\ MessagesAreWhole /\ jobs \in Seq(Job) /\ Len(jobs) <= JobCapacity
  BY WorkerTyped DEF ReferenceInv, Reference!TypeOK
<1>2. /\ worker = Reference!Waiting /\ jobs # <<>> /\ worker' = Head(jobs)
         /\ jobs' = Tail(jobs)
      /\ UNCHANGED <<results, disk, referenceInbox, snapshot, dialog, previous,
            clicks, candidate,
                     reference, generation, inFlight, seen, pending, screen, event,
                           published>>
  BY DEF Reference!WorkerTake, Reference!uiVars, Reference!engineVars,
     Reference!deviceVars
<1>3. /\ worker' \in Job /\ worker' = jobs[1] /\ 1 \in DOMAIN jobs /\ jobs' \in Seq(Job)
      /\ Len(jobs') = Len(jobs) - 1 /\ Len(jobs) \in Nat
      /\ \A i \in DOMAIN jobs' : i + 1 \in DOMAIN jobs /\ jobs'[i] = jobs[i + 1]
      /\ DOMAIN jobs' = 1 .. Len(jobs) - 1
  BY <1>1, <1>2, HeadIsTaken
<1>4. ~Busy /\ Busy'
  BY <1>2, <1>3, JobsAreBusy DEF Busy
<1>5. Reference!TypeOK'
  <2>1. Len(jobs') <= JobCapacity
    BY <1>1, <1>3, ReferenceConstants
  <2> QED BY <1>1, <1>2, <1>3, <2>1 DEF Reference!TypeOK, Job, Installing
<1>6. MessagesAreWhole'
  BY <1>1, <1>2 DEF MessagesAreWhole
<1>7. JobsAreWhole'
  BY <1>1, <1>2, <1>3, <1>4 DEF JobsAreWhole, Whole
<1>8. InOrder'
  <2>1. ASSUME NEW j \in DOMAIN jobs' PROVE worker'.generation < jobs'[j].generation
    <3>1. 1 < j + 1 /\ j + 1 \in DOMAIN jobs /\ jobs'[j] = jobs[j + 1]
      BY <1>3
    <3> QED BY <1>1, <1>3, <3>1 DEF InOrder
  <2>2. ASSUME NEW i \in DOMAIN jobs', NEW j \in DOMAIN jobs', i < j
        PROVE  jobs'[i].generation < jobs'[j].generation
    <3>1. i + 1 < j + 1 /\ i + 1 \in DOMAIN jobs /\ j + 1 \in DOMAIN jobs
          /\ jobs'[i] = jobs[i + 1] /\ jobs'[j] = jobs[j + 1]
      BY <1>3, <2>2
    <3> QED BY <1>1, <3>1 DEF InOrder
  <2>3. ASSUME NEW i \in DOMAIN results'
        PROVE  /\ results'[i].generation < worker'.generation
               /\ \A j \in DOMAIN jobs' : results'[i].generation < jobs'[j].generation
    BY <1>1, <1>2, <1>3 DEF InOrder
  <2>4. \A i, j \in DOMAIN results' : i < j
        => results'[i].generation < results'[j].generation
    BY <1>1, <1>2 DEF InOrder
  <2> QED BY <2>1, <2>2, <2>3, <2>4 DEF InOrder
<1>9. NewestIsOnDisk' /\ FramesRise'
  BY <1>1, <1>2 DEF NewestIsOnDisk, FramesRise
<1>10. Saves' \subseteq Saves
  <2>1. \A job : job \in Reference!Unpolled' => job \in Reference!Unpolled
    BY <1>2, <1>3, <1>4, UnpolledFacts, UnpolledNext
  <2> QED BY <2>1 DEF Saves
<1>11. SavesRise'
  BY <1>1, <1>2, <1>10, SavesStay
<1> QED BY <1>5, <1>6, <1>7, <1>8, <1>9, <1>11 DEF ReferenceInv

\* The worker answers, or is gone with its answer; the file keeps to its picture.
LEMMA AnswerKeeps ==
  ASSUME ReferenceInv, Busy, NEW result \in Answers, result.generation = worker.generation,
         result.kind = "Persist" => result = worker,
         result.kind = "Import" => result.picture \in Reference!Pictures,
         result.kind \in Installing => result.picture = disk',
         Reference!Answer(result), disk' \in Reference!Pictures,
         UNCHANGED <<jobs, referenceInbox, snapshot, dialog, previous, clicks, candidate,
                     reference, generation, inFlight, seen, pending, screen, event,
                           published>>
  PROVE  ReferenceInv'
<1>1. Reference!TypeOK /\ JobsAreWhole /\ InOrder /\ NewestIsOnDisk /\ FramesRise
      /\ SavesRise
      /\ MessagesAreWhole /\ results \in Seq(Answers) /\ Len(results) <= JobCapacity
      /\ worker \in Job /\ Whole(worker, generation) /\ Len(results) \in Nat
      /\ generation \in Nat
  BY WorkerTyped DEF ReferenceInv, Reference!TypeOK, JobsAreWhole
<1>2. MessagesAreWhole' /\ FramesRise'
  BY <1>1 DEF MessagesAreWhole, FramesRise
<1>3. ~Busy' /\ worker' \in {Reference!Waiting, Reference!Gone}
  BY DEF Reference!Answer, Busy
<1>4. /\ results' \in Seq(Answers) /\ Len(results') <= JobCapacity
      /\ \A i \in DOMAIN results' :
           \/ i \in DOMAIN results /\ results'[i] = results[i]
           \/ i = Len(results) + 1 /\ results'[i] = result
      /\ DOMAIN results = 1 .. Len(results)
  <2>1. CASE results' = Append(results, result) /\ Len(results) < JobCapacity
    BY <1>1, <2>1, GrowsAtEnd, ReferenceConstants
  <2>2. CASE results' = results
    BY <1>1, <2>2
  <2> QED BY <2>1, <2>2 DEF Reference!Answer
<1>5. Reference!TypeOK'
  BY <1>1, <1>3, <1>4 DEF Reference!TypeOK, Answers, Installing
<1>6. Whole(result, generation)
  BY <1>1 DEF Whole
<1>7. JobsAreWhole'
  <2>1. \A i \in DOMAIN results' : Whole(results'[i], generation)
    BY <1>1, <1>4, <1>6 DEF JobsAreWhole
  <2> QED BY <1>1, <1>3, <2>1 DEF JobsAreWhole
<1>8. InOrder'
  <2>1. ASSUME NEW i \in DOMAIN results', NEW j \in DOMAIN results', i < j
        PROVE  results'[i].generation < results'[j].generation
    <3>1. i \in DOMAIN results /\ results'[i] = results[i]
      BY <1>1, <1>4, <2>1
    <3>2. CASE j \in DOMAIN results /\ results'[j] = results[j]
      BY <1>1, <2>1, <3>1, <3>2 DEF InOrder
    <3>3. CASE results'[j] = result
      BY <1>1, <3>1, <3>3 DEF InOrder
    <3> QED BY <1>4, <3>2, <3>3
  <2>2. ASSUME NEW i \in DOMAIN results', NEW j \in DOMAIN jobs'
        PROVE  results'[i].generation < jobs'[j].generation
    BY <1>1, <1>4 DEF InOrder
  <2> QED BY <1>1, <1>3, <2>1, <2>2 DEF InOrder
<1>9. NewestIsOnDisk'
  <2> SUFFICES ASSUME NEW i \in DOMAIN results', results'[i].generation = generation,
                      results'[i].kind \in Installing
               PROVE  results'[i].picture = disk'
    BY DEF NewestIsOnDisk
  <2>1. CASE i \in DOMAIN results /\ results'[i] = results[i]
    <3>1. results[i].generation < worker.generation /\ worker.generation <= generation
          /\ worker.generation \in Nat
      BY <1>1, <2>1 DEF InOrder, Whole
    <3> QED BY <1>1, <2>1, <3>1
  <2>2. CASE results'[i] = result
    BY <2>2
  <2> QED BY <1>4, <2>1, <2>2
<1>10. SavesRise'
  <2>1. \A job : job \in Reference!Unpolled' => job \in Reference!Unpolled \/ job = result
    BY <1>3, <1>4, UnpolledFacts, UnpolledNext
  <2>2. worker \in Reference!Unpolled
    BY UnpolledFacts
  <2>3. Saves' \subseteq Saves
    BY <2>1, <2>2 DEF Saves
  <2> QED BY <1>1, <2>3, SavesStay
<1> QED BY <1>2, <1>5, <1>7, <1>8, <1>9, <1>10 DEF ReferenceInv

\* A job that was executed leaves its result at the end of the results.
LEMMA ExecuteKeeps ==
  ASSUME ReferenceInv, Reference!WorkerExecute
  PROVE  ReferenceInv'
<1>1. /\ Busy /\ Reference!Execute(worker)
      /\ UNCHANGED <<jobs, referenceInbox, snapshot, dialog, previous, clicks, candidate,
                     reference, generation, inFlight, seen, pending, screen, event,
                           published>>
  BY DEF Reference!WorkerExecute, Busy, Reference!uiVars, Reference!engineVars,
     Reference!deviceVars
<1>2. worker \in Job /\ Whole(worker, generation) /\ disk \in Reference!Pictures
      /\ worker.kind \in Installing
  BY <1>1, JobsAreBusy DEF ReferenceInv, JobsAreWhole, Reference!TypeOK
<1>3. worker.kind = "Persist" => worker.picture \in Reference!Pictures
  BY <1>2, ReferenceConstants DEF Whole
<1>4. CASE Reference!Persists(worker) /\ Reference!Answer([worker EXCEPT !.picture = disk'])
  <2> DEFINE result == [worker EXCEPT !.picture = disk']
  <2>1. disk' \in Reference!Pictures /\ (worker.kind # "Load" => disk' = worker.picture)
    BY <1>2, <1>3, <1>4 DEF Reference!Persists, Whole, Installing
  <2>2. /\ result \in Answers /\ result.kind = worker.kind
        /\ result.generation = worker.generation /\ result.picture = disk'
    BY <1>2, <2>1 DEF Job, Answers, Reference!JobOf, Installing
  <2>3. worker.picture = disk' => result = worker
    BY <1>2 DEF Job, Reference!JobOf
  <2> HIDE DEF result
  <2>4. Reference!Answer(result)
    BY <1>4 DEF result
  <2> QED BY <1>1, <2>1, <2>2, <2>3, <2>4, AnswerKeeps
<1>5. CASE /\ UNCHANGED disk
           /\ Reference!Answer([worker EXCEPT !.kind = IF @ = "Load"
                 THEN "LoadFailed" ELSE "Failed"])
  <2> DEFINE result == [worker EXCEPT !.kind = IF @ = "Load" THEN "LoadFailed"
        ELSE "Failed"]
  <2>1. /\ result \in Answers /\ result.kind \in {"LoadFailed", "Failed"}
        /\ result.generation = worker.generation
    BY <1>2 DEF Job, Answers, Reference!JobOf
  <2> HIDE DEF result
  <2>2. Reference!Answer(result)
    BY <1>5 DEF result
  <2>3. disk' \in Reference!Pictures /\ result.kind \notin Installing
    BY <1>2, <1>5, <2>1 DEF Installing
  <2> QED BY <1>1, <2>1, <2>2, <2>3, AnswerKeeps DEF Installing
<1> QED BY <1>1, <1>4, <1>5 DEF Reference!Execute

\* The device worker captures, discards and publishes its candidate.
LEMMA DeviceKeeps ==
  ASSUME ReferenceInv, Reference!Device
  PROVE  ReferenceInv'
<1>1. /\ UNCHANGED <<referenceInbox, snapshot, dialog, previous, clicks, candidate,
         reference,
                     generation, inFlight, seen, jobs, results, worker, disk>>
      /\ pending' \subseteq {"discard", "capture"}
  BY DEF Reference!Device, Reference!DeviceCommands, Reference!DeviceRefresh,
     Reference!uiVars, Reference!engineVars, Reference!workerVars, ReferenceInv,
     Reference!TypeOK
<1>2. Reference!TypeOK /\ FramesRise
  BY DEF ReferenceInv
<1>3. JobsAreWhole' /\ InOrder' /\ NewestIsOnDisk' /\ Saves' = Saves
  BY <1>1, WorkerStays DEF ReferenceInv
<1>4. SavesRise' /\ MessagesAreWhole'
  BY <1>1, <1>3, SavesStay DEF ReferenceInv, MessagesAreWhole
<1>5. /\ candidate \in Nat /\ inFlight.frame \in Nat /\ published.candidate \in Nat
      /\ event.candidate \in Nat /\ screen \in Reference!Frames /\ screen \in Nat
            /\ Reference!None = 0
      /\ event \in [id : Nat, candidate : Reference!Frames \cup {Reference!None}]
      /\ published \in [id : 0 .. event.id, candidate : Reference!Frames
            \cup {Reference!None}]
      /\ seen \in 0 .. published.id
  BY <1>2, ReferenceConstants DEF Reference!TypeOK
<1>6. ASSUME NEW picture \in Reference!Frames
      \cup {Reference!None}, event' = Reference!Event(picture),
             UNCHANGED published, screen' \in Reference!Frames, screen' >= screen,
             picture \in {Reference!None, event.candidate} \/ picture = screen'
      PROVE  ReferenceInv'
  <2>1. /\ event'.candidate = picture /\ event'.id = event.id + 1
        /\ event' \in [id : Nat, candidate : Reference!Frames \cup {Reference!None}]
    BY <1>5, <1>6 DEF Reference!Event
  <2>2. /\ published' \in [id : 0 .. event'.id, candidate : Reference!Frames
           \cup {Reference!None}]
        /\ seen' \in 0 .. published'.id
    BY <1>1, <1>5, <1>6, <2>1
  <2>3. Reference!TypeOK'
    BY <1>1, <1>2, <1>6, <2>1, <2>2 DEF Reference!TypeOK
  <2>4. screen' \in Nat /\ picture \in Nat
    BY <1>6, ReferenceConstants
  <2>5. FramesRise'
    BY <1>1, <1>2, <1>5, <1>6, <2>1, <2>4 DEF FramesRise, NotAfter
  <2> QED BY <1>3, <1>4, <2>3, <2>5 DEF ReferenceInv
<1>7. CASE Reference!DeviceRefresh
  <2>1. published' = event /\ UNCHANGED <<screen, event>>
    BY <1>7 DEF Reference!DeviceRefresh
  <2>2. /\ published' \in [id : 0 .. event'.id, candidate : Reference!Frames
           \cup {Reference!None}]
        /\ seen' \in 0 .. published'.id
    BY <1>1, <1>5, <2>1
  <2>3. Reference!TypeOK'
    BY <1>1, <1>2, <2>1, <2>2 DEF Reference!TypeOK
  <2>4. FramesRise'
    BY <1>1, <1>2, <1>5, <2>1 DEF FramesRise, NotAfter
  <2> QED BY <1>3, <1>4, <2>3, <2>4 DEF ReferenceInv
<1>8. CASE Reference!DeviceCommands
  <2>1. UNCHANGED published
    BY <1>8 DEF Reference!DeviceCommands
  <2>2. CASE event' = Reference!Event(Reference!None) /\ UNCHANGED screen
    BY <1>5, <1>6, <2>1, <2>2
  <2>3. CASE \E frame \in Reference!Frames : frame >= screen /\ screen' = frame
        /\ event' = Reference!Event(frame)
    BY <1>5, <1>6, <2>1, <2>3
  <2>4. CASE event' = Reference!Event(event.candidate) /\ UNCHANGED screen
    BY <1>5, <1>6, <2>1, <2>4
  <2> QED BY <1>8, <2>2, <2>3, <2>4 DEF Reference!DeviceCommands,
     Reference!DeviceCapture
<1> QED BY <1>7, <1>8 DEF Reference!Device

\* Every step keeps the invariant, and installs only what the file holds.
LEMMA ReferenceNext ==
  ASSUME ReferenceInv, [Reference!Next]_(Reference!vars)
  PROVE  /\ ReferenceInv'
         /\ reference'.installs # reference.installs => reference'.picture = disk
<1>1. CASE Reference!Ui \/ Reference!UiLooks \/ Reference!UiTimeout
  <2>1. UNCHANGED reference
    BY <1>1 DEF Reference!engineVars, Reference!Ui, Reference!UiLooks,
       Reference!UiTimeout, Reference!UiPrepare, Reference!UiConfirm,
       Reference!UiCancel, Reference!UiImport,
       Reference!UiCapture, Reference!UiCaptured, Reference!UiLost,
       Reference!UiSaved, Reference!Becomes
  <2> QED BY <1>1, <2>1, UiKeeps
<1>2. CASE Reference!EngineCommand
  <2>1. UNCHANGED reference
    BY <1>2 DEF Reference!EngineCommand, Reference!Discard, Reference!Capture,
       Reference!Confirm, Reference!Import
  <2> QED BY <1>2, <2>1, CommandKeeps
<1>3. CASE Reference!EngineStep
  BY <1>3, EngineStepKeeps
<1>4. CASE Reference!Worker
  <2>1. UNCHANGED reference
    BY <1>4 DEF Reference!Worker, Reference!WorkerTake, Reference!WorkerExecute,
       Reference!engineVars
  <2> QED BY <1>4, <2>1, TakeKeeps, ExecuteKeeps DEF Reference!Worker
<1>5. CASE Reference!Device
  <2>1. UNCHANGED reference
    BY <1>5 DEF Reference!Device, Reference!DeviceCommands, Reference!DeviceRefresh,
       Reference!engineVars
  <2> QED BY <1>5, <2>1, DeviceKeeps
<1>6. CASE UNCHANGED Reference!vars
  <2>1. /\ UNCHANGED <<dialog, previous, clicks, snapshot, referenceInbox, candidate,
           reference,
                       generation, inFlight, jobs, results, worker, disk, pending, screen,
                       event, published, seen>>
    BY <1>6 DEF Reference!vars
  <2>2. JobsAreWhole' /\ InOrder' /\ NewestIsOnDisk' /\ FramesRise' /\ SavesRise'
    BY <2>1, RestStays
  <2>3. Reference!TypeOK' /\ MessagesAreWhole'
    BY <2>1 DEF ReferenceInv, Reference!TypeOK, MessagesAreWhole
  <2> QED BY <2>1, <2>2, <2>3 DEF ReferenceInv
<1> QED BY <1>1, <1>2, <1>3, <1>4, <1>5, <1>6 DEF Reference!Next, Reference!Engine

\* The inductive invariant says that no candidate is saved twice.
LEMMA SavedOnceFollows == ReferenceInv => Reference!TypeOK /\ Reference!SavedOnce
<1> SUFFICES ASSUME ReferenceInv PROVE Reference!TypeOK /\ Reference!SavedOnce
  OBVIOUS
<1>1. ASSUME NEW one \in Reference!Unpolled, NEW other \in Reference!Unpolled,
      one.kind = "Persist",
             other.kind = "Persist", one.picture = other.picture
      PROVE  one.generation = other.generation
  <2>1. one \in Saves /\ other \in Saves
    BY <1>1 DEF Saves
  <2>2. /\ one.generation \in Nat /\ other.generation \in Nat
        /\ one.picture \in Nat /\ other.picture \in Nat
    BY <1>1, UnpolledTyped, WorkerTyped, ReferenceConstants DEF ReferenceInv, Whole
  <2>3. /\ one.generation < other.generation => one.picture < other.picture
        /\ other.generation < one.generation => other.picture < one.picture
    BY <2>1 DEF ReferenceInv, SavesRise
  <2> QED BY <1>1, <2>2, <2>3
<1> QED BY <1>1 DEF Reference!SavedOnce, ReferenceInv

\* The inductive invariant of the reference picture, for any number of frames,
\* imports, clicks and jobs, and whatever fails or times out.
THEOREM ReferenceInvariance == Reference!Spec => []ReferenceInv
<1>1. ReferenceInv /\ [Reference!Next]_(Reference!vars) => ReferenceInv'
  BY ReferenceNext
<1> QED BY <1>1, ReferenceInit, PTL DEF Reference!Spec

\* No candidate is saved twice.
THEOREM CandidatesSavedOnce == Reference!Spec => [](Reference!TypeOK /\ Reference!SavedOnce)
BY ReferenceInvariance, SavedOnceFollows, PTL

\* A picture that comes into use is the one that the file holds, however many
\* results are polled at once and whatever has overtaken them.
THEOREM InstalledIsOnDisk == Reference!Spec => Reference!MemoryFollowsDisk
<1> DEFINE Follows == reference'.installs # reference.installs => reference'.picture = disk
<1>1. ReferenceInv /\ [Reference!Next]_(Reference!vars) => [Follows]_(Reference!vars)
  BY ReferenceNext
<1> QED BY <1>1, ReferenceInvariance, PTL DEF Reference!Spec,
   Reference!MemoryFollowsDisk

----------------------------------------------------------------------------
\* The composition (MCLoop).

\* A behaviour of the composition is a behaviour of the mailbox.
LEMMA LoopRunsMailbox == MCSpec => Mailbox!Spec
<1>1. MCInit => Mailbox!Init
  BY DEF MCInit
<1>2. [MCNext]_<<part, vars, mailboxVars, referenceVars>>
        => [Mailbox!Next]_(Mailbox!vars)
  BY DEF MCNext, mailboxVars, Mailbox!vars, Mailbox!uiVars, Mailbox!slotVars,
     Mailbox!engineVars
<1> QED
  BY <1>1, <1>2, PTL DEF MCSpec, Mailbox!Spec

\* It is a behaviour of the reference picture.
LEMMA LoopRunsReference == MCSpec => Reference!Spec
<1>1. MCInit => Reference!Init
  BY DEF MCInit
<1>2. [MCNext]_<<part, vars, mailboxVars, referenceVars>>
        => [Reference!Next]_(Reference!vars)
  BY DEF MCNext, referenceVars, Reference!vars
<1> QED
  BY <1>1, <1>2, PTL DEF MCSpec, Reference!Spec

\* For any modes, targets, capacities, burst, frames, imports, clicks and jobs, and
\* whatever fails or times out: the pending restarts are those that are under way,
\* the runtime ends in the mode the interface shows, no candidate is saved twice, and
\* a picture that comes into use is the one on disk.
THEOREM LoopStaysSafe == MCSpec => LoopIsSafe
<1>1. MailboxInv => (part = "mailbox" =>
        Mailbox!TypeOK /\ Mailbox!PendingIsUnderway /\ Mailbox!LastWins)
  BY MailboxInvImplies
<1>2. Reference!TypeOK /\ Reference!SavedOnce
        => (part = "reference" => Reference!TypeOK /\ Reference!SavedOnce)
  OBVIOUS
<1> QED
  BY <1>1, <1>2, MailboxInvariance, CandidatesSavedOnce, InstalledIsOnDisk,
     LoopRunsMailbox, LoopRunsReference, PTL DEF LoopIsSafe
===============================================================================
