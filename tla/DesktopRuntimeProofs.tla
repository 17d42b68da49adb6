------------------------- MODULE DesktopRuntimeProofs -------------------------
(***************************************************************************)
(* Theorems about DesktopRuntime, for every capacity of the queue, size of  *)
(* a batch, number of inputs and warps, and set of sessions: its own        *)
(* promises first, then that it implements InputChannel.                    *)
(***************************************************************************)
EXTENDS DesktopRuntime, SubsequenceProofs, SequenceTheorems

---------------------------------------------------------------------------
(* No wake is lost *)

\* What the host did not poll has armed a wake, and an armed wake is on its way: in the
\* event loop, about to be sent by the owner, or taken by a host about to poll.
WakeInv ==
  /\ quit \in {"No", "Pending", "Replied"}
  /\ wakePending \in BOOLEAN /\ willWake \in BOOLEAN /\ wakeEvent \in BOOLEAN
  /\ quit = "Replied" => host = "Exited"
  /\ pc # "Wake" => willWake = FALSE
  /\ Unpolled => wakePending
  /\ wakePending /\ quit = "No" => wakeEvent \/ willWake \/ host \in {"Poll", "Exited"}

\* A mailbox starts with no news.
LEMMA InitWake == Init => WakeInv
BY DEF Init, MailboxInit, OwnerStart, WakeInv, Unpolled

\* Every publication, wake and poll keeps news and wake together.
LEMMA StepWake == WakeInv /\ [Next]_vars => WakeInv'
<1> SUFFICES ASSUME WakeInv, [Next]_vars PROVE WakeInv'
  OBVIOUS
<1> USE DEF WakeInv, Unpolled, mailboxVars, ownerVars, hostVars, history, MailboxExcept
<1>1. CASE OwnerPreflight
  BY <1>1 DEF OwnerPreflight
<1>2. CASE OwnerCheckStart
  BY <1>2 DEF OwnerCheckStart
<1>3. CASE OwnerInitialize
  <2>1. CASE pc' = "Flush" /\ UNCHANGED <<mailboxVars, willWake>>
    BY <1>3, <2>1 DEF OwnerInitialize
  <2>2. CASE /\ Publish(FALSE, [warp |-> 0]) /\ willWake' = ~ wakePending /\ pc' = "Wake"
             /\ UNCHANGED <<bundle, status>>
    BY <1>3, <2>2 DEF OwnerInitialize, Publish
  <2> QED BY <1>3, <2>1, <2>2 DEF OwnerInitialize
<1>4. CASE OwnerReady
  BY <1>4 DEF OwnerReady, SetStatus
<1>5. CASE OwnerWake
  BY <1>5 DEF OwnerWake
<1>6. CASE OwnerTakePresentation
  BY <1>6 DEF OwnerTakePresentation
<1>7. CASE OwnerCheckShutdown
  BY <1>7 DEF OwnerCheckShutdown
<1>8. CASE OwnerDrain
  BY <1>8 DEF OwnerDrain
<1>9. CASE OwnerApplyQueued
  BY <1>9 DEF OwnerApplyQueued
<1>10. CASE OwnerWait
  BY <1>10 DEF OwnerWait
<1>11. CASE OwnerStartFrame
  BY <1>11 DEF OwnerStartFrame
<1>12. CASE OwnerSafePoint
  BY <1>12 DEF OwnerSafePoint
<1>13. CASE OwnerSafePop
  BY <1>13 DEF OwnerSafePop
<1>14. CASE OwnerSafePopDone
  BY <1>14 DEF OwnerSafePopDone
<1>15. CASE OwnerSlice
  BY <1>15 DEF OwnerSlice
<1>16. CASE OwnerStopSlicing
  BY <1>16 DEF OwnerStopSlicing
<1>17. CASE OwnerMixAudio
  BY <1>17 DEF OwnerMixAudio
<1>18. CASE OwnerEndFrame
  BY <1>18 DEF OwnerEndFrame
<1>19. CASE OwnerCapture
  BY <1>19 DEF OwnerCapture, Publish
<1>20. CASE OwnerFlush
  BY <1>20 DEF OwnerFlush
<1>21. CASE OwnerStop
  BY <1>21 DEF OwnerStop
<1>22. CASE OwnerPublishStatus
  BY <1>22 DEF OwnerPublishStatus, SetStatus
<1>23. CASE Alive /\ HostQuitTimer
  BY <1>23 DEF HostQuitTimer, Alive
<1>24. CASE HostWake
  BY <1>24 DEF HostWake
<1>25. CASE HostPoll
  BY <1>25 DEF HostPoll, Poll
<1>26. CASE HostWarpPointer
  BY <1>26 DEF HostWarpPointer
<1>27. CASE HostPresent
  BY <1>27 DEF HostPresent
<1>28. CASE HostRetryJoin
  BY <1>28 DEF HostRetryJoin
<1>29. CASE HostJoined
  BY <1>29 DEF HostJoined
<1>30. CASE HostEnterBundle
  <2>1. UNCHANGED <<quit, wakeEvent>> /\ pc = "Done" /\ host = "Status"
    BY <1>30 DEF HostEnterBundle
  <2>2. CASE host' = "Exited" /\ UNCHANGED <<mailboxVars, ownerVars, seen>>
    BY <2>1, <2>2
  <2>3. CASE seen' = "Starting" /\ NewMailbox /\ NewOwner
    BY <2>1, <2>3 DEF NewMailbox, NewOwner
  <2>4. CASE host' = "Idle" /\ UNCHANGED <<mailboxVars, ownerVars, seen>>
    BY <2>1, <2>4
  <2> QED BY <1>30, <2>2, <2>3, <2>4 DEF HostEnterBundle
<1>31. CASE Alive /\ HostClose
  BY <1>31 DEF HostClose, Alive
<1>32. CASE Alive /\ HostQuit
  BY <1>32 DEF HostQuit, Alive
<1>33. ASSUME NEW kind \in Kinds, HostInput(kind) PROVE WakeInv'
  BY <1>33 DEF HostInput
<1>34. CASE UNCHANGED vars
  BY <1>34 DEF vars
<1> QED BY <1>1, <1>2, <1>3, <1>4, <1>5, <1>6, <1>7, <1>8, <1>9, <1>10, <1>11, <1>12,
           <1>13, <1>14, <1>15, <1>16, <1>17, <1>18, <1>19, <1>20, <1>21, <1>22, <1>23,
           <1>24, <1>25, <1>26, <1>27, <1>28, <1>29, <1>30, <1>31, <1>32, <1>33, <1>34
        DEF Next, OwnerStep, HostStep, User, Alive

\* WakeNeverLost: with any interleaving of publications, wakes and polls, the window
\* thread sleeps on news only while a wake is on its way (runtime_mailbox.rs publish, poll).
THEOREM NoLostWake == Spec => []WakeNeverLost
<1>1. WakeInv => WakeNeverLost
  BY DEF WakeInv, WakeNeverLost
<1> QED BY InitWake, StepWake, <1>1, PTL DEF Spec

---------------------------------------------------------------------------
(* A warp is published until it was applied *)

\* What waits for the owner: inputs and acknowledgements.
Command == [kind : Kinds \cup {"Ack"}, n : Nat]

\* Of the acknowledgements that wait none names a warp after `warp`.
Acked(queue, warp) ==
  /\ queue \in Seq(Command)
  /\ \A i \in DOMAIN queue : queue[i].kind = "Ack" => queue[i].n <= warp

\* Taking, adding and merging keep it.
LEMMA AckedTail ==
  ASSUME NEW queue, NEW warp, Acked(queue, warp), queue # << >>
  PROVE  /\ Acked(Tail(queue), warp)
         /\ Head(queue) \in Command
         /\ Head(queue).kind = "Ack" => Head(queue).n <= warp
<1>1. \A i \in DOMAIN Tail(queue) : i + 1 \in DOMAIN queue /\ Tail(queue)[i] = queue[i + 1]
  BY DEF Acked
<1>2. 1 \in DOMAIN queue /\ Head(queue) = queue[1] /\ queue[1] \in Command
  BY DEF Acked
<1>3. Tail(queue) \in Seq(Command)
  BY DEF Acked
<1> QED BY <1>1, <1>2, <1>3 DEF Acked

LEMMA AckedAppend ==
  ASSUME NEW queue, NEW warp, Acked(queue, warp), NEW c \in Command,
         c.kind = "Ack" => c.n <= warp
  PROVE  Acked(Append(queue, c), warp)
BY DEF Acked

LEMMA AckedMerge ==
  ASSUME NEW queue, NEW warp, Acked(queue, warp), queue # << >>, NEW c \in Command,
         c.kind # "Ack"
  PROVE  Acked([queue EXCEPT ![Len(queue)] = c], warp)
BY DEF Acked

LEMMA AckedLater ==
  ASSUME NEW queue, NEW warp \in Nat, NEW later \in Nat, warp <= later, Acked(queue, warp)
  PROVE  Acked(queue, later)
<1>1. \A i \in DOMAIN queue : queue[i] \in Command
  BY DEF Acked
<1>2. \A c \in Command : c.n \in Nat
  BY DEF Command
<1> QED BY <1>1, <1>2 DEF Acked

\* An acknowledgement names a warp that the host applied, and what is published or kept by
\* the host is the pending warp or a predecessor the host did not go beyond.  An owner that
\* ends with a native bundle never ran a guest.
WarpInv ==
  /\ Acked(commands, appliedWarp) /\ sent \in Nat
  /\ acks \in Seq(Nat) /\ \A i \in DOMAIN acks : acks[i] <= appliedWarp
  /\ warpSerial \in Nat /\ appliedWarp \in 0..warpSerial /\ pendingWarp \in {0, warpSerial}
  /\ warpSerial > appliedWarp => pendingWarp = warpSerial
  /\ hostWarp \in {0} \cup appliedWarp..warpSerial
  /\ host = "Warp" => hostWarp # 0
  /\ published # NoState =>
       /\ published \in [warp : Nat]
       /\ published.warp \in {0} \cup hostWarp..warpSerial
       /\ published.warp \in {0} \cup appliedWarp..warpSerial
  /\ after \in {"Ready", "Top", "Slice", "Audio", "Done"}
  /\ pc = "Preflight" => warpSerial = 0
  /\ nativeBundle => warpSerial = 0 /\ (pc \in Ended \/ (pc = "Wake" /\ after = "Done"))
  /\ bundle \/ hostBundle \/ pc = "StopWithBundle" => nativeBundle

\* No warp is pending at the start.
LEMMA InitWarp == Init => WarpInv
BY DEF Init, MailboxInit, OwnerStart, WarpInv, Acked

\* Taking and applying a command leaves the newest pending warp alone.
LEMMA TakeWarp ==
  ASSUME WarpInv, TakeCommand, ApplyCommand(Head(commands))
  PROVE  /\ Acked(commands', appliedWarp)
         /\ pendingWarp' \in {0, warpSerial}
         /\ warpSerial > appliedWarp => pendingWarp' = warpSerial
<1>1. commands # << >> /\ commands' = Tail(commands)
  BY DEF TakeCommand
<1>2. Acked(Tail(commands), appliedWarp) /\ (Head(commands).kind = "Ack" => Head(commands).n <= appliedWarp)
      /\ Head(commands) \in Command
  BY <1>1, AckedTail DEF WarpInv
<1>3. \/ pendingWarp' = pendingWarp
      \/ Head(commands).kind = "Ack" /\ pendingWarp' = Acknowledged({Head(commands).n})
  BY DEF ApplyCommand
<1> QED BY <1>1, <1>2, <1>3 DEF WarpInv, Acknowledged, Command

\* Every step keeps the acknowledgements in the mailbox no newer than the warp last applied.
LEMMA StepWarp == WarpInv /\ [Next]_vars => WarpInv'
<1> SUFFICES ASSUME WarpInv, [Next]_vars PROVE WarpInv'
  OBVIOUS
<1> USE DEF WarpInv, mailboxVars, ownerVars, hostVars, history, MailboxExcept
<1>1. CASE OwnerPreflight
  BY <1>1 DEF OwnerPreflight, Ended
<1>2. CASE OwnerCheckStart
  BY <1>2 DEF OwnerCheckStart, Ended
<1>3. CASE OwnerInitialize
  BY <1>3 DEF OwnerInitialize, Publish, Ended
<1>4. CASE OwnerReady
  BY <1>4 DEF OwnerReady, SetStatus, Ended
<1>5. CASE OwnerWake
  BY <1>5 DEF OwnerWake, Ended
<1>6. CASE OwnerTakePresentation
  BY <1>6 DEF OwnerTakePresentation, Ended
<1>7. CASE OwnerCheckShutdown
  BY <1>7 DEF OwnerCheckShutdown, Ended
<1>8. CASE OwnerDrain
  <2>1. UNCHANGED <<acks, warpSerial, hostWarp, published, appliedWarp, host, after,
                    nativeBundle, bundle, hostBundle, sent>>
    BY <1>8 DEF OwnerDrain
  <2>2. pc = "Drain" /\ pc' \in {"Drain", "Flush"}
    BY <1>8 DEF OwnerDrain
  <2>3. CASE UNCHANGED <<commands, pendingWarp>>
    BY <2>1, <2>2, <2>3 DEF Ended
  <2>4. CASE TakeCommand /\ ApplyCommand(Head(commands))
    BY <2>1, <2>2, <2>4, TakeWarp DEF Ended
  <2> QED BY <1>8, <2>3, <2>4 DEF OwnerDrain
<1>9. CASE OwnerApplyQueued
  <2>1. TakeCommand /\ ApplyCommand(Head(commands))
    BY <1>9 DEF OwnerApplyQueued
  <2>2. UNCHANGED <<acks, warpSerial, hostWarp, published, appliedWarp, host, pc, after,
                    nativeBundle, bundle, hostBundle, sent>>
    BY <1>9 DEF OwnerApplyQueued
  <2> QED BY <2>1, <2>2, TakeWarp
<1>10. CASE OwnerWait
  BY <1>10 DEF OwnerWait, Ended
<1>11. CASE OwnerStartFrame
  BY <1>11 DEF OwnerStartFrame, Ended
<1>12. CASE OwnerSafePoint
  BY <1>12 DEF OwnerSafePoint, Ended
<1>13. CASE OwnerSafePop
  <2> DEFINE c == Head(commands)
  <2>1. commands # << >> /\ commands' = Tail(commands)
    BY <1>13 DEF OwnerSafePop, TakeCommand
  <2>2. acks' = acks \/ (c.kind = "Ack" /\ acks' = Append(acks, c.n))
    BY <1>13 DEF OwnerSafePop
  <2>3. UNCHANGED <<warpSerial, pendingWarp, hostWarp, published, appliedWarp, host, pc, after,
                    nativeBundle, bundle, hostBundle, sent>>
    BY <1>13 DEF OwnerSafePop
  <2>4. /\ Acked(commands', appliedWarp)
        /\ c.kind = "Ack" => c.n \in Nat /\ c.n <= appliedWarp
    BY <2>1, AckedTail DEF Command
  <2>5. acks' \in Seq(Nat) /\ \A i \in DOMAIN acks' : acks'[i] <= appliedWarp
    <3>1. acks \in Seq(Nat) /\ \A i \in DOMAIN acks : acks[i] <= appliedWarp
      OBVIOUS
    <3> HIDE DEF c
    <3>2. CASE acks' = acks
      BY <3>1, <3>2
    <3>3. CASE c.kind = "Ack" /\ acks' = Append(acks, c.n)
      BY <2>4, <3>1, <3>3
    <3> QED BY <2>2, <3>2, <3>3
  <2> QED BY <2>3, <2>4, <2>5
<1>14. CASE OwnerSafePopDone
  BY <1>14 DEF OwnerSafePopDone, Ended
<1>15. CASE OwnerSlice
  BY <1>15 DEF OwnerSlice, Ended
<1>16. CASE OwnerStopSlicing
  BY <1>16 DEF OwnerStopSlicing, Ended
<1>17. CASE OwnerMixAudio
  BY <1>17 DEF OwnerMixAudio, Ended
<1>18. CASE OwnerEndFrame
  <2>1. pendingWarp' = Acknowledged({acks[i] : i \in DOMAIN acks}) /\ acks' = << >>
    BY <1>18 DEF OwnerEndFrame
  <2>2. UNCHANGED <<commands, warpSerial, hostWarp, published, appliedWarp, host, nativeBundle,
                    bundle, hostBundle, sent>>
    BY <1>18 DEF OwnerEndFrame
  <2>3. pc = "EndFrame" /\ pc' \in {"Flush", "Top", "Capture"}
    BY <1>18 DEF OwnerEndFrame
  <2>4. warpSerial > appliedWarp => pendingWarp' = pendingWarp
    BY <2>1 DEF Acknowledged
  <2>5. pendingWarp' \in {0, warpSerial}
    BY <2>1 DEF Acknowledged
  <2>6. acks' \in Seq(Nat) /\ \A i \in DOMAIN acks' : acks'[i] <= appliedWarp
    BY <2>1
  <2>7. after' = "Slice"
    BY <1>18 DEF OwnerEndFrame
  <2> QED BY <2>2, <2>3, <2>4, <2>5, <2>6, <2>7 DEF Ended
<1>19. CASE OwnerCapture
  <2>1. published' = [warp |-> pendingWarp']
    BY <1>19 DEF OwnerCapture, Publish
  <2>2. UNCHANGED <<commands, acks, hostWarp, appliedWarp, host, nativeBundle, bundle, hostBundle,
                    sent>>
    BY <1>19 DEF OwnerCapture
  <2>3. \/ warpSerial' = warpSerial + 1 /\ pendingWarp' = warpSerial'
        \/ UNCHANGED <<warpSerial, pendingWarp>>
    BY <1>19 DEF OwnerCapture
  <2>4. pc = "Capture" /\ pc' = "Wake" /\ after' = "Top"
    BY <1>19 DEF OwnerCapture
  <2> QED BY <2>1, <2>2, <2>3, <2>4 DEF Ended
<1>20. CASE OwnerFlush
  BY <1>20 DEF OwnerFlush, Ended
<1>21. CASE OwnerStop
  BY <1>21 DEF OwnerStop, Ended
<1>22. CASE OwnerPublishStatus
  BY <1>22 DEF OwnerPublishStatus, SetStatus, Ended
<1>23. CASE HostQuitTimer
  BY <1>23 DEF HostQuitTimer
<1>24. CASE HostWake
  BY <1>24 DEF HostWake
<1>25. CASE HostPoll
  <2>1. \/ UNCHANGED <<published, hostWarp, bundle, hostBundle>> /\ host' = "Idle"
        \/ /\ published' = NoState /\ bundle' = FALSE /\ hostBundle' = (hostBundle \/ bundle)
           /\ hostWarp' = IF published # NoState THEN published.warp ELSE hostWarp
           /\ host' = IF hostWarp' = 0 THEN "Status" ELSE "Warp"
    BY <1>25 DEF HostPoll, Poll
  <2>2. UNCHANGED <<commands, acks, warpSerial, pendingWarp, appliedWarp, pc, after, nativeBundle,
                    sent>>
    BY <1>25 DEF HostPoll
  <2>3. CASE UNCHANGED <<published, hostWarp, bundle, hostBundle>> /\ host' = "Idle"
    BY <2>2, <2>3
  <2>4. CASE /\ published' = NoState /\ bundle' = FALSE /\ hostBundle' = (hostBundle \/ bundle)
             /\ hostWarp' = IF published # NoState THEN published.warp ELSE hostWarp
             /\ host' = IF hostWarp' = 0 THEN "Status" ELSE "Warp"
    <3>1. hostWarp' \in {0} \cup appliedWarp..warpSerial
      BY <2>4
    <3> QED BY <2>2, <2>4, <3>1
  <2> QED BY <2>1, <2>3, <2>4
<1>26. CASE HostWarpPointer
  <2>1. UNCHANGED <<acks, warpSerial, pendingWarp, published, pc, after, nativeBundle, bundle,
                    hostBundle, sent>> /\ host = "Warp" /\ host' = "Status"
    BY <1>26 DEF HostWarpPointer
  <2>2. CASE UNCHANGED <<commands, hostWarp, appliedWarp>>
    BY <2>1, <2>2
  <2>3. CASE /\ SendCommand([kind |-> "Ack", n |-> hostWarp])
             /\ appliedWarp' = hostWarp /\ hostWarp' = 0
    <3>1. \/ commands' = commands \/ commands' = Append(commands, [kind |-> "Ack", n |-> hostWarp])
      BY <2>3 DEF SendCommand, Send, Coalesces
    <3>2. hostWarp \in appliedWarp..warpSerial
      BY <2>1
    <3>3. Acked(commands, hostWarp)
      BY <3>2, AckedLater
    <3>4. Acked(commands', hostWarp)
      <4> DEFINE c == [kind |-> "Ack", n |-> hostWarp]
      <4>1. c \in Command /\ c.n = hostWarp
        BY <3>2 DEF Command
      <4> HIDE DEF c
      <4>2. Acked(Append(commands, c), hostWarp)
        BY <3>3, <4>1, AckedAppend
      <4> QED BY <3>1, <3>3, <4>2 DEF c
    <3>5. \A i \in DOMAIN acks : acks[i] <= hostWarp
      BY <3>2
    <3> QED BY <2>1, <2>3, <3>2, <3>4, <3>5
  <2> QED BY <1>26, <2>2, <2>3 DEF HostWarpPointer
<1>27. CASE HostPresent
  BY <1>27 DEF HostPresent
<1>28. CASE HostRetryJoin
  BY <1>28 DEF HostRetryJoin
<1>29. CASE HostJoined
  BY <1>29 DEF HostJoined, Ended
<1>30. CASE HostEnterBundle
  <2>1. warpSerial = 0 /\ hostWarp = 0 /\ appliedWarp = 0 /\ pendingWarp = 0
    BY <1>30 DEF HostEnterBundle, Respawns
  <2>2. UNCHANGED <<hostWarp, sent>> /\ hostBundle' = FALSE /\ host' \in {"Exited", "Idle"}
    BY <1>30 DEF HostEnterBundle
  <2>3. CASE UNCHANGED <<mailboxVars, ownerVars, history>>
    BY <2>1, <2>2, <2>3
  <2>4. CASE NewMailbox /\ NewOwner
    BY <2>1, <2>2, <2>4 DEF NewMailbox, NewOwner, Ended, Acked
  <2> QED BY <1>30, <2>3, <2>4 DEF HostEnterBundle
<1>31. CASE HostClose
  BY <1>31 DEF HostClose
<1>32. CASE HostQuit
  BY <1>32 DEF HostQuit
<1>33. ASSUME NEW kind \in Kinds, HostInput(kind) PROVE WarpInv'
  <2> DEFINE c == [kind |-> kind, n |-> sent + 1]
  <2>1. c.kind # "Ack" /\ c \in Command
    BY RuntimeAssumption DEF Command
  <2>2. \/ commands' = commands \/ commands' = Append(commands, c)
        \/ /\ commands # << >>
           /\ commands' = [commands EXCEPT ![Len(commands)] = c]
    BY <1>33 DEF HostInput, SendCommand, Send, Coalesces
  <2>3. UNCHANGED <<acks, warpSerial, pendingWarp, hostWarp, published, appliedWarp, pc, after,
                    nativeBundle, bundle, hostBundle>> /\ host' = "Batch" /\ sent' = sent + 1
    BY <1>33 DEF HostInput
  <2>4. Acked(commands', appliedWarp)
    <3> HIDE DEF c
    <3>1. Acked(Append(commands, c), appliedWarp)
      BY <2>1, AckedAppend
    <3>2. commands # << >> => Acked([commands EXCEPT ![Len(commands)] = c], appliedWarp)
      BY <2>1, AckedMerge
    <3> QED BY <2>2, <3>1, <3>2
  <2> QED BY <2>3, <2>4
<1>34. CASE UNCHANGED vars
  BY <1>34 DEF vars
<1> QED BY <1>1, <1>2, <1>3, <1>4, <1>5, <1>6, <1>7, <1>8, <1>9, <1>10, <1>11, <1>12,
           <1>13, <1>14, <1>15, <1>16, <1>17, <1>18, <1>19, <1>20, <1>21, <1>22, <1>23,
           <1>24, <1>25, <1>26, <1>27, <1>28, <1>29, <1>30, <1>31, <1>32, <1>33, <1>34
        DEF Next, OwnerStep, HostStep, User, Alive

\* WarpKept: a cursor warp the host has not applied stays pending, whatever older
\* acknowledgements arrive (runtime_driver.rs apply_command, capture_state).
THEOREM PendingWarpKept == Spec => []WarpKept
<1>1. WarpInv => WarpKept
  BY DEF WarpInv, WarpKept
<1> QED BY InitWarp, StepWarp, <1>1, PTL DEF Spec

---------------------------------------------------------------------------
(* An orderly stop *)

Stopping == {"Stop", "StopWithBundle", "StopPlain"}

\* A shutdown is not taken back and refuses what comes later; a pass over what the guest
\* changed is made before the owner decides how to report its end.
StopInv ==
  /\ shutdown \in BOOLEAN
  /\ after \in {"Ready", "Top", "Slice", "Audio", "Done"}
  /\ leftBy = "Shutdown" => commands = << >> /\ shutdown
  /\ pc = "Drain" => shutdown
  /\ after \in {"Ready", "Top", "Done"} => pc = "Wake"
  /\ pc \in Stopping \/ after = "Done" \/ pc = "Done" => dirty # "Changed"
  /\ status \in Terminal => pc = "Done" \/ (pc = "Wake" /\ after = "Done")

\* Nothing is changed at the start.
LEMMA InitStop == Init => StopInv
BY DEF Init, MailboxInit, OwnerStart, StopInv, Terminal, Stopping

\* No step ends an owner with changes that no pass looked at, or orderly with unapplied input.
LEMMA StepStop == StopInv /\ [Next]_vars => StopInv'
<1> SUFFICES ASSUME StopInv, [Next]_vars PROVE StopInv'
  OBVIOUS
<1> USE DEF StopInv, mailboxVars, ownerVars, hostVars, history, MailboxExcept, Terminal, Stopping
<1>1. CASE OwnerPreflight
  BY <1>1 DEF OwnerPreflight
<1>2. CASE OwnerCheckStart
  BY <1>2 DEF OwnerCheckStart
<1>3. CASE OwnerInitialize
  <2>1. \/ pc' = "Flush" /\ leftBy' = "Start" /\ UNCHANGED after
        \/ pc' = "Wake" /\ after' = "Ready" /\ UNCHANGED leftBy
    BY <1>3 DEF OwnerInitialize
  <2>2. UNCHANGED <<commands, shutdown, status, dirty>> /\ pc = "Initialize"
    BY <1>3 DEF OwnerInitialize, Publish
  <2> QED BY <2>1, <2>2
<1>4. CASE OwnerReady
  BY <1>4 DEF OwnerReady, SetStatus
<1>5. CASE OwnerWake
  BY <1>5 DEF OwnerWake
<1>6. CASE OwnerTakePresentation
  BY <1>6 DEF OwnerTakePresentation
<1>7. CASE OwnerCheckShutdown
  BY <1>7 DEF OwnerCheckShutdown
<1>8. CASE OwnerDrain
  BY <1>8 DEF OwnerDrain, TakeCommand
<1>9. CASE OwnerApplyQueued
  BY <1>9 DEF OwnerApplyQueued, TakeCommand
<1>10. CASE OwnerWait
  BY <1>10 DEF OwnerWait
<1>11. CASE OwnerStartFrame
  BY <1>11 DEF OwnerStartFrame
<1>12. CASE OwnerSafePoint
  BY <1>12 DEF OwnerSafePoint
<1>13. CASE OwnerSafePop
  BY <1>13 DEF OwnerSafePop, TakeCommand
<1>14. CASE OwnerSafePopDone
  BY <1>14 DEF OwnerSafePopDone
<1>15. CASE OwnerSlice
  <2>1. pc = "Slice"
    BY <1>15 DEF OwnerSlice
  <2>2. pc' \in {"SafePoint", "Audio", "EndFrame", "Flush"} /\ leftBy' \in {leftBy, "Panic"}
    BY <1>15 DEF OwnerSlice
  <2>3. UNCHANGED <<mailboxVars, after>>
    BY <1>15 DEF OwnerSlice
  <2> QED BY <2>1, <2>2, <2>3
<1>16. CASE OwnerStopSlicing
  BY <1>16 DEF OwnerStopSlicing
<1>17. CASE OwnerMixAudio
  BY <1>17 DEF OwnerMixAudio
<1>18. CASE OwnerEndFrame
  BY <1>18 DEF OwnerEndFrame
<1>19. CASE OwnerCapture
  BY <1>19 DEF OwnerCapture, Publish
<1>20. CASE OwnerFlush
  BY <1>20 DEF OwnerFlush, AfterPass
<1>21. CASE OwnerStop
  BY <1>21 DEF OwnerStop
<1>22. CASE OwnerPublishStatus
  BY <1>22 DEF OwnerPublishStatus, SetStatus
<1>23. CASE HostQuitTimer
  BY <1>23 DEF HostQuitTimer
<1>24. CASE HostWake
  BY <1>24 DEF HostWake
<1>25. CASE HostPoll
  BY <1>25 DEF HostPoll, Poll
<1>26. CASE HostWarpPointer
  BY <1>26 DEF HostWarpPointer, SendCommand, Send, Closed
<1>27. CASE HostPresent
  BY <1>27 DEF HostPresent
<1>28. CASE HostRetryJoin
  BY <1>28 DEF HostRetryJoin
<1>29. CASE HostJoined
  BY <1>29 DEF HostJoined
<1>30. CASE HostEnterBundle
  <2>1. CASE UNCHANGED <<mailboxVars, ownerVars, history>>
    BY <2>1
  <2>2. CASE NewMailbox /\ NewOwner
    BY <2>2 DEF NewMailbox, NewOwner
  <2> QED BY <1>30, <2>1, <2>2 DEF HostEnterBundle
<1>31. CASE HostClose
  BY <1>31 DEF HostClose
<1>32. CASE HostQuit
  BY <1>32 DEF HostQuit
<1>33. ASSUME NEW kind \in Kinds, HostInput(kind) PROVE StopInv'
  BY <1>33 DEF HostInput, SendCommand, Send, Closed
<1>34. CASE UNCHANGED vars
  BY <1>34 DEF vars
<1> QED BY <1>1, <1>2, <1>3, <1>4, <1>5, <1>6, <1>7, <1>8, <1>9, <1>10, <1>11, <1>12,
           <1>13, <1>14, <1>15, <1>16, <1>17, <1>18, <1>19, <1>20, <1>21, <1>22, <1>23,
           <1>24, <1>25, <1>26, <1>27, <1>28, <1>29, <1>30, <1>31, <1>32, <1>33, <1>34
        DEF Next, OwnerStep, HostStep, User, Alive

\* OrderlyStop: an owner asked to stop has handed over all it accepted, and no end is
\* reported before the save store made its last pass, wherever the shutdown, an exit, an
\* error or a panic met the owner (runtime_owner.rs run, spawn_with).
THEOREM StopsAreOrderly == Spec => []OrderlyStop
<1>1. StopInv => OrderlyStop
  BY DEF StopInv, OrderlyStop
<1> QED BY InitStop, StepStop, <1>1, PTL DEF Spec

---------------------------------------------------------------------------
(* Click transitions in pairs *)

\* The owner may still run the guest.
Live == ~ Leaving

LatchShape(l) ==
  /\ l \in [pressed : BOOLEAN, observed : BOOLEAN, needsRelease : BOOLEAN, held : BOOLEAN]
  /\ l.observed => l.pressed /\ ~ l.held
  /\ l.held => l.pressed
  /\ l.needsRelease => ~ l.pressed

\* A second transition the guest has not seen makes the latch ask for progress; in a frame
\* that ran a slice already a first one does, for the slice saw everything before it.
LatchInv ==
  /\ LatchShape(latch) /\ unseen \in Nat /\ ran \in BOOLEAN
  /\ Live => unseen <= 2 /\ (unseen = 2 => RequiresProgress(latch))
  /\ Live /\ ran => unseen <= 1 /\ (unseen = 1 => RequiresProgress(latch))
  /\ after \in {"Ready", "Top", "Slice", "Audio", "Done"}
  /\ after \in {"Ready", "Top", "Done"} => pc = "Wake"

\* A transition is only handed over by a latch that asks for nothing, and makes it ask.
LEMMA ApplyLatch ==
  ASSUME LatchInv, NEW c, ApplyInput(c)
  PROVE  /\ LatchShape(latch') /\ unseen' \in Nat
         /\ ~ RequiresProgress(latch) /\ unseen <= 1 =>
              \/ unseen' = unseen
              \/ unseen' = unseen + 1 /\ RequiresProgress(latch')
<1>1. LatchShape(latch')
  BY DEF LatchInv, LatchShape, ApplyInput, Press, Release, Holds
<1>2. unseen' \in Nat
  BY DEF LatchInv, ApplyInput, Saturated
<1>3. ASSUME ~ RequiresProgress(latch), unseen <= 1
      PROVE  unseen' = unseen \/ (unseen' = unseen + 1 /\ RequiresProgress(latch'))
  <2>1. Saturated(unseen + 1) = unseen + 1
    BY <1>3 DEF Saturated, LatchInv
  <2>2. CASE c.kind = "Down"
    BY <2>1, <2>2 DEF ApplyInput, Press, RequiresProgress, Holds
  <2>3. CASE c.kind = "Up" /\ latch.pressed /\ latch.observed
    BY <2>1, <2>3 DEF ApplyInput, Release, RequiresProgress, Holds, LatchInv, LatchShape
  <2>4. CASE c.kind # "Down" /\ ~ (c.kind = "Up" /\ latch.pressed /\ latch.observed)
    BY <2>1, <2>4 DEF ApplyInput
  <2> QED BY <2>2, <2>3, <2>4
<1> QED BY <1>1, <1>2, <1>3

\* What is true of the counts after an input was handed over, or none.
LEMMA CountsAfterInput ==
  ASSUME LatchInv, Live, ~ RequiresProgress(latch),
         UNCHANGED <<latch, unseen>> \/ (\E c : ApplyInput(c))
  PROVE  /\ LatchShape(latch') /\ unseen' \in Nat
         /\ unseen' <= 2 /\ (unseen' = 2 => RequiresProgress(latch'))
         /\ ran => unseen' <= 1 /\ (unseen' = 1 => RequiresProgress(latch'))
<1>1. unseen \in 0..1 /\ (ran => unseen = 0)
  BY DEF LatchInv
<1>2. CASE UNCHANGED <<latch, unseen>>
  BY <1>1, <1>2 DEF LatchInv, LatchShape, RequiresProgress, Holds
<1>3. CASE \E c : ApplyInput(c)
  <2>1. PICK c : ApplyInput(c)
    BY <1>3
  <2> QED BY <1>1, <2>1, ApplyLatch
<1> QED BY <1>2, <1>3

\* The latch starts released.
LEMMA InitLatch == Init => LatchInv
<1> SUFFICES ASSUME Init PROVE LatchInv
  OBVIOUS
<1>1. LatchShape(latch)
  BY DEF Init, OwnerStart, NoLatch, LatchShape
<1>2. unseen = 0 /\ ~ ran /\ ran \in BOOLEAN /\ after = "Slice" /\ pc = "Preflight"
  BY DEF Init, OwnerStart
<1> QED BY <1>1, <1>2 DEF LatchInv

\* Every step keeps the count of transitions the guest has not seen.
LEMMA StepLatch == LatchInv /\ [Next]_vars => LatchInv'
<1> SUFFICES ASSUME LatchInv, [Next]_vars PROVE LatchInv'
  OBVIOUS
<1> USE DEF LatchInv, Live, Leaving, Ended, mailboxVars, ownerVars, hostVars, history, MailboxExcept
<1>1. CASE OwnerPreflight
  BY <1>1 DEF OwnerPreflight
<1>2. CASE OwnerCheckStart
  BY <1>2 DEF OwnerCheckStart
<1>3. CASE OwnerInitialize
  <2>1. UNCHANGED <<latch, unseen, ran>>
        /\ ((pc' = "Flush" /\ after' = after) \/ (pc' = "Wake" /\ after' = "Ready"))
        /\ pc = "Initialize"
    BY <1>3 DEF OwnerInitialize
  <2> QED BY <2>1
<1>4. CASE OwnerReady
  BY <1>4 DEF OwnerReady
<1>5. CASE OwnerWake
  BY <1>5 DEF OwnerWake
<1>6. CASE OwnerTakePresentation
  BY <1>6 DEF OwnerTakePresentation
<1>7. CASE OwnerCheckShutdown
  BY <1>7 DEF OwnerCheckShutdown
<1>8. CASE OwnerDrain
  <2>1. pc = "Drain" /\ pc' \in {"Drain", "Flush"} /\ UNCHANGED <<ran, after>>
    BY <1>8 DEF OwnerDrain
  <2>2. UNCHANGED <<latch, unseen>> \/ ApplyInput(Head(commands))
    BY <1>8 DEF OwnerDrain, ApplyCommand
  <2>3. LatchShape(latch') /\ unseen' \in Nat
    BY <2>2, ApplyLatch
  <2> QED BY <2>1, <2>3
<1>9. CASE OwnerApplyQueued
  <2>1. pc = "Commands" /\ UNCHANGED <<pc, ran, after>>
    BY <1>9 DEF OwnerApplyQueued
  <2>2. UNCHANGED <<latch, unseen>> \/ ApplyInput(Head(commands))
    BY <1>9 DEF OwnerApplyQueued, ApplyCommand
  <2>3. ~ RequiresProgress(latch) /\ Live
    BY <1>9 DEF OwnerApplyQueued, MayTake
  <2>4. /\ LatchShape(latch') /\ unseen' \in Nat
        /\ unseen' <= 2 /\ (unseen' = 2 => RequiresProgress(latch'))
        /\ ran => unseen' <= 1 /\ (unseen' = 1 => RequiresProgress(latch'))
    BY <2>2, <2>3, CountsAfterInput
  <2> QED BY <2>1, <2>4
<1>10. CASE OwnerWait
  BY <1>10 DEF OwnerWait
<1>11. CASE OwnerStartFrame
  BY <1>11 DEF OwnerStartFrame
<1>12. CASE OwnerSafePoint
  BY <1>12 DEF OwnerSafePoint
<1>13. CASE OwnerSafePop
  <2>1. pc = "SafePop" /\ UNCHANGED <<pc, ran, after>>
    BY <1>13 DEF OwnerSafePop
  <2>2. UNCHANGED <<latch, unseen>> \/ ApplyInput(Head(commands))
    BY <1>13 DEF OwnerSafePop
  <2>3. ~ RequiresProgress(latch) /\ Live
    BY <1>13 DEF OwnerSafePop, MaySafePop, MayTake
  <2>4. /\ LatchShape(latch') /\ unseen' \in Nat
        /\ unseen' <= 2 /\ (unseen' = 2 => RequiresProgress(latch'))
        /\ ran => unseen' <= 1 /\ (unseen' = 1 => RequiresProgress(latch'))
    BY <2>2, <2>3, CountsAfterInput
  <2> QED BY <2>1, <2>4
<1>14. CASE OwnerSafePopDone
  BY <1>14 DEF OwnerSafePopDone
<1>15. CASE OwnerSlice
  <2>1. pc = "Slice" /\ ran' = TRUE /\ unseen' = 0 /\ UNCHANGED <<latch, after>>
        /\ pc' \in {"SafePoint", "Audio", "EndFrame", "Flush"}
    BY <1>15 DEF OwnerSlice
  <2> QED BY <2>1
<1>16. CASE OwnerStopSlicing
  <2>1. pc = "Slice" /\ pc' = "Audio" /\ UNCHANGED <<latch, unseen, ran, after>>
    BY <1>16 DEF OwnerStopSlicing
  <2> QED BY <2>1
<1>17. CASE OwnerMixAudio
  <2>1. pc = "Audio" /\ after' = "Audio" /\ UNCHANGED <<latch, unseen, ran>>
        /\ pc' \in {"EndFrame", "SafePoint"}
    BY <1>17 DEF OwnerMixAudio
  <2> QED BY <2>1
<1>18. CASE OwnerEndFrame
  <2> DEFINE noted == IF ran THEN ObserveProgress(latch) ELSE latch
  <2>1. /\ pc = "EndFrame" /\ pc' \in {"Flush", "Top", "Capture"}
        /\ ~ ran' /\ ran' \in BOOLEAN /\ after' = "Slice"
        /\ latch' = TakeReadyRelease(noted)
        /\ unseen' = IF ReadyRelease(noted) THEN Saturated(unseen + 1) ELSE unseen
    BY <1>18 DEF OwnerEndFrame
  <2>2. CASE ~ ran
    <3>1. ~ ReadyRelease(latch)
      BY DEF ReadyRelease, LatchShape
    <3> QED BY <2>1, <2>2, <3>1 DEF TakeReadyRelease
  <2>3. CASE ran
    <3>1. unseen \in 0..1
      BY <2>1, <2>3
    <3>2. CASE Holds(latch) /\ latch.held
      <4>1. ReadyRelease(noted)
        BY <2>3, <3>2 DEF ObserveProgress, ReadyRelease, LatchShape
      <4>2. latch' = [pressed |-> FALSE, observed |-> FALSE, needsRelease |-> TRUE, held |-> FALSE]
        BY <2>1, <4>1 DEF TakeReadyRelease
      <4>3. LatchShape(latch')
        BY <4>2 DEF LatchShape
      <4>4. RequiresProgress(latch')
        BY <4>2 DEF RequiresProgress
      <4>5. unseen' \in 0..2
        BY <2>1, <3>1, <4>1 DEF Saturated
      <4> QED BY <2>1, <4>3, <4>4, <4>5
    <3>3. CASE ~ (Holds(latch) /\ latch.held)
      <4>1. ~ ReadyRelease(noted) /\ LatchShape(noted)
        BY <2>3, <3>3 DEF ObserveProgress, ReadyRelease, LatchShape, Holds
      <4>2. latch' = noted /\ unseen' = unseen
        BY <2>1, <4>1 DEF TakeReadyRelease
      <4> QED BY <2>1, <3>1, <4>1, <4>2
    <3> QED BY <3>2, <3>3
  <2> QED BY <2>2, <2>3
<1>19. CASE OwnerCapture
  BY <1>19 DEF OwnerCapture
<1>20. CASE OwnerFlush
  BY <1>20 DEF OwnerFlush
<1>21. CASE OwnerStop
  BY <1>21 DEF OwnerStop
<1>22. CASE OwnerPublishStatus
  BY <1>22 DEF OwnerPublishStatus
<1>23. CASE HostQuitTimer
  BY <1>23 DEF HostQuitTimer
<1>24. CASE HostWake
  BY <1>24 DEF HostWake
<1>25. CASE HostPoll
  BY <1>25 DEF HostPoll
<1>26. CASE HostWarpPointer
  BY <1>26 DEF HostWarpPointer
<1>27. CASE HostPresent
  BY <1>27 DEF HostPresent
<1>28. CASE HostRetryJoin
  BY <1>28 DEF HostRetryJoin
<1>29. CASE HostJoined
  BY <1>29 DEF HostJoined
<1>30. CASE HostEnterBundle
  <2>1. CASE UNCHANGED <<mailboxVars, ownerVars, history>>
    BY <2>1
  <2>2. CASE NewMailbox /\ NewOwner
    <3>1. LatchShape(latch')
      BY <2>2 DEF NewOwner, LatchShape, NoLatch
    <3>2. unseen' = 0 /\ ~ ran' /\ ran' \in BOOLEAN /\ after' = "Slice" /\ pc' = "Preflight"
      BY <2>2 DEF NewOwner
    <3> QED BY <3>1, <3>2
  <2> QED BY <1>30, <2>1, <2>2 DEF HostEnterBundle
<1>31. CASE HostClose
  BY <1>31 DEF HostClose
<1>32. CASE HostQuit
  BY <1>32 DEF HostQuit
<1>33. ASSUME NEW kind \in Kinds, HostInput(kind) PROVE LatchInv'
  BY <1>33 DEF HostInput
<1>34. CASE UNCHANGED vars
  BY <1>34 DEF vars
<1> QED BY <1>1, <1>2, <1>3, <1>4, <1>5, <1>6, <1>7, <1>8, <1>9, <1>10, <1>11, <1>12,
           <1>13, <1>14, <1>15, <1>16, <1>17, <1>18, <1>19, <1>20, <1>21, <1>22, <1>23,
           <1>24, <1>25, <1>26, <1>27, <1>28, <1>29, <1>30, <1>31, <1>32, <1>33, <1>34
        DEF Next, OwnerStep, HostStep, User, Alive

\* TransitionsInPairs: whatever arrives in one batch and however late in a frame a safe
\* point delivers, no third transition of the button is handed over before the guest ran
\* (HostMouseReleaseLatch with runtime_owner.rs run).
THEOREM TransitionsPaired == Spec => []TransitionsInPairs
<1>1. LatchInv => TransitionsInPairs
  BY DEF LatchInv, Live, TransitionsInPairs
<1> QED BY InitLatch, StepLatch, <1>1, PTL DEF Spec

---------------------------------------------------------------------------
(* Redraws *)

\* RedrawKept: a demand for a frame ends with a frame, whoever demanded it and whatever
\* is asked or drawn meanwhile (request_presentation, take_presentation_request,
\* should_render_frame).
THEOREM RedrawsKept == Spec => RedrawKept
<1> DEFINE Kept == Demanded /\ ~ Demanded' => (pc = "Capture" /\ frame') \/ pc = "Done"
           Flags == forceNextRender \in BOOLEAN
<1>1. Init => Flags
  BY DEF Init, OwnerStart
<1>2. Flags /\ [Next]_vars => Flags'
  <2> SUFFICES ASSUME Flags, [Next]_vars PROVE Flags'
    OBVIOUS
  <2> USE DEF mailboxVars, ownerVars, hostVars, history, MailboxExcept
  <2>1. CASE OwnerPreflight
    BY <2>1 DEF OwnerPreflight
  <2>2. CASE OwnerCheckStart
    BY <2>2 DEF OwnerCheckStart
  <2>3. CASE OwnerInitialize
    BY <2>3 DEF OwnerInitialize
  <2>4. CASE OwnerReady
    BY <2>4 DEF OwnerReady
  <2>5. CASE OwnerWake
    BY <2>5 DEF OwnerWake
  <2>6. CASE OwnerTakePresentation
    BY <2>6 DEF OwnerTakePresentation
  <2>7. CASE OwnerCheckShutdown
    BY <2>7 DEF OwnerCheckShutdown
  <2>8. CASE OwnerDrain
    BY <2>8 DEF OwnerDrain, TakeCommand, ApplyCommand, ApplyInput
  <2>9. CASE OwnerApplyQueued
    BY <2>9 DEF OwnerApplyQueued, TakeCommand, ApplyCommand, ApplyInput
  <2>10. CASE OwnerWait
    BY <2>10 DEF OwnerWait
  <2>11. CASE OwnerStartFrame
    BY <2>11 DEF OwnerStartFrame
  <2>12. CASE OwnerSafePoint
    BY <2>12 DEF OwnerSafePoint
  <2>13. CASE OwnerSafePop
    BY <2>13 DEF OwnerSafePop, TakeCommand, ApplyCommand, ApplyInput
  <2>14. CASE OwnerSafePopDone
    BY <2>14 DEF OwnerSafePopDone
  <2>15. CASE OwnerSlice
    BY <2>15 DEF OwnerSlice
  <2>16. CASE OwnerStopSlicing
    BY <2>16 DEF OwnerStopSlicing
  <2>17. CASE OwnerMixAudio
    BY <2>17 DEF OwnerMixAudio
  <2>18. CASE OwnerEndFrame
    BY <2>18 DEF OwnerEndFrame
  <2>19. CASE OwnerCapture
    BY <2>19 DEF OwnerCapture
  <2>20. CASE OwnerFlush
    BY <2>20 DEF OwnerFlush
  <2>21. CASE OwnerStop
    BY <2>21 DEF OwnerStop
  <2>22. CASE OwnerPublishStatus
    BY <2>22 DEF OwnerPublishStatus
  <2>23. CASE HostQuitTimer
    BY <2>23 DEF HostQuitTimer
  <2>24. CASE HostWake
    BY <2>24 DEF HostWake
  <2>25. CASE HostPoll
    BY <2>25 DEF HostPoll
  <2>26. CASE HostWarpPointer
    BY <2>26 DEF HostWarpPointer
  <2>27. CASE HostPresent
    BY <2>27 DEF HostPresent
  <2>28. CASE HostRetryJoin
    BY <2>28 DEF HostRetryJoin
  <2>29. CASE HostJoined
    BY <2>29 DEF HostJoined
  <2>30. CASE HostEnterBundle
    <3>1. UNCHANGED forceNextRender \/ forceNextRender' = TRUE
      BY <2>30 DEF HostEnterBundle, NewOwner
    <3> QED BY <3>1
  <2>31. CASE HostClose
    BY <2>31 DEF HostClose
  <2>32. CASE HostQuit
    BY <2>32 DEF HostQuit
  <2>33. ASSUME NEW kind \in Kinds, HostInput(kind) PROVE Flags'
    BY <2>33 DEF HostInput
  <2>34. CASE UNCHANGED vars
    BY <2>34 DEF vars
  <2> QED BY <2>1, <2>2, <2>3, <2>4, <2>5, <2>6, <2>7, <2>8, <2>9, <2>10, <2>11, <2>12,
             <2>13, <2>14, <2>15, <2>16, <2>17, <2>18, <2>19, <2>20, <2>21, <2>22, <2>23,
             <2>24, <2>25, <2>26, <2>27, <2>28, <2>29, <2>30, <2>31, <2>32, <2>33, <2>34
          DEF Next, OwnerStep, HostStep, User, Alive
<1>3. Flags /\ [Next]_vars => [Kept]_vars
  <2> SUFFICES ASSUME Flags, Next PROVE Kept
    OBVIOUS
  <2> USE DEF Demanded, mailboxVars, ownerVars, hostVars, history, MailboxExcept
  <2>1. CASE OwnerPreflight
    BY <2>1 DEF OwnerPreflight
  <2>2. CASE OwnerCheckStart
    BY <2>2 DEF OwnerCheckStart
  <2>3. CASE OwnerInitialize
    BY <2>3 DEF OwnerInitialize, Publish
  <2>4. CASE OwnerReady
    BY <2>4 DEF OwnerReady, SetStatus
  <2>5. CASE OwnerWake
    BY <2>5 DEF OwnerWake
  <2>6. CASE OwnerTakePresentation
    BY <2>6 DEF OwnerTakePresentation
  <2>7. CASE OwnerCheckShutdown
    BY <2>7 DEF OwnerCheckShutdown
  <2>8. CASE OwnerDrain
    BY <2>8 DEF OwnerDrain, TakeCommand, ApplyCommand, ApplyInput
  <2>9. CASE OwnerApplyQueued
    BY <2>9 DEF OwnerApplyQueued, TakeCommand, ApplyCommand, ApplyInput
  <2>10. CASE OwnerWait
    BY <2>10 DEF OwnerWait
  <2>11. CASE OwnerStartFrame
    BY <2>11 DEF OwnerStartFrame
  <2>12. CASE OwnerSafePoint
    BY <2>12 DEF OwnerSafePoint
  <2>13. CASE OwnerSafePop
    BY <2>13 DEF OwnerSafePop, TakeCommand, ApplyCommand, ApplyInput
  <2>14. CASE OwnerSafePopDone
    BY <2>14 DEF OwnerSafePopDone
  <2>15. CASE OwnerSlice
    BY <2>15 DEF OwnerSlice
  <2>16. CASE OwnerStopSlicing
    BY <2>16 DEF OwnerStopSlicing
  <2>17. CASE OwnerMixAudio
    BY <2>17 DEF OwnerMixAudio
  <2>18. CASE OwnerEndFrame
    BY <2>18 DEF OwnerEndFrame
  <2>19. CASE OwnerCapture
    BY <2>19 DEF OwnerCapture, Publish
  <2>20. CASE OwnerFlush
    BY <2>20 DEF OwnerFlush
  <2>21. CASE OwnerStop
    BY <2>21 DEF OwnerStop
  <2>22. CASE OwnerPublishStatus
    BY <2>22 DEF OwnerPublishStatus, SetStatus
  <2>23. CASE HostQuitTimer
    BY <2>23 DEF HostQuitTimer
  <2>24. CASE HostWake
    BY <2>24 DEF HostWake
  <2>25. CASE HostPoll
    BY <2>25 DEF HostPoll, Poll
  <2>26. CASE HostWarpPointer
    BY <2>26 DEF HostWarpPointer
  <2>27. CASE HostPresent
    BY <2>27 DEF HostPresent, RequestPresentation
  <2>28. CASE HostRetryJoin
    BY <2>28 DEF HostRetryJoin
  <2>29. CASE HostJoined
    BY <2>29 DEF HostJoined
  <2>30. CASE HostEnterBundle
    BY <2>30 DEF HostEnterBundle
  <2>31. CASE HostClose
    BY <2>31 DEF HostClose
  <2>32. CASE HostQuit
    BY <2>32 DEF HostQuit
  <2>33. ASSUME NEW kind \in Kinds, HostInput(kind) PROVE Kept
    BY <2>33 DEF HostInput
  <2> QED BY <2>1, <2>2, <2>3, <2>4, <2>5, <2>6, <2>7, <2>8, <2>9, <2>10, <2>11, <2>12,
             <2>13, <2>14, <2>15, <2>16, <2>17, <2>18, <2>19, <2>20, <2>21, <2>22, <2>23,
             <2>24, <2>25, <2>26, <2>27, <2>28, <2>29, <2>30, <2>31, <2>32, <2>33
          DEF Next, OwnerStep, HostStep, User, Alive
<1>4. RedrawKept <=> [][Kept]_vars
  BY DEF RedrawKept
<1> QED BY <1>1, <1>2, <1>3, <1>4, PTL DEF Spec

---------------------------------------------------------------------------
(* The inputs of a queue *)

\* The step of the recursive function inside InputsOf.
Picks(c, prev) == IF IsInput(c) THEN Append(prev, c) ELSE prev

\* A function that satisfies the recursion of InputsOf up to n.
Filters(g, q, n) == g = [i \in 0..n |-> IF i = 0 THEN << >> ELSE Picks(q[i], g[i - 1])]

\* The same, by its values.
LEMMA FiltersValues ==
  ASSUME NEW q, NEW n \in Nat, NEW g, Filters(g, q, n)
  PROVE  g[0] = << >> /\ \A i \in 1..n : g[i] = Picks(q[i], g[i - 1])
<1>1. \A i \in 0..n : g[i] = IF i = 0 THEN << >> ELSE Picks(q[i], g[i - 1])
  BY DEF Filters
<1>2. 0 \in 0..n /\ \A i \in 1..n : i \in 0..n /\ i # 0
  OBVIOUS
<1> QED BY <1>1, <1>2

\* A function with these values satisfies the recursion.
LEMMA FiltersByValue ==
  ASSUME NEW q, NEW n \in Nat, NEW g, g = [i \in 0..n |-> g[i]], g[0] = << >>,
         \A i \in 1..n : g[i] = Picks(q[i], g[i - 1])
  PROVE  Filters(g, q, n)
<1>1. ASSUME NEW i \in 0..n
      PROVE  g[i] = IF i = 0 THEN << >> ELSE Picks(q[i], g[i - 1])
  <2>1. i = 0 \/ i \in 1..n
    OBVIOUS
  <2> QED BY <2>1
<1>2. [i \in 0..n |-> g[i]] = [i \in 0..n |-> IF i = 0 THEN << >> ELSE Picks(q[i], g[i - 1])]
  BY <1>1, Zenon
<1> QED BY <1>2 DEF Filters

\* The recursion has a solution on every prefix of a queue.
LEMMA FiltersExist ==
  ASSUME NEW q
  PROVE  \A n \in Nat : \E g : Filters(g, q, n)
<1> DEFINE S == {n \in Nat : \E g : Filters(g, q, n)}
<1>1. 0 \in S
  <2> DEFINE g == [i \in 0..0 |-> << >>]
  <2>1. Filters(g, q, 0)
    BY DEF Filters
  <2> QED BY <2>1
<1>2. ASSUME NEW n \in Nat, n \in S PROVE n + 1 \in S
  <2>1. PICK g : Filters(g, q, n)
    BY <1>2
  <2>2. g[0] = << >> /\ \A i \in 1..n : g[i] = Picks(q[i], g[i - 1])
    BY <2>1, FiltersValues
  <2> DEFINE h == [i \in 0..(n + 1) |-> IF i = n + 1 THEN Picks(q[n + 1], g[n]) ELSE g[i]]
  <2>3. h = [i \in 0..(n + 1) |-> h[i]] /\ h[0] = << >>
    BY <2>2
  <2>4. ASSUME NEW i \in 1..(n + 1) PROVE h[i] = Picks(q[i], h[i - 1])
    <3>1. i - 1 \in 0..n /\ h[i - 1] = g[i - 1]
      OBVIOUS
    <3>2. CASE i = n + 1
      BY <3>1, <3>2
    <3>3. CASE i \in 1..n
      BY <3>1, <3>3, <2>2
    <3> QED BY <3>2, <3>3
  <2> HIDE DEF h
  <2>5. Filters(h, q, n + 1)
    BY <2>3, <2>4, FiltersByValue
  <2> QED BY <2>5
<1> HIDE DEF S
<1>3. Nat \subseteq S
  BY <1>1, <1>2, NatSetInduction
<1> QED BY <1>3 DEF S

\* InputsOf is the last value of a function that satisfies its recursion.
LEMMA InputsUnfold ==
  ASSUME NEW q, Len(q) \in Nat
  PROVE  \E g : Filters(g, q, Len(q)) /\ InputsOf(q) = g[Len(q)]
<1> DEFINE step(g) == [i \in 0..Len(q) |->
                     IF i = 0 THEN << >>
                     ELSE IF IsInput(q[i]) THEN Append(g[i - 1], q[i]) ELSE g[i - 1]]
           kept == CHOOSE g : g = step(g)
<1>1. \A g : Filters(g, q, Len(q)) <=> g = step(g)
  BY DEF Filters, Picks
<1>2. kept = step(kept)
  <2>1. \E g : g = step(g)
    BY <1>1, FiltersExist
  <2> HIDE DEF step
  <2> QED BY <2>1
<1>3. InputsOf(q) = kept[Len(q)]
  BY DEF InputsOf
<1> HIDE DEF kept, step
<1>4. Filters(kept, q, Len(q))
  BY <1>1, <1>2
<1> QED BY <1>3, <1>4

\* Two queues with a common prefix have the same inputs on it.
LEMMA FiltersAgree ==
  ASSUME NEW q, NEW r, NEW n \in Nat, NEW m \in Nat, NEW k \in Nat, k <= n, k <= m,
         NEW g, NEW h, Filters(g, q, n), Filters(h, r, m), \A i \in 1..k : q[i] = r[i]
  PROVE  g[k] = h[k]
<1> DEFINE S == {i \in Nat : i <= k => g[i] = h[i]}
<1>0. /\ g[0] = << >> /\ \A i \in 1..n : g[i] = Picks(q[i], g[i - 1])
      /\ h[0] = << >> /\ \A i \in 1..m : h[i] = Picks(r[i], h[i - 1])
  <2> HIDE DEF S
  <2>1. \A i \in 0..n : g[i] = IF i = 0 THEN << >> ELSE Picks(q[i], g[i - 1])
    BY DEF Filters
  <2>2. \A i \in 0..m : h[i] = IF i = 0 THEN << >> ELSE Picks(r[i], h[i - 1])
    BY DEF Filters
  <2>3. \A j \in Nat : 0 \in 0..j /\ \A i \in 1..j : i \in 0..j /\ i # 0
    OBVIOUS
  <2> QED BY <2>1, <2>2, <2>3
<1>1. 0 \in S
  BY <1>0
<1>2. ASSUME NEW i \in Nat, i \in S PROVE i + 1 \in S
  <2> SUFFICES ASSUME i + 1 <= k PROVE g[i + 1] = h[i + 1]
    OBVIOUS
  <2>1. g[i] = h[i] /\ q[i + 1] = r[i + 1] /\ i + 1 \in 1..n /\ i + 1 \in 1..m /\ (i + 1) - 1 = i
    BY <1>2
  <2> QED BY <1>0, <2>1
<1> HIDE DEF S
<1>3. Nat \subseteq S
  BY <1>1, <1>2, NatSetInduction
<1> QED BY <1>3 DEF S

\* An empty queue has no inputs.
LEMMA InputsOfEmpty == InputsOf(<< >>) = << >>
<1>1. Len(<< >>) = 0
  OBVIOUS
<1>2. PICK g : Filters(g, << >>, Len(<< >>)) /\ InputsOf(<< >>) = g[Len(<< >>)]
  BY <1>1, InputsUnfold
<1> QED BY <1>1, <1>2, FiltersValues

\* What is pushed at the back comes last, if it is an input.
LEMMA InputsOfAppend ==
  ASSUME NEW C, NEW q \in Seq(C), NEW c \in C
  PROVE  InputsOf(Append(q, c)) = Picks(c, InputsOf(q))
<1> DEFINE r == Append(q, c)
           n == Len(q)
<1>1. n \in Nat /\ Len(r) = n + 1 /\ r[n + 1] = c /\ \A i \in 1..n : r[i] = q[i]
  OBVIOUS
<1> HIDE DEF r, n
<1>2. PICK g : Filters(g, q, n) /\ InputsOf(q) = g[n]
  BY <1>1, InputsUnfold DEF n
<1>3. PICK h : Filters(h, r, n + 1) /\ InputsOf(r) = h[n + 1]
  <2>1. Len(r) \in Nat
    BY <1>1
  <2> QED BY <1>1, <2>1, InputsUnfold
<1>4. h[n] = g[n]
  <2>1. n <= n + 1 /\ n + 1 \in Nat /\ n <= n
    BY <1>1
  <2>2. \A i \in 1..n : r[i] = q[i]
    BY <1>1
  <2> QED BY <1>1, <1>2, <1>3, <2>1, <2>2, FiltersAgree
<1>5. h[n + 1] = Picks(r[n + 1], h[n])
  <2>1. n + 1 \in Nat /\ n + 1 \in 1..(n + 1) /\ (n + 1) - 1 = n
    BY <1>1
  <2>2. \A i \in 1..(n + 1) : h[i] = Picks(r[i], h[i - 1])
    BY <1>3, <2>1, FiltersValues
  <2> QED BY <2>1, <2>2
<1> QED BY <1>1, <1>2, <1>3, <1>4, <1>5 DEF r

\* The inputs of a queue of commands are a sequence of commands.
LEMMA InputsOfType ==
  ASSUME NEW C, NEW q \in Seq(C)
  PROVE  InputsOf(q) \in Seq(C)
<1> DEFINE n == Len(q)
           S == {i \in Nat : i <= n => \A g : Filters(g, q, n) => g[i] \in Seq(C)}
<1>0. n \in Nat /\ \A i \in 1..n : q[i] \in C
  OBVIOUS
<1>1. 0 \in S
  <2> HIDE DEF n
  <2>1. ASSUME NEW g, Filters(g, q, n) PROVE g[0] = << >>
    BY <1>0, <2>1, FiltersValues
  <2>2. << >> \in Seq(C)
    BY EmptySeq
  <2> QED BY <2>1, <2>2
<1>2. ASSUME NEW i \in Nat, i \in S PROVE i + 1 \in S
  <2> HIDE DEF n
  <2> SUFFICES ASSUME i + 1 <= n, NEW g, Filters(g, q, n) PROVE g[i + 1] \in Seq(C)
    OBVIOUS
  <2>1. g[i] \in Seq(C) /\ q[i + 1] \in C
    BY <1>0, <1>2
  <2>2. g[i + 1] = Picks(q[i + 1], g[(i + 1) - 1])
    <3>1. i + 1 \in 1..n
      BY <1>0
    <3> QED BY <1>0, <3>1, FiltersValues
  <2>3. (i + 1) - 1 = i
    OBVIOUS
  <2>4. g[i + 1] = Picks(q[i + 1], g[i])
    BY <2>2, <2>3
  <2> QED BY <2>1, <2>4 DEF Picks
<1> HIDE DEF S
<1>3. Nat \subseteq S
  BY <1>1, <1>2, NatSetInduction
<1>4. PICK g : Filters(g, q, n) /\ InputsOf(q) = g[n]
  BY <1>0, InputsUnfold
<1> QED BY <1>0, <1>3, <1>4 DEF S

\* p is s followed by a; with c in the place of a it is s followed by c.
Ends(p, s, a, c) ==
  p # << >> /\ p[Len(p)] = a /\ [p EXCEPT ![Len(p)] = c] = Append(s, c)

\* Replacing the last entry of a sequence is appending another one to the rest.
LEMMA ReplaceLast ==
  ASSUME NEW C, NEW s \in Seq(C), NEW a \in C, NEW c \in C, NEW p, p = Append(s, a)
  PROVE  Ends(p, s, a, c)
<1> DEFINE e == [p EXCEPT ![Len(p)] = c]
<1>1. /\ p \in Seq(C) /\ p # << >> /\ Len(p) = Len(s) + 1 /\ Len(s) \in Nat
      /\ p[Len(p)] = a /\ \A i \in 1..Len(s) : p[i] = s[i]
  BY AppendProperties
<1>2. /\ Append(s, c) \in Seq(C) /\ Len(Append(s, c)) = Len(s) + 1
      /\ Append(s, c)[Len(s) + 1] = c /\ \A i \in 1..Len(s) : Append(s, c)[i] = s[i]
  BY AppendProperties
<1>3. /\ e \in Seq(C) /\ Len(e) = Len(p)
      /\ \A j \in 1..Len(p) : e[j] = IF j = Len(p) THEN c ELSE p[j]
  <2>1. Len(p) \in 1..Len(p)
    BY <1>1
  <2>2. e \in Seq(C) /\ Len(e) = Len(p)
    BY <1>1, <2>1, ExceptSeq
  <2>3. \A j \in 1..Len(p) : e[j] = IF j = Len(p) THEN c ELSE p[j]
    <3>1. DOMAIN p = 1..Len(p)
      BY <1>1, LenProperties
    <3> QED BY <3>1
  <2> QED BY <2>2, <2>3
<1> HIDE DEF e
<1>4. \A i \in 1..Len(e) : e[i] = Append(s, c)[i]
  <2> SUFFICES ASSUME NEW i \in 1..(Len(s) + 1) PROVE e[i] = Append(s, c)[i]
    BY <1>1, <1>3
  <2>1. i = Len(s) + 1 \/ i \in 1..Len(s)
    BY <1>1
  <2> QED BY <1>1, <1>2, <1>3, <2>1
<1>5. e = Append(s, c)
  <2>1. Len(e) = Len(Append(s, c))
    BY <1>1, <1>2, <1>3
  <2> QED BY <1>2, <1>3, <1>4, <2>1, SeqEqual
<1> QED BY <1>1, <1>5 DEF e, Ends

\* What is taken from the front is the first input, or none.
LEMMA InputsOfTail ==
  ASSUME NEW C, NEW q \in Seq(C), q # << >>
  PROVE  InputsOf(q) = IF IsInput(Head(q)) THEN <<Head(q)>> \o InputsOf(Tail(q))
                       ELSE InputsOf(Tail(q))
<1> DEFINE n == Len(q)
           r == Tail(q)
           first == IF IsInput(q[1]) THEN <<q[1]>> ELSE << >>
<1>0. /\ n \in Nat /\ n >= 1 /\ Len(r) = n - 1 /\ n - 1 \in Nat /\ Head(q) = q[1]
      /\ \A i \in 1..(n - 1) : r[i] = q[i + 1] /\ q[i + 1] \in C
      /\ r \in Seq(C) /\ q[1] \in C
  OBVIOUS
<1>a. first \in Seq(C) /\ first \o << >> = first
  <2>1. first \in Seq(C)
    BY <1>0
  <2> QED BY <2>1, ConcatEmptySeq
<1>b. Picks(q[1], << >>) = first
  BY <1>0 DEF Picks
<1> HIDE DEF n, r, first
<1>1. PICK g : Filters(g, q, n) /\ InputsOf(q) = g[n]
  BY <1>0, InputsUnfold DEF n
<1>2. PICK h : Filters(h, r, n - 1) /\ InputsOf(r) = h[n - 1]
  BY <1>0, InputsUnfold
<1>3. g[0] = << >> /\ \A i \in 1..n : g[i] = Picks(q[i], g[i - 1])
  BY <1>0, <1>1, FiltersValues
<1>4. h[0] = << >> /\ \A i \in 1..(n - 1) : h[i] = Picks(r[i], h[i - 1])
  BY <1>0, <1>2, FiltersValues
<1> DEFINE S == {i \in Nat : i <= n - 1 => h[i] \in Seq(C) /\ g[i + 1] = first \o h[i]}
<1>5. 0 \in S
  <2>1. g[1] = Picks(q[1], g[0])
    <3>1. 1 \in 1..n /\ 1 - 1 = 0
      BY <1>0
    <3> QED BY <1>3, <3>1
  <2>2. << >> \in Seq(C) /\ h[0] = << >>
    BY <1>4
  <2>3. g[0 + 1] = first
    BY <1>3, <1>b, <2>1
  <2> QED BY <1>a, <2>2, <2>3
<1>6. ASSUME NEW i \in Nat, i \in S PROVE i + 1 \in S
  <2> SUFFICES ASSUME i + 1 <= n - 1
               PROVE  h[i + 1] \in Seq(C) /\ g[(i + 1) + 1] = first \o h[i + 1]
    OBVIOUS
  <2>1. h[i] \in Seq(C) /\ g[i + 1] = first \o h[i]
    BY <1>0, <1>6
  <2>2. /\ i + 1 \in 1..(n - 1) /\ (i + 1) + 1 \in 1..n
        /\ (i + 1) - 1 = i /\ ((i + 1) + 1) - 1 = i + 1
    BY <1>0
  <2>3. h[i + 1] = Picks(r[i + 1], h[i])
    BY <1>4, <2>2
  <2>4. g[(i + 1) + 1] = Picks(q[(i + 1) + 1], g[i + 1])
    BY <1>3, <2>2
  <2> DEFINE c == r[i + 1]
  <2>5. c \in C /\ q[(i + 1) + 1] = c
    BY <1>0, <2>2
  <2> HIDE DEF c, S
  <2>7. h[i + 1] = Picks(c, h[i]) /\ g[(i + 1) + 1] = Picks(c, first \o h[i])
    BY <2>1, <2>3, <2>4, <2>5 DEF c
  <2>8. Append(first \o h[i], c) = first \o Append(h[i], c) /\ Append(h[i], c) \in Seq(C)
    <3>1. PICK t \in Seq(C) : t = h[i]
      BY <2>1
    <3>2. <<c>> \in Seq(C) /\ Append(t, c) \in Seq(C) /\ Append(t, c) = t \o <<c>>
      BY <2>5, AppendProperties, AppendIsConcat
    <3>3. first \o t \in Seq(C)
      BY <1>a, ConcatProperties
    <3>4. Append(first \o t, c) = (first \o t) \o <<c>>
      BY <2>5, <3>3, AppendIsConcat
    <3>5. (first \o t) \o <<c>> = first \o (t \o <<c>>)
      BY <1>a, <3>2, ConcatAssociative
    <3> QED BY <3>1, <3>2, <3>4, <3>5
  <2> QED BY <2>1, <2>7, <2>8 DEF Picks
<1> HIDE DEF S
<1>7. Nat \subseteq S
  BY <1>5, <1>6, NatSetInduction
<1>8. h[n - 1] \in Seq(C) /\ g[(n - 1) + 1] = first \o h[n - 1]
  <2>1. n - 1 \in S /\ n - 1 <= n - 1
    BY <1>0, <1>7
  <2> QED BY <2>1 DEF S
<1>9. g[n] = first \o InputsOf(r)
  <2>1. (n - 1) + 1 = n
    BY <1>0
  <2> QED BY <1>2, <1>8, <2>1
<1>10. << >> \o InputsOf(r) = InputsOf(r)
  BY <1>2, <1>8, ConcatEmptySeq
<1> QED BY <1>0, <1>1, <1>9, <1>10 DEF r, first

\* A command that replaces the one before it, both inputs, does so in the inputs.
LEMMA InputsOfMerge ==
  ASSUME NEW C, NEW q \in Seq(C), q # << >>, NEW c \in C, IsInput(c), IsInput(q[Len(q)])
  PROVE  LET p == InputsOf(q) IN
         /\ p # << >> /\ p[Len(p)] = q[Len(q)]
         /\ InputsOf([q EXCEPT ![Len(q)] = c]) = [p EXCEPT ![Len(p)] = c]
<1>0. PICK p : p = InputsOf(q)
  OBVIOUS
<1>1. PICK front \in Seq(C), a \in C : q = Append(front, a)
  BY SequenceEmptyOrAppend
<1>2. q[Len(q)] = a /\ [q EXCEPT ![Len(q)] = c] = Append(front, c)
  BY <1>1, ReplaceLast DEF Ends
<1>3. p = Append(InputsOf(front), a)
  BY <1>0, <1>1, <1>2, InputsOfAppend DEF Picks
<1>4. InputsOf([q EXCEPT ![Len(q)] = c]) = Append(InputsOf(front), c)
  BY <1>2, InputsOfAppend DEF Picks
<1>5. InputsOf(front) \in Seq(C)
  BY InputsOfType
<1>6. p # << >> /\ p[Len(p)] = a /\ [p EXCEPT ![Len(p)] = c] = Append(InputsOf(front), c)
  <2>1. PICK rest \in Seq(C) : rest = InputsOf(front)
    BY <1>5
  <2>2. p = Append(rest, a)
    BY <1>3, <2>1
  <2>3. Ends(p, rest, a, c)
    BY <2>2, ReplaceLast
  <2> QED BY <2>1, <2>3 DEF Ends
<1> QED BY <1>0, <1>2, <1>4, <1>6

\* Taking an input from the queue takes the first of its inputs.
LEMMA InputsOfTaken ==
  ASSUME NEW C, NEW q \in Seq(C), q # << >>, IsInput(Head(q)), NEW p, p = InputsOf(q)
  PROVE  p # << >> /\ Head(p) = Head(q) /\ Tail(p) = InputsOf(Tail(q))
<1>1. PICK rest : rest = InputsOf(Tail(q))
  OBVIOUS
<1>2. rest \in Seq(C) /\ Head(q) \in C
  BY <1>1, InputsOfType, HeadTailProperties
<1>3. p = <<Head(q)>> \o rest
  BY <1>1, InputsOfTail
<1>4. p # << >> /\ Head(p) = Head(q) /\ Tail(p) = rest
  BY <1>2, <1>3
<1> QED BY <1>1, <1>4

---------------------------------------------------------------------------
(* The runtime implements the channel *)

\* Only an owner that applied nothing ends with a native bundle.
OrderInv ==
  /\ WarpInv
  /\ session \in Sessions
  /\ pc = "Preflight" \/ nativeBundle => applied = << >>

\* Nothing has been applied at the start.
LEMMA InitOrder == Init => OrderInv
BY InitWarp DEF Init, OwnerStart, OrderInv

\* Every step keeps an owner that found a bundle from applying anything.
LEMMA StepOrder == OrderInv /\ [Next]_vars => OrderInv'
<1> SUFFICES ASSUME OrderInv, [Next]_vars PROVE OrderInv'
  OBVIOUS
<1>1. WarpInv'
  BY StepWarp DEF OrderInv
<1>2. session' = session
  BY DEF Next, Alive, vars
<1>3. (pc = "Preflight" \/ nativeBundle => applied = << >>)'
  <2>1. /\ pc = "Preflight" \/ nativeBundle => applied = << >>
        /\ nativeBundle => pc \in Ended \/ pc = "Wake"
    BY DEF OrderInv, WarpInv
  <2> USE <2>1
  <2>2. CASE OwnerDrain \/ OwnerApplyQueued \/ OwnerSafePop
    BY <2>2 DEF OwnerDrain, OwnerApplyQueued, OwnerSafePop, Ended
  <2>3. CASE OwnerPreflight
    BY <2>3 DEF OwnerPreflight
  <2>4. CASE HostEnterBundle
    BY <2>4 DEF HostEnterBundle, NewOwner, ownerVars, history
  <2>5. CASE \/ OwnerCheckStart \/ OwnerInitialize \/ OwnerReady \/ OwnerTakePresentation
             \/ OwnerCheckShutdown \/ OwnerWait \/ OwnerStartFrame \/ OwnerSafePoint
             \/ OwnerStopSlicing \/ OwnerMixAudio \/ OwnerFlush \/ OwnerStop
    BY <2>5 DEF OwnerCheckStart, OwnerInitialize, OwnerReady, OwnerTakePresentation,
       OwnerCheckShutdown, OwnerWait, OwnerStartFrame, OwnerSafePoint, OwnerStopSlicing,
       OwnerMixAudio, OwnerFlush, OwnerStop, history
  <2>6. CASE OwnerWake
    BY <2>6 DEF OwnerWake, history, OrderInv, WarpInv
  <2>7. CASE OwnerSafePopDone
    BY <2>7 DEF OwnerSafePopDone, history, OrderInv, WarpInv
  <2>8. CASE OwnerSlice
    BY <2>8 DEF OwnerSlice
  <2>9. CASE OwnerEndFrame
    BY <2>9 DEF OwnerEndFrame
  <2>10. CASE OwnerCapture \/ OwnerPublishStatus
    BY <2>10 DEF OwnerCapture, OwnerPublishStatus, history
  <2>11. CASE (\E kind \in Kinds : HostInput(kind)) \/ HostClose \/ HostQuit
    BY <2>11 DEF HostInput, HostClose, HostQuit, ownerVars, history
  <2>12. CASE HostQuitTimer \/ HostWake \/ HostPoll \/ HostPresent \/ HostRetryJoin \/ HostJoined
    BY <2>12 DEF HostQuitTimer, HostWake, HostPoll, HostPresent, HostRetryJoin, HostJoined,
       ownerVars, history
  <2>13. CASE HostWarpPointer
    BY <2>13 DEF HostWarpPointer, ownerVars
  <2>14. CASE UNCHANGED vars
    BY <2>14 DEF vars, ownerVars, history
  <2> QED BY <2>2, <2>3, <2>4, <2>5, <2>6, <2>7, <2>8, <2>9, <2>10, <2>11, <2>12, <2>13, <2>14
          DEF Next, OwnerStep, HostStep, User
<1> QED BY <1>1, <1>2, <1>3 DEF OrderInv

Stutters == InputsOf(commands)' = InputsOf(commands) /\ applied' = applied

\* Taking a command delivers an input, or is nothing to the channel.
LEMMA TakingDelivers ==
  ASSUME OrderInv, TakeCommand,
         IF Head(commands).kind = "Ack" THEN applied' = applied ELSE applied' = <<Head(commands)>>
  PROVE  Channel!Deliver \/ Stutters
<1>1. commands \in Seq(Command) /\ commands # << >> /\ commands' = Tail(commands)
  BY DEF OrderInv, WarpInv, Acked, TakeCommand
<1>2. InputsOf(commands)' = InputsOf(Tail(commands))
  BY <1>1
<1>3. CASE Head(commands).kind = "Ack"
  BY <1>1, <1>2, <1>3, InputsOfTail DEF IsInput, Stutters
<1>4. CASE Head(commands).kind # "Ack"
  <2>1. PICK p : p = InputsOf(commands)
    OBVIOUS
  <2>2. p # << >> /\ Head(p) = Head(commands) /\ Tail(p) = InputsOf(Tail(commands))
    BY <1>1, <1>4, <2>1, InputsOfTaken DEF IsInput
  <2> QED BY <1>2, <1>4, <2>1, <2>2 DEF Channel!Deliver
<1> QED BY <1>3, <1>4

\* Applying the head of the queue hands it over, unless it is an acknowledgement.
LEMMA ApplyHandsOver ==
  ASSUME NEW c, ApplyCommand(c)
  PROVE  IF c.kind = "Ack" THEN applied' = applied ELSE applied' = <<c>>
BY DEF ApplyCommand, ApplyInput

\* Every step of the runtime is a step of the channel or nothing to it.
LEMMA StepsAreChannels ==
  ASSUME OrderInv, [Next]_vars
  PROVE  Channel!Next \/ Stutters
<1>0. commands \in Seq(Command)
  BY DEF OrderInv, WarpInv, Acked
<1>1. CASE OwnerDrain
  <2>1. CASE UNCHANGED <<commands, applied>>
    BY <2>1 DEF Stutters
  <2>2. CASE TakeCommand /\ ApplyCommand(Head(commands))
    BY <2>2, TakingDelivers, ApplyHandsOver DEF Channel!Next
  <2> QED BY <1>1, <2>1, <2>2 DEF OwnerDrain
<1>2. CASE OwnerApplyQueued
  <2>1. TakeCommand /\ ApplyCommand(Head(commands))
    BY <1>2 DEF OwnerApplyQueued
  <2> QED BY <2>1, TakingDelivers, ApplyHandsOver DEF Channel!Next
<1>3. CASE OwnerSafePop
  <2>1. TakeCommand /\ (IF Head(commands).kind = "Ack" THEN applied' = applied
                        ELSE applied' = <<Head(commands)>>)
    BY <1>3 DEF OwnerSafePop, ApplyInput
  <2> QED BY <2>1, TakingDelivers DEF Channel!Next
<1>4. ASSUME NEW kind \in Kinds, HostInput(kind) PROVE Channel!Next \/ Stutters
  <2> DEFINE d == [kind |-> kind, n |-> sent + 1]
  <2>1. d \in Inputs /\ d \in Command /\ d.kind = kind
    <3>1. sent \in Nat /\ sent < session.inputs /\ session \in Sessions
      BY <1>4 DEF HostInput, OrderInv, WarpInv
    <3>2. session.inputs \in 0..MaxInputs /\ MaxInputs \in Nat
      BY <3>1, RuntimeAssumption
    <3> QED BY <3>1, <3>2 DEF Inputs, Command
  <2>2. PICK c \in Inputs : c = d
    BY <2>1
  <2>3. IsInput(c) /\ c \in Command
    BY <2>1, <2>2, RuntimeAssumption DEF IsInput
  <2>4. applied' = applied
    BY <1>4 DEF HostInput, history
  <2>5. SendCommand(c)
    BY <1>4, <2>2 DEF HostInput
  <2> HIDE DEF d
  <2>6. CASE commands' = commands
    BY <2>4, <2>6 DEF Stutters
  <2>7. CASE commands' = Append(commands, c)
    <3>1. InputsOf(commands)' = Append(InputsOf(commands), c)
      BY <1>0, <2>3, <2>7, InputsOfAppend DEF Picks
    <3> QED BY <2>4, <3>1 DEF Channel!Next, Channel!Accept
  <2>8. CASE Coalesces(c) /\ commands' = [commands EXCEPT ![Len(commands)] = c]
    <3>1. commands # << >> /\ IsInput(commands[Len(commands)]) /\ Channel!Moves(c)
          /\ Channel!Moves(commands[Len(commands)])
      BY <2>8 DEF Coalesces, IsInput, Channel!Moves
    <3>2. PICK p : p = InputsOf(commands)
      OBVIOUS
    <3>3. p # << >> /\ p[Len(p)] = commands[Len(commands)]
      BY <1>0, <2>3, <3>1, <3>2, InputsOfMerge
    <3>4. InputsOf([commands EXCEPT ![Len(commands)] = c]) = [p EXCEPT ![Len(p)] = c]
      BY <1>0, <2>3, <3>1, <3>2, InputsOfMerge
    <3>5. InputsOf(commands)' = [p EXCEPT ![Len(p)] = c]
      BY <2>8, <3>4
    <3>6. Channel!Merge(c)
      BY <2>4, <3>1, <3>2, <3>3, <3>5 DEF Channel!Merge
    <3> QED BY <2>2, <3>6 DEF Channel!Next
  <2> QED BY <2>5, <2>6, <2>7, <2>8 DEF SendCommand, Send
<1>5. CASE HostWarpPointer
  <2> DEFINE d == [kind |-> "Ack", n |-> hostWarp]
  <2>1. applied' = applied /\ (commands' = commands \/ commands' = Append(commands, d))
    BY <1>5 DEF HostWarpPointer, SendCommand, Send, Coalesces
  <2>2. d \in Command /\ ~ IsInput(d)
    BY DEF Command, IsInput, OrderInv, WarpInv
  <2> HIDE DEF d
  <2>3. CASE commands' = commands
    BY <2>1, <2>3 DEF Stutters
  <2>4. CASE commands' = Append(commands, d)
    BY <1>0, <2>1, <2>2, <2>4, InputsOfAppend DEF Picks, Stutters
  <2> QED BY <2>1, <2>3, <2>4
<1>6. CASE HostEnterBundle
  <2>1. CASE UNCHANGED <<commands, applied>>
    BY <2>1 DEF Stutters
  <2>2. CASE NewMailbox /\ NewOwner
    <3>1. applied = << >> /\ applied' = << >> /\ commands' = << >>
      BY <1>6, <2>2 DEF HostEnterBundle, Respawns, OrderInv, WarpInv, NewMailbox, NewOwner
    <3>2. InputsOf(commands)' = << >>
      BY <3>1, InputsOfEmpty
    <3> QED BY <3>1, <3>2 DEF Channel!Next, Channel!Reopen
  <2> QED BY <1>6, <2>1, <2>2 DEF HostEnterBundle, mailboxVars, history
<1>7. CASE \/ OwnerPreflight \/ OwnerCheckStart \/ OwnerInitialize \/ OwnerReady \/ OwnerWake
           \/ OwnerTakePresentation \/ OwnerCheckShutdown \/ OwnerWait \/ OwnerStartFrame
           \/ OwnerSafePoint \/ OwnerSafePopDone \/ OwnerSlice \/ OwnerStopSlicing
           \/ OwnerMixAudio \/ OwnerEndFrame \/ OwnerCapture \/ OwnerFlush \/ OwnerStop
           \/ OwnerPublishStatus
  <2>1. UNCHANGED <<commands, applied>>
    BY <1>7 DEF OwnerPreflight, OwnerCheckStart, OwnerInitialize, OwnerReady, OwnerWake,
       OwnerTakePresentation, OwnerCheckShutdown, OwnerWait, OwnerStartFrame, OwnerSafePoint,
       OwnerSafePopDone, OwnerSlice, OwnerStopSlicing, OwnerMixAudio, OwnerEndFrame,
       OwnerCapture, OwnerFlush, OwnerStop, OwnerPublishStatus, mailboxVars, history
  <2> QED BY <2>1 DEF Stutters
<1>8. CASE \/ HostClose \/ HostQuit \/ HostQuitTimer \/ HostWake \/ HostPoll \/ HostPresent
           \/ HostRetryJoin \/ HostJoined \/ UNCHANGED vars
  <2>1. UNCHANGED <<commands, applied>>
    BY <1>8 DEF HostClose, HostQuit, HostQuitTimer, HostWake, HostPoll, HostPresent,
       HostRetryJoin, HostJoined, mailboxVars, history, vars
  <2> QED BY <2>1 DEF Stutters
<1> QED BY <1>1, <1>2, <1>3, <1>4, <1>5, <1>6, <1>7, <1>8 DEF Next, OwnerStep, HostStep, User

\* OrderedInput: the mailbox, the batches, the acknowledgements put off and the latch
\* implement an ordered channel that loses and duplicates no input, for every capacity and
\* batch size, and across the restart of the owner (RuntimeMailbox::send, next_command,
\* runtime_owner.rs run).
THEOREM RuntimeIsChannel == Spec => OrderedInput
<1>1. Init => Channel!Init
  BY InputsOfEmpty DEF Init, MailboxInit, OwnerStart, Channel!Init
<1>2. OrderInv /\ [Next]_vars => [Channel!Next]_(Channel!channelVars)
  BY StepsAreChannels DEF Stutters, Channel!channelVars
<1> QED BY InitOrder, StepOrder, <1>1, <1>2, PTL DEF Spec, OrderedInput, Channel!Spec
===============================================================================
