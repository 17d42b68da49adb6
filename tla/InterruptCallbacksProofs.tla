---------------------- MODULE InterruptCallbacksProofs ----------------------
(***************************************************************************)
(* Theorems about InterruptCallbacks, for every number of tasks, counts,    *)
(* delays, kinds of session and length of a tick.                           *)
(***************************************************************************)
EXTENDS InterruptCallbacks, SubsequenceProofs, FiniteSetTheorems

\* The dialog callbacks that others were called from, each with the foreground's level.
Parents(calls) ==
    /\ calls \in Seq(Range(calls))
    /\ \A i \in 1..Len(calls) : calls[i].source = Dialog /\ calls[i].level = foregroundLevel

\* Every saved register set on the way back to the foreground holds the foreground's level.
Custody ==
    /\ level \in 0..1 /\ active.level \in 0..1 /\ suspended.level \in 0..1
    /\ ~Suspends => level = foregroundLevel
    /\ ~Foreground => active.level = foregroundLevel
    /\ suspended # NoCall =>
          /\ Suspends /\ suspended.source = Dialog /\ suspended.level = foregroundLevel
    /\ Parents(nested)
    /\ nested # <<>> => Dialog \in {active.source, suspended.source}

\* A retrace task may run, were the loop to look.
Ready == level = 0 /\ Pending # {}

\* Where the loop is on its way to the foreground the batch is over; an audio-only
\* slice gets there only in a callback.
Batch ==
    /\ soundOnly \in BOOLEAN /\ back \in {"exec", "delayed"}
    /\ at \in {"retrace", "task", "due", "deferred", "delayed", "drain"} => ~soundOnly
    /\ at \in {"timer", "delay", "resume", "run", "exec"} /\ soundOnly => Suspends
    /\ at \in {"host", "sound", "timer", "delay", "due", "deferred", "delayed", "resume",
               "drainDeferred", "run", "exec"} /\ ~soundOnly /\ ~Suspends => ~Ready

\* What was delivered since the retrace is not due before the next.
Once == ran \cap pending = {}

LoopInv == Custody /\ Batch /\ Once

-----------------------------------------------------------------------------

\* A dialog procedure and no call are no interrupt sources.
LEMMA SourceFacts ==
    /\ "None" \notin Interrupts /\ Dialog \notin Interrupts /\ Dialog # "None"
    /\ NoCall.source = "None" /\ NoCall.level = 0
BY DEF Interrupts, Sources, Dialog, NoCall

\* The pending retrace tasks depend on two variables only.
LEMMA PendingKept == UNCHANGED <<vblTasks, pending>> => Pending' = Pending
BY DEF Pending

\* A dialog callback is set aside for that of a dialog it opens, and goes on when that is over.
LEMMA ParentFacts ==
    ASSUME NEW calls, Parents(calls)
    PROVE  /\ \A c : c.source = Dialog /\ c.level = foregroundLevel => Parents(Append(calls, c))
           /\ calls # <<>> => /\ Parents(Front(calls))
                              /\ Last(calls).source = Dialog /\ Last(calls).level = foregroundLevel
<1>1. PICK n \in Nat : n = Len(calls) /\ DOMAIN calls = 1..n
  BY DEF Parents
<1>2. ASSUME NEW c, c.source = Dialog, c.level = foregroundLevel
      PROVE  Parents(Append(calls, c))
  <2>1. PICK q : q = Append(calls, c)
    OBVIOUS
  <2>2. calls \in Seq(Range(calls) \cup {c})
    BY DEF Parents
  <2>3. /\ Len(q) = n + 1 /\ DOMAIN q = 1..(n + 1) /\ q \in Seq(Range(calls) \cup {c})
        /\ q[n + 1] = c /\ \A i \in 1..n : q[i] = calls[i]
    BY <1>1, <2>1, <2>2
  <2>4. \A i \in 1..(n + 1) : i \in 1..n \/ i = n + 1
    OBVIOUS
  <2>5. \A i \in 1..(n + 1) : q[i] \in Range(q)
    BY <2>3 DEF Range
  <2>6. q \in Seq(Range(q))
    BY <2>3, <2>5
  <2>7. \A i \in 1..(n + 1) : q[i].source = Dialog /\ q[i].level = foregroundLevel
    BY <1>1, <1>2, <2>3, <2>4 DEF Parents
  <2> QED BY <2>1, <2>3, <2>6, <2>7 DEF Parents
<1>3. ASSUME calls # <<>>
      PROVE  /\ Parents(Front(calls))
             /\ Last(calls).source = Dialog /\ Last(calls).level = foregroundLevel
  <2>1. calls \in Seq(Range(calls))
    BY DEF Parents
  <2>2. n > 0
    BY <1>1, <1>3, <2>1
  <2>3. Last(calls) = calls[n] /\ n \in 1..n
    BY <1>1, <2>2 DEF Last
  <2>4. PICK q : q = Front(calls)
    OBVIOUS
  <2>5. q = [i \in 1..(n - 1) |-> calls[i]]
    BY <1>1, <2>1, <2>2, <2>4 DEF Front
  <2>6. Len(q) = n - 1 /\ DOMAIN q = 1..(n - 1) /\ \A i \in 1..(n - 1) : q[i] = calls[i] /\ i \in 1..n
    BY <2>2, <2>5
  <2>7. \A i \in 1..(n - 1) : q[i] \in Range(q)
    BY <2>6 DEF Range
  <2>8. q \in Seq(Range(q))
    BY <2>2, <2>5, <2>6, <2>7
  <2> QED BY <1>1, <2>3, <2>4, <2>6, <2>8 DEF Parents
<1> QED BY <1>2, <1>3

\* An injected call runs over what it found, and its level is saved.
LEMMA InjectFacts ==
    ASSUME Custody, ~Suspends, NEW s \in Interrupts, NEW t, Inject(s, t), foregroundLevel' = foregroundLevel
    PROVE  Custody' /\ Suspends' /\ active'.source = s
<1>1. /\ active'.source = s /\ active'.level = level /\ level' \in 0..1
  BY DEF Inject, Call, Custody
<1>2. Suspends' /\ ~ Foreground'
  BY <1>1, SourceFacts DEF Suspends, Foreground
<1>3. CASE Foreground
  BY <1>1, <1>2, <1>3, SourceFacts DEF Custody, Parents, Inject, Foreground
<1>4. CASE ~ Foreground
  BY <1>1, <1>2, <1>4, SourceFacts DEF Custody, Parents, Inject, Foreground, Suspends
<1> QED BY <1>1, <1>2, <1>3, <1>4

\* Steps that leave calls and levels alone keep custody.
LEMMA QuietFacts ==
    ASSUME Custody, UNCHANGED <<active, suspended, nested, level, foregroundLevel>>
    PROVE  Custody' /\ (Suspends' <=> Suspends) /\ level' = level
BY DEF Custody, Parents, Suspends, Foreground

\* A callback that returned gives the CPU to the foreground or to a dialog callback.
LEMMA ResumeFacts ==
    ASSUME Custody, Resume
    PROVE  /\ at = "resume"
           /\ \/ at' = "run" /\ UNCHANGED <<active, suspended, nested, level>>
              \/ at' \in {"drain", "drainDeferred"} /\ active'.source \in {"None", Dialog}
<1>1. CASE ~Foreground /\ returned
  <2>1. at = "resume" /\ at' \in {"drain", "drainDeferred"}
    BY <1>1 DEF Resume
  <2>2. CASE active.source = Dialog /\ nested # <<>>
    <3>1. active' = Last(nested)
      BY <1>1, <2>2 DEF Resume, Restore, Uncovered
    <3> QED BY <2>1, <2>2, <3>1, ParentFacts DEF Custody
  <2>3. CASE ~(active.source = Dialog /\ nested # <<>>)
    <3>1. active' = suspended
      BY <1>1, <2>3 DEF Resume, Restore, Uncovered
    <3>2. suspended.source \in {"None", Dialog}
      BY SourceFacts DEF Custody
    <3> QED BY <2>1, <3>1, <3>2
  <2> QED BY <2>2, <2>3
<1>2. CASE ~(~Foreground /\ returned)
  BY <1>2 DEF Resume, cpu
<1> QED BY <1>1, <1>2

\* The machine starts in the foreground.
LEMMA InitLoop == Init => LoopInv
<1> SUFFICES ASSUME Init PROVE LoopInv
  OBVIOUS
<1>1. Custody
  BY SourceFacts DEF Init, Custody, Parents, Range, Suspends
<1>2. Batch
  BY DEF Init, Batch
<1>3. Once
  BY DEF Init, Once
<1> QED BY <1>1, <1>2, <1>3 DEF LoopInv

-----------------------------------------------------------------------------
\* A step of the loop that starts an interrupt, when none holds the CPU, or leaves the CPU alone.
Offers(s) == ~Suspends /\ \E t : Inject(s, t)
Leaves == UNCHANGED <<active, suspended, nested, level>>

\* What an offer to the sound, ADB or file sources leaves behind.
LEMMA OfferFacts ==
    ASSUME Custody, NEW s \in Interrupts, Offers(s) \/ Leaves, foregroundLevel' = foregroundLevel
    PROVE  /\ Custody' /\ (Suspends => Suspends')
           /\ Offers(s) => Suspends' /\ active'.source = s
           /\ Leaves => (Suspends' <=> Suspends) /\ level' = level
<1>1. CASE Offers(s)
  <2>1. PICK t : Inject(s, t)
    BY <1>1 DEF Offers
  <2>2. Custody' /\ Suspends' /\ active'.source = s
    BY <1>1, <2>1, InjectFacts DEF Offers
  <2>3. Leaves => (Suspends' <=> Suspends) /\ level' = level
    BY QuietFacts DEF Leaves
  <2> QED BY <2>2, <2>3
<1>2. CASE Leaves /\ ~ Offers(s)
  BY <1>2, QuietFacts DEF Leaves
<1> QED BY <1>1, <1>2

\* A retrace task that is ready is fired, and none a second time on one retrace.
LEMMA FireFacts == FirePendingVbl /\ VblReady =>
    /\ Offers("Vbl") /\ foregroundLevel' = foregroundLevel /\ (Once => Once')
<1> SUFFICES ASSUME FirePendingVbl, VblReady PROVE
                 /\ Offers("Vbl") /\ foregroundLevel' = foregroundLevel /\ (Once => Once')
  OBVIOUS
<1> DEFINE v == vblTasks[Min(Pending)]
<1>1. Inject("Vbl", v) /\ pending' = pending \ {v} /\ ran' = ran \cup {v} /\ foregroundLevel' = foregroundLevel
  BY DEF FirePendingVbl
<1> HIDE DEF v
<1>2. Offers("Vbl")
  BY <1>1 DEF Offers, VblReady
<1> QED BY <1>1, <1>2 DEF Once

\* Every step of the host's loop keeps the invariant.
LEMMA LoopStep == ASSUME LoopInv, Loop PROVE LoopInv'
<1>0. Custody /\ Batch /\ Once /\ {"Vbl", "Cursor", "Timer", "Deferred", "File", "Adb", "Sound"} = Interrupts
  BY DEF LoopInv, Interrupts, Sources
<1>1. CASE EndSlice
  <2>1. Offers("Sound") \/ Leaves
    BY <1>1 DEF EndSlice, Offers, Leaves, cpu
  <2>2. Custody'
    BY <1>0, <1>1, <2>1, OfferFacts DEF EndSlice, history
  <2>3. Batch' /\ Once'
    BY <1>0, <1>1 DEF EndSlice, Batch, Once, vbl, history
  <2> QED BY <2>2, <2>3 DEF LoopInv
<1>2. CASE Top
  <2>1. CASE ~soundOnly /\ VblReady
    <3>1. FirePendingVbl /\ at' = "top" /\ back' = back /\ soundOnly' = soundOnly
      BY <1>2, <2>1 DEF Top, slice
    <3>2. Custody' /\ Once'
      BY <1>0, <2>1, <3>1, FireFacts, OfferFacts
    <3> QED BY <1>0, <3>1, <3>2 DEF LoopInv, Batch
  <2>2. CASE ~(~soundOnly /\ VblReady)
    <3>1. /\ at' = "host" /\ UNCHANGED <<cpu, vbl, history, back, slice>>
      BY <1>2, <2>2 DEF Top, NoCallback
    <3>2. Custody' /\ (Suspends' <=> Suspends) /\ level' = level /\ Pending' = Pending
      BY <1>0, <3>1, QuietFacts, PendingKept DEF cpu, vbl, history
    <3>3. Batch'
      BY <1>0, <2>2, <3>1, <3>2 DEF Batch, slice, Ready, VblReady
    <3> QED BY <1>0, <3>1, <3>2, <3>3 DEF LoopInv, Once, vbl, history
  <2> QED BY <2>1, <2>2
<1>3. CASE HostWork
  <2>1. /\ Offers("File") \/ Offers("Adb") \/ Leaves
        /\ at = "host" /\ at' = "sound" /\ UNCHANGED <<vbl, history, back, slice>>
        /\ soundOnly => Leaves
    BY <1>3 DEF HostWork, Offers, Leaves, NoCallback, cpu
  <2>2. Pending' = Pending
    BY <2>1, PendingKept DEF vbl
  <2>3. Custody' /\ (Suspends' \/ (Leaves /\ (Suspends' <=> Suspends) /\ level' = level))
    BY <1>0, <2>1, OfferFacts DEF history
  <2>4. Batch'
    BY <1>0, <2>1, <2>2, <2>3 DEF Batch, slice, Ready
  <2> QED BY <1>0, <2>1, <2>3, <2>4 DEF LoopInv, Once, vbl, history
<1>4. CASE Sound
  <2>1. /\ Offers("Sound") \/ Leaves
        /\ at = "sound" /\ UNCHANGED <<vbl, history, back, soundOnly>>
        /\ at' = IF soundOnly /\ ~Suspends' THEN "top" ELSE "timer"
    BY <1>4 DEF Sound, Offers, Leaves, NoCallback, cpu
  <2>2. Pending' = Pending
    BY <2>1, PendingKept DEF vbl
  <2>3. Custody' /\ (Suspends' \/ (Leaves /\ (Suspends' <=> Suspends) /\ level' = level))
    BY <1>0, <2>1, OfferFacts DEF history
  <2>4. Batch'
    BY <1>0, <2>1, <2>2, <2>3 DEF Batch, Ready
  <2> QED BY <1>0, <2>1, <2>3, <2>4 DEF LoopInv, Once, vbl, history
<1>5. CASE TimerDue
  <2>1. /\ Offers("Timer") \/ Leaves
        /\ at = "timer" /\ UNCHANGED <<vbl, history, back, slice>>
        /\ at' = IF ~Suspends /\ Suspends' THEN "top" ELSE "delay"
    BY <1>5 DEF TimerDue, FireTimerAt, Offers, Leaves, NoCallback, cpu
  <2>2. Pending' = Pending
    BY <2>1, PendingKept DEF vbl
  <2>3. Custody' /\ (Suspends => Suspends') /\ (Suspends' \/ (Leaves /\ (Suspends' <=> Suspends) /\ level' = level))
    BY <1>0, <2>1, OfferFacts DEF history
  <2>4. Batch'
    BY <1>0, <2>1, <2>2, <2>3 DEF Batch, slice, Ready
  <2> QED BY <1>0, <2>1, <2>3, <2>4 DEF LoopInv, Once, vbl, history
<1>6. CASE DelayTick
  <2>1. /\ at = "delay" /\ UNCHANGED <<vbl, history, cpu, slice>>
        /\ \/ at' = "resume" /\ back' = back
           \/ at' = "retrace" /\ back' = "delayed" /\ ~soundOnly
    BY <1>6 DEF DelayTick, Tick
  <2>2. Custody' /\ (Suspends' <=> Suspends) /\ level' = level /\ Pending' = Pending
    BY <1>0, <2>1, QuietFacts, PendingKept DEF cpu, vbl, history
  <2>4. Batch'
    BY <1>0, <2>1, <2>2 DEF Batch, slice, Ready
  <2> QED BY <1>0, <2>1, <2>2, <2>4 DEF LoopInv, Once, vbl, history
<1>7. CASE Delayed
  <2>1. /\ at = "delayed" /\ UNCHANGED <<vbl, history, active, suspended, nested, level, slice, back>>
        /\ at' \in {"delay", "resume"}
    BY <1>7 DEF Delayed
  <2>2. Custody' /\ (Suspends' <=> Suspends) /\ level' = level /\ Pending' = Pending
    BY <1>0, <2>1, QuietFacts, PendingKept DEF vbl, history
  <2>4. Batch'
    BY <1>0, <2>1, <2>2 DEF Batch, slice, Ready
  <2> QED BY <1>0, <2>1, <2>2, <2>4 DEF LoopInv, Once, vbl, history
<1>8. CASE Resume
  <2>1. at = "resume" /\ UNCHANGED <<vbl, history, slice, back>>
    BY <1>8 DEF Resume
  <2>2. Pending' = Pending
    BY <2>1, PendingKept DEF vbl
  <2>3. CASE ~Foreground /\ returned
    <3>1. /\ level' = active.level /\ suspended' = NoCall /\ foregroundLevel' = foregroundLevel
          /\ at' = IF ~soundOnly /\ active.source # Dialog THEN "drain" ELSE "drainDeferred"
      BY <1>8, <2>3 DEF Resume, Restore, Uncovered, history
    <3>2. Custody'
      <4>1. level' \in 0..1 /\ level' = foregroundLevel
        BY <1>0, <2>3, <3>1 DEF Custody
      <4>2. CASE active.source = Dialog /\ nested # <<>>
        <5>1. active' = Last(nested) /\ nested' = Front(nested)
          BY <1>8, <2>3, <4>2 DEF Resume, Restore, Uncovered
        <5>2. active'.source = Dialog /\ active'.level = foregroundLevel /\ Parents(Front(nested))
          BY <1>0, <4>2, <5>1, ParentFacts DEF Custody
        <5> QED BY <3>1, <4>1, <5>1, <5>2, SourceFacts DEF Custody, Parents, Suspends, Foreground
      <4>3. CASE ~(active.source = Dialog /\ nested # <<>>)
        <5>1. active' = suspended /\ nested' = nested
          BY <1>8, <2>3, <4>3 DEF Resume, Restore, Uncovered
        <5>2. Parents(nested)' /\ ~Suspends'
          BY <1>0, <3>1, <5>1, SourceFacts DEF Custody, Parents, Suspends
        <5>3. Foreground' \/ active'.level = foregroundLevel
          BY <1>0, <5>1, SourceFacts DEF Custody, Foreground
        <5>4. active'.level \in 0..1
          BY <1>0, <5>1 DEF Custody
        <5>5. nested' # <<>> => active'.source = Dialog
          BY <1>0, <4>3, <5>1 DEF Custody
        <5> QED BY <3>1, <4>1, <5>2, <5>3, <5>4, <5>5, SourceFacts DEF Custody
      <4> QED BY <4>2, <4>3
    <3>3. active.source = Dialog => ~Suspends /\ level' = level
      BY <1>0, <2>3, <3>1 DEF Suspends, Custody
    <3>4. Batch'
      BY <1>0, <2>1, <2>2, <3>1, <3>3 DEF Batch, slice, Ready
    <3> QED BY <1>0, <2>1, <3>2, <3>4 DEF LoopInv, Once, vbl, history
  <2>4. CASE ~(~Foreground /\ returned)
    <3>1. UNCHANGED <<active, suspended, nested, level>> /\ at' = "run"
      BY <1>8, <2>4 DEF Resume, cpu
    <3>2. Custody' /\ (Suspends' <=> Suspends) /\ level' = level
      BY <1>0, <2>1, <3>1, QuietFacts DEF history
    <3>3. Batch'
      BY <1>0, <2>1, <2>2, <3>1, <3>2 DEF Batch, slice, Ready
    <3> QED BY <1>0, <2>1, <3>2, <3>3 DEF LoopInv, Once, vbl, history
  <2> QED BY <2>3, <2>4
<1>9. CASE Drain
  <2>1. at \in {"drain", "drainDeferred"} /\ UNCHANGED <<slice, back>>
    BY <1>9 DEF Drain
  <2>2. CASE at = "drain" /\ VblReady
    <3>1. FirePendingVbl /\ at' = "top"
      BY <1>9, <2>2 DEF Drain
    <3>2. Custody' /\ Once'
      BY <1>0, <2>2, <3>1, FireFacts, OfferFacts
    <3> QED BY <1>0, <2>1, <3>1, <3>2 DEF LoopInv, Batch, slice
  <2>3. CASE ~(at = "drain" /\ VblReady)
    <3>1. /\ UNCHANGED <<vbl, history>>
          /\ \/ Offers("Deferred") /\ at' = "top"
             \/ Leaves /\ at' = (IF soundOnly THEN "top" ELSE "run")
      BY <1>9, <2>3 DEF Drain, FireDeferred, DeferredReady, NoCallback, cpu, Offers, Leaves
    <3>2. Pending' = Pending
      BY <3>1, PendingKept DEF vbl
    <3>3. Custody' /\ (Leaves => (Suspends' <=> Suspends) /\ level' = level)
      BY <1>0, <3>1, OfferFacts DEF history
    <3>4. Batch'
      BY <1>0, <2>1, <2>3, <3>1, <3>2, <3>3 DEF Batch, slice, Ready, VblReady
    <3> QED BY <1>0, <3>1, <3>3, <3>4 DEF LoopInv, Once, vbl, history
  <2> QED BY <2>2, <2>3
<1>10. CASE Run
  <2>1. /\ at = "run" /\ UNCHANGED <<vbl, history, cpu, slice>>
        /\ \/ at' = "exec" /\ back' = back
           \/ at' = "retrace" /\ back' = "exec" /\ ~soundOnly
    BY <1>10 DEF Run, Tick
  <2>2. Custody' /\ (Suspends' <=> Suspends) /\ level' = level /\ Pending' = Pending
    BY <1>0, <2>1, QuietFacts, PendingKept DEF cpu, vbl, history
  <2>4. Batch'
    BY <1>0, <2>1, <2>2 DEF Batch, slice, Ready
  <2> QED BY <1>0, <2>1, <2>2, <2>4 DEF LoopInv, Once, vbl, history
<1>11. CASE Retrace
  <2>1. /\ at = "retrace" /\ at' = "task" /\ UNCHANGED <<foregroundLevel, slice, back>> /\ ran' = {}
        /\ Offers("Cursor") \/ Leaves
    BY <1>11 DEF Retrace, Offers, Leaves, NoCallback, cpu
  <2>2. Custody'
    BY <1>0, <2>1, OfferFacts
  <2>3. Batch' /\ Once'
    BY <1>0, <2>1 DEF Batch, Once, slice
  <2> QED BY <2>2, <2>3 DEF LoopInv
<1>12. CASE RetraceTask
  <2>1. at = "task" /\ at' = "due" /\ UNCHANGED <<slice, back>>
    BY <1>12 DEF RetraceTask
  <2>2. CASE VblReady
    <3>1. FirePendingVbl
      BY <1>12, <2>2 DEF RetraceTask
    <3>2. Custody' /\ Once' /\ Suspends'
      BY <1>0, <2>2, <3>1, FireFacts, OfferFacts
    <3> QED BY <1>0, <2>1, <3>2 DEF LoopInv, Batch, slice
  <2>3. CASE ~VblReady
    <3>1. UNCHANGED <<cpu, vbl, history>>
      BY <1>12, <2>3 DEF RetraceTask, NoCallback
    <3>2. Custody' /\ (Suspends' <=> Suspends) /\ level' = level /\ Pending' = Pending
      BY <1>0, <3>1, QuietFacts, PendingKept DEF cpu, vbl, history
    <3>3. Batch'
      BY <1>0, <2>1, <2>3, <3>2 DEF Batch, slice, Ready, VblReady
    <3> QED BY <1>0, <3>1, <3>2, <3>3 DEF LoopInv, Once, vbl, history
  <2> QED BY <2>2, <2>3
<1>13. CASE RetraceTimer
  <2>1. /\ Offers("Timer") \/ Leaves
        /\ at = "due" /\ at' = "deferred" /\ UNCHANGED <<vbl, history, back, slice>>
    BY <1>13 DEF RetraceTimer, FireTimerAt, Offers, Leaves, NoCallback, cpu
  <2>2. Pending' = Pending
    BY <2>1, PendingKept DEF vbl
  <2>3. Custody' /\ (Suspends' \/ (Leaves /\ (Suspends' <=> Suspends) /\ level' = level))
    BY <1>0, <2>1, OfferFacts DEF history
  <2>4. Batch'
    BY <1>0, <2>1, <2>2, <2>3 DEF Batch, slice, Ready
  <2> QED BY <1>0, <2>1, <2>3, <2>4 DEF LoopInv, Once, vbl, history
<1>14. CASE RetraceDeferred
  <2>1. /\ Offers("Deferred") \/ Leaves
        /\ at = "deferred" /\ at' = back /\ UNCHANGED <<vbl, history, back, slice>>
    BY <1>14 DEF RetraceDeferred, FireDeferred, DeferredReady, Offers, Leaves, NoCallback, cpu
  <2>2. Pending' = Pending
    BY <2>1, PendingKept DEF vbl
  <2>3. Custody' /\ (Suspends' \/ (Leaves /\ (Suspends' <=> Suspends) /\ level' = level))
    BY <1>0, <2>1, OfferFacts DEF history
  <2>4. Batch'
    BY <1>0, <2>1, <2>2, <2>3 DEF Batch, slice, Ready
  <2> QED BY <1>0, <2>1, <2>3, <2>4 DEF LoopInv, Once, vbl, history
<1> QED BY <1>1, <1>2, <1>3, <1>4, <1>5, <1>6, <1>7, <1>8, <1>9, <1>10, <1>11, <1>12, <1>13,
           <1>14 DEF Loop

\* Every action of the guest keeps the invariant.
LEMMA GuestStep == ASSUME LoopInv, Guest PROVE LoopInv'
<1>0. Custody /\ Batch /\ Once
  BY DEF LoopInv
<1>1. /\ at' = "top" /\ UNCHANGED <<back, slice, suspended>>
      /\ pending' \subseteq pending /\ ran' = ran
  BY DEF Guest, Instruction, Return, CallFilter, ReadAsync, VRemove, VInstall, SetCount, RmvTime,
     InsTime,
         PrimeTime, DTInstall, SetLevel, Delay, Executes, vbl, tm
<1>2. Batch' /\ Once'
  BY <1>0, <1>1 DEF Batch, Once, slice
<1>3. CASE CallFilter
  <2>1. /\ ~Suspends /\ level' = level /\ foregroundLevel' = foregroundLevel
        /\ active'.source = Dialog /\ active'.level = level
        /\ nested' = nested \/ (~Foreground /\ nested' = Append(nested, active))
    <3>1. /\ ~Suspends /\ level' = level /\ foregroundLevel' = foregroundLevel
          /\ active' = Call(Dialog, None)
      BY <1>3 DEF CallFilter
    <3>2. CASE Foreground
      BY <1>3, <3>1, <3>2 DEF CallFilter, SuspendParent, Call
    <3>3. CASE ~Foreground
      <4>1. nested' = Append(nested, active)
        BY <1>3, <3>3 DEF CallFilter, SuspendParent
      <4> QED BY <3>1, <3>3, <4>1 DEF Call
    <3> QED BY <3>2, <3>3
  <2>2. suspended' = NoCall /\ level = foregroundLevel
    BY <1>0, <1>1, <2>1 DEF Custody
  <2>3. Parents(nested')
    <3>1. CASE nested' = nested
      BY <1>0, <3>1 DEF Custody
    <3>2. CASE ~Foreground /\ nested' = Append(nested, active)
      <4>1. active.source = Dialog /\ active.level = foregroundLevel
        BY <1>0, <2>1, <3>2 DEF Custody, Suspends, Foreground
      <4> QED BY <1>0, <3>2, <4>1, ParentFacts DEF Custody
    <3> QED BY <2>1, <3>1, <3>2
  <2>4. Parents(nested)'
    BY <2>1, <2>3 DEF Parents
  <2>5. Custody'
    BY <1>0, <2>1, <2>2, <2>4, SourceFacts DEF Custody, Suspends, Foreground
  <2> QED BY <1>2, <2>5 DEF LoopInv
<1>4. CASE \E new \in 0..1 : SetLevel(new)
  <2>1. PICK new \in 0..1 : SetLevel(new)
    BY <1>4
  <2>2. /\ level' = new /\ active' = active /\ nested' = nested /\ (Foreground \/ Suspends)
        /\ foregroundLevel' = IF Foreground THEN new ELSE foregroundLevel
    BY <2>1 DEF SetLevel
  <2>3. Custody'
    <3>1. CASE Foreground
      <4>1. ~Suspends /\ suspended = NoCall
        BY <1>0, <3>1, SourceFacts DEF Custody, Suspends, Foreground
      <4>2. nested = <<>>
        BY <1>0, <3>1, <4>1, SourceFacts DEF Custody, Foreground, Dialog
      <4>3. Parents(nested)'
        BY <2>2, <4>2 DEF Parents, Range
      <4> QED BY <1>0, <1>1, <2>2, <3>1, <4>1, <4>3 DEF Custody, Suspends, Foreground
    <3>2. CASE ~Foreground
      BY <1>0, <1>1, <2>2, <3>2 DEF Custody, Parents, Suspends, Foreground
    <3> QED BY <3>1, <3>2
  <2> QED BY <1>2, <2>3 DEF LoopInv
<1>5. CASE ~CallFilter /\ ~(\E new \in 0..1 : SetLevel(new))
  <2>1. UNCHANGED <<active, nested, level, foregroundLevel>>
    BY <1>5 DEF Guest, Instruction, Return, ReadAsync, VRemove, VInstall, SetCount, RmvTime,
       InsTime, PrimeTime,
                DTInstall, Delay, NoDelay, Continue
  <2>2. Custody'
    BY <1>0, <1>1, <2>1, QuietFacts
  <2> QED BY <1>2, <2>2 DEF LoopInv
<1> QED BY <1>3, <1>4, <1>5

\* The invariant is inductive.
LEMMA Step == LoopInv /\ [Next]_vars => LoopInv'
<1> SUFFICES ASSUME LoopInv, [Next]_vars PROVE LoopInv'
  OBVIOUS
<1>1. CASE HostEvent \/ UNCHANGED vars
  <2>1. UNCHANGED <<cpu, vbl, history, slice, at, back>>
    BY <1>1 DEF HostEvent, vars
  <2>2. Custody' /\ (Suspends' <=> Suspends) /\ level' = level /\ Pending' = Pending
    BY <2>1, QuietFacts, PendingKept DEF LoopInv, cpu, vbl, history
  <2>3. Batch'
    BY <2>1, <2>2 DEF LoopInv, Batch, slice, Ready
  <2> QED BY <2>1, <2>2, <2>3 DEF LoopInv, Once, vbl, history
<1> QED BY <1>1, LoopStep, GuestStep DEF Next

\* The loop's invariant holds: custody of the saved levels, batches first, one run per retrace
\* (run_steps_with_trap_boundary).
THEOREM LoopInvariant == Spec => []LoopInv
<1> QED BY InitLoop, Step, PTL DEF Spec

\* Outside advance_guest_tick some of the tick's instructions are left, before a foreground
\* instruction that is to be charged more than one.
Stocked ==
    /\ budget \in Int
    /\ at \notin {"retrace", "task", "due", "deferred"} => budget > 0
    /\ at = "exec" => soundOnly \/ Suspends \/ precharged \/ budget > 1

\* The instruction that crosses a tick is charged before it runs.
LEMMA StockedStep == LoopInv /\ Stocked /\ [Next]_vars => Stocked'
<1> SUFFICES ASSUME LoopInv, Stocked, [Next]_vars PROVE Stocked'
  OBVIOUS
<1>a. /\ Custody /\ back \in {"exec", "delayed"}
      /\ InstructionsPerTick \in Nat /\ InstructionsPerTick > 1
  BY CallbackAssumption DEF LoopInv, Batch
<1>1. CASE HostEvent \/ UNCHANGED vars
  <2>1. UNCHANGED <<budget, at, soundOnly, active, precharged>>
    BY <1>1 DEF HostEvent, vars, time, slice, cpu
  <2> QED BY <2>1 DEF Stocked, Suspends
<1>2. CASE EndSlice \/ Top \/ HostWork \/ Sound \/ TimerDue
  <2>1. at \in {"top", "host", "sound", "timer"} /\ at' \in {"top", "host", "sound", "timer", "delay"} /\ budget' = budget
    BY <1>2 DEF EndSlice, Top, HostWork, Sound, TimerDue, time
  <2> QED BY <2>1 DEF Stocked
<1>3. CASE DelayTick \/ Delayed
  <2>1. at \in {"delay", "delayed"} /\ at' \in {"delay", "resume", "retrace"} /\ budget' = budget
    BY <1>3 DEF DelayTick, Tick, Delayed, time
  <2> QED BY <2>1 DEF Stocked
<1>4. CASE Resume
  <2>1. /\ at = "resume" /\ at' \in {"run", "drain", "drainDeferred"}
        /\ budget' = budget \/ budget' = InstructionsPerTick
    BY <1>a, <1>4, ResumeFacts DEF Resume
  <2> QED BY <1>a, <2>1 DEF Stocked
<1>5. CASE Drain
  <2>1. at \in {"drain", "drainDeferred"} /\ at' \in {"top", "run"} /\ budget' = budget
    BY <1>5 DEF Drain, time
  <2> QED BY <2>1 DEF Stocked
<1>6. CASE Run
  <2>1. CASE ~soundOnly /\ ~Suspends /\ budget <= 1
    <3>1. at' = "retrace" /\ budget' = 0
      BY <1>6, <2>1 DEF Run, Tick
    <3> QED BY <3>1 DEF Stocked
  <2>2. CASE ~(~soundOnly /\ ~Suspends /\ budget <= 1)
    <3>1. at = "run" /\ at' = "exec" /\ UNCHANGED <<budget, soundOnly, active>>
      BY <1>6, <2>2 DEF Run, slice, cpu
    <3>2. soundOnly' \/ Suspends' \/ budget' > 1
      BY <2>2, <3>1 DEF Stocked, Suspends
    <3> QED BY <3>1, <3>2 DEF Stocked
  <2> QED BY <2>1, <2>2
<1>7. CASE Retrace \/ RetraceTask \/ RetraceTimer
  <2>1. at' \in {"task", "due", "deferred"} /\ budget' = budget
    BY <1>7 DEF Retrace, RetraceTask, RetraceTimer, time
  <2> QED BY <2>1 DEF Stocked
<1>8. CASE RetraceDeferred
  <2>1. at' \in {"exec", "delayed"} /\ budget' = InstructionsPerTick
    BY <1>a, <1>8 DEF RetraceDeferred
  <2> QED BY <1>a, <2>1 DEF Stocked
<1>9. CASE Guest
  <2>1. /\ at = "exec" /\ at' = "top"
        /\ budget' = IF soundOnly \/ Suspends \/ precharged \/ returned THEN budget ELSE budget - 1
    BY <1>9 DEF Guest, Instruction, Return, CallFilter, ReadAsync, VRemove, VInstall, SetCount,
       RmvTime, InsTime,
           PrimeTime, DTInstall, SetLevel, Delay, Executes
  <2>2. CASE budget' = budget
    BY <2>1, <2>2 DEF Stocked
  <2>3. CASE budget' = budget - 1 /\ ~(soundOnly \/ Suspends \/ precharged)
    BY <2>1, <2>3 DEF Stocked
  <2> QED BY <2>1, <2>2, <2>3
<1> QED BY <1>1, <1>2, <1>3, <1>4, <1>5, <1>6, <1>7, <1>8, <1>9 DEF Next, Loop

\* The foreground never runs out of instructions but in advance_guest_tick, which gives it new ones.
LEMMA StockedInvariant == Spec => []Stocked
<1>1. Init => Stocked
  BY CallbackAssumption DEF Init, Stocked
<1> QED BY <1>1, StockedStep, LoopInvariant, PTL DEF Spec

\* So it has some left when a callback returns.
LEMMA ResumeKeepsBudget == Stocked /\ Resume => budget' = budget
BY DEF Stocked, Resume

\* Whatever interrupts, the foreground and its dialog callbacks get their interrupt level back,
\* with any number of tasks of every kind and dialogs opened by dialog callbacks (the restoration in run_steps_with_trap_boundary).
THEOREM ContextIsRestored == Spec => []ContextRestored
<1>1. LoopInv => ContextRestored
  BY DEF LoopInv, Custody, ContextRestored
<1> QED BY <1>1, LoopInvariant, PTL

\* The foreground never runs between two tasks of a retrace batch (the drain before the
\* foreground in run_steps_with_trap_boundary).
THEOREM BatchesComeFirst == Spec => BatchBeforeForeground
<1>1. LoopInv /\ [Next]_vars => [ForegroundRuns => level > 0 \/ Pending = {}]_vars
  <2> SUFFICES ASSUME LoopInv, ForegroundRuns PROVE level > 0 \/ Pending = {}
    OBVIOUS
  <2>1. ~Ready
    BY DEF LoopInv, Batch, ForegroundRuns
  <2> QED BY <2>1 DEF LoopInv, Custody, Ready
<1> QED BY <1>1, LoopInvariant, PTL DEF Spec, BatchBeforeForeground

\* No task runs twice on one retrace: what was delivered is not pending again before the
\* next one (fire_vbl_tasks, fire_pending_vbl_task).
THEOREM TasksRunOncePerRetrace == Spec => OncePerRetrace
<1>1. LoopInv /\ [Next]_vars => [at # "exec" => ran \cap pending \subseteq pending']_vars
  BY DEF LoopInv, Once
<1> QED BY <1>1, LoopInvariant, PTL DEF Spec, OncePerRetrace
-----------------------------------------------------------------------------
(* The Time Manager keeps up with its deadlines *)

\* In a session with timers the host delivers no work: a stream of completed file calls,
\* ADB packets or sound commands may take the CPU before the timers every time.
TimersWithoutHost ==
    \A s \in Sessions : s.timers # {} => s.sources = {} /\ "ReadAsync" \notin s.calls

\* The primed timers, and those that are fired no later than t.
Primed   == {t \in Timers : fireAt[t] # None}
Ahead(t) == {x \in Primed : fireAt[x] <= fireAt[t]}
Rank(t)  == Cardinality(Ahead(t))
Size     == Cardinality(session.timers)

\* How late the clock may be for a timer with n deadlines up to its own: when the loop is
\* about to look at the timers, and when it has looked.
Within(n)  == InstructionsPerTick + 2 * (Size - n)
Cleared(n) == IF n = Size THEN 0 ELSE InstructionsPerTick + 2 * (Size - 1 - n)

\* The loop is in advance_guest_tick, or is about to look at the timers.
Base      == tick * InstructionsPerTick
Retracing == at \in {"retrace", "task", "due", "deferred"}
Stale     == ~Suspends /\ at \in {"top", "host", "sound", "timer"}

\* Each earlier deadline costs at most one foreground instruction and one tick boundary.
Pace(t) ==
    IF Retracing THEN Base + 1 <= fireAt[t] + Within(Rank(t))
    ELSE IF Stale THEN Now <= fireAt[t] + Within(Rank(t))
    ELSE \/ Now <= fireAt[t] + Cleared(Rank(t))
         \/ budget = InstructionsPerTick /\ Now + 1 <= fireAt[t] + Within(Rank(t))

\* The manager's clock, which PrimeTime counts from, is not behind where timers are primed,
\* and the instruction that crosses a tick has been charged.
Clocked ==
    /\ Retracing => clock <= Base
    /\ ~Retracing => budget >= 1
    /\ ~Retracing /\ ~Stale => Clock = Now
    /\ at = "exec" /\ ~Suspends => budget >= 2

\* A Delay advances the clock only when no timer is due.
NoneDue ==
    /\ at \in {"delay", "delayed"} /\ ~Suspends => \A t \in Primed : Now < fireAt[t]
    /\ at = "deferred" /\ ~Suspends => \A t \in Primed : Base < fireAt[t]

Positions == {"top", "host", "sound", "timer", "delay", "delayed", "resume", "drain",
              "drainDeferred", "run", "exec", "retrace", "task", "due", "deferred"}

Times ==
    /\ session \in Sessions /\ at \in Positions
    /\ tick \in Nat /\ budget \in 0..InstructionsPerTick /\ clock \in Nat
    /\ timers \in Seq(Timers) /\ fireAt \in [Timers -> Nat \cup {None}]
    /\ wakeup \in [Extended -> Nat \cup {None}]
    /\ Primed \subseteq session.timers \cap Entries(timers)

\* The host is silent, and no retrace task is due behind a masked foreground or at the
\* start of an iteration in the foreground.
Calm ==
    /\ ~soundOnly /\ work = {} /\ active.source \notin Sources
    /\ vblTasks \in Seq(VblTasks)
    /\ foregroundLevel > 0 => Pending = {}
    /\ at = "top" /\ ~Suspends => ~Ready

Paced ==
    /\ Times /\ Clocked /\ NoneDue
    /\ \A t \in Primed : Pace(t)
    /\ Retracing => TimersOnTime

HostSilent == session.timers # {} /\ session.sources = {} /\ "ReadAsync" \notin session.calls

-----------------------------------------------------------------------------

\* Numbers the clock is made of.
LEMMA ClockFacts ==
    ASSUME Times
    PROVE  /\ InstructionsPerTick \in Nat /\ InstructionsPerTick > 1
           /\ Base \in Nat /\ Now = Base + InstructionsPerTick - budget
           /\ Now \in Nat /\ Now >= Base /\ budget \in Nat
           /\ Clock = (IF clock > Base THEN clock ELSE Base)
<1>1. /\ InstructionsPerTick \in Nat /\ InstructionsPerTick > 1
      /\ tick \in Nat /\ budget \in 0..InstructionsPerTick
  BY CallbackAssumption DEF Times
<1>2. Base \in Nat
  BY <1>1 DEF Base
<1>3. Now = Base + (InstructionsPerTick - budget)
  BY DEF Now, Base
<1>4. Clock = (IF clock > Base THEN clock ELSE Base)
  BY DEF Clock, Base
<1> HIDE DEF Base, Now
<1> QED BY <1>1, <1>2, <1>3, <1>4

\* One more tick.
LEMMA NextBase ==
    ASSUME Times, tick' = tick + 1
    PROVE  Base' = Base + InstructionsPerTick
<1>1. \A a, b \in Nat : (a + 1) * b = a * b + b
  OBVIOUS
<1>2. tick \in Nat /\ InstructionsPerTick \in Nat
  BY CallbackAssumption DEF Times
<1> QED BY <1>1, <1>2 DEF Base

\* A session's timers are finitely many.
LEMMA SizeFacts ==
    ASSUME session \in Sessions
    PROVE  IsFiniteSet(session.timers) /\ Size \in Nat /\ session.timers \subseteq Timers
<1>1. session.timers \in SUBSET Timers /\ IsFiniteSet(Timers)
  BY CallbackAssumption
<1>2. IsFiniteSet(session.timers)
  BY <1>1, FS_Subset
<1>3. Size \in Nat
  BY <1>2, FS_CardinalityType DEF Size
<1> QED BY <1>1, <1>2, <1>3

\* A primed timer is one of the timers ahead of it.
LEMMA RankFacts ==
    ASSUME Times, NEW t \in Primed
    PROVE  /\ IsFiniteSet(Ahead(t)) /\ t \in Ahead(t)
           /\ Rank(t) \in Nat /\ 1 <= Rank(t) /\ Rank(t) <= Size
           /\ t \in Timers /\ fireAt[t] \in Nat /\ Size \in Nat
<1>1. t \in Timers /\ fireAt[t] \in Nat
  BY DEF Primed, Times
<1>2. Ahead(t) \in SUBSET session.timers /\ t \in Ahead(t)
  BY <1>1 DEF Ahead, Times
<1>3. IsFiniteSet(session.timers) /\ Size \in Nat
  BY SizeFacts DEF Times
<1>4. IsFiniteSet(Ahead(t)) /\ Rank(t) <= Size
  BY <1>2, <1>3, FS_Subset DEF Rank, Size
<1>5. Rank(t) \in Nat
  BY <1>4, FS_CardinalityType DEF Rank
<1>6. Rank(t) # 0
  BY <1>2, <1>4, FS_EmptySet DEF Rank
<1> QED BY <1>1, <1>2, <1>3, <1>4, <1>5, <1>6

\* Fewer timers ahead, a lower rank.
LEMMA RankShrinks ==
    ASSUME Times, Times', NEW t \in Primed, t \in Primed', Ahead(t)' \subseteq Ahead(t)
    PROVE  /\ Rank(t)' \in Nat /\ 1 <= Rank(t)' /\ Rank(t)' <= Rank(t)
           /\ \A e \in Ahead(t) : e \notin Ahead(t)' => Rank(t)' <= Rank(t) - 1
<1>1. IsFiniteSet(Ahead(t)) /\ Rank(t) = Cardinality(Ahead(t)) /\ Rank(t)' = Cardinality(Ahead(t)')
  BY RankFacts DEF Rank
<1>2. PICK A, B : A = Ahead(t) /\ B = Ahead(t)'
  OBVIOUS
<1>3. IsFiniteSet(A) /\ B \in SUBSET A
  BY <1>1, <1>2
<1>4. Cardinality(B) <= Cardinality(A)
  BY <1>3, FS_Subset
<1>5. ASSUME NEW e \in A, e \notin B PROVE Cardinality(B) <= Cardinality(A) - 1
  <2>1. IsFiniteSet(A \ {e}) /\ Cardinality(A \ {e}) = Cardinality(A) - 1
    BY <1>3, <1>5, FS_RemoveElement
  <2>2. B \in SUBSET (A \ {e})
    BY <1>3, <1>5
  <2> QED BY <2>1, <2>2, FS_Subset
<1>6. t \in B
  <2>1. t \in Timers /\ fireAt'[t] \in Nat
    BY DEF Times, Primed
  <2> QED BY <1>2, <2>1 DEF Ahead
<1>7. Cardinality(B) \in Nat /\ Cardinality(B) # 0
  <2>1. IsFiniteSet(B)
    BY <1>3, FS_Subset
  <2> QED BY <1>6, <2>1, FS_CardinalityType, FS_EmptySet
<1> QED BY <1>1, <1>2, <1>4, <1>5, <1>7

\* The bounds on a timer of rank n: they fall with n, and what is lost at one rank is what
\* is left at the one below.
LEMMA WithinFacts ==
    ASSUME session \in Sessions, NEW n \in Nat, 1 <= n, n <= Size
    PROVE  /\ Within(n) \in Nat /\ Cleared(n) \in Nat
           /\ Within(n) >= InstructionsPerTick /\ Cleared(n) + 2 <= Within(n)
           /\ \A m \in Nat : 1 <= m /\ m <= n => Within(n) <= Within(m) /\ Cleared(n) <= Cleared(m)
           /\ \A m \in Nat : 1 <= m /\ m <= n - 1 => Within(n) <= Cleared(m)
<1>1. PICK s, i : s = Size /\ i = InstructionsPerTick
  OBVIOUS
<1>2. s \in Nat /\ i \in Nat /\ i > 1 /\ n <= s
  BY <1>1, SizeFacts, CallbackAssumption
<1>3. /\ \A m : Within(m) = i + 2 * (s - m)
      /\ \A m : Cleared(m) = IF m = s THEN 0 ELSE i + 2 * (s - 1 - m)
  BY <1>1 DEF Within, Cleared
<1>4. /\ Within(n) \in Nat /\ Cleared(n) \in Nat
      /\ Within(n) >= i /\ Cleared(n) + 2 <= Within(n)
  <2>1. CASE n = s
    BY <1>2, <1>3, <2>1
  <2>2. CASE n < s
    BY <1>2, <1>3, <2>2
  <2> QED BY <1>2, <2>1, <2>2
<1>5. ASSUME NEW m \in Nat, 1 <= m, m <= n PROVE Within(n) <= Within(m) /\ Cleared(n) <= Cleared(m)
  <2>1. Within(n) <= Within(m)
    BY <1>2, <1>3, <1>5
  <2>2. CASE n = s
    <3>1. Cleared(n) = 0
      BY <1>3, <2>2
    <3>2. Cleared(m) >= 0
      BY <1>2, <1>3, <1>5
    <3> QED BY <2>1, <3>1, <3>2
  <2>3. CASE n < s
    <3>1. Cleared(n) = i + 2 * (s - 1 - n) /\ Cleared(m) = i + 2 * (s - 1 - m)
      BY <1>2, <1>3, <1>5, <2>3
    <3> QED BY <1>2, <1>5, <2>1, <2>3, <3>1
  <2> QED BY <1>2, <2>2, <2>3
<1>6. ASSUME NEW m \in Nat, 1 <= m, m <= n - 1 PROVE Within(n) <= Cleared(m)
  <2>1. Cleared(m) = i + 2 * (s - 1 - m)
    BY <1>2, <1>3, <1>6
  <2> QED BY <1>2, <1>3, <1>6, <2>1
<1> QED BY <1>1, <1>4, <1>5, <1>6

\* What the bounds leave of the promise.
LEMMA LatenessFacts ==
    ASSUME session \in Sessions, NEW n \in Nat, 1 <= n, n <= Size
    PROVE  /\ Lateness \in Nat /\ InstructionsPerTick <= Lateness
           /\ Within(n) <= Lateness
           /\ Cleared(n) + 1 + InstructionsPerTick <= Lateness
<1>1. PICK s, i : s = Size /\ i = InstructionsPerTick
  OBVIOUS
<1>2. s \in Nat /\ i \in Nat /\ i > 1 /\ 1 <= s
  BY <1>1, SizeFacts, CallbackAssumption
<1>3. Lateness = s * i + 1
  BY <1>1 DEF Lateness, Size
<1>4. \A k, j \in Nat : k * j \in Nat /\ (k + 1) * j = k * j + j /\ (j > 1 => 2 * k <= k * j)
  <2>1. ASSUME NEW k \in Nat, NEW j \in Nat, j > 1 PROVE 2 * k <= k * j
    <3>1. PICK d \in Nat : j = 2 + d
      <4>1. j - 2 \in Nat /\ j = 2 + (j - 2)
        BY <2>1
      <4> QED BY <4>1
    <3>2. k * j = 2 * k + k * d
      BY <3>1
    <3>3. k * d \in Nat
      OBVIOUS
    <3> QED BY <3>2, <3>3
  <2> QED BY <2>1
<1>5. PICK k \in Nat : s = k + 1
  <2>1. s - 1 \in Nat /\ s = (s - 1) + 1
    BY <1>2
  <2> QED BY <2>1
<1>6. PICK p \in Nat : p = k * i
  BY <1>2, <1>4
<1>7. s * i = p + i /\ 2 * k <= p
  BY <1>2, <1>4, <1>5, <1>6
<1>8. Within(n) <= i + 2 * k
  BY <1>1, <1>2, <1>5 DEF Within
<1>9. Cleared(n) + 1 + i <= p + i + 1
  <2>1. CASE k = 0
    <3>1. n = s
      BY <1>1, <1>2, <1>5, <2>1
    <3> QED BY <1>1, <1>2, <3>1 DEF Cleared
  <2>2. CASE k # 0
    <3>1. PICK j \in Nat : k = j + 1
      <4>1. k - 1 \in Nat /\ k = (k - 1) + 1
        BY <2>2
      <4> QED BY <4>1
    <3>2. PICK r \in Nat : r = j * i
      BY <1>2, <1>4
    <3>3. p = r + i /\ 2 * j <= r
      BY <1>2, <1>4, <1>6, <3>1, <3>2
    <3>4. Cleared(n) <= i + 2 * j
      <4>1. CASE n = Size
        BY <1>2, <4>1 DEF Cleared
      <4>2. CASE n # Size
        BY <1>1, <1>2, <1>5, <3>1, <4>2 DEF Cleared
      <4> QED BY <4>1, <4>2
    <3>5. Cleared(n) \in Nat
      BY WithinFacts
    <3> QED BY <1>2, <3>3, <3>4, <3>5
  <2> QED BY <2>1, <2>2
<1>10. Within(n) \in Nat
  BY WithinFacts
<1> QED BY <1>1, <1>2, <1>3, <1>7, <1>8, <1>9, <1>10

-----------------------------------------------------------------------------

\* Steps that change no time and no timer, and leave the loop on the same side of its look
\* at the timers.
LEMMA IdlePaces ==
    ASSUME Paced, UNCHANGED <<session, tick, budget, clock, timers, fireAt, wakeup>>,
           at' \in Positions, Retracing' <=> Retracing, Stale' <=> Stale,
           at' \in {"delay", "delayed"} /\ ~Suspends' => at \in {"delay", "delayed"} /\ ~Suspends,
           at' = "deferred" /\ ~Suspends' => at = "deferred" /\ ~Suspends,
           at' = "exec" /\ ~Suspends' => budget >= 2
    PROVE  Paced'
<1>1. /\ Now' = Now /\ Base' = Base /\ Clock' = Clock /\ Primed' = Primed /\ Size' = Size
      /\ Lateness' = Lateness
  BY DEF Now, Base, Clock, Primed, Size, Lateness
<1>2. ASSUME NEW t PROVE Rank(t)' = Rank(t)
  BY <1>1 DEF Rank, Ahead
<1>3. ASSUME NEW n PROVE Within(n)' = Within(n) /\ Cleared(n)' = Cleared(n)
  BY <1>1 DEF Within, Cleared
<1>4. Times'
  BY <1>1 DEF Paced, Times
<1>5. Clocked'
  BY <1>1 DEF Paced, Clocked
<1>6. NoneDue'
  BY <1>1 DEF Paced, NoneDue
<1>7. ASSUME NEW t \in Primed' PROVE Pace(t)'
  <2>1. Pace(t)
    BY <1>1, <1>7 DEF Paced
  <2>2. /\ Within(Rank(t))' = Within(Rank(t)) /\ Cleared(Rank(t))' = Cleared(Rank(t))
    BY <1>2, <1>1 DEF Within, Cleared
  <2>3. fireAt' = fireAt /\ budget' = budget
    OBVIOUS
  <2> QED BY <1>1, <2>1, <2>2, <2>3 DEF Pace
<1>8. Retracing' => TimersOnTime'
  BY <1>1 DEF Paced, TimersOnTime
<1> QED BY <1>4, <1>5, <1>6, <1>7, <1>8 DEF Paced

\* What firing a timer does to the timers ahead of another.
LEMMA FewerAhead ==
    ASSUME Times, NEW e, e \in Primed, fireAt' = [fireAt EXCEPT ![e] = None]
    PROVE  /\ Primed' = Primed \ {e}
           /\ \A t \in Primed' : /\ t \in Primed /\ fireAt'[t] = fireAt[t]
                                 /\ Ahead(t)' = Ahead(t) \ {e}
           /\ fireAt' \in [Timers -> Nat \cup {None}]
<1>1. fireAt \in [Timers -> Nat \cup {None}] /\ e \in Timers
  BY DEF Times, Primed
<1>2. fireAt' \in [Timers -> Nat \cup {None}]
  BY <1>1
<1>3. \A x \in Timers : fireAt'[x] = IF x = e THEN None ELSE fireAt[x]
  BY <1>1
<1>4. Primed' = Primed \ {e}
  BY <1>3 DEF Primed
<1>5. ASSUME NEW t \in Primed' PROVE t \in Primed /\ fireAt'[t] = fireAt[t] /\ Ahead(t)' = Ahead(t) \ {e}
  <2>1. t \in Primed /\ t # e /\ t \in Timers
    BY <1>4, <1>5 DEF Primed
  <2>2. fireAt'[t] = fireAt[t]
    BY <1>3, <2>1
  <2>3. \A x \in Primed' : fireAt'[x] = fireAt[x]
    BY <1>3, <1>4 DEF Primed
  <2>4. Ahead(t)' = {x \in Primed' : fireAt'[x] <= fireAt'[t]}
    BY DEF Ahead
  <2>5. Ahead(t)' = {x \in Primed \ {e} : fireAt[x] <= fireAt[t]}
    BY <1>4, <2>2, <2>3, <2>4
  <2> QED BY <2>1, <2>2, <2>5 DEF Ahead
<1> QED BY <1>2, <1>4, <1>5

\* The timer that goes first among the due ones has the earliest deadline.
LEMMA EarliestFacts ==
    ASSUME Times, NEW now \in Nat, Due(now) # {}
    PROVE  /\ Earliest(now) \in DOMAIN timers /\ timers[Earliest(now)] \in Primed
           /\ fireAt[timers[Earliest(now)]] <= now
           /\ \A t \in Primed : fireAt[t] <= now => fireAt[timers[Earliest(now)]] <= fireAt[t]
<1>1. /\ timers \in Seq(Timers) /\ DOMAIN timers \subseteq Nat
      /\ \A i \in DOMAIN timers : timers[i] \in Timers
      /\ fireAt \in [Timers -> Nat \cup {None}]
  BY DEF Times
<1> DEFINE D == Due(now)
           Goes(i) == \A j \in D : \/ fireAt[timers[i]] < fireAt[timers[j]]
                                   \/ fireAt[timers[i]] = fireAt[timers[j]] /\ i <= j
<1>2. \A i \in D : /\ i \in DOMAIN timers /\ timers[i] \in Timers /\ fireAt[timers[i]] # None
                   /\ fireAt[timers[i]] \in Nat /\ fireAt[timers[i]] <= now
  BY <1>1 DEF Due
<1>3. \E i \in D : Goes(i)
  <2> DEFINE W == {fireAt[timers[i]] : i \in D}
  <2>1. W \subseteq Nat /\ W # {}
    BY <1>2
  <2>2. PICK m \in W : \A n \in W : m <= n
    <3> HIDE DEF W, D
    <3> QED BY <2>1, LeastNatural
  <2> DEFINE F == {i \in D : fireAt[timers[i]] = m}
  <2>3. F \subseteq Nat /\ F # {}
    BY <1>1, <1>2, <2>2
  <2>4. PICK i \in F : \A j \in F : i <= j
    <3> HIDE DEF F, D
    <3> QED BY <2>3, LeastNatural
  <2>5. i \in D /\ fireAt[timers[i]] = m
    BY <2>4
  <2>6. ASSUME NEW j \in D PROVE \/ m < fireAt[timers[j]]
                                 \/ m = fireAt[timers[j]] /\ i <= j
    <3>1. m <= fireAt[timers[j]] /\ fireAt[timers[j]] \in Nat /\ m \in Nat
      BY <1>2, <2>1, <2>2
    <3>2. CASE m = fireAt[timers[j]]
      BY <2>4, <3>2
    <3>3. CASE m # fireAt[timers[j]]
      BY <3>1, <3>3
    <3> QED BY <3>2, <3>3
  <2> QED BY <2>5, <2>6
<1>4. Earliest(now) = CHOOSE i \in D : Goes(i)
  BY DEF Earliest
<1>5. Earliest(now) \in D /\ Goes(Earliest(now))
  <2> HIDE DEF D, Goes
  <2> QED BY <1>3, <1>4
<1>6. timers[Earliest(now)] \in Primed
  BY <1>2, <1>5 DEF Primed
<1>7. ASSUME NEW t \in Primed, fireAt[t] <= now
      PROVE  fireAt[timers[Earliest(now)]] <= fireAt[t]
  <2>1. t \in Entries(timers) /\ fireAt[t] # None /\ fireAt[t] \in Nat
    BY <1>1 DEF Times, Primed
  <2>2. PICK j \in DOMAIN timers : timers[j] = t
    BY <2>1 DEF Entries
  <2>3. j \in D
    BY <1>7, <2>1, <2>2 DEF Due
  <2>4. \/ fireAt[timers[Earliest(now)]] < fireAt[t]
        \/ fireAt[timers[Earliest(now)]] = fireAt[t]
    BY <1>5, <2>2, <2>3
  <2> QED BY <1>2, <1>5, <2>1, <2>4
<1> QED BY <1>2, <1>5, <1>6, <1>7

\* No timer is due: every deadline is still to come.
LEMMA NothingDue ==
    ASSUME Times, NEW now \in Nat, Due(now) = {}, NEW t \in Primed
    PROVE  now < fireAt[t]
<1>1. t \in Entries(timers) /\ fireAt[t] # None /\ fireAt[t] \in Nat
  BY DEF Times, Primed
<1>2. PICK j \in DOMAIN timers : timers[j] = t
  BY <1>1 DEF Entries
<1>3. ~ (fireAt[t] <= now)
  BY <1>1, <1>2 DEF Due
<1> QED BY <1>1, <1>3

\* An interrupt that is injected stops the guest's clock.
LEMMA InjectSuspends ==
    ASSUME NEW s \in Interrupts, NEW t, Inject(s, t)
    PROVE  Suspends'
<1>1. active'.source = s
  BY DEF Inject, Call
<1> QED BY <1>1, SourceFacts DEF Suspends

\* The loop looks at the timers.
LEMMA TimerPaces ==
    ASSUME Paced, TimerDue, ~Suspends, ~soundOnly, session' = session
    PROVE  Paced'
<1>1. /\ at = "timer" /\ FireTimerAt(Now) /\ UNCHANGED <<tick, budget, session>>
      /\ at' = IF Suspends' THEN "top" ELSE "delay"
  BY DEF TimerDue
<1>2. /\ clock' = Now
      /\ IF Due(Now) = {} THEN NoCallback /\ UNCHANGED tm
         ELSE /\ Inject("Timer", timers[Earliest(Now)])
              /\ fireAt' = [fireAt EXCEPT ![timers[Earliest(Now)]] = None]
              /\ UNCHANGED <<timers, wakeup>>
  BY <1>1 DEF FireTimerAt
<1>a. Times /\ Clocked /\ NoneDue /\ \A t \in Primed : Pace(t)
  BY DEF Paced
<1>3. /\ InstructionsPerTick \in Nat /\ InstructionsPerTick > 1 /\ Base \in Nat
      /\ Now \in Nat /\ Now >= Base
  BY <1>a, ClockFacts
<1>4. /\ Now' = Now /\ Base' = Base
      /\ \A n : Within(n)' = Within(n) /\ Cleared(n)' = Cleared(n)
  BY <1>1 DEF Now, Base, Within, Cleared, Size
<1>5. ~ Retracing /\ Stale
  BY <1>1 DEF Retracing, Stale
<1>6. ASSUME NEW t \in Primed PROVE Now <= fireAt[t] + Within(Rank(t))
  BY <1>a, <1>5 DEF Pace
<1>7. ~ Retracing' /\ ~ Stale' /\ at' \in Positions
  BY <1>1 DEF Retracing, Stale, Positions
<1>8. Clock' = Now' /\ budget' >= 1
  <2>1. Clock' = IF Now > Base THEN Now ELSE Base
    BY <1>2, <1>4 DEF Clock, Base
  <2>2. budget >= 1
    BY <1>a, <1>5 DEF Clocked
  <2> QED BY <1>1, <1>3, <1>4, <2>1, <2>2
<1>9. Clocked'
  BY <1>1, <1>7, <1>8 DEF Clocked
<1>10. CASE Due(Now) = {}
  <2>1. UNCHANGED <<timers, fireAt, wakeup>>
    BY <1>2, <1>10 DEF tm
  <2>2. Primed' = Primed /\ \A t : Rank(t)' = Rank(t)
    BY <2>1 DEF Primed, Rank, Ahead
  <2>3. Times'
    BY <1>a, <1>1, <1>2, <1>3, <1>7, <2>1, <2>2 DEF Times
  <2>4. \A t \in Primed : Now < fireAt[t]
    BY <1>a, <1>3, <1>10, NothingDue
  <2>5. NoneDue'
    BY <1>1, <1>4, <2>1, <2>2, <2>4 DEF NoneDue
  <2>6. ASSUME NEW t \in Primed' PROVE Pace(t)'
    <3>1. t \in Primed /\ Now < fireAt[t]
      BY <2>2, <2>4, <2>6
    <3>2. Rank(t) \in Nat /\ 1 <= Rank(t) /\ Rank(t) <= Size /\ fireAt[t] \in Nat
      BY <1>a, <3>1, RankFacts
    <3>3. Cleared(Rank(t)) \in Nat
      BY <1>a, <3>2, WithinFacts DEF Times
    <3>4. Now <= fireAt[t] + Cleared(Rank(t))
      BY <1>3, <3>1, <3>2, <3>3
    <3>5. Now' <= fireAt'[t] + Cleared(Rank(t))'
      BY <1>1, <1>4, <2>1, <2>2, <3>4 DEF Cleared, Size
    <3> QED BY <1>7, <3>5 DEF Pace
  <2> QED BY <1>7, <1>9, <2>3, <2>5, <2>6 DEF Paced
<1>11. CASE Due(Now) # {}
  <2>1. PICK e : e = timers[Earliest(Now)]
    OBVIOUS
  <2>2. /\ Inject("Timer", e) /\ fireAt' = [fireAt EXCEPT ![e] = None]
        /\ UNCHANGED <<timers, wakeup>>
    BY <1>2, <1>11, <2>1
  <2>3. /\ e \in Primed /\ fireAt[e] <= Now
        /\ \A t \in Primed : fireAt[t] <= Now => fireAt[e] <= fireAt[t]
    BY <1>a, <1>3, <1>11, <2>1, EarliestFacts
  <2>4. Suspends'
    <3>1. "Timer" \in Interrupts
      BY DEF Interrupts
    <3> QED BY <2>2, <3>1, InjectSuspends
  <2>5. /\ Primed' = Primed \ {e}
        /\ \A t \in Primed' : t \in Primed /\ fireAt'[t] = fireAt[t] /\ Ahead(t)' = Ahead(t) \ {e}
        /\ fireAt' \in [Timers -> Nat \cup {None}]
    BY <1>a, <2>2, <2>3, FewerAhead
  <2>6. Times'
    BY <1>a, <1>1, <1>2, <1>3, <1>7, <2>2, <2>5 DEF Times
  <2>7. NoneDue'
    BY <2>4 DEF NoneDue
  <2>8. ASSUME NEW t \in Primed' PROVE Pace(t)'
    <3>1. t \in Primed /\ fireAt'[t] = fireAt[t] /\ Ahead(t)' = Ahead(t) \ {e}
      BY <2>5, <2>8
    <3>2. /\ Rank(t) \in Nat /\ 1 <= Rank(t) /\ Rank(t) <= Size /\ fireAt[t] \in Nat
          /\ fireAt[e] \in Nat /\ session \in Sessions
      BY <1>a, <2>3, <3>1, RankFacts DEF Times
    <3>3. /\ Rank(t)' \in Nat /\ 1 <= Rank(t)' /\ Rank(t)' <= Rank(t)
          /\ \A x \in Ahead(t) : x \notin Ahead(t)' => Rank(t)' <= Rank(t) - 1
      BY <1>a, <2>6, <2>8, <3>1, RankShrinks
    <3>5. PICK n, m \in Nat : n = Rank(t) /\ m = Rank(t)'
      BY <3>2, <3>3
    <3>6. Cleared(m) \in Nat
      <4>1. m <= Size /\ 1 <= m
        BY <3>2, <3>3, <3>5, SizeFacts
      <4> QED BY <3>2, <4>1, WithinFacts
    <3>7. Now <= fireAt[t] + Cleared(m)
      <4>1. CASE fireAt[t] <= Now
        <5>1. fireAt[e] <= fireAt[t]
          BY <2>3, <3>1, <4>1
        <5>2. e \in Ahead(t) /\ e \notin Ahead(t)'
          BY <2>3, <3>1, <5>1 DEF Ahead
        <5>3. m <= n - 1
          BY <3>3, <3>5, <5>2
        <5>4. Within(n) \in Nat /\ Within(n) <= Cleared(m)
          BY <3>2, <3>3, <3>5, <5>3, WithinFacts
        <5>5. Now <= fireAt[t] + Within(n)
          BY <1>6, <3>1, <3>5
        <5> QED BY <1>3, <3>2, <3>6, <5>4, <5>5
      <4>2. CASE ~ (fireAt[t] <= Now)
        BY <1>3, <3>2, <3>6, <4>2
      <4> QED BY <4>1, <4>2
    <3>8. Cleared(Rank(t))' = Cleared(m)
      BY <1>1, <3>5 DEF Cleared, Size
    <3>9. Now' <= fireAt'[t] + Cleared(Rank(t))'
      BY <1>4, <3>1, <3>7, <3>8
    <3> QED BY <1>7, <3>9 DEF Pace
  <2> QED BY <1>7, <1>9, <2>6, <2>7, <2>8 DEF Paced
<1> QED BY <1>10, <1>11

\* advance_guest_tick looks at the timers that are due at the tick.
LEMMA RetraceTimerPaces ==
    ASSUME Paced, RetraceTimer, ~Suspends, session' = session
    PROVE  Paced'
<1>1. /\ at = "due" /\ at' = "deferred" /\ FireTimerAt(Base) /\ UNCHANGED <<tick, budget, session>>
  BY DEF RetraceTimer, Base
<1>2. /\ clock' = Base
      /\ IF Due(Base) = {} THEN NoCallback /\ UNCHANGED tm
         ELSE /\ Inject("Timer", timers[Earliest(Base)])
              /\ fireAt' = [fireAt EXCEPT ![timers[Earliest(Base)]] = None]
              /\ UNCHANGED <<timers, wakeup>>
  BY <1>1 DEF FireTimerAt
<1>a. Times /\ Clocked /\ NoneDue /\ (\A t \in Primed : Pace(t)) /\ TimersOnTime
  BY <1>1 DEF Paced, Retracing
<1>3. /\ InstructionsPerTick \in Nat /\ Base \in Nat /\ Now \in Nat
  BY <1>a, ClockFacts
<1>4. /\ Now' = Now /\ Base' = Base /\ Lateness' = Lateness
  BY <1>1 DEF Now, Base, Lateness
<1>5. Retracing /\ Retracing' /\ at' \in Positions
  BY <1>1 DEF Retracing, Positions
<1>6. ASSUME NEW t \in Primed PROVE Base + 1 <= fireAt[t] + Within(Rank(t))
  BY <1>a, <1>5 DEF Pace
<1>7. Clocked'
  BY <1>1, <1>2, <1>3, <1>4, <1>5 DEF Clocked
<1>10. CASE Due(Base) = {}
  <2>1. UNCHANGED <<timers, fireAt, wakeup>>
    BY <1>2, <1>10 DEF tm
  <2>2. Primed' = Primed /\ \A t : Rank(t)' = Rank(t)
    BY <2>1 DEF Primed, Rank, Ahead
  <2>3. Times'
    BY <1>a, <1>1, <1>2, <1>3, <1>5, <2>1, <2>2 DEF Times
  <2>4. \A t \in Primed : Base < fireAt[t]
    BY <1>a, <1>3, <1>10, NothingDue
  <2>5. NoneDue'
    BY <1>1, <1>4, <2>1, <2>2, <2>4 DEF NoneDue
  <2>6. ASSUME NEW t \in Primed' PROVE Pace(t)'
    <3>1. Base + 1 <= fireAt[t] + Within(Rank(t))
      BY <1>6, <2>2, <2>6
    <3>2. Within(Rank(t))' = Within(Rank(t))
      BY <1>1, <2>2 DEF Within, Size
    <3> QED BY <1>4, <1>5, <2>1, <3>1, <3>2 DEF Pace
  <2>7. TimersOnTime'
    BY <1>a, <1>4, <2>1 DEF TimersOnTime
  <2> QED BY <1>7, <2>3, <2>5, <2>6, <2>7 DEF Paced
<1>11. CASE Due(Base) # {}
  <2>1. PICK e : e = timers[Earliest(Base)]
    OBVIOUS
  <2>2. /\ Inject("Timer", e) /\ fireAt' = [fireAt EXCEPT ![e] = None]
        /\ UNCHANGED <<timers, wakeup>>
    BY <1>2, <1>11, <2>1
  <2>3. e \in Primed
    BY <1>a, <1>3, <1>11, <2>1, EarliestFacts
  <2>4. Suspends'
    <3>1. "Timer" \in Interrupts
      BY DEF Interrupts
    <3> QED BY <2>2, <3>1, InjectSuspends
  <2>5. /\ Primed' = Primed \ {e}
        /\ \A t \in Primed' : t \in Primed /\ fireAt'[t] = fireAt[t] /\ Ahead(t)' = Ahead(t) \ {e}
        /\ fireAt' \in [Timers -> Nat \cup {None}]
    BY <1>a, <2>2, <2>3, FewerAhead
  <2>6. Times'
    BY <1>a, <1>1, <1>2, <1>3, <1>5, <2>2, <2>5 DEF Times
  <2>7. NoneDue'
    BY <2>4 DEF NoneDue
  <2>8. ASSUME NEW t \in Primed' PROVE Pace(t)'
    <3>1. t \in Primed /\ fireAt'[t] = fireAt[t] /\ Ahead(t)' = Ahead(t) \ {e}
      BY <2>5, <2>8
    <3>2. /\ Rank(t) \in Nat /\ 1 <= Rank(t) /\ Rank(t) <= Size /\ fireAt[t] \in Nat
          /\ session \in Sessions
      BY <1>a, <3>1, RankFacts DEF Times
    <3>3. Rank(t)' \in Nat /\ 1 <= Rank(t)' /\ Rank(t)' <= Rank(t)
      BY <1>a, <2>6, <2>8, <3>1, RankShrinks
    <3>4. PICK n, m \in Nat : n = Rank(t) /\ m = Rank(t)'
      BY <3>2, <3>3
    <3>5. Within(n) \in Nat /\ Within(n) <= Within(m)
      BY <3>2, <3>3, <3>4, WithinFacts
    <3>6. Within(m) \in Nat
      <4>1. 1 <= m /\ m <= Size
        BY <3>2, <3>3, <3>4, SizeFacts
      <4> QED BY <3>2, <4>1, WithinFacts
    <3>7. Base + 1 <= fireAt[t] + Within(m)
      BY <1>3, <1>6, <3>1, <3>2, <3>4, <3>5, <3>6
    <3>8. Within(Rank(t))' = Within(m)
      BY <1>1, <3>4 DEF Within, Size
    <3> QED BY <1>4, <1>5, <3>1, <3>7, <3>8 DEF Pace
  <2>9. TimersOnTime'
    <3>1. \A t \in Timers : fireAt'[t] # None => t \in Primed'
      BY DEF Primed
    <3> QED BY <1>a, <1>4, <2>5, <3>1 DEF TimersOnTime, Primed
  <2> QED BY <1>7, <2>6, <2>7, <2>8, <2>9 DEF Paced
<1> QED BY <1>10, <1>11

\* advance_guest_tick ends, and the budget of the next tick is whole.
LEMMA RetraceDeferredPaces ==
    ASSUME Paced, RetraceDeferred, back \in {"exec", "delayed"}, session' = session
    PROVE  Paced'
<1>1. /\ at = "deferred" /\ at' \in {"exec", "delayed"} /\ budget' = InstructionsPerTick
      /\ UNCHANGED <<tick, clock, timers, fireAt, wakeup, session>>
      /\ (\E x : Inject("Deferred", x)) \/ active' = active
  BY DEF RetraceDeferred, FireDeferred, NoCallback, cpu, tm
<1>a. Times /\ Clocked /\ NoneDue /\ \A t \in Primed : Pace(t)
  BY DEF Paced
<1>2. /\ InstructionsPerTick \in Nat /\ InstructionsPerTick > 1 /\ Base \in Nat
  BY <1>a, ClockFacts
<1>3. Base' = Base /\ Now' = Base
  BY <1>1, <1>2 DEF Base, Now
<1>4. Primed' = Primed /\ \A t : Rank(t)' = Rank(t)
  BY <1>1 DEF Primed, Rank, Ahead
<1>5. ~ Retracing' /\ ~ Stale' /\ at' \in Positions /\ Retracing
  BY <1>1 DEF Retracing, Stale, Positions
<1>6. Times'
  BY <1>a, <1>1, <1>2, <1>4, <1>5 DEF Times
<1>7. ~ Suspends' => ~ Suspends
  <2>1. "Deferred" \in Interrupts
    BY DEF Interrupts
  <2> QED BY <1>1, <2>1, InjectSuspends DEF Suspends
<1>8. NoneDue'
  BY <1>a, <1>1, <1>3, <1>4, <1>7 DEF NoneDue
<1>9. Clocked'
  <2>1. clock \in Nat /\ clock <= Base
    BY <1>a, <1>5 DEF Clocked, Times
  <2>2. Clock' = IF clock > Base THEN clock ELSE Base
    BY <1>1 DEF Clock, Base
  <2>3. Clock' = Now'
    BY <1>2, <1>3, <2>1, <2>2
  <2> QED BY <1>1, <1>2, <1>5, <2>3 DEF Clocked
<1>10. ASSUME NEW t \in Primed' PROVE Pace(t)'
  <2>1. Base + 1 <= fireAt[t] + Within(Rank(t))
    BY <1>a, <1>4, <1>5, <1>10 DEF Pace
  <2>2. Within(Rank(t))' = Within(Rank(t))
    BY <1>1, <1>4 DEF Within, Size
  <2> QED BY <1>1, <1>3, <1>5, <2>1, <2>2 DEF Pace
<1> QED BY <1>5, <1>6, <1>8, <1>9, <1>10 DEF Paced

\* A tick begins: by a Delay with nothing due, or by the instruction that crosses it.
LEMMA TickPaces ==
    ASSUME Paced, ~Retracing, ~Stale, ~Suspends, session' = session,
           tick' = tick + 1, at' = "retrace", UNCHANGED <<clock, timers, fireAt, wakeup>>,
           \/ budget' = budget /\ \A t \in Primed : Now < fireAt[t]
           \/ budget' = 0 /\ budget <= 1
    PROVE  Paced'
<1>a. Times /\ Clocked /\ NoneDue /\ \A t \in Primed : Pace(t)
  BY DEF Paced
<1>1. /\ InstructionsPerTick \in Nat /\ InstructionsPerTick > 1
      /\ Base \in Nat /\ Now = Base + InstructionsPerTick - budget
      /\ Now \in Nat /\ Now >= Base /\ budget \in Nat
      /\ Clock = (IF clock > Base THEN clock ELSE Base) /\ clock \in Nat
  BY <1>a, ClockFacts DEF Times
<1>2. Base' = Base + InstructionsPerTick /\ budget >= 1 /\ Clock = Now
  BY <1>a, NextBase DEF Clocked
<1>3. Now' = Base' + (InstructionsPerTick - budget')
  BY DEF Now, Base
<1>4. Primed' = Primed /\ \A t : Rank(t)' = Rank(t)
  BY DEF Primed, Rank, Ahead
<1>5. Retracing' /\ at' \in Positions
  BY DEF Retracing, Positions
<1>6. budget' \in 0..InstructionsPerTick
  BY <1>a, <1>1 DEF Times
<1>7. Times'
  BY <1>a, <1>4, <1>5, <1>6 DEF Times
<1>8. NoneDue'
  BY DEF NoneDue
<1>9. Clocked'
  <2>1. clock <= Base'
    BY <1>1, <1>2
  <2> QED BY <1>5, <2>1 DEF Clocked
<1>10. ASSUME NEW t \in Primed
       PROVE  /\ Base' + 1 <= fireAt[t] + Within(Rank(t))
              /\ Now' <= fireAt[t] + Lateness
  <2>1. /\ Rank(t) \in Nat /\ 1 <= Rank(t) /\ Rank(t) <= Size /\ fireAt[t] \in Nat
        /\ session \in Sessions
    BY <1>a, RankFacts DEF Times
  <2>2. PICK n \in Nat : n = Rank(t)
    BY <2>1
  <2>3. PICK w, c \in Nat : w = Within(n) /\ c = Cleared(n) /\ w >= InstructionsPerTick /\ c + 2 <= w
    BY <2>1, <2>2, WithinFacts
  <2>4. /\ Lateness \in Nat /\ InstructionsPerTick <= Lateness
        /\ c + 1 + InstructionsPerTick <= Lateness
    BY <2>1, <2>2, <2>3, LatenessFacts
  <2>5. \/ Now <= fireAt[t] + c
        \/ budget = InstructionsPerTick /\ Now + 1 <= fireAt[t] + w
    BY <1>a, <2>2, <2>3 DEF Pace
  <2>6. CASE budget' = budget /\ Now < fireAt[t]
    BY <1>1, <1>2, <1>3, <2>1, <2>2, <2>3, <2>4, <2>6
  <2>7. CASE budget' = 0 /\ budget <= 1
    <3>1. budget = 1 /\ Now <= fireAt[t] + c
      BY <1>1, <1>2, <2>5, <2>7
    <3>2. Base' = Now + 1 /\ Now' = Now + 1 + InstructionsPerTick
      BY <1>1, <1>2, <1>3, <2>7, <3>1
    <3> QED BY <1>1, <2>1, <2>2, <2>3, <2>4, <3>1, <3>2
  <2> QED BY <2>6, <2>7
<1>11. \A t \in Primed' : Pace(t)'
  <2> SUFFICES ASSUME NEW t \in Primed' PROVE Pace(t)'
    OBVIOUS
  <2>1. Base' + 1 <= fireAt[t] + Within(Rank(t))
    BY <1>4, <1>10
  <2>2. Within(Rank(t))' = Within(Rank(t))
    BY <1>4 DEF Within, Size
  <2> QED BY <1>5, <2>1, <2>2 DEF Pace
<1>12. TimersOnTime'
  <2>1. Lateness' = Lateness
    BY DEF Lateness
  <2> QED BY <1>10, <2>1 DEF TimersOnTime, Primed
<1> QED BY <1>7, <1>8, <1>9, <1>11, <1>12 DEF Paced

\* What one guest instruction may do to the timers that are primed: it forgets them, or primes
\* one for a time that is not past.
GuestTimers ==
    /\ timers' \in Seq(Timers) /\ fireAt' \in [Timers -> Nat \cup {None}]
    /\ wakeup' \in [Extended -> Nat \cup {None}]
    /\ Primed' \subseteq session.timers \cap Entries(timers')
    /\ \A t \in Primed' : (t \in Primed /\ fireAt'[t] = fireAt[t]) \/ Clock <= fireAt'[t]

\* A timer that is installed or removed is not primed.
LEMMA UnprimeFacts ==
    ASSUME Times, NEW t \in session.timers, fireAt' = [fireAt EXCEPT ![t] = None],
           wakeup' \in [Extended -> Nat \cup {None}],
           \/ timers' = Append(Without(timers, t), t)
           \/ timers' = Without(timers, t)
    PROVE  GuestTimers
<1>1. /\ timers \in Seq(Timers) /\ fireAt \in [Timers -> Nat \cup {None}] /\ t \in Timers
      /\ Primed \subseteq session.timers \cap Entries(timers)
  BY SizeFacts DEF Times
<1>2. Without(timers, t) \in Seq(Timers) /\ Entries(Without(timers, t)) = Entries(timers) \ {t}
  BY <1>1, WithoutProperties
<1>3. timers' \in Seq(Timers) /\ Entries(timers) \ {t} \subseteq Entries(timers')
  <2>1. CASE timers' = Without(timers, t)
    BY <1>2, <2>1
  <2>2. CASE timers' = Append(Without(timers, t), t)
    <3>1. PICK q : q = Without(timers, t)
      OBVIOUS
    <3>2. /\ Append(q, t) \in Seq(Timers)
          /\ Entries(Append(q, t)) = Entries(q) \cup {t}
      BY <1>1, <1>2, <3>1, PushProperties
    <3> QED BY <1>2, <2>2, <3>1, <3>2
  <2> QED BY <2>1, <2>2
<1>4. /\ fireAt' \in [Timers -> Nat \cup {None}]
      /\ \A x \in Timers : fireAt'[x] = IF x = t THEN None ELSE fireAt[x]
  BY <1>1
<1>5. \A x \in Primed' : x \in Primed /\ x # t /\ fireAt'[x] = fireAt[x]
  BY <1>4 DEF Primed
<1>6. Primed' \subseteq session.timers \cap Entries(timers')
  BY <1>1, <1>3, <1>5
<1> QED BY <1>3, <1>4, <1>5, <1>6 DEF GuestTimers

\* PrimeTime never sets a deadline that is past.
LEMMA PrimeFacts ==
    ASSUME Times, NEW t \in session.timers, NEW wait \in Delays, PrimeTime(t, wait)
    PROVE  GuestTimers
<1>1. /\ timers \in Seq(Timers) /\ fireAt \in [Timers -> Nat \cup {None}] /\ t \in Timers
      /\ Primed \subseteq session.timers \cap Entries(timers)
      /\ wakeup \in [Extended -> Nat \cup {None}]
      /\ wait \in Nat /\ InstructionsPerTick \in Nat /\ clock \in Nat
  BY SizeFacts, CallbackAssumption DEF Times
<1>2. /\ t \in Entries(timers) /\ timers' = timers
      /\ fireAt' = [fireAt EXCEPT ![t] = Deadline(t, wait)]
      /\ wakeup' = [x \in Extended |-> IF x = t THEN Intended(t, wait) ELSE wakeup[x]]
  BY DEF PrimeTime
<1>3. Clock \in Nat
  BY <1>1, ClockFacts
<1>4. t \in Extended => Intended(t, wait) \in Nat
  BY <1>1, <1>3 DEF Intended
<1>5. Deadline(t, wait) \in Nat /\ Clock <= Deadline(t, wait)
  BY <1>1, <1>3, <1>4 DEF Deadline
<1>6. PICK f : f = Deadline(t, wait)
  OBVIOUS
<1>7. /\ fireAt' \in [Timers -> Nat \cup {None}]
      /\ \A x \in Timers : fireAt'[x] = IF x = t THEN f ELSE fireAt[x]
  BY <1>1, <1>2, <1>5, <1>6
<1>8. wakeup' \in [Extended -> Nat \cup {None}]
  BY <1>1, <1>2, <1>4
<1>9. Primed' \subseteq Primed \cup {t}
  BY <1>7 DEF Primed
<1>10. ASSUME NEW x \in Primed' PROVE (x \in Primed /\ fireAt'[x] = fireAt[x]) \/ Clock <= fireAt'[x]
  <2>1. CASE x = t
    BY <1>1, <1>5, <1>6, <1>7, <2>1
  <2>2. CASE x # t
    BY <1>7, <1>9, <1>10, <2>2 DEF Primed
  <2> QED BY <2>1, <2>2
<1> QED BY <1>1, <1>2, <1>7, <1>8, <1>9, <1>10 DEF GuestTimers

\* What a guest instruction does to the clock, the CPU and the timers.
LEMMA GuestFacts ==
    ASSUME Times, Guest
    PROVE  /\ at = "exec" /\ at' = "top" /\ UNCHANGED <<tick, clock>>
           /\ Suspends' <=> Suspends
           /\ budget' = budget \/ (~Suspends /\ budget' = budget - 1)
           /\ GuestTimers
<1>1. /\ at = "exec" /\ at' = "top" /\ UNCHANGED <<tick, clock>>
      /\ budget' = budget \/ (~Suspends /\ budget' = budget - 1)
  BY DEF Guest, Instruction, Return, CallFilter, ReadAsync, VRemove, VInstall, SetCount, RmvTime,
     InsTime,
         PrimeTime, DTInstall, SetLevel, Delay, Executes
<1>2. Suspends' <=> Suspends
  <2>1. CASE CallFilter
    BY <2>1, SourceFacts DEF CallFilter, Call, Suspends, Foreground
  <2>2. CASE ~CallFilter
    <3>1. active' = active
      BY <2>2 DEF Guest, Instruction, Return, ReadAsync, VRemove, VInstall, SetCount, RmvTime,
         InsTime, PrimeTime,
                DTInstall, SetLevel, Delay, Continue
    <3> QED BY <3>1 DEF Suspends
  <2> QED BY <2>1, <2>2
<1>3. GuestTimers
  <2>1. CASE UNCHANGED tm
    BY <2>1 DEF tm, Times, GuestTimers, Primed
  <2>2. CASE \E t \in session.timers : RmvTime(t)
    <3>1. PICK t \in session.timers : RmvTime(t)
      BY <2>2
    <3>2. wakeup' \in [Extended -> Nat \cup {None}]
      BY <3>1 DEF RmvTime, Times
    <3> QED BY <3>1, <3>2, UnprimeFacts DEF RmvTime
  <2>3. CASE \E t \in session.timers, zeroed \in BOOLEAN : InsTime(t, zeroed)
    <3>1. PICK t \in session.timers, zeroed \in BOOLEAN : InsTime(t, zeroed)
      BY <2>3
    <3>2. wakeup' \in [Extended -> Nat \cup {None}]
      BY <3>1 DEF InsTime, Times
    <3> QED BY <3>1, <3>2, UnprimeFacts DEF InsTime
  <2>4. CASE \E t \in session.timers, wait \in Delays : PrimeTime(t, wait)
    BY <2>4, PrimeFacts
  <2> QED BY <2>1, <2>2, <2>3, <2>4 DEF Guest, Instruction, Return, CallFilter, ReadAsync,
             VRemove, VInstall,
             SetCount, DTInstall, SetLevel, Delay
<1> QED BY <1>1, <1>2, <1>3

\* The rank of every primed timer.
LEMMA Ranks ==
    Times => \A t \in Primed : Rank(t) \in Nat /\ 1 <= Rank(t) /\ Rank(t) <= Size /\ fireAt[t] \in Nat
BY RankFacts

\* The same after a step.
LEMMA RanksNext ==
    Times' => \A t \in Primed' :
                 Rank(t)' \in Nat /\ 1 <= Rank(t)' /\ Rank(t)' <= Size' /\ fireAt'[t] \in Nat
<1>1. (Times => \A t \in Primed :
                   Rank(t) \in Nat /\ 1 <= Rank(t) /\ Rank(t) <= Size /\ fireAt[t] \in Nat)'
  BY Ranks, PTL
<1> QED BY <1>1

\* A guest instruction runs, on a clock that is right.
LEMMA GuestPaces ==
    ASSUME Paced, Guest, session' = session
    PROVE  Paced'
<1>a. Times /\ Clocked /\ NoneDue /\ \A t \in Primed : Pace(t)
  BY DEF Paced
<1>1. /\ at = "exec" /\ at' = "top" /\ UNCHANGED <<tick, clock>>
      /\ Suspends' <=> Suspends
      /\ budget' = budget \/ (~Suspends /\ budget' = budget - 1)
      /\ GuestTimers
  BY <1>a, GuestFacts
<1>2. /\ InstructionsPerTick \in Nat /\ InstructionsPerTick > 1 /\ Base \in Nat
      /\ Now = Base + InstructionsPerTick - budget /\ Now \in Nat
      /\ budget \in Nat
  BY <1>a, ClockFacts
<1>3. /\ ~Retracing /\ ~Stale /\ Clock = Now /\ budget >= 1 /\ (~Suspends => budget >= 2)
  BY <1>a, <1>1 DEF Clocked, Retracing, Stale
<1>4. /\ ~Retracing' /\ (Stale' <=> ~Suspends) /\ at' \in Positions
  BY <1>1 DEF Retracing, Stale, Positions
<1>5. budget' \in 0..InstructionsPerTick /\ budget' >= 1
  BY <1>a, <1>1, <1>2, <1>3 DEF Times
<1>6. Base' = Base /\ Now' = Base + (InstructionsPerTick - budget')
  BY <1>1 DEF Base, Now
<1>7. \/ Now' = Now /\ budget' = budget
      \/ ~Suspends /\ Now' = Now + 1
  <2>1. PICK b, c : b = budget /\ c = budget'
    OBVIOUS
  <2>2. b \in Nat /\ c \in Nat /\ Now = Base + InstructionsPerTick - b /\ Now' = Base + (InstructionsPerTick - c)
    BY <1>2, <1>5, <1>6, <2>1
  <2>3. CASE c = b
    BY <1>2, <2>1, <2>2, <2>3
  <2>4. CASE ~Suspends /\ c = b - 1
    <3>1. Now' = Now + 1
      BY <1>2, <2>2, <2>4
    <3> QED BY <2>4, <3>1
  <2> QED BY <1>1, <2>1, <2>3, <2>4
<1>8. Times'
  BY <1>a, <1>1, <1>4, <1>5 DEF Times, GuestTimers
<1>9. Clocked'
  <2>1. Clock' = Clock
    BY <1>1 DEF Clock
  <2> QED BY <1>1, <1>3, <1>4, <1>5, <1>7, <2>1 DEF Clocked
<1>10. NoneDue'
  BY <1>1 DEF NoneDue
<1>11. ASSUME NEW t \in Primed' PROVE Pace(t)'
  <2>1. PICK m \in Nat : m = Rank(t)' /\ 1 <= m /\ m <= Size' /\ fireAt'[t] \in Nat
    BY <1>8, <1>11, RanksNext
  <2>2. Size' = Size /\ session \in Sessions
    BY <1>a DEF Size, Times
  <2>3. PICK w, c \in Nat : w = Within(m) /\ c = Cleared(m) /\ w >= InstructionsPerTick
    BY <2>1, <2>2, WithinFacts
  <2>4. Within(Rank(t))' = w /\ Cleared(Rank(t))' = c
    BY <2>1, <2>2, <2>3 DEF Within, Cleared
  <2>5. CASE Now <= fireAt'[t]
    <3>1. CASE Suspends
      <4>1. Now' <= fireAt'[t] + c
        BY <1>2, <1>7, <2>1, <2>3, <2>5, <3>1
      <4> QED BY <1>4, <2>4, <3>1, <4>1 DEF Pace
    <3>2. CASE ~Suspends
      <4>1. Now' <= fireAt'[t] + w
        BY <1>2, <1>7, <2>1, <2>3, <2>5, <3>2
      <4> QED BY <1>4, <2>4, <3>2, <4>1 DEF Pace
    <3> QED BY <3>1, <3>2
  <2>6. CASE ~ (Now <= fireAt'[t])
    <3>1. t \in Primed /\ fireAt'[t] = fireAt[t]
      BY <1>1, <1>3, <1>11, <2>6 DEF GuestTimers
    <3>2. Ahead(t)' \subseteq Ahead(t)
      <4> SUFFICES ASSUME NEW x \in Ahead(t)' PROVE x \in Ahead(t)
        OBVIOUS
      <4>1. x \in Primed' /\ fireAt'[x] <= fireAt'[t]
        BY DEF Ahead
      <4>2. fireAt'[x] \in Nat
        BY <1>8, <4>1, RanksNext
      <4>3. ~ (Now <= fireAt'[x])
        BY <1>2, <2>1, <2>6, <4>1, <4>2
      <4>4. x \in Primed /\ fireAt'[x] = fireAt[x]
        BY <1>1, <1>3, <4>1, <4>3 DEF GuestTimers
      <4> QED BY <3>1, <4>1, <4>4 DEF Ahead
    <3>3. PICK n \in Nat : n = Rank(t) /\ 1 <= n /\ n <= Size /\ m <= n
      <4>1. m <= Rank(t)
        BY <1>a, <1>8, <1>11, <2>1, <3>1, <3>2, RankShrinks
      <4> QED BY <1>a, <3>1, <4>1, RankFacts
    <3>4. PICK v, b \in Nat : v = Within(n) /\ b = Cleared(n) /\ b + 2 <= v /\ v <= w /\ b <= c
      BY <2>1, <2>2, <2>3, <3>3, WithinFacts
    <3>5. \/ Now <= fireAt[t] + b
          \/ budget = InstructionsPerTick /\ Now + 1 <= fireAt[t] + v
      BY <1>a, <1>3, <3>1, <3>3, <3>4 DEF Pace
    <3>6. CASE Suspends
      <4>1. \/ Now' <= fireAt'[t] + c
            \/ budget' = InstructionsPerTick /\ Now' + 1 <= fireAt'[t] + w
        BY <1>2, <1>7, <2>1, <3>1, <3>4, <3>5, <3>6
      <4> QED BY <1>4, <2>4, <3>6, <4>1 DEF Pace
    <3>7. CASE ~Suspends
      <4>1. Now' <= fireAt'[t] + w
        BY <1>2, <1>7, <2>1, <3>1, <3>4, <3>5, <3>7
      <4> QED BY <1>4, <2>4, <3>7, <4>1 DEF Pace
    <3> QED BY <3>6, <3>7
  <2> QED BY <2>5, <2>6
<1> QED BY <1>4, <1>8, <1>9, <1>10, <1>11 DEF Paced

\* Every step of the host's loop, while the host is silent.
LEMMA LoopPaces ==
    ASSUME LoopInv, Calm, Paced, Loop, session' = session
    PROVE  Paced'
<1>a. /\ ~soundOnly /\ work = {} /\ back \in {"exec", "delayed"}
      /\ at = "top" /\ ~Suspends => ~Ready
      /\ "None" \notin Sources
  BY DEF LoopInv, Batch, Calm, Sources
<1>b. budget \in Nat
  BY ClockFacts DEF Paced
<1>c. {"Vbl", "Cursor", "Timer", "Deferred"} \subseteq Interrupts
  BY DEF Interrupts
<1>1. CASE EndSlice
  <2>1. UNCHANGED <<tick, budget, clock, timers, fireAt, wakeup, at, active>>
    BY <1>a, <1>1 DEF EndSlice, time, tm, cpu
  <2> QED BY <2>1, IdlePaces DEF Paced, Times, Retracing, Stale, Suspends, Clocked
<1>2. CASE Top
  <2>1. ~VblReady
    BY <1>a, <1>2 DEF Top, VblReady, Ready
  <2>2. /\ at = "top" /\ at' = "host"
        /\ UNCHANGED <<tick, budget, clock, timers, fireAt, wakeup, active>>
    BY <1>a, <1>2, <2>1 DEF Top, time, tm, cpu, NoCallback
  <2> QED BY <2>2, IdlePaces DEF Retracing, Stale, Suspends, Positions
<1>3. CASE HostWork
  <2>1. /\ at = "host" /\ at' = "sound"
        /\ UNCHANGED <<tick, budget, clock, timers, fireAt, wakeup, active>>
    BY <1>a, <1>3 DEF HostWork, time, tm, cpu, NoCallback
  <2> QED BY <2>1, IdlePaces DEF Retracing, Stale, Suspends, Positions
<1>4. CASE Sound
  <2>1. /\ at = "sound" /\ at' = "timer"
        /\ UNCHANGED <<tick, budget, clock, timers, fireAt, wakeup, active>>
    BY <1>a, <1>4 DEF Sound, time, tm, cpu, NoCallback
  <2> QED BY <2>1, IdlePaces DEF Retracing, Stale, Suspends, Positions
<1>5. CASE TimerDue
  <2>1. CASE Suspends
    <3>1. /\ at = "timer" /\ at' = "delay"
          /\ UNCHANGED <<tick, budget, clock, timers, fireAt, wakeup, active>>
      BY <1>a, <1>5, <2>1 DEF TimerDue, FireTimerAt, tm, cpu, NoCallback
    <3> QED BY <2>1, <3>1, IdlePaces DEF Retracing, Stale, Suspends, Positions
  <2>2. CASE ~Suspends
    BY <1>a, <1>5, <2>2, TimerPaces
  <2> QED BY <2>1, <2>2
<1>6. CASE DelayTick
  <2>0. /\ at = "delay" /\ UNCHANGED <<budget, clock, timers, fireAt, wakeup, active>>
    BY <1>6 DEF DelayTick, tm, cpu
  <2>1. CASE delay = 0 \/ Suspends
    <3>1. at' = "resume" /\ tick' = tick
      BY <1>6, <2>1 DEF DelayTick
    <3> QED BY <2>0, <3>1, IdlePaces DEF Retracing, Stale, Suspends, Positions
  <2>2. CASE ~(delay = 0 \/ Suspends)
    <3>1. tick' = tick + 1 /\ at' = "retrace" /\ ~Suspends
      BY <1>a, <1>6, <2>2 DEF DelayTick, Tick
    <3>2. \A t \in Primed : Now < fireAt[t]
      BY <2>0, <3>1 DEF Paced, NoneDue
    <3>3. ~Retracing /\ ~Stale
      BY <2>0 DEF Retracing, Stale
    <3> QED BY <2>0, <3>1, <3>2, <3>3, TickPaces
  <2> QED BY <2>1, <2>2
<1>7. CASE Delayed
  <2>1. /\ at = "delayed" /\ at' \in {"delay", "resume"}
        /\ UNCHANGED <<tick, budget, clock, timers, fireAt, wakeup, active>>
    BY <1>7 DEF Delayed, time, tm
  <2> QED BY <2>1, IdlePaces DEF Retracing, Stale, Suspends, Positions
<1>8. CASE Resume
  <2>0. LoopInv => Custody
    BY DEF LoopInv
  <2>1. /\ at = "resume" /\ at' \in {"drain", "drainDeferred", "run"}
        /\ UNCHANGED <<tick, clock, timers, fireAt, wakeup>>
    BY <1>8, <2>0, ResumeFacts DEF Resume, tm
  <2>2. budget' = budget
    BY <1>8, <1>b, <2>1 DEF Resume, Paced, Clocked, Retracing
  <2> QED BY <2>1, <2>2, IdlePaces DEF Retracing, Stale, Positions
<1>9. CASE Drain
  <2>1. /\ at \in {"drain", "drainDeferred"}
        /\ UNCHANGED <<tick, budget, clock, timers, fireAt, wakeup>>
        /\ \/ at' = "top" /\ Suspends'
           \/ at' = "run"
    <3>1. at \in {"drain", "drainDeferred"} /\ UNCHANGED <<tick, budget, clock, timers, fireAt, wakeup>>
      BY <1>9 DEF Drain, time, tm
    <3>2. \/ at' = "run"
          \/ at' = "top" /\ \E x : Inject("Vbl", x) \/ Inject("Deferred", x)
      BY <1>a, <1>9 DEF Drain, FirePendingVbl, FireDeferred
    <3> QED BY <1>c, <3>1, <3>2, InjectSuspends
  <2> QED BY <2>1, IdlePaces DEF Retracing, Stale, Positions
<1>10. CASE Run
  <2>0. at = "run" /\ UNCHANGED <<clock, timers, fireAt, wakeup, active>>
    BY <1>10 DEF Run, tm, cpu
  <2>1. CASE ~Suspends /\ budget <= 1
    <3>1. tick' = tick + 1 /\ at' = "retrace" /\ budget' = 0
      BY <1>a, <1>10, <2>1 DEF Run, Tick
    <3>2. ~Retracing /\ ~Stale
      BY <2>0 DEF Retracing, Stale
    <3> QED BY <2>0, <2>1, <3>1, <3>2, TickPaces
  <2>2. CASE ~(~Suspends /\ budget <= 1)
    <3>1. at' = "exec" /\ UNCHANGED <<tick, budget>>
      BY <1>a, <1>10, <2>2 DEF Run
    <3>2. ~Suspends' => budget >= 2
      BY <1>b, <2>0, <2>2 DEF Suspends
    <3> QED BY <2>0, <3>1, <3>2, IdlePaces DEF Retracing, Stale, Positions
  <2> QED BY <2>1, <2>2
<1>11. CASE Retrace
  <2>1. /\ at = "retrace" /\ at' = "task"
        /\ UNCHANGED <<tick, budget, clock, timers, fireAt, wakeup>>
    BY <1>11 DEF Retrace, time, tm
  <2> QED BY <2>1, IdlePaces DEF Retracing, Stale, Positions
<1>12. CASE RetraceTask
  <2>1. /\ at = "task" /\ at' = "due"
        /\ UNCHANGED <<tick, budget, clock, timers, fireAt, wakeup>>
    BY <1>12 DEF RetraceTask, time, tm
  <2> QED BY <2>1, IdlePaces DEF Retracing, Stale, Positions
<1>13. CASE RetraceTimer
  <2>1. CASE Suspends
    <3>1. /\ at = "due" /\ at' = "deferred"
          /\ UNCHANGED <<tick, budget, clock, timers, fireAt, wakeup, active>>
      BY <1>13, <2>1 DEF RetraceTimer, FireTimerAt, tm, cpu, NoCallback
    <3> QED BY <2>1, <3>1, IdlePaces DEF Retracing, Stale, Suspends, Positions
  <2>2. CASE ~Suspends
    BY <1>13, <2>2, RetraceTimerPaces
  <2> QED BY <2>1, <2>2
<1>14. CASE RetraceDeferred
  BY <1>a, <1>14, RetraceDeferredPaces
<1> QED BY <1>1, <1>2, <1>3, <1>4, <1>5, <1>6, <1>7, <1>8, <1>9, <1>10, <1>11, <1>12, <1>13,
           <1>14 DEF Loop

\* The loop finds nothing of the host's to deliver, and retrace tasks only where they may run.
LEMMA LoopCalm ==
    ASSUME LoopInv, Calm, Loop
    PROVE  Calm'
<1>a. /\ ~soundOnly /\ work = {} /\ active.source \notin Sources /\ vblTasks \in Seq(VblTasks)
      /\ foregroundLevel > 0 => Pending = {}
      /\ at = "top" /\ ~Suspends => ~Ready
      /\ Custody /\ level \in 0..1
  BY DEF LoopInv, Calm, Custody
<1>b. {"None", Dialog, "Vbl", "Cursor", "Timer", "Deferred"} \cap Sources = {}
  BY DEF Sources, Dialog
<1>c. {"Vbl", "Cursor", "Timer", "Deferred"} \subseteq Interrupts
  BY DEF Interrupts
<1>d. /\ ~soundOnly' /\ work' = {} /\ foregroundLevel' = foregroundLevel /\ vblTasks' = vblTasks
      /\ \/ UNCHANGED <<active, level>>
         \/ \E s \in {"Vbl", "Cursor", "Timer", "Deferred"} : \E x : Inject(s, x)
         \/ at = "resume" /\ active'.source \in {"None", Dialog}
  <2>1. CASE EndSlice
    <3>1. PICK fire \in BOOLEAN, next \in BOOLEAN :
             /\ fire => "Sound" \in work
             /\ ~fire => UNCHANGED <<active, level, work>>
             /\ dispatched' = (active'.source = "Sound")
             /\ soundOnly' = next
             /\ next => dispatched' \/ "Sound" \in work'
      BY <2>1 DEF EndSlice, cpu
    <3>2. ~fire /\ ~dispatched'
      BY <1>a, <3>1 DEF Sources
    <3>3. foregroundLevel' = foregroundLevel /\ vblTasks' = vblTasks
      BY <2>1 DEF EndSlice, vbl, history
    <3> QED BY <1>a, <3>1, <3>2, <3>3
  <2>2. CASE Top \/ HostWork \/ Sound
    BY <1>a, <2>2 DEF Top, HostWork, Sound, FirePendingVbl, NoCallback, cpu, vbl, history, slice
  <2>3. CASE TimerDue \/ DelayTick \/ Delayed \/ Run
    BY <1>a, <2>3 DEF TimerDue, FireTimerAt, DelayTick, Delayed, Run, NoCallback, cpu, vbl,
       history, slice
  <2>4. CASE Drain
    BY <1>a, <2>4 DEF Drain, FirePendingVbl, FireDeferred, NoCallback, cpu, vbl, history, slice
  <2>5. CASE Retrace \/ RetraceTask \/ RetraceTimer \/ RetraceDeferred
    BY <1>a, <2>5 DEF Retrace, RetraceTask, RetraceTimer, RetraceDeferred, CountDown, FireTimerAt,
                      FirePendingVbl, FireDeferred, NoCallback, cpu, vbl, history, slice
  <2>6. CASE Resume
    BY <1>a, <2>6, ResumeFacts DEF Resume, vbl, history, slice
  <2> QED BY <2>1, <2>2, <2>3, <2>4, <2>5, <2>6 DEF Loop
<1>1. active'.source \notin Sources
  <2>1. CASE UNCHANGED <<active, level>>
    BY <1>a, <2>1
  <2>2. CASE \E s \in {"Vbl", "Cursor", "Timer", "Deferred"} : \E x : Inject(s, x)
    <3>1. PICK s \in {"Vbl", "Cursor", "Timer", "Deferred"} : \E x : Inject(s, x)
      BY <2>2
    <3>2. active'.source = s
      BY <3>1 DEF Inject, Call
    <3> QED BY <1>b, <3>2
  <2>3. CASE active'.source \in {"None", Dialog}
    BY <1>b, <2>3
  <2> QED BY <1>d, <2>1, <2>2, <2>3
<1>2. foregroundLevel' > 0 => Pending' = {}
  <2>1. CASE Retrace /\ ~(Suspends \/ level > 0)
    BY <1>a, <1>d, <2>1 DEF Custody
  <2>2. CASE ~(Retrace /\ ~(Suspends \/ level > 0))
    <3>1. pending' \subseteq pending
      <4>1. CASE Top \/ Drain \/ RetraceTask
        BY <4>1 DEF Top, Drain, RetraceTask, FirePendingVbl, vbl
      <4>2. CASE Retrace
        BY <2>2, <4>2 DEF Retrace
      <4>3. CASE EndSlice \/ HostWork \/ Sound \/ TimerDue \/ DelayTick \/ Delayed \/ Resume \/ Run
                 \/ RetraceTimer \/ RetraceDeferred
        BY <4>3 DEF EndSlice, HostWork, Sound, TimerDue, DelayTick, Delayed, Resume, Run,
           RetraceTimer,
                    RetraceDeferred, vbl
      <4> QED BY <4>1, <4>2, <4>3 DEF Loop
    <3>2. Pending' \subseteq Pending
      BY <1>d, <3>1 DEF Pending
    <3> QED BY <1>a, <1>d, <3>2
  <2> QED BY <2>1, <2>2
<1>3. at' = "top" /\ ~Suspends' => ~Ready'
  <2> SUFFICES ASSUME at' = "top", ~Suspends' PROVE ~Ready'
    OBVIOUS
  <2>1. \A s \in {"Vbl", "Cursor", "Timer", "Deferred"} : ~ \E x : Inject(s, x)
    BY <1>c, InjectSuspends
  <2>2. EndSlice
    <3>1. ~(HostWork \/ Retrace \/ RetraceTask \/ RetraceTimer \/ DelayTick \/ Delayed \/ Resume \/ Run)
      BY DEF HostWork, Retrace, RetraceTask, RetraceTimer, DelayTick, Tick, Delayed, Resume, Run
    <3>2. ~Top
      <4> SUFFICES ASSUME Top PROVE FALSE
        OBVIOUS
      <4>1. FirePendingVbl
        BY DEF Top
      <4> QED BY <2>1, <4>1 DEF FirePendingVbl
    <3>3. ~Sound
      BY <1>a DEF Sound
    <3>4. ~TimerDue
      BY DEF TimerDue
    <3>5. ~Drain
      BY <1>a, <2>1 DEF Drain, FirePendingVbl, FireDeferred
    <3>6. ~RetraceDeferred
      BY DEF RetraceDeferred, LoopInv, Batch
    <3> QED BY <3>1, <3>2, <3>3, <3>4, <3>5, <3>6 DEF Loop
  <2>3. UNCHANGED <<at, active, level, vbl>>
    BY <1>a, <2>2 DEF EndSlice, cpu
  <2>4. Pending' = Pending /\ (Suspends' <=> Suspends)
    BY <2>3, PendingKept DEF vbl, Suspends
  <2> QED BY <1>a, <2>3, <2>4 DEF Ready
<1> QED BY <1>a, <1>d, <1>1, <1>2, <1>3 DEF Calm

\* The guest makes no retrace task due by installing or removing one, and masks interrupts
\* only when none is due.
LEMMA GuestCalm ==
    ASSUME LoopInv, Calm, HostSilent, session \in Sessions, Guest
    PROVE  Calm'
<1>a. /\ ~soundOnly /\ work = {} /\ active.source \notin Sources /\ vblTasks \in Seq(VblTasks)
      /\ foregroundLevel > 0 => Pending = {}
      /\ Custody /\ level \in 0..1
      /\ at = "exec" => (~Suspends => ~Ready)
  BY DEF LoopInv, Calm, Custody, Batch
<1>b. /\ at = "exec" /\ UNCHANGED slice /\ work' = {}
  BY <1>a DEF Guest, Instruction, Return, CallFilter, ReadAsync, VRemove, VInstall, SetCount,
     RmvTime, InsTime,
         PrimeTime, DTInstall, SetLevel, Delay, Executes, HostSilent
<1>c. session.vbls \subseteq VblTasks
  BY CallbackAssumption
<1>d. vblTasks' \in Seq(VblTasks) /\ (Pending = {} => Pending' = {})
  <2>1. CASE UNCHANGED <<vblTasks, pending>>
    BY <1>a, <2>1, PendingKept
  <2>2. CASE \E v \in session.vbls : /\ pending' = pending \ {v}
                                     /\ \/ vblTasks' = Without(vblTasks, v)
                                        \/ vblTasks' = Append(Without(vblTasks, v), v)
    <3>1. PICK v \in VblTasks : /\ pending' = pending \ {v}
                                /\ \/ vblTasks' = Without(vblTasks, v)
                                   \/ vblTasks' = Append(Without(vblTasks, v), v)
      BY <1>c, <2>2
    <3>2. PICK q : q = Without(vblTasks, v)
      OBVIOUS
    <3>3. q \in Seq(VblTasks) /\ Entries(q) = Entries(vblTasks) \ {v}
      BY <1>a, <3>2, WithoutProperties
    <3>4. Append(q, v) \in Seq(VblTasks) /\ Entries(Append(q, v)) = Entries(q) \cup {v}
      BY <3>3, PushProperties
    <3>5. vblTasks' \in Seq(VblTasks) /\ Entries(vblTasks') \subseteq Entries(vblTasks) \cup {v}
      BY <3>1, <3>2, <3>3, <3>4
    <3>6. Pending = {} => Pending' = {}
      <4> SUFFICES ASSUME Pending = {}, NEW i \in Pending' PROVE FALSE
        OBVIOUS
      <4>1. i \in DOMAIN vblTasks' /\ vblTasks'[i] \in pending \ {v}
        BY <3>1 DEF Pending
      <4>2. vblTasks'[i] \in Entries(vblTasks')
        BY <4>1 DEF Entries
      <4>3. PICK j \in DOMAIN vblTasks : vblTasks[j] = vblTasks'[i]
        BY <3>5, <4>1, <4>2 DEF Entries
      <4> QED BY <4>1, <4>3 DEF Pending
    <3> QED BY <3>5, <3>6
  <2> QED BY <2>1, <2>2 DEF Guest, Instruction, Return, CallFilter, ReadAsync, VRemove, VInstall,
             SetCount,
              RmvTime, InsTime, PrimeTime, DTInstall, SetLevel, Delay, vbl
<1>e. "None" \notin Sources /\ Dialog \notin Sources
  BY DEF Sources, Dialog
<1>1. CASE \E new \in 0..1 : SetLevel(new)
  <2>1. PICK new \in 0..1 : SetLevel(new)
    BY <1>1
  <2>2. /\ level' = new /\ new # level /\ active' = active /\ (Foreground \/ Suspends)
        /\ foregroundLevel' = (IF Foreground THEN new ELSE foregroundLevel)
    BY <2>1 DEF SetLevel
  <2>3. Foreground => level = foregroundLevel /\ ~Suspends
    BY <1>a DEF Custody, Suspends, Foreground
  <2>4. Foreground => Pending = {}
    <3> SUFFICES ASSUME Foreground PROVE Pending = {}
      OBVIOUS
    <3>1. CASE level = 0
      BY <1>a, <1>b, <2>3, <3>1 DEF Ready
    <3>2. CASE level = 1
      BY <1>a, <2>3, <3>2
    <3> QED BY <1>a, <3>1, <3>2
  <2>5. ~Suspends' => Pending' = {}
    BY <1>d, <2>2, <2>4 DEF Suspends
  <2>6. foregroundLevel' > 0 => Pending' = {}
    BY <1>a, <1>d, <2>2, <2>4
  <2> QED BY <1>a, <1>b, <1>d, <2>2, <2>5, <2>6 DEF Calm, Ready, slice
<1>2. CASE ~ \E new \in 0..1 : SetLevel(new)
  <2>1. UNCHANGED <<level, foregroundLevel>>
    BY <1>2 DEF Guest, Instruction, Return, CallFilter, ReadAsync, VRemove, VInstall, SetCount,
       RmvTime, InsTime,
         PrimeTime, DTInstall, Delay, NoDelay, Continue
  <2>2. (active' = active) \/ (active'.source = Dialog /\ ~Suspends)
    <3>1. CASE CallFilter
      BY <3>1 DEF CallFilter, Call
    <3>2. CASE ~CallFilter
      BY <1>2, <3>2 DEF Guest, Instruction, Return, ReadAsync, VRemove, VInstall, SetCount,
         RmvTime, InsTime,
         PrimeTime, DTInstall, Delay, Continue
    <3> QED BY <3>1, <3>2
  <2>3. ~Suspends' => ~Suspends
    BY <2>2 DEF Suspends, Foreground
  <2>4. ~Suspends => ~Ready'
    BY <1>a, <1>b, <1>d, <2>1 DEF Ready
  <2> QED BY <1>a, <1>b, <1>d, <1>e, <2>1, <2>2, <2>3, <2>4 DEF Calm, slice
<1> QED BY <1>1, <1>2

\* The invariant: a session without timers has none primed, and in one with timers the host is
\* silent and the timers are kept up with.
TimersInv ==
    /\ session \in Sessions /\ fireAt \in [Timers -> Nat \cup {None}]
    /\ session.timers = {} => Primed = {}
    /\ session.timers # {} => Calm /\ Paced

\* A machine that has just started has no timer.
LEMMA InitTimers == Init => TimersInv
<1> SUFFICES ASSUME Init PROVE TimersInv
  OBVIOUS
<1>1. InstructionsPerTick \in Nat /\ InstructionsPerTick > 1
  BY CallbackAssumption
<1>2. fireAt \in [Timers -> Nat \cup {None}] /\ Primed = {}
  BY DEF Init, Primed
<1>3. session \in Sessions /\ ~Retracing /\ Stale
  BY SourceFacts DEF Init, Retracing, Stale, Suspends
<1>4. Calm
  <2>1. Pending = {}
    BY DEF Init, Pending
  <2>2. active.source \notin Sources
    BY DEF Init, NoCall, Sources
  <2> QED BY <2>1, <2>2 DEF Init, Calm, Ready
<1>5. Times
  BY <1>1, <1>2, <1>3 DEF Init, Times, Positions
<1>6. Clocked
  BY <1>1, <1>3 DEF Init, Clocked
<1>7. NoneDue
  BY <1>2 DEF NoneDue
<1> QED BY <1>2, <1>3, <1>4, <1>5, <1>6, <1>7 DEF TimersInv, Paced

\* Nobody primes a timer in a session without any.
LEMMA NoTimers ==
    ASSUME session.timers = {}, Primed = {}, fireAt \in [Timers -> Nat \cup {None}],
           Loop \/ Guest \/ HostEvent
    PROVE  fireAt' \in [Timers -> Nat \cup {None}] /\ Primed' = {}
<1>1. fireAt' = fireAt \/ \E e : fireAt' = [fireAt EXCEPT ![e] = None]
  <2>1. CASE Guest
    BY <2>1 DEF Guest, Instruction, Return, CallFilter, ReadAsync, VRemove, VInstall, SetCount,
       DTInstall,
                SetLevel, Delay, tm
  <2>2. CASE TimerDue \/ RetraceTimer
    BY <2>2 DEF TimerDue, RetraceTimer, FireTimerAt, tm
  <2>3. CASE EndSlice \/ Top \/ HostWork \/ Sound \/ DelayTick \/ Delayed \/ HostEvent
    BY <2>3 DEF EndSlice, Top, HostWork, Sound, DelayTick, Delayed, HostEvent, tm
  <2>4. CASE Resume \/ Drain \/ Run \/ Retrace \/ RetraceTask \/ RetraceDeferred
    BY <2>4 DEF Resume, Drain, Run, Retrace, RetraceTask, RetraceDeferred, tm
  <2> QED BY <2>1, <2>2, <2>3, <2>4 DEF Loop
<1>2. CASE fireAt' = fireAt
  BY <1>2 DEF Primed
<1>3. CASE \E e : fireAt' = [fireAt EXCEPT ![e] = None]
  <2>1. PICK e : fireAt' = [fireAt EXCEPT ![e] = None]
    BY <1>3
  <2>2. fireAt' \in [Timers -> Nat \cup {None}]
    BY <2>1
  <2>3. \A x \in Timers : fireAt'[x] = None \/ fireAt'[x] = fireAt[x]
    BY <2>1
  <2> QED BY <2>2, <2>3 DEF Primed
<1> QED BY <1>1, <1>2, <1>3

\* The invariant is inductive.
LEMMA TimersStep ==
    ASSUME TimersWithoutHost, LoopInv, TimersInv, [Next]_vars
    PROVE  TimersInv'
<1>1. session' = session
  BY DEF Next, vars
<1>2. CASE UNCHANGED vars
  <2>1. UNCHANGED <<session, tick, budget, clock, timers, fireAt, wakeup, at, active, level, foregroundLevel,
                    soundOnly, work, vblTasks, pending>>
    BY <1>2 DEF vars, time, vbl, tm, cpu, slice, history
  <2>2. Primed' = Primed /\ Pending' = Pending
    BY <2>1 DEF Primed, Pending
  <2>3. Paced => Paced'
    BY <2>1, IdlePaces DEF Paced, Times, Retracing, Stale, Suspends, Clocked
  <2>4. Calm => Calm'
    BY <2>1, <2>2 DEF Calm, Suspends, Ready
  <2> QED BY <2>1, <2>2, <2>3, <2>4 DEF TimersInv
<1>3. CASE Loop \/ Guest \/ HostEvent
  <2>1. CASE session.timers = {}
    BY <1>1, <1>3, <2>1, NoTimers DEF TimersInv
  <2>2. CASE session.timers # {}
    <3>1. HostSilent /\ Calm /\ Paced /\ session \in Sessions
      BY <2>2 DEF TimersInv, TimersWithoutHost, HostSilent
    <3>2. ~ HostEvent
      BY <3>1 DEF HostEvent, HostSilent
    <3>3. Calm' /\ Paced'
      BY <1>1, <1>3, <3>1, <3>2, LoopCalm, LoopPaces, GuestCalm, GuestPaces
    <3>4. session \in Sessions /\ fireAt' \in [Timers -> Nat \cup {None}]
      BY <3>1, <3>3 DEF Paced, Times
    <3> QED BY <1>1, <2>2, <3>3, <3>4 DEF TimersInv
  <2> QED BY <2>1, <2>2
<1> QED BY <1>2, <1>3 DEF Next

\* Where the loop keeps pace, no deadline is more than a tick for each timer away.
LEMMA PaceSuffices == TimersInv => TimersOnTime
<1> SUFFICES ASSUME TimersInv, NEW t \in Timers, fireAt[t] # None
             PROVE  Now <= fireAt[t] + Lateness
  BY DEF TimersOnTime
<1>1. t \in Primed
  BY DEF Primed
<1>2. Times /\ Pace(t) /\ (Retracing => TimersOnTime)
  BY <1>1 DEF TimersInv, Paced
<1>3. PICK n \in Nat : n = Rank(t) /\ 1 <= n /\ n <= Size /\ fireAt[t] \in Nat /\ session \in Sessions
  BY <1>1, <1>2, RankFacts DEF Times
<1>4. PICK w, c, d \in Nat : /\ w = Within(n) /\ c = Cleared(n) /\ d = Lateness
                             /\ w <= d /\ c <= d /\ InstructionsPerTick \in Nat
  <2>1. InstructionsPerTick \in Nat /\ Within(n) \in Nat /\ Cleared(n) \in Nat
    BY <1>3, WithinFacts, CallbackAssumption
  <2>2. Lateness \in Nat /\ Within(n) <= Lateness /\ Cleared(n) + 1 + InstructionsPerTick <= Lateness
    BY <1>3, LatenessFacts
  <2>3. Cleared(n) <= Lateness
    BY <2>1, <2>2
  <2> QED BY <2>1, <2>2, <2>3
<1>5. Now \in Nat
  BY <1>2, ClockFacts
<1>6. CASE Retracing
  BY <1>2, <1>6 DEF TimersOnTime
<1>7. CASE ~Retracing
  <2>1. Now <= fireAt[t] + w \/ Now <= fireAt[t] + c \/ Now + 1 <= fireAt[t] + w
    BY <1>2, <1>3, <1>4, <1>7 DEF Pace
  <2> QED BY <1>3, <1>4, <1>5, <2>1
<1> QED BY <1>6, <1>7

\* No timer starves, with any number of timers, deadlines and tasks of the other kinds: while
\* the host is silent the guest's clock runs past a primed deadline by no more than a tick for
\* each timer (fire_timer_tasks_at, the earliest deadline first).
THEOREM TimersAreOnTime == ASSUME TimersWithoutHost PROVE Spec => []TimersOnTime
<1>1. Init => TimersInv
  BY InitTimers
<1>2. LoopInv /\ TimersInv /\ [Next]_vars => TimersInv'
  BY TimersStep
<1>3. TimersInv => TimersOnTime
  BY PaceSuffices
<1> QED BY <1>1, <1>2, <1>3, LoopInvariant, PTL DEF Spec

-----------------------------------------------------------------------------
(* The foreground is not starved *)

\* A round is a callback with the deferred tasks it may install.
Defs      == Cardinality(session.deferred)
Rounds(k) == k * (Defs + 1)

\* The retrace tasks of the batch that are to be delivered, and the rounds they take; those
\* of a tick, and of an iteration that looks at the timers first.
DueTasks  == pending \cap Entries(vblTasks)
DueRounds == Rounds(Cardinality(DueTasks))
TickRounds == Rounds(Cardinality(session.vbls) + 1)
FullRounds == Rounds(Cardinality(session.vbls) + 2)

\* The deferred tasks that run before the next round: all of them after an interrupt that may
\* install them, those that are ready otherwise.
ReadyTasks == {deferred[i].task : i \in {j \in DOMAIN deferred : deferred[j].ready <= tick}}
Owed == IF Suspends /\ active.source # "Deferred" THEN Defs ELSE Cardinality(ReadyTasks)

\* How many callbacks may start before a foreground instruction runs, or the host steps in.
Rest ==
    (IF soundOnly THEN FullRounds ELSE IF budget <= 1 /\ ~Retracing THEN TickRounds ELSE DueRounds) + Owed
CallbacksLeft ==
    IF Suspends \/ at \in {"resume", "drain", "drainDeferred", "run"} THEN Rest
    ELSE IF at \in {"top", "host", "sound", "timer"} THEN FullRounds
    ELSE IF at = "delay" THEN TickRounds + (IF budget <= 1 THEN Owed ELSE 0)
    ELSE IF at = "exec" THEN 0 ELSE TickRounds

\* What is queued, and that no deferred task is queued twice.
Queues ==
    /\ session \in Sessions /\ tick \in Nat /\ budget \in Int /\ sinceForeground \in Nat
    /\ vblTasks \in Seq(VblTasks) /\ Entries(vblTasks) \subseteq session.vbls
    /\ deferred \in Seq([task : session.deferred, ready : Nat])
    /\ \A i, j \in DOMAIN deferred : i # j => deferred[i].task # deferred[j].task

\* Retrace tasks are due only just after a tick, where no instruction has been charged, and
\* never behind a masked foreground.
Batches ==
    /\ foregroundLevel > 0 => DueTasks = {}
    /\ DueTasks # {} => Retracing \/ budget = InstructionsPerTick
    /\ at = "retrace" => ~Suspends
    /\ at = "delayed" => budget = InstructionsPerTick

Fed == Queues /\ Batches /\ sinceForeground + CallbacksLeft <= Most

-----------------------------------------------------------------------------

\* Products with the length of a round.
LEMMA RoundFacts ==
    ASSUME session \in Sessions
    PROVE  /\ Defs \in Nat /\ Cardinality(session.vbls) \in Nat
           /\ IsFiniteSet(session.vbls) /\ IsFiniteSet(session.deferred)
           /\ \A k \in Nat : Rounds(k) \in Nat /\ Rounds(k + 1) = Rounds(k) + Defs + 1
           /\ \A k, n \in Nat : k <= n => Rounds(k) <= Rounds(n)
           /\ Most = Rounds(Cardinality(session.vbls) + 3)
<1>1. /\ session.vbls \in SUBSET VblTasks /\ session.deferred \in SUBSET DeferredTasks
      /\ IsFiniteSet(VblTasks) /\ IsFiniteSet(DeferredTasks)
  BY CallbackAssumption
<1>2. IsFiniteSet(session.vbls) /\ IsFiniteSet(session.deferred)
  BY <1>1, FS_Subset
<1>3. Cardinality(session.vbls) \in Nat /\ Defs \in Nat
  BY <1>2, FS_CardinalityType DEF Defs
<1>4. PICK e \in Nat : e = Defs + 1
  BY <1>3
<1>5. \A k, n \in Nat : k * n \in Nat /\ (k + 1) * n = k * n + n
  OBVIOUS
<1>6. \A k : Rounds(k) = k * e
  BY <1>4 DEF Rounds
<1>7. ASSUME NEW k \in Nat, NEW n \in Nat, k <= n PROVE Rounds(k) <= Rounds(n)
  <2>1. PICK d \in Nat : n = k + d
    <3>1. n - k \in Nat /\ n = k + (n - k)
      BY <1>7
    <3> QED BY <3>1
  <2>2. n * e = k * e + d * e
    BY <1>4, <2>1
  <2>3. k * e \in Nat /\ d * e \in Nat
    BY <1>4, <1>5
  <2> QED BY <1>6, <2>2, <2>3
<1>8. Most = Rounds(Cardinality(session.vbls) + 3)
  BY DEF Most, Rounds, Defs
<1>9. \A k \in Nat : Rounds(k) \in Nat /\ Rounds(k + 1) = Rounds(k) + e
  BY <1>4, <1>5, <1>6
<1>10. \A k \in Nat : Rounds(k) \in Nat /\ Rounds(k + 1) = Rounds(k) + Defs + 1
  <2> SUFFICES ASSUME NEW k \in Nat PROVE Rounds(k) \in Nat /\ Rounds(k + 1) = Rounds(k) + Defs + 1
    OBVIOUS
  <2>1. PICK r \in Nat : r = Rounds(k)
    BY <1>9
  <2>2. Rounds(k + 1) = r + (Defs + 1)
    BY <1>4, <1>9, <2>1
  <2> QED BY <1>3, <2>1, <2>2
<1> QED BY <1>2, <1>3, <1>7, <1>8, <1>10

\* The tasks that are due and those that are ready are tasks of the session.
LEMMA QueueFacts ==
    ASSUME Queues
    PROVE  /\ IsFiniteSet(DueTasks) /\ Cardinality(DueTasks) \in Nat
           /\ Cardinality(DueTasks) <= Cardinality(session.vbls)
           /\ IsFiniteSet(ReadyTasks) /\ Cardinality(ReadyTasks) \in Nat
           /\ Cardinality(ReadyTasks) <= Defs
<1>1. DueTasks \in SUBSET session.vbls
  BY DEF DueTasks, Queues
<1>2. ReadyTasks \in SUBSET session.deferred
  <2> SUFFICES ASSUME NEW i \in DOMAIN deferred PROVE deferred[i].task \in session.deferred
    BY DEF ReadyTasks
  <2>1. PICK S : S = [task : session.deferred, ready : Nat]
    OBVIOUS
  <2>2. deferred \in Seq(S)
    BY <2>1 DEF Queues
  <2>3. deferred[i] \in S
    BY <2>2
  <2> QED BY <2>1, <2>3
<1>3. IsFiniteSet(session.vbls) /\ IsFiniteSet(session.deferred)
  BY RoundFacts DEF Queues
<1>4. /\ IsFiniteSet(DueTasks) /\ Cardinality(DueTasks) <= Cardinality(session.vbls)
      /\ IsFiniteSet(ReadyTasks) /\ Cardinality(ReadyTasks) <= Defs
  BY <1>1, <1>2, <1>3, FS_Subset DEF Defs
<1> QED BY <1>4, FS_CardinalityType

\* The sums the potential is made of.
LEMMA Sums ==
    Queues => /\ Defs \in Nat /\ TickRounds \in Nat /\ DueRounds \in Nat /\ Owed \in Nat
              /\ FullRounds = TickRounds + Defs + 1 /\ Most = FullRounds + Defs + 1
              /\ DueRounds + Defs + 1 <= TickRounds /\ Owed <= Defs
<1> SUFFICES ASSUME Queues
             PROVE  /\ Defs \in Nat /\ TickRounds \in Nat /\ DueRounds \in Nat /\ Owed \in Nat
                    /\ FullRounds = TickRounds + Defs + 1 /\ Most = FullRounds + Defs + 1
                    /\ DueRounds + Defs + 1 <= TickRounds /\ Owed <= Defs
  OBVIOUS
<1>1. PICK v, p, q \in Nat : /\ v = Cardinality(session.vbls) /\ p = Cardinality(DueTasks) /\ p <= v
                             /\ q = Cardinality(ReadyTasks) /\ q <= Defs
  BY QueueFacts, RoundFacts DEF Queues
<1>2. /\ Defs \in Nat
      /\ \A k \in Nat : Rounds(k) \in Nat /\ Rounds(k + 1) = Rounds(k) + Defs + 1
      /\ \A k, n \in Nat : k <= n => Rounds(k) <= Rounds(n)
      /\ Most = Rounds(v + 3)
  BY <1>1, RoundFacts DEF Queues
<1>3. TickRounds = Rounds(v + 1) /\ FullRounds = Rounds(v + 2) /\ DueRounds = Rounds(p)
  BY <1>1 DEF TickRounds, FullRounds, DueRounds
<1>4. /\ v + 1 \in Nat /\ v + 2 = (v + 1) + 1 /\ v + 2 \in Nat /\ v + 3 = (v + 2) + 1
  BY <1>1
<1>5. FullRounds = TickRounds + Defs + 1 /\ Most = FullRounds + Defs + 1
  BY <1>2, <1>3, <1>4
<1>6. Rounds(p + 1) = DueRounds + Defs + 1 /\ Rounds(p + 1) <= TickRounds
  <2>1. p + 1 \in Nat /\ p + 1 <= v + 1
    BY <1>1
  <2> QED BY <1>1, <1>2, <1>3, <1>4, <2>1
<1>7. Owed \in Nat /\ Owed <= Defs
  BY <1>1, <1>2 DEF Owed
<1> QED BY <1>1, <1>2, <1>3, <1>4, <1>5, <1>6, <1>7

\* What is left never exceeds what is promised.
LEMMA LeftFacts == Queues => CallbacksLeft \in Nat /\ CallbacksLeft <= Most
BY Sums DEF CallbacksLeft, Rest

\* The sums after a step.
LEMMA SumsNext ==
    ASSUME Queues, Queues', session' = session
    PROVE  /\ DueRounds' \in Nat /\ Owed' \in Nat
           /\ TickRounds' = TickRounds /\ FullRounds' = FullRounds /\ Defs' = Defs /\ Most' = Most
           /\ DueRounds' + Defs + 1 <= TickRounds /\ Owed' <= Defs
<1>1. (Queues => /\ Defs \in Nat /\ TickRounds \in Nat /\ DueRounds \in Nat /\ Owed \in Nat
                 /\ FullRounds = TickRounds + Defs + 1 /\ Most = FullRounds + Defs + 1
                 /\ DueRounds + Defs + 1 <= TickRounds /\ Owed <= Defs)'
  BY Sums, PTL
<1>2. TickRounds' = TickRounds /\ FullRounds' = FullRounds /\ Defs' = Defs /\ Most' = Most
  BY DEF TickRounds, FullRounds, Defs, Rounds, Most
<1> QED BY <1>1, <1>2

\* A step that leaves the CPU and the queues alone owes as much as before.
LEMMA OwesTheSame ==
    ASSUME UNCHANGED <<session, tick, deferred, active, vblTasks, pending>>
    PROVE  /\ Owed' = Owed /\ DueRounds' = DueRounds /\ DueTasks' = DueTasks
           /\ (Suspends' <=> Suspends)
<1>1. ReadyTasks' = ReadyTasks /\ DueTasks' = DueTasks /\ Defs' = Defs
  BY DEF ReadyTasks, DueTasks, Defs
<1>2. DueRounds' = DueRounds
  BY <1>1 DEF DueRounds, Rounds
<1>3. Suspends' <=> Suspends
  BY DEF Suspends
<1>4. Owed' = Owed
  <2>1. CASE Suspends /\ active.source # "Deferred"
    BY <1>1, <1>3, <2>1 DEF Owed
  <2>2. CASE ~(Suspends /\ active.source # "Deferred")
    BY <1>1, <1>3, <2>2 DEF Owed
  <2> QED BY <2>1, <2>2
<1> QED BY <1>1, <1>2, <1>3, <1>4

\* An interrupt that starts may install every deferred task.
LEMMA OwesAll ==
    ASSUME session' = session, NEW s \in Interrupts, s # "Deferred", NEW x, Inject(s, x)
    PROVE  Suspends' /\ Owed' = Defs
<1>1. active'.source = s /\ Suspends'
  BY InjectSuspends DEF Inject, Call
<1>2. Owed' = Defs'
  BY <1>1 DEF Owed
<1> QED BY <1>1, <1>2 DEF Defs

\* A retrace task that is delivered is one round less.
LEMMA FirePays ==
    ASSUME Queues, VblReady, FirePendingVbl, session' = session
    PROVE  /\ Suspends' /\ Owed' = Defs /\ sinceForeground' = sinceForeground + 1
           /\ vblTasks' = vblTasks /\ foregroundLevel' = foregroundLevel
           /\ DueTasks # {} /\ DueTasks' \subseteq DueTasks /\ DueRounds = DueRounds' + Defs + 1
<1>0. PICK v : v = vblTasks[Min(Pending)]
  OBVIOUS
<1>1. /\ Inject("Vbl", v) /\ pending' = pending \ {v} /\ vblTasks' = vblTasks
      /\ foregroundLevel' = foregroundLevel
  BY <1>0 DEF FirePendingVbl
<1>2. "Vbl" \in Interrupts /\ "Vbl" # "Deferred" /\ "Vbl" \notin Sources
  BY DEF Interrupts, Sources
<1>3. Suspends' /\ Owed' = Defs
  BY <1>1, <1>2, OwesAll
<1>4. sinceForeground' = sinceForeground + 1
  BY <1>1, <1>2 DEF Inject
<1>5. v \in DueTasks
  <2>1. Pending # {} /\ Pending \subseteq Nat
    BY DEF VblReady, Pending, Queues
  <2>2. Min(Pending) \in Pending
    <3>1. PICK m \in Pending : \A n \in Pending : m <= n
      BY <2>1, LeastNatural
    <3> QED BY <3>1 DEF Min
  <2> QED BY <1>0, <2>2 DEF Pending, DueTasks, Entries
<1>6. DueTasks' = DueTasks \ {v}
  BY <1>1 DEF DueTasks
<1>7. IsFiniteSet(DueTasks) /\ Cardinality(DueTasks') = Cardinality(DueTasks) - 1
  BY <1>5, <1>6, QueueFacts, FS_RemoveElement
<1>8. PICK p \in Nat : p = Cardinality(DueTasks') /\ p + 1 = Cardinality(DueTasks)
  <2>1. IsFiniteSet(DueTasks')
    BY <1>6, <1>7, FS_RemoveElement
  <2>2. Cardinality(DueTasks') \in Nat /\ Cardinality(DueTasks) \in Nat
    BY <1>7, <2>1, FS_CardinalityType
  <2> QED BY <1>7, <2>2
<1>9. Rounds(p + 1) = Rounds(p) + Defs + 1
  BY <1>8, RoundFacts DEF Queues
<1>10. DueRounds = Rounds(p + 1) /\ DueRounds' = Rounds(p)
  BY <1>8 DEF DueRounds, Rounds, Defs
<1> QED BY <1>1, <1>3, <1>4, <1>5, <1>6, <1>9, <1>10

\* A deferred task that starts is one less of those that are owed.
LEMMA DeferredPays ==
    ASSUME Queues, DeferredReady(tick), FireDeferred, UNCHANGED <<session, tick>>
    PROVE  /\ Suspends' /\ Owed = Owed' + 1 /\ sinceForeground' = sinceForeground + 1
           /\ deferred' \in Seq([task : session.deferred, ready : Nat])
           /\ \A i, j \in DOMAIN deferred' : i # j => deferred'[i].task # deferred'[j].task
<1>0. PICK d : d = Head(deferred).task
  OBVIOUS
<1>1. /\ Inject("Deferred", d) /\ deferred' = Tail(deferred)
      /\ deferred # <<>> /\ Head(deferred).ready <= tick /\ ~Suspends
  BY <1>0 DEF FireDeferred, DeferredReady
<1>2. "Deferred" \in Interrupts /\ "Deferred" \notin Sources
  BY DEF Interrupts, Sources
<1>3. Suspends' /\ active'.source = "Deferred" /\ sinceForeground' = sinceForeground + 1
  BY <1>1, <1>2, InjectSuspends DEF Inject, Call
<1>4. PICK n \in Nat : /\ deferred \in Seq([task : session.deferred, ready : Nat]) /\ Len(deferred) = n + 1
                       /\ DOMAIN deferred = 1..(n + 1)
  <2>1. deferred \in Seq([task : session.deferred, ready : Nat]) /\ Len(deferred) \in Nat /\ Len(deferred) # 0
    BY <1>1 DEF Queues
  <2>2. Len(deferred) - 1 \in Nat /\ Len(deferred) = (Len(deferred) - 1) + 1 /\ DOMAIN deferred = 1..Len(deferred)
    BY <2>1
  <2> QED BY <2>1, <2>2
<1>5. /\ deferred' \in Seq([task : session.deferred, ready : Nat])
      /\ DOMAIN deferred' = 1..n /\ \A i \in 1..n : deferred'[i] = deferred[i + 1]
  BY <1>1, <1>4
<1>6. ASSUME NEW i \in 1..n, NEW j \in 1..n, i # j PROVE deferred'[i].task # deferred'[j].task
  <2>1. i + 1 \in DOMAIN deferred /\ j + 1 \in DOMAIN deferred /\ i + 1 # j + 1
    BY <1>4, <1>6
  <2> QED BY <1>5, <2>1 DEF Queues
<1>7. d = deferred[1].task /\ 1 \in DOMAIN deferred /\ deferred[1].ready <= tick
  BY <1>0, <1>1, <1>4
<1>8. d \in ReadyTasks
  BY <1>7 DEF ReadyTasks
<1>9. ReadyTasks' = ReadyTasks \ {d}
  <2>1. ASSUME NEW e \in ReadyTasks' PROVE e \in ReadyTasks /\ e # d
    <3>1. PICK i \in 1..n : e = deferred'[i].task /\ deferred'[i].ready <= tick
      BY <1>5, <2>1 DEF ReadyTasks
    <3>2. i + 1 \in DOMAIN deferred /\ i + 1 # 1 /\ deferred'[i] = deferred[i + 1]
      BY <1>4, <1>5
    <3>3. e \in ReadyTasks
      BY <3>1, <3>2 DEF ReadyTasks
    <3>4. deferred[i + 1].task # deferred[1].task
      BY <1>7, <3>2 DEF Queues
    <3> QED BY <1>7, <3>1, <3>2, <3>3, <3>4
  <2>2. ASSUME NEW e \in ReadyTasks, e # d PROVE e \in ReadyTasks'
    <3>1. PICK i \in DOMAIN deferred : e = deferred[i].task /\ deferred[i].ready <= tick
      BY <2>2 DEF ReadyTasks
    <3>2. i # 1
      BY <1>7, <2>2, <3>1
    <3>3. PICK k \in 1..n : i = k + 1
      <4>1. i - 1 \in 1..n /\ i = (i - 1) + 1
        BY <1>4, <3>2
      <4> QED BY <4>1
    <3>4. deferred'[k] = deferred[i] /\ k \in DOMAIN deferred'
      BY <1>5, <3>3
    <3> QED BY <3>1, <3>4 DEF ReadyTasks
  <2> QED BY <2>1, <2>2
<1>10. IsFiniteSet(ReadyTasks) /\ Cardinality(ReadyTasks) \in Nat
  BY QueueFacts
<1>11. Cardinality(ReadyTasks') = Cardinality(ReadyTasks) - 1
  BY <1>8, <1>9, <1>10, FS_RemoveElement
<1>12. Owed' = Cardinality(ReadyTasks') /\ Owed = Cardinality(ReadyTasks)
  BY <1>1, <1>3 DEF Owed
<1>13. Owed = Owed' + 1
  BY <1>10, <1>11, <1>12
<1> QED BY <1>3, <1>5, <1>6, <1>13

\* The loop queues no task, and makes retrace tasks due at a tick only.
LEMMA LoopQueues ==
    ASSUME LoopInv, Stocked, Queues, Batches, Loop, session' = session
    PROVE  Queues' /\ Batches'
<1>a. /\ Custody /\ Queues /\ InstructionsPerTick \in Nat
  BY CallbackAssumption DEF LoopInv
<1>1. /\ vblTasks' = vblTasks /\ foregroundLevel' = foregroundLevel
      /\ sinceForeground' \in {0, sinceForeground, sinceForeground + 1}
  <2>1. CASE EndSlice
    BY <2>1 DEF EndSlice, Inject, vbl, history
  <2>2. CASE Top \/ HostWork \/ Sound
    BY <2>2 DEF Top, HostWork, Sound, FirePendingVbl, Inject, NoCallback, vbl, history
  <2>3. CASE TimerDue \/ DelayTick \/ Delayed \/ Resume \/ Run
    BY <2>3 DEF TimerDue, FireTimerAt, DelayTick, Delayed, Resume, Restore, Run, Inject,
       NoCallback, vbl, history
  <2>4. CASE Drain
    BY <2>4 DEF Drain, FirePendingVbl, FireDeferred, Inject, NoCallback, vbl, history
  <2>5. CASE Retrace \/ RetraceTask \/ RetraceTimer \/ RetraceDeferred
    BY <2>5 DEF Retrace, RetraceTask, RetraceTimer, RetraceDeferred, CountDown, FireTimerAt, Inject,
                FirePendingVbl, FireDeferred, NoCallback, vbl, history
  <2> QED BY <2>1, <2>2, <2>3, <2>4, <2>5 DEF Loop
<1>2. \/ deferred' = deferred
      \/ DeferredReady(tick) /\ FireDeferred /\ tick' = tick
  <2>1. CASE Drain \/ RetraceDeferred
    BY <2>1 DEF Drain, RetraceDeferred, time
  <2>2. CASE EndSlice \/ Top \/ HostWork \/ Sound \/ TimerDue \/ DelayTick \/ Delayed \/ Resume \/ Run
             \/ Retrace \/ RetraceTask \/ RetraceTimer
    BY <2>2 DEF EndSlice, Top, HostWork, Sound, TimerDue, DelayTick, Delayed, Resume, Run,
                Retrace, RetraceTask, RetraceTimer
  <2> QED BY <2>1, <2>2 DEF Loop
<1>3. /\ tick' \in {tick, tick + 1}
      /\ \/ budget' = budget
         \/ budget' = InstructionsPerTick /\ RetraceDeferred
         \/ budget' = 0 /\ at' = "retrace"
  <2>1. CASE Run \/ DelayTick \/ RetraceDeferred
    BY <2>1 DEF Run, DelayTick, RetraceDeferred, Tick
  <2>2. CASE EndSlice \/ Top \/ HostWork \/ Sound \/ TimerDue \/ Delayed \/ Resume \/ Drain
             \/ Retrace \/ RetraceTask \/ RetraceTimer
    BY <2>2, ResumeKeepsBudget DEF EndSlice, Top, HostWork, Sound, TimerDue, Delayed, Resume, Drain,
                Retrace, RetraceTask, RetraceTimer, time
  <2> QED BY <2>1, <2>2 DEF Loop
<1>4. Queues'
  <2>1. session' \in Sessions /\ tick' \in Nat /\ budget' \in Int /\ sinceForeground' \in Nat
    BY <1>a, <1>1, <1>3 DEF Queues
  <2>2. CASE deferred' = deferred
    BY <1>1, <2>1, <2>2 DEF Queues
  <2>3. CASE DeferredReady(tick) /\ FireDeferred /\ tick' = tick
    <3>1. /\ deferred' \in Seq([task : session.deferred, ready : Nat])
          /\ \A i, j \in DOMAIN deferred' : i # j => deferred'[i].task # deferred'[j].task
      BY <2>3, DeferredPays
    <3> QED BY <1>1, <2>1, <3>1 DEF Queues
  <2> QED BY <1>2, <2>2, <2>3
<1>5. \/ DueTasks' \subseteq DueTasks
      \/ Retracing' /\ foregroundLevel = 0
  <2>1. CASE Top \/ Drain \/ RetraceTask
    <3>1. pending' \subseteq pending
      BY <2>1 DEF Top, Drain, RetraceTask, FirePendingVbl, vbl
    <3> QED BY <1>1, <3>1 DEF DueTasks
  <2>2. CASE Retrace
    <3>1. CASE Suspends \/ level > 0
      <4>1. pending' = pending
        BY <2>2, <3>1 DEF Retrace
      <4> QED BY <1>1, <4>1 DEF DueTasks
    <3>2. CASE ~(Suspends \/ level > 0)
      BY <1>a, <2>2, <3>2 DEF Retrace, Retracing, Custody
    <3> QED BY <3>1, <3>2
  <2>3. CASE EndSlice \/ HostWork \/ Sound \/ TimerDue \/ DelayTick \/ Delayed \/ Resume \/ Run
             \/ RetraceTimer \/ RetraceDeferred
    <3>1. pending' = pending
      BY <2>3 DEF EndSlice, HostWork, Sound, TimerDue, DelayTick, Delayed, Resume, Run,
         RetraceTimer,
                  RetraceDeferred, vbl
    <3> QED BY <1>1, <3>1 DEF DueTasks
  <2> QED BY <2>1, <2>2, <2>3 DEF Loop
<1>6. foregroundLevel' > 0 => DueTasks' = {}
  BY <1>a, <1>1, <1>5 DEF Batches
<1>7. DueTasks' # {} => Retracing' \/ budget' = InstructionsPerTick
  <2>1. CASE RetraceDeferred
    BY <2>1 DEF RetraceDeferred
  <2>2. CASE ~RetraceDeferred
    <3>1. Retracing => Retracing'
      <4>1. CASE Retrace \/ RetraceTask \/ RetraceTimer
        BY <4>1 DEF Retrace, RetraceTask, RetraceTimer, Retracing
      <4>2. CASE EndSlice \/ Top \/ HostWork \/ Sound \/ TimerDue \/ DelayTick \/ Delayed \/ Resume \/ Drain \/ Run
        BY <4>2 DEF EndSlice, Top, HostWork, Sound, TimerDue, DelayTick, Delayed, Resume, Drain,
           Run, Retracing
      <4> QED BY <2>2, <4>1, <4>2 DEF Loop
    <3>2. Retracing' \/ budget' = budget
      BY <1>3, <2>2 DEF Retracing
    <3> QED BY <1>5, <3>1, <3>2 DEF Batches
  <2> QED BY <2>1, <2>2
<1>8. at' = "retrace" => ~Suspends'
  <2> SUFFICES ASSUME at' = "retrace" PROVE ~Suspends'
    OBVIOUS
  <2>1. DelayTick \/ Run
    <3>1. CASE EndSlice \/ Top \/ HostWork \/ Sound \/ TimerDue
      BY <3>1 DEF EndSlice, Top, HostWork, Sound, TimerDue
    <3>2. CASE Delayed \/ Resume \/ Drain \/ Retrace \/ RetraceTask \/ RetraceTimer
      BY <3>2 DEF Delayed, Resume, Drain, Retrace, RetraceTask, RetraceTimer
    <3>3. ~RetraceDeferred
      BY DEF RetraceDeferred, LoopInv, Batch
    <3> QED BY <3>1, <3>2, <3>3 DEF Loop
  <2>2. active' = active /\ ~Suspends
    BY <2>1 DEF DelayTick, Run, cpu
  <2> QED BY <2>2 DEF Suspends
<1>9. at' = "delayed" => budget' = InstructionsPerTick
  <2> SUFFICES ASSUME at' = "delayed" PROVE RetraceDeferred
    BY DEF RetraceDeferred
  <2>1. CASE EndSlice \/ Top \/ HostWork \/ Sound \/ TimerDue
    BY <2>1 DEF EndSlice, Top, HostWork, Sound, TimerDue
  <2>2. CASE DelayTick \/ Run \/ Delayed \/ Resume \/ Drain \/ Retrace \/ RetraceTask \/ RetraceTimer
    BY <2>2 DEF DelayTick, Tick, Run, Delayed, Resume, Drain, Retrace, RetraceTask, RetraceTimer
  <2> QED BY <2>1, <2>2 DEF Loop
<1> QED BY <1>4, <1>6, <1>7, <1>8, <1>9 DEF Batches

\* Every callback of the loop is one of those that were left.
LEMMA LoopPays ==
    ASSUME LoopInv, Stocked, Queues, Batches, Queues', Loop, session' = session
    PROVE  sinceForeground' = 0 \/ sinceForeground' + CallbacksLeft' <= sinceForeground + CallbacksLeft
<1>a. /\ Defs \in Nat /\ TickRounds \in Nat /\ DueRounds \in Nat /\ Owed \in Nat
      /\ FullRounds = TickRounds + Defs + 1 /\ DueRounds + Defs + 1 <= TickRounds /\ Owed <= Defs
      /\ DueRounds' \in Nat /\ Owed' \in Nat
      /\ TickRounds' = TickRounds /\ FullRounds' = FullRounds
      /\ DueRounds' + Defs + 1 <= TickRounds /\ Owed' <= Defs
      /\ sinceForeground \in Nat /\ budget \in Int
  BY Sums, SumsNext DEF Queues
<1>b. /\ soundOnly \in BOOLEAN
      /\ at \in {"retrace", "task", "due", "deferred", "delayed", "drain"} => ~soundOnly
      /\ at \in {"timer", "delay", "resume", "run", "exec"} /\ soundOnly => Suspends
      /\ back \in {"exec", "delayed"}
      /\ at = "retrace" => ~Suspends
      /\ at = "delayed" => budget = InstructionsPerTick
      /\ InstructionsPerTick \in Nat /\ InstructionsPerTick > 1
  BY CallbackAssumption DEF LoopInv, Batch, Batches
<1>c. {"Vbl", "Cursor", "Timer"} \subseteq Interrupts \ {"Deferred"}
  BY DEF Interrupts
<1>d. {"Vbl", "Cursor", "Timer"} \cap Sources = {}
  BY DEF Sources
<1>e. PICK D, T, F, o, o2, d, d2, s \in Nat :
         /\ Defs = D /\ TickRounds = T /\ FullRounds = F /\ Owed = o /\ DueRounds = d
         /\ Owed' = o2 /\ DueRounds' = d2 /\ TickRounds' = T /\ FullRounds' = F /\ Defs' = D
         /\ sinceForeground = s
  <2>1. FullRounds \in Nat
    BY <1>a
  <2>2. Defs' = Defs
    BY DEF Defs
  <2> USE <1>a, <2>1, <2>2
  <2> WITNESS Defs \in Nat, TickRounds \in Nat, FullRounds \in Nat, Owed \in Nat, Owed' \in Nat,
              DueRounds \in Nat, DueRounds' \in Nat, sinceForeground \in Nat
  <2> QED OBVIOUS
<1>f. d2 + D + 1 <= T /\ o2 <= D /\ d + D + 1 <= T /\ o <= D /\ F = T + D + 1
  <2>1. d2 + D + 1 <= T /\ o2 <= D
    BY <1>a, <1>e, Zenon
  <2> QED BY <1>a, <1>e, <2>1
<1>1. CASE EndSlice
  <2>1. /\ at = "top" /\ at' = "top"
        /\ UNCHANGED <<tick, budget, vblTasks, pending, deferred>>
        /\ \/ sinceForeground' = 0
           \/ soundOnly' = FALSE /\ UNCHANGED <<active, sinceForeground>>
    <3>1. PICK fire \in BOOLEAN, next \in BOOLEAN :
             /\ fire => sinceForeground' = 0
             /\ ~fire => active' = active /\ sinceForeground' = IF next THEN 0 ELSE sinceForeground
             /\ soundOnly' = next
      BY <1>1 DEF EndSlice, Inject, Sources, cpu
    <3>2. at = "top" /\ at' = "top" /\ UNCHANGED <<tick, budget, vblTasks, pending, deferred>>
      BY <1>1 DEF EndSlice, time, vbl
    <3> QED BY <3>1, <3>2
  <2>2. CASE soundOnly' = FALSE /\ UNCHANGED <<active, sinceForeground>>
    <3>1. Owed' = Owed /\ DueRounds' = DueRounds /\ (Suspends' <=> Suspends)
      BY <2>1, <2>2, OwesTheSame
    <3> QED BY <1>a, <1>b, <2>1, <2>2, <3>1 DEF CallbacksLeft, Rest, Retracing
  <2> QED BY <2>1, <2>2
<1>2. CASE Top
  <2>1. at = "top" /\ UNCHANGED <<tick, budget, deferred, soundOnly>>
    BY <1>2 DEF Top, time, slice
  <2>2. CASE ~soundOnly /\ VblReady
    <3>1. FirePendingVbl /\ at' = "top" /\ ~Suspends
      BY <1>2, <2>1, <2>2 DEF Top, VblReady
    <3>2. /\ Suspends' /\ Owed' = Defs /\ sinceForeground' = sinceForeground + 1
          /\ DueTasks # {} /\ DueRounds = DueRounds' + Defs + 1
      BY <2>2, <3>1, FirePays
    <3>3. budget = InstructionsPerTick
      BY <2>1, <3>2 DEF Batches, Retracing
    <3>4. CallbacksLeft = F
      BY <1>e, <2>1, <3>1 DEF CallbacksLeft
    <3>5. CallbacksLeft' = d2 + D
      BY <1>b, <1>e, <2>1, <2>2, <3>2, <3>3 DEF CallbacksLeft, Rest
    <3>6. sinceForeground' = s + 1 /\ (s + 1) + (d2 + D) <= s + F
      BY <1>e, <1>f, <3>2
    <3> QED BY <1>e, <3>4, <3>5, <3>6, Zenon
  <2>3. CASE ~(~soundOnly /\ VblReady)
    <3>1. at' = "host" /\ UNCHANGED <<active, sinceForeground, vblTasks, pending>>
      BY <1>2, <2>3 DEF Top, NoCallback, cpu, vbl
    <3>2. Owed' = Owed /\ DueRounds' = DueRounds /\ (Suspends' <=> Suspends)
      BY <2>1, <3>1, OwesTheSame
    <3> QED BY <1>a, <2>1, <3>1, <3>2 DEF CallbacksLeft, Rest, Retracing
  <2> QED BY <2>2, <2>3
<1>3. CASE HostWork \/ Sound
  <2>1. /\ at \in {"host", "sound"} /\ at' \in {"sound", "timer", "top"}
        /\ UNCHANGED <<tick, budget, deferred, vblTasks, pending, soundOnly>>
        /\ sinceForeground' = 0 \/ UNCHANGED <<active, sinceForeground>>
    BY <1>3 DEF HostWork, Sound, Inject, NoCallback, Sources, time, vbl, cpu, slice
  <2>2. CASE UNCHANGED <<active, sinceForeground>>
    <3>1. Owed' = Owed /\ DueRounds' = DueRounds /\ (Suspends' <=> Suspends)
      BY <2>1, <2>2, OwesTheSame
    <3> QED BY <1>a, <2>1, <2>2, <3>1 DEF CallbacksLeft, Rest, Retracing
  <2> QED BY <2>1, <2>2
<1>4. CASE TimerDue
  <2>1. /\ at = "timer" /\ UNCHANGED <<tick, budget, deferred, vblTasks, pending, soundOnly>>
        /\ at' = IF ~Suspends /\ Suspends' THEN "top" ELSE "delay"
        /\ \/ UNCHANGED <<active, sinceForeground>>
           \/ ~Suspends /\ \E x : Inject("Timer", x)
    BY <1>4 DEF TimerDue, FireTimerAt, NoCallback, vbl, cpu, slice
  <2>2. CASE UNCHANGED <<active, sinceForeground>>
    <3>1. Owed' = Owed /\ DueRounds' = DueRounds /\ (Suspends' <=> Suspends)
      BY <2>1, <2>2, OwesTheSame
    <3> QED BY <1>a, <1>b, <2>1, <2>2, <3>1 DEF CallbacksLeft, Rest, Retracing
  <2>3. CASE ~Suspends /\ \E x : Inject("Timer", x)
    <3>1. Suspends' /\ Owed' = Defs
      BY <1>c, <2>3, OwesAll
    <3>2. sinceForeground' = sinceForeground + 1
      BY <1>d, <2>3 DEF Inject
    <3>3. ~soundOnly' /\ at' = "top"
      BY <1>b, <2>1, <2>3, <3>1
    <3>4. CallbacksLeft = F
      BY <1>e, <2>1, <2>3 DEF CallbacksLeft
    <3>5. PICK b \in {T, d2} : CallbacksLeft' = b + D
      BY <1>e, <3>1, <3>3 DEF CallbacksLeft, Rest
    <3>6. sinceForeground' = s + 1 /\ (s + 1) + (b + D) <= s + F
      BY <1>e, <1>f, <3>2, <3>5
    <3> QED BY <1>e, <3>4, <3>5, <3>6, Zenon
  <2> QED BY <2>1, <2>2, <2>3
<1>5. CASE DelayTick
  <2>1. /\ at = "delay" /\ UNCHANGED <<budget, deferred, vblTasks, pending, soundOnly, active, sinceForeground>>
        /\ \/ at' = "resume" /\ tick' = tick
           \/ at' = "retrace" /\ ~Suspends
    BY <1>5 DEF DelayTick, Tick, vbl, cpu, slice
  <2>2. CASE at' = "resume" /\ tick' = tick
    <3>1. Owed' = Owed /\ DueRounds' = DueRounds /\ (Suspends' <=> Suspends)
      BY <2>1, <2>2, OwesTheSame
    <3> QED BY <1>a, <1>b, <2>1, <2>2, <3>1 DEF CallbacksLeft, Rest, Retracing
  <2>3. CASE at' = "retrace" /\ ~Suspends
    <3>1. ~Suspends'
      BY <2>1, <2>3 DEF Suspends
    <3> QED BY <1>a, <2>1, <2>3, <3>1 DEF CallbacksLeft
  <2> QED BY <2>1, <2>2, <2>3
<1>6. CASE Delayed
  <2>1. /\ at = "delayed" /\ at' \in {"delay", "resume"}
        /\ at' = "delay" => ~Suspends
        /\ UNCHANGED <<tick, budget, deferred, vblTasks, pending, soundOnly, active, sinceForeground>>
    BY <1>6 DEF Delayed, time, vbl, slice
  <2>2. Owed' = Owed /\ DueRounds' = DueRounds /\ (Suspends' <=> Suspends)
    BY <2>1, OwesTheSame
  <2> QED BY <1>a, <1>b, <2>1, <2>2 DEF CallbacksLeft, Rest, Retracing
<1>7. CASE Resume
  <2>1. /\ at = "resume" /\ UNCHANGED <<tick, budget, deferred, vblTasks, pending, soundOnly, sinceForeground>>
        /\ \/ active'.source \in {"None", Dialog} /\ at' \in {"drain", "drainDeferred"}
           \/ active' = active /\ at' = "run"
    BY <1>7, ResumeFacts, ResumeKeepsBudget DEF LoopInv, Resume, vbl, slice
  <2>2. CASE active' = active /\ at' = "run"
    <3>1. Owed' = Owed /\ DueRounds' = DueRounds /\ (Suspends' <=> Suspends)
      BY <2>1, <2>2, OwesTheSame
    <3> QED BY <1>a, <2>1, <2>2, <3>1 DEF CallbacksLeft, Rest, Retracing
  <2>3. CASE active'.source \in {"None", Dialog} /\ at' \in {"drain", "drainDeferred"}
    <3>1. ~Suspends'
      BY <2>3 DEF Suspends
    <3>2. ReadyTasks' = ReadyTasks /\ DueRounds' = DueRounds
      BY <2>1 DEF ReadyTasks, DueRounds, DueTasks, Rounds, Defs
    <3>3. Owed' = Cardinality(ReadyTasks)
      BY <3>1, <3>2 DEF Owed
    <3>4. Owed' <= Owed
      <4>1. CASE Suspends /\ active.source # "Deferred"
        BY <1>a, <4>1 DEF Owed
      <4>2. CASE ~(Suspends /\ active.source # "Deferred")
        BY <1>a, <3>3, <4>2 DEF Owed
      <4> QED BY <4>1, <4>2
    <3>5. CallbacksLeft = Rest /\ CallbacksLeft' = Rest'
      BY <2>1, <2>3 DEF CallbacksLeft
    <3>6. ~Retracing /\ ~Retracing' /\ soundOnly' = soundOnly /\ budget' = budget
      BY <2>1, <2>3 DEF Retracing
    <3>7. PICK b \in {F, T, d} : CallbacksLeft = b + o /\ CallbacksLeft' = b + o2
      BY <1>e, <3>2, <3>5, <3>6 DEF Rest
    <3>8. o2 <= o
      BY <1>e, <3>4, Zenon
    <3>9. sinceForeground' = s /\ s + (b + o2) <= s + (b + o)
      BY <1>e, <2>1, <3>7, <3>8
    <3> QED BY <1>e, <3>7, <3>9, Zenon
  <2> QED BY <2>1, <2>2, <2>3
<1>8. CASE Drain
  <2>1. at \in {"drain", "drainDeferred"} /\ UNCHANGED <<tick, budget, soundOnly>>
    BY <1>8 DEF Drain, time, slice
  <2>2. CASE at = "drain" /\ VblReady
    <3>1. FirePendingVbl /\ at' = "top" /\ ~Suspends
      BY <1>8, <2>2 DEF Drain, VblReady
    <3>2. /\ Suspends' /\ Owed' = Defs /\ sinceForeground' = sinceForeground + 1
          /\ DueTasks # {} /\ DueRounds = DueRounds' + Defs + 1
      BY <2>2, <3>1, FirePays
    <3>3. budget = InstructionsPerTick
      BY <2>1, <3>2 DEF Batches, Retracing
    <3>4. CallbacksLeft = d + o
      BY <1>b, <1>e, <2>1, <2>2, <3>3 DEF CallbacksLeft, Rest, Retracing
    <3>5. CallbacksLeft' = d2 + D
      BY <1>b, <1>e, <2>1, <2>2, <3>1, <3>2, <3>3 DEF CallbacksLeft, Rest
    <3>6. d = d2 + D + 1
      BY <1>e, <3>2, Zenon
    <3>7. sinceForeground' = s + 1 /\ (s + 1) + (d2 + D) <= s + (d + o)
      BY <1>e, <3>2, <3>6
    <3> QED BY <1>e, <3>4, <3>5, <3>7, Zenon
  <2>3. CASE ~(at = "drain" /\ VblReady)
    <3>1. /\ UNCHANGED <<vblTasks, pending>>
          /\ IF DeferredReady(tick) THEN FireDeferred /\ at' = "top"
             ELSE /\ UNCHANGED <<deferred, active, sinceForeground>>
                  /\ at' = IF soundOnly THEN "top" ELSE "run"
      BY <1>8, <2>3 DEF Drain, NoCallback, cpu, vbl
    <3>2. CASE DeferredReady(tick)
      <4>1. Suspends' /\ Owed = Owed' + 1 /\ sinceForeground' = sinceForeground + 1
        BY <2>1, <3>1, <3>2, DeferredPays
      <4>2. DueRounds' = DueRounds
        BY <3>1 DEF DueRounds, DueTasks, Rounds, Defs
      <4>3. CallbacksLeft = Rest /\ CallbacksLeft' = Rest'
        BY <2>1, <4>1 DEF CallbacksLeft
      <4>4. ~Retracing /\ ~Retracing' /\ soundOnly' = soundOnly /\ budget' = budget
        BY <2>1, <3>1, <3>2 DEF Retracing
      <4>5. PICK b \in {F, T, d} : CallbacksLeft = b + o /\ CallbacksLeft' = b + o2
        BY <1>e, <4>2, <4>3, <4>4 DEF Rest
      <4>6. o = o2 + 1
        BY <1>e, <4>1, Zenon
      <4>7. sinceForeground' = s + 1 /\ (s + 1) + (b + o2) <= s + (b + o)
        BY <1>e, <4>1, <4>5, <4>6
      <4> QED BY <1>e, <4>5, <4>7, Zenon
    <3>3. CASE ~DeferredReady(tick)
      <4>1. Owed' = Owed /\ DueRounds' = DueRounds /\ (Suspends' <=> Suspends)
        BY <2>1, <3>1, <3>3, OwesTheSame
      <4> QED BY <1>a, <2>1, <3>1, <3>3, <4>1 DEF CallbacksLeft, Rest, Retracing
    <3> QED BY <3>2, <3>3
  <2> QED BY <2>2, <2>3
<1>9. CASE Run
  <2>1. /\ at = "run" /\ UNCHANGED <<deferred, vblTasks, pending, soundOnly, active, sinceForeground>>
        /\ \/ at' = "exec" /\ UNCHANGED <<tick, budget>>
           \/ at' = "retrace" /\ ~Suspends /\ ~soundOnly /\ budget <= 1
    BY <1>9 DEF Run, Tick, vbl, cpu, slice
  <2>2. CASE at' = "exec" /\ UNCHANGED <<tick, budget>>
    <3>1. Owed' = Owed /\ DueRounds' = DueRounds /\ (Suspends' <=> Suspends)
      BY <2>1, <2>2, OwesTheSame
    <3> QED BY <1>a, <2>1, <2>2, <3>1 DEF CallbacksLeft, Rest, Retracing
  <2>3. CASE at' = "retrace" /\ ~Suspends /\ ~soundOnly /\ budget <= 1
    <3>1. ~Suspends'
      BY <2>1, <2>3 DEF Suspends
    <3> QED BY <1>a, <2>1, <2>3, <3>1 DEF CallbacksLeft, Rest, Retracing
  <2> QED BY <2>1, <2>2, <2>3
<1>10. CASE Retrace
  <2>1. /\ at = "retrace" /\ at' = "task" /\ ~Suspends /\ ~soundOnly'
        /\ \/ UNCHANGED <<active, sinceForeground>>
           \/ Inject("Cursor", None)
    BY <1>b, <1>10 DEF Retrace, NoCallback, cpu, slice
  <2>2. CASE UNCHANGED <<active, sinceForeground>>
    <3>1. ~Suspends'
      BY <2>1, <2>2 DEF Suspends
    <3> QED BY <1>a, <2>1, <2>2, <3>1 DEF CallbacksLeft
  <2>3. CASE Inject("Cursor", None)
    <3>1. Suspends' /\ Owed' = Defs
      BY <1>c, <2>3, OwesAll
    <3>2. sinceForeground' = sinceForeground + 1
      BY <1>d, <2>3 DEF Inject
    <3>3. CallbacksLeft = T
      BY <1>e, <2>1 DEF CallbacksLeft
    <3>4. CallbacksLeft' = d2 + D
      BY <1>e, <2>1, <3>1 DEF CallbacksLeft, Rest, Retracing
    <3>5. sinceForeground' = s + 1 /\ (s + 1) + (d2 + D) <= s + T
      BY <1>e, <1>f, <3>2
    <3> QED BY <1>e, <3>3, <3>4, <3>5, Zenon
  <2> QED BY <2>1, <2>2, <2>3
<1>11. CASE RetraceTask
  <2>1. at = "task" /\ at' = "due" /\ UNCHANGED <<tick, budget, deferred, soundOnly>> /\ ~soundOnly
    BY <1>b, <1>11 DEF RetraceTask, time, slice
  <2>2. CASE VblReady
    <3>1. FirePendingVbl /\ ~Suspends
      BY <1>11, <2>2 DEF RetraceTask, VblReady
    <3>2. /\ Suspends' /\ Owed' = Defs /\ sinceForeground' = sinceForeground + 1
          /\ DueRounds = DueRounds' + Defs + 1
      BY <2>2, <3>1, FirePays
    <3>3. CallbacksLeft = T
      BY <1>e, <2>1, <3>1 DEF CallbacksLeft
    <3>4. CallbacksLeft' = d2 + D
      BY <1>e, <2>1, <3>2 DEF CallbacksLeft, Rest, Retracing
    <3>5. sinceForeground' = s + 1 /\ (s + 1) + (d2 + D) <= s + T
      BY <1>e, <1>f, <3>2
    <3> QED BY <1>e, <3>3, <3>4, <3>5, Zenon
  <2>3. CASE ~VblReady
    <3>1. UNCHANGED <<active, sinceForeground, vblTasks, pending>>
      BY <1>11, <2>3 DEF RetraceTask, NoCallback, cpu, vbl
    <3>2. Owed' = Owed /\ DueRounds' = DueRounds /\ (Suspends' <=> Suspends)
      BY <2>1, <3>1, OwesTheSame
    <3> QED BY <1>a, <2>1, <3>1, <3>2 DEF CallbacksLeft, Rest, Retracing
  <2> QED BY <2>2, <2>3
<1>12. CASE RetraceTimer
  <2>1. /\ at = "due" /\ at' = "deferred" /\ UNCHANGED <<tick, budget, deferred, vblTasks, pending, soundOnly>>
        /\ ~soundOnly
        /\ \/ UNCHANGED <<active, sinceForeground>>
           \/ ~Suspends /\ \E x : Inject("Timer", x)
    BY <1>b, <1>12 DEF RetraceTimer, FireTimerAt, NoCallback, vbl, cpu, slice
  <2>2. CASE UNCHANGED <<active, sinceForeground>>
    <3>1. Owed' = Owed /\ DueRounds' = DueRounds /\ (Suspends' <=> Suspends)
      BY <2>1, <2>2, OwesTheSame
    <3> QED BY <1>a, <2>1, <2>2, <3>1 DEF CallbacksLeft, Rest, Retracing
  <2>3. CASE ~Suspends /\ \E x : Inject("Timer", x)
    <3>1. Suspends' /\ Owed' = Defs
      BY <1>c, <2>3, OwesAll
    <3>2. sinceForeground' = sinceForeground + 1
      BY <1>d, <2>3 DEF Inject
    <3>3. CallbacksLeft = T
      BY <1>e, <2>1, <2>3 DEF CallbacksLeft
    <3>4. CallbacksLeft' = d2 + D
      BY <1>e, <2>1, <3>1 DEF CallbacksLeft, Rest, Retracing
    <3>5. sinceForeground' = s + 1 /\ (s + 1) + (d2 + D) <= s + T
      BY <1>e, <1>f, <3>2
    <3> QED BY <1>e, <3>3, <3>4, <3>5, Zenon
  <2> QED BY <2>1, <2>2, <2>3
<1>13. CASE RetraceDeferred
  <2>1. /\ at = "deferred" /\ at' \in {"exec", "delayed"} /\ budget' = InstructionsPerTick
        /\ UNCHANGED <<tick, vblTasks, pending, soundOnly>> /\ ~soundOnly
    BY <1>b, <1>13 DEF RetraceDeferred, vbl, slice
  <2>2. DueRounds' = DueRounds
    BY <2>1 DEF DueRounds, DueTasks, Rounds, Defs
  <2>3. CASE DeferredReady(tick)
    <3>1. FireDeferred /\ ~Suspends
      BY <1>13, <2>3 DEF RetraceDeferred, DeferredReady
    <3>2. Suspends' /\ Owed = Owed' + 1 /\ sinceForeground' = sinceForeground + 1
      BY <2>1, <2>3, <3>1, DeferredPays
    <3>3. CallbacksLeft = T
      BY <1>e, <2>1, <3>1 DEF CallbacksLeft
    <3>4. CallbacksLeft' = d + o2
      BY <1>b, <1>e, <2>1, <2>2, <3>2 DEF CallbacksLeft, Rest, Retracing
    <3>5. o = o2 + 1
      BY <1>e, <3>2, Zenon
    <3>6. sinceForeground' = s + 1 /\ (s + 1) + (d + o2) <= s + T
      BY <1>e, <1>f, <3>2, <3>5
    <3> QED BY <1>e, <3>3, <3>4, <3>6, Zenon
  <2>4. CASE ~DeferredReady(tick)
    <3>1. UNCHANGED <<active, sinceForeground, deferred>>
      BY <1>13, <2>4 DEF RetraceDeferred, NoCallback, cpu
    <3>2. Owed' = Owed /\ (Suspends' <=> Suspends)
      BY <2>1, <3>1, OwesTheSame
    <3> QED BY <1>a, <1>b, <2>1, <2>2, <3>1, <3>2 DEF CallbacksLeft, Rest, Retracing
  <2> QED BY <2>3, <2>4
<1> QED BY <1>1, <1>2, <1>3, <1>4, <1>5, <1>6, <1>7, <1>8, <1>9, <1>10, <1>11, <1>12, <1>13 DEF Loop

\* The guest queues a retrace task for later and a deferred task for the next tick, or in an
\* interrupt callback one that the callback has been charged for.
LEMMA GuestQueues ==
    ASSUME LoopInv, Queues, Batches, Guest, session' = session
    PROVE  /\ Queues' /\ Batches' /\ DueTasks' \subseteq DueTasks
           /\ active.source = "Deferred" => ReadyTasks' = ReadyTasks
<1>a. /\ Custody /\ level \in 0..1
      /\ at = "exec" /\ soundOnly => Suspends
      /\ at = "exec" /\ ~soundOnly /\ ~Suspends => ~Ready
  BY DEF LoopInv, Custody, Batch
<1>1. /\ at = "exec" /\ at' = "top" /\ tick' = tick
      /\ budget' \in {budget, budget - 1} /\ (Suspends => budget' = budget)
      /\ sinceForeground' = IF Suspends THEN sinceForeground ELSE 0
  BY DEF Guest, Instruction, Return, CallFilter, ReadAsync, VRemove, VInstall, SetCount, RmvTime,
     InsTime,
         PrimeTime, DTInstall, SetLevel, Delay, Executes
<1>2. /\ vblTasks' \in Seq(VblTasks) /\ Entries(vblTasks') \subseteq session.vbls
      /\ DueTasks' \subseteq DueTasks
  <2>0. vblTasks \in Seq(VblTasks) /\ Entries(vblTasks) \subseteq session.vbls /\ session.vbls \subseteq VblTasks
    BY CallbackAssumption DEF Queues
  <2>1. CASE UNCHANGED <<vblTasks, pending>>
    BY <2>0, <2>1 DEF DueTasks
  <2>2. CASE \E v \in session.vbls : /\ pending' = pending \ {v}
                                     /\ \/ vblTasks' = Without(vblTasks, v)
                                        \/ vblTasks' = Append(Without(vblTasks, v), v)
    <3>1. PICK v \in session.vbls : /\ pending' = pending \ {v}
                                    /\ \/ vblTasks' = Without(vblTasks, v)
                                       \/ vblTasks' = Append(Without(vblTasks, v), v)
      BY <2>2
    <3>2. PICK q : q = Without(vblTasks, v)
      OBVIOUS
    <3>3. q \in Seq(VblTasks) /\ Entries(q) = Entries(vblTasks) \ {v}
      BY <2>0, <3>2, WithoutProperties
    <3>4. Append(q, v) \in Seq(VblTasks) /\ Entries(Append(q, v)) = Entries(q) \cup {v}
      BY <2>0, <3>3, PushProperties
    <3>5. vblTasks' \in Seq(VblTasks) /\ Entries(vblTasks') \subseteq Entries(vblTasks) \cup {v}
      BY <3>1, <3>2, <3>3, <3>4
    <3> QED BY <2>0, <3>1, <3>5 DEF DueTasks
  <2> QED BY <2>1, <2>2 DEF Guest, Instruction, Return, CallFilter, ReadAsync, VRemove, VInstall,
             SetCount,
              RmvTime, InsTime, PrimeTime, DTInstall, SetLevel, Delay, vbl
<1>3. /\ deferred' \in Seq([task : session.deferred, ready : Nat])
      /\ \A i, j \in DOMAIN deferred' : i # j => deferred'[i].task # deferred'[j].task
      /\ active.source = "Deferred" => ReadyTasks' = ReadyTasks
  <2>0. /\ deferred \in Seq([task : session.deferred, ready : Nat]) /\ tick \in Nat
        /\ \A i, j \in DOMAIN deferred : i # j => deferred[i].task # deferred[j].task
    BY DEF Queues
  <2>1. CASE deferred' = deferred
    BY <1>1, <2>0, <2>1 DEF ReadyTasks
  <2>2. CASE \E d \in session.deferred : DTInstall(d)
    <3>1. PICK d \in session.deferred : DTInstall(d)
      BY <2>2
    <3>2. PICK r \in Nat : /\ r = IF InstalledInInterrupt THEN tick ELSE tick + 1
                           /\ active.source = "Deferred" => r = tick + 1
      BY <2>0 DEF InstalledInInterrupt
    <3>3. PICK e : e = [task |-> d, ready |-> r]
      OBVIOUS
    <3>4. /\ deferred' = Append(deferred, e)
          /\ \A i \in DOMAIN deferred : deferred[i].task # d
      BY <3>1, <3>2, <3>3 DEF DTInstall
    <3>5. e \in [task : session.deferred, ready : Nat] /\ e.task = d /\ e.ready = r
      BY <3>3
    <3>6. PICK n \in Nat : n = Len(deferred) /\ DOMAIN deferred = 1..n
      BY <2>0
    <3>7. /\ deferred' \in Seq([task : session.deferred, ready : Nat])
          /\ DOMAIN deferred' = 1..(n + 1) /\ deferred'[n + 1] = e
          /\ \A i \in 1..n : deferred'[i] = deferred[i]
      BY <2>0, <3>4, <3>5, <3>6
    <3>8. \A i \in 1..(n + 1) : i \in 1..n \/ i = n + 1
      OBVIOUS
    <3>9. \A i, j \in DOMAIN deferred' : i # j => deferred'[i].task # deferred'[j].task
      BY <2>0, <3>4, <3>5, <3>6, <3>7, <3>8
    <3>10. active.source = "Deferred" => ReadyTasks' = ReadyTasks
      <4> SUFFICES ASSUME active.source = "Deferred" PROVE ReadyTasks' = ReadyTasks
        OBVIOUS
      <4>1. ~(e.ready <= tick)
        BY <2>0, <3>2, <3>5
      <4>2. \A i \in DOMAIN deferred' : deferred'[i].ready <= tick => i \in DOMAIN deferred /\ deferred'[i] = deferred[i]
        BY <3>6, <3>7, <3>8, <4>1
      <4>3. \A i \in DOMAIN deferred : i \in DOMAIN deferred' /\ deferred'[i] = deferred[i]
        BY <3>6, <3>7
      <4>4. ReadyTasks' = {deferred'[i].task : i \in {j \in DOMAIN deferred' : deferred'[j].ready <= tick}}
        BY <1>1 DEF ReadyTasks
      <4> QED BY <4>2, <4>3, <4>4 DEF ReadyTasks
    <3> QED BY <3>7, <3>9, <3>10
  <2> QED BY <2>1, <2>2 DEF Guest, Instruction, Return, CallFilter, ReadAsync, VRemove, VInstall,
             SetCount,
              RmvTime, InsTime, PrimeTime, SetLevel, Delay
<1>4. Queues'
  BY <1>1, <1>2, <1>3 DEF Queues
<1>5. ~Suspends => DueTasks = {}
  <2> SUFFICES ASSUME ~Suspends PROVE DueTasks = {}
    OBVIOUS
  <2>1. ~Ready /\ level = foregroundLevel
    BY <1>a, <1>1 DEF Custody
  <2>2. CASE level = 0
    BY <2>1, <2>2 DEF Ready, Pending, DueTasks, Entries
  <2>3. CASE level # 0
    BY <1>a, <2>1, <2>3 DEF Batches
  <2> QED BY <2>2, <2>3
<1>6. foregroundLevel' = foregroundLevel \/ ~Suspends
  BY DEF Guest, Instruction, Return, CallFilter, ReadAsync, VRemove, VInstall, SetCount, RmvTime,
     InsTime,
         PrimeTime, DTInstall, SetLevel, Delay, NoDelay, Suspends, Foreground
<1>7. Batches'
  <2>1. foregroundLevel' > 0 => DueTasks' = {}
    BY <1>2, <1>5, <1>6 DEF Batches
  <2>2. DueTasks' # {} => budget' = InstructionsPerTick
    BY <1>1, <1>2, <1>5 DEF Batches, Retracing
  <2> QED BY <1>1, <2>1, <2>2 DEF Batches
<1> QED BY <1>2, <1>3, <1>4, <1>7

\* A callback's instruction leaves no more than there was.
LEMMA GuestPays ==
    ASSUME LoopInv, Queues, Batches, Queues', Guest, session' = session
    PROVE  sinceForeground' = 0 \/ sinceForeground' + CallbacksLeft' <= sinceForeground + CallbacksLeft
<1>1. /\ at = "exec" /\ at' = "top" /\ tick' = tick /\ soundOnly' = soundOnly
      /\ (Suspends => budget' = budget)
      /\ sinceForeground' = IF Suspends THEN sinceForeground ELSE 0
      /\ Suspends => active' = active
  BY DEF Guest, Instruction, Return, CallFilter, ReadAsync, VRemove, VInstall, SetCount, RmvTime,
     InsTime,
         PrimeTime, DTInstall, SetLevel, Delay, Executes, Continue, slice
<1>2. CASE ~Suspends
  BY <1>1, <1>2
<1>3. CASE Suspends
  <2>1. /\ DueTasks' \subseteq DueTasks
        /\ active.source = "Deferred" => ReadyTasks' = ReadyTasks
    BY GuestQueues
  <2>2. active' = active /\ Suspends'
    BY <1>1, <1>3 DEF Suspends
  <2>3. Defs' = Defs
    BY DEF Defs
  <2>4. Owed' = Owed
    <3>1. CASE active.source # "Deferred"
      BY <1>3, <2>2, <2>3, <3>1 DEF Owed
    <3>2. CASE active.source = "Deferred"
      BY <2>1, <2>2, <3>2 DEF Owed
    <3> QED BY <3>1, <3>2
  <2>5. PICK p, p2 \in Nat : p = Cardinality(DueTasks) /\ p2 = Cardinality(DueTasks') /\ p2 <= p
    <3>1. IsFiniteSet(DueTasks) /\ Cardinality(DueTasks) \in Nat
      BY QueueFacts
    <3>2. PICK A, B : A = DueTasks /\ B = DueTasks'
      OBVIOUS
    <3>3. IsFiniteSet(B) /\ Cardinality(B) <= Cardinality(A)
      BY <2>1, <3>1, <3>2, FS_Subset
    <3>4. Cardinality(B) \in Nat
      BY <3>3, FS_CardinalityType
    <3> QED BY <3>1, <3>2, <3>3, <3>4
  <2>6. PICK d, d2 \in Nat : DueRounds = d /\ DueRounds' = d2 /\ d2 <= d
    <3>1. Rounds(p) \in Nat /\ Rounds(p2) \in Nat /\ Rounds(p2) <= Rounds(p)
      BY <2>5, RoundFacts DEF Queues
    <3>2. DueRounds = Rounds(p) /\ DueRounds' = Rounds(p2)
      BY <2>3, <2>5 DEF DueRounds, Rounds
    <3> QED BY <3>1, <3>2
  <2>7. PICK T, F, o, s \in Nat : /\ TickRounds = T /\ FullRounds = F /\ Owed = o /\ sinceForeground = s
                                  /\ TickRounds' = T /\ FullRounds' = F /\ Owed' = o /\ sinceForeground' = s
    <3>1. TickRounds \in Nat /\ FullRounds \in Nat /\ Owed \in Nat /\ sinceForeground \in Nat
      <4>1. TickRounds \in Nat /\ Defs \in Nat /\ Owed \in Nat /\ FullRounds = TickRounds + Defs + 1
        BY Sums
      <4>2. FullRounds \in Nat
        BY <4>1
      <4> QED BY <4>1, <4>2 DEF Queues
    <3>2. TickRounds' = TickRounds /\ FullRounds' = FullRounds
      BY SumsNext
    <3> QED BY <1>1, <1>3, <2>4, <3>1, <3>2
  <2>8. \/ CallbacksLeft = d + o /\ CallbacksLeft' = d2 + o
        \/ \E b \in {T, F} : CallbacksLeft = b + o /\ CallbacksLeft' = b + o
    BY <1>1, <1>3, <2>2, <2>6, <2>7 DEF CallbacksLeft, Rest, Retracing
  <2>9. CASE CallbacksLeft = d + o /\ CallbacksLeft' = d2 + o
    <3>1. s + (d2 + o) <= s + (d + o)
      BY <2>6
    <3> QED BY <2>7, <2>9, <3>1, Zenon
  <2>10. CASE \E b \in {T, F} : CallbacksLeft = b + o /\ CallbacksLeft' = b + o
    <3>1. PICK b \in {T, F} : CallbacksLeft = b + o /\ CallbacksLeft' = b + o
      BY <2>10
    <3>2. s + (b + o) <= s + (b + o)
      OBVIOUS
    <3> QED BY <2>7, <3>1, <3>2, Zenon
  <2> QED BY <2>8, <2>9, <2>10
<1> QED BY <1>2, <1>3

\* Where every callback is one of those that were left, there are never too many.
LEMMA FedNext ==
    ASSUME Fed, Queues', Batches', session' = session,
           sinceForeground' = 0 \/ sinceForeground' + CallbacksLeft' <= sinceForeground + CallbacksLeft
    PROVE  Fed'
<1>1. (Queues => CallbacksLeft \in Nat /\ CallbacksLeft <= Most)'
  BY LeftFacts, PTL
<1>2. PICK c \in Nat : CallbacksLeft' = c
  BY <1>1
<1>3. PICK a, s, t, n \in Nat : CallbacksLeft = a /\ sinceForeground = s /\ sinceForeground' = t /\ Most = n
  <2>1. CallbacksLeft \in Nat /\ sinceForeground \in Nat /\ sinceForeground' \in Nat
    BY LeftFacts DEF Fed, Queues
  <2>2. Most \in Nat
    BY Sums DEF Fed
  <2> QED BY <2>1, <2>2
<1>4. Most' = n
  BY <1>3 DEF Most
<1>5. t + c <= n
  <2>1. s + a <= n
    BY <1>3 DEF Fed
  <2>2. CASE sinceForeground' = 0
    <3>1. c <= n
      BY <1>1, <1>2, <1>4, Zenon
    <3>2. t = 0
      BY <1>3, <2>2
    <3> QED BY <3>1, <3>2
  <2>3. CASE sinceForeground' + CallbacksLeft' <= sinceForeground + CallbacksLeft
    <3>1. t + c <= s + a
      BY <1>2, <1>3, <2>3, Zenon
    <3> QED BY <2>1, <3>1
  <2> QED BY <2>2, <2>3
<1>6. sinceForeground' + CallbacksLeft' <= Most'
  BY <1>2, <1>3, <1>4, <1>5, Zenon
<1> QED BY <1>6 DEF Fed

\* A machine that has just started owes nothing.
LEMMA InitFed == Init => Fed
<1> SUFFICES ASSUME Init PROVE Fed
  OBVIOUS
<1>1. /\ session \in Sessions /\ tick = 0 /\ budget = InstructionsPerTick /\ sinceForeground = 0
      /\ vblTasks = <<>> /\ deferred = <<>> /\ at = "top" /\ InstructionsPerTick \in Nat
  BY CallbackAssumption DEF Init
<1>2. Entries(vblTasks) = {}
  BY <1>1 DEF Entries
<1>3. Queues
  BY <1>1, <1>2 DEF Queues
<1>4. DueTasks = {}
  BY <1>2 DEF DueTasks
<1>5. Batches
  BY <1>1, <1>4 DEF Batches
<1>6. CallbacksLeft \in Nat /\ CallbacksLeft <= Most
  BY <1>3, LeftFacts
<1> QED BY <1>1, <1>3, <1>5, <1>6 DEF Fed

\* The invariant is inductive.
LEMMA FedStep == ASSUME LoopInv, Stocked, Fed, [Next]_vars PROVE Fed'
<1>1. session' = session
  BY DEF Next, vars
<1>2. Queues /\ Batches
  BY DEF Fed
<1>3. CASE Loop
  <2>1. Queues' /\ Batches'
    BY <1>1, <1>2, <1>3, LoopQueues
  <2> QED BY <1>1, <1>2, <1>3, <2>1, LoopPays, FedNext
<1>4. CASE Guest
  <2>1. Queues' /\ Batches'
    BY <1>1, <1>2, <1>4, GuestQueues
  <2> QED BY <1>1, <1>2, <1>4, <2>1, GuestPays, FedNext
<1>5. CASE HostEvent \/ UNCHANGED vars
  <2>1. UNCHANGED <<session, tick, budget, vblTasks, pending, deferred, active, foregroundLevel, at, soundOnly,
                    sinceForeground>>
    BY <1>1, <1>5 DEF HostEvent, vars, time, vbl, cpu, slice, history
  <2>2. /\ Owed' = Owed /\ DueRounds' = DueRounds /\ DueTasks' = DueTasks /\ (Suspends' <=> Suspends)
    BY <2>1, OwesTheSame
  <2>3. Queues' /\ Batches'
    BY <1>2, <2>1, <2>2 DEF Queues, Batches, Retracing
  <2>4. TickRounds' = TickRounds /\ FullRounds' = FullRounds /\ Most' = Most
    BY <2>1 DEF TickRounds, FullRounds, Rounds, Defs, Most
  <2>5. CallbacksLeft' = CallbacksLeft
    <3>1. Rest' = Rest
      BY <2>1, <2>2, <2>4 DEF Rest, Retracing
    <3> QED BY <2>1, <2>2, <2>4, <3>1 DEF CallbacksLeft
  <2> QED BY <2>1, <2>3, <2>4, <2>5, Zenon DEF Fed
<1> QED BY <1>3, <1>4, <1>5 DEF Next

\* No callback source starves the foreground, with any number of tasks of every kind: between
\* two foreground instructions, or host interrupts and audio-only slices, each retrace task,
\* the cursor task and two timers run at most once, each with its deferred tasks (the offers
\* of run_steps_with_trap_boundary and advance_guest_tick).
THEOREM ForegroundIsNotStarved == Spec => []ForegroundNotStarved
<1>1. Fed => ForegroundNotStarved
  <2> SUFFICES ASSUME Fed PROVE ForegroundNotStarved
    OBVIOUS
  <2>1. Queues /\ sinceForeground \in Nat /\ sinceForeground + CallbacksLeft <= Most
    BY DEF Fed, Queues
  <2>2. CallbacksLeft \in Nat
    BY <2>1, LeftFacts
  <2>3. Most \in Nat
    BY <2>1, Sums
  <2> QED BY <2>1, <2>2, <2>3 DEF ForegroundNotStarved
<1>2. LoopInv /\ Stocked /\ Fed /\ [Next]_vars => Fed'
  BY FedStep
<1> QED BY <1>1, <1>2, InitFed, LoopInvariant, StockedInvariant, PTL DEF Spec
=============================================================================
