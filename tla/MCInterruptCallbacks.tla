----------------------- MODULE MCInterruptCallbacks -----------------------
(* InterruptCallbacks in a few kinds of session.  What one kind of guest does *)
(* is left out of the others, so that their state spaces add up.              *)
EXTENDS InterruptCallbacks

CONSTANTS v1, v2, t1, t2, d1

Quiet == [vbls |-> {}, timers |-> {}, deferred |-> {}, calls |-> {}, sources |-> {},
          cursor |-> FALSE]

\* Two retrace tasks that install, remove and re-arm each other, sound and audio-only
\* slices, and an application or a handler that masks interrupts.
Retraces == [Quiet EXCEPT !.vbls = {v1, v2}, !.sources = {"Sound"},
                          !.calls = {"VInstall", "VRemove", "SetCount", "SetLevel"}]

\* A retrace task and a deferred task that keep installing themselves, under dialogs.
Deferrals == [Quiet EXCEPT !.vbls = {v1}, !.deferred = {d1},
                           !.calls = {"VInstall", "DTInstall", "Dialog"}]

\* An extended and an ordinary timer that prime themselves and each other, and Delay.
Timing == [Quiet EXCEPT !.vbls = {v1}, !.timers = {t1, t2}, !.cursor = TRUE,
                        !.calls = {"VInstall", "InsTime", "PrimeTime", "RmvTime", "Delay"}]

\* Every kind of host work over a foreground that masks interrupts and runs dialogs.
Hosted == [Quiet EXCEPT !.vbls = {v1}, !.sources = Sources,
                          !.calls = {"VInstall", "ReadAsync", "SetLevel", "Dialog"}]

Everyday == {Retraces, Deferrals, Timing, Hosted}

ReadsFromRetrace  == {[Quiet EXCEPT !.vbls = {v1}, !.calls = {"VInstall", "ReadAsync"}]}
DelaysWithRetrace == {[Quiet EXCEPT !.vbls = {v1}, !.calls = {"VInstall", "Delay"}]}
=============================================================================
