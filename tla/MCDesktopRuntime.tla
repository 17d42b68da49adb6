-------------------------- MODULE MCDesktopRuntime --------------------------
(* DesktopRuntime in a few kinds of session: what one kind can do is left out  *)
(* of the others, so that their state spaces add up.                           *)
EXTENDS DesktopRuntime

Session(inputs, warps, files, closed, macOS, debugServer) ==
  [inputs |-> inputs, warps |-> warps, files |-> files, closed |-> closed, macOS |-> macOS,
   debugServer |-> debugServer]

\* A user who moves and clicks in a session that nobody closes, a guest that moves the
\* pointer twice, and one that changes files while the process is closed, quit, debugged or
\* restarted from a bundle.
OneOfAKind == {Session(3, 0, FALSE, FALSE, FALSE, FALSE),
               Session(0, 2, FALSE, FALSE, FALSE, FALSE),
               Session(0, 0, TRUE, TRUE, TRUE, TRUE)}

Clicking == {Session(2, 0, FALSE, TRUE, FALSE, FALSE)}
=============================================================================
