----------------------------- MODULE InputChannel -----------------------------
(***************************************************************************)
(* What the window thread may rely on when it hands input to the guest     *)
(* owner: an unbounded channel that delivers in order, each input once,    *)
(* and may only merge a pointer movement with the movement right before it *)
(* that is still undelivered.  DesktopRuntime implements it.               *)
(***************************************************************************)
EXTENDS Naturals, Sequences

CONSTANT Inputs           \* what may be sent: records with a field `kind`

VARIABLES pending,        \* accepted and not yet delivered, oldest first
          delivered       \* the newest delivered input, as a sequence of at most one

channelVars == <<pending, delivered>>

Init == pending = << >> /\ delivered = << >>

Moves(c) == c.kind = "Move"

Accept(c) ==
  /\ pending' = Append(pending, c)
  /\ UNCHANGED delivered

Merge(c) ==
  /\ pending # << >> /\ Moves(c) /\ Moves(pending[Len(pending)])
  /\ pending' = [pending EXCEPT ![Len(pending)] = c]
  /\ UNCHANGED delivered

Deliver ==
  /\ pending # << >>
  /\ delivered' = <<Head(pending)>>
  /\ pending' = Tail(pending)

\* An owner that never delivered anything may be replaced, with its channel.
Reopen ==
  /\ delivered = << >> /\ UNCHANGED delivered
  /\ pending' = << >>

Next == (\E c \in Inputs : Accept(c) \/ Merge(c)) \/ Deliver \/ Reopen

Spec == Init /\ [][Next]_channelVars
===============================================================================
