--------------------------- MODULE CommandService ---------------------------
(***************************************************************************)
(* What the command path promises to the sessions that use it, with no     *)
(* task, context, descriptor or bus in sight: each command is owed one     *)
(* answer, a command that cannot be answered on the spot waits its turn,   *)
(* and waiting settings are from sessions that have shown the token and    *)
(* reach the device one after the other, in the order they were taken.     *)
(* Commands implements it (Commands!ImplementsService).                    *)
(***************************************************************************)
EXTENDS Naturals, Sequences

CONSTANTS Sessions, Settings, Queries

VARIABLES
  owed,     \* answers each session still has coming
  trusted,  \* sessions that have shown the token
  accepted, \* settings and queries taken and not yet served
  dev       \* the setting the device has

vars == <<owed, trusted, accepted, dev>>

Init ==
  /\ owed = [s \in Sessions |-> 0]
  /\ trusted = {}
  /\ accepted = <<>>
  /\ dev \in Settings

Ask(s) ==
  /\ owed' = [owed EXCEPT ![s] = @ + 1]
  /\ UNCHANGED <<trusted, accepted, dev>>

\* One answer for one command; that of a successful AUTH makes the session trusted.
Answer(s) ==
  /\ owed[s] > 0
  /\ owed' = [owed EXCEPT ![s] = @ - 1]
  /\ trusted' \in {trusted, trusted \cup {s}}
  /\ UNCHANGED <<accepted, dev>>

Accept(s, c) ==
  /\ c \in Settings => s \in trusted
  /\ owed[s] > 0
  /\ accepted' = Append(accepted, [cmd |-> c, by |-> s])
  /\ UNCHANGED <<owed, trusted, dev>>

Apply ==
  /\ accepted # <<>>
  /\ accepted' = Tail(accepted)
  /\ LET c == Head(accepted).cmd IN dev' = IF c \in Settings THEN c ELSE dev
  /\ UNCHANGED <<owed, trusted>>

Next == \/ \E s \in Sessions : Ask(s) \/ Answer(s) \/ \E c \in Settings \cup Queries : Accept(s, c)
        \/ Apply

Spec == Init /\ [][Next]_vars
=============================================================================
