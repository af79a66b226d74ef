--------------------------- MODULE CommandsProofs ---------------------------
(***************************************************************************)
(* Commands: types, that every command is answered exactly once, and that  *)
(* the whole path implements CommandService, for any number of task        *)
(* stacks, descriptors and sessions and any depth of the bus.  The types   *)
(* hold for every host; the rest for hosts that take their answers before  *)
(* they leave (Polite), because a queued command carries only the address  *)
(* of its context: what makes it safe is that its session is still there.  *)
(***************************************************************************)
EXTENDS Commands, FiniteSetTheorems, SequenceTheorems, TLAPS

Ctxs == [by : 0..MaxSessions, authed : BOOLEAN, write : BOOLEAN, fd : Fds \cup {0}]

Live(a)    == pc[a] # "free"
Serving(a) == pc[a] \in {"idle", "dispatch"}

\* A live address has a session of its own, and AUTH is remembered by the context only.
Named ==
  /\ \A a \in Addresses : Live(a) => /\ ctx[a].by \in 1..sessions
                                     /\ ctx[a].authed => ctx[a].by \in authed
  /\ \A a, b \in Addresses : Live(a) /\ Live(b) /\ ctx[a].by = ctx[b].by => a = b

\* What is written through a serving context reaches its session.
Wired ==
  /\ \A a \in Stacks : Live(a) => ctx[a].fd \in Fds /\ fdOwner[ctx[a].fd] = ctx[a].by
  /\ \A a \in Addresses : Serving(a) => ctx[a].write
  /\ pc["ble"] # "nulled" /\ link = IF Live("ble") THEN ctx["ble"].by ELSE 0

Handed == rpc # "idle" => rmsg \in Msgs

\* The session a message is for still has its context.
Current(m) == Serving(m.ctx) /\ ctx[m.ctx].by = m.by

\* No message outlives its session.
Fresh ==
  /\ \A i \in DOMAIN bus : Current(bus[i])
  /\ rpc # "idle" => Current(rmsg)
  /\ rpc = "write" /\ rmsg.ctx \in Stacks => rto = ctx[rmsg.ctx].fd

Base == TypeOK /\ Named /\ Wired /\ Handed

IInv == Base /\ (Polite => Fresh /\ AnsweredOnce)
-----------------------------------------------------------------------------
(***************************************************************************)
(* What the operations write.                                              *)
(***************************************************************************)
LEMMA TypesNamed ==
  TypeOK <=>
    /\ ctx \in [Addresses -> Ctxs]
    /\ pc \in [Addresses -> {"free", "idle", "dispatch", "nulled"}]
    /\ cmd \in [Addresses -> Cmds \cup {"none"}]
    /\ fdOwner \in [Fds -> 0..MaxSessions] /\ link \in 0..MaxSessions
    /\ bus \in Seq(Msgs) /\ Len(bus) <= BusDepth
    /\ rpc \in {"idle", "act", "look", "write"} /\ rmsg \in Msgs \cup {NoMsg}
    /\ rto \in Fds \cup {0}
    /\ dev \in Settings /\ authed \subseteq Ids
    /\ asked \in [Ids -> Nat] /\ answered \in [Ids -> Nat] /\ sessions \in 0..MaxSessions
  BY DEF TypeOK, Ctxs

LEMMA CtxFields ==
  ASSUME TypeOK, NEW a \in Addresses
  PROVE  /\ ctx[a].by \in 0..MaxSessions /\ ctx[a].fd \in Fds \cup {0}
         /\ ctx[a].authed \in BOOLEAN /\ ctx[a].write \in BOOLEAN
<1>1. ctx[a] \in Ctxs
  BY TypesNamed
<1> QED
  BY <1>1, Zenon DEF Ctxs

LEMMA NoCtxIsCtx == NoCtx \in Ctxs
  BY CommandsAssumption DEF NoCtx, Ctxs

LEMMA FreshCtx ==
  ASSUME NEW s \in 0..MaxSessions, NEW f \in Fds
  PROVE  [by |-> s, authed |-> FALSE, write |-> TRUE, fd |-> f] \in Ctxs
  BY Zenon DEF Ctxs

\* The one context of the console, set up for the next session.
LEMMA ConsoleCtx ==
  ASSUME NEW s \in 0..MaxSessions
  PROVE  LET r == [NoCtx EXCEPT !.by = s, !.write = TRUE]
         IN  r \in Ctxs /\ r.by = s /\ r.write = TRUE /\ r.authed = FALSE
  BY Zenon, NoCtxIsCtx DEF Ctxs, NoCtx

LEMMA WriteGone ==
  ASSUME NEW r \in Ctxs
  PROVE  LET q == [r EXCEPT !.write = FALSE]
         IN  q \in Ctxs /\ q.by = r.by /\ q.fd = r.fd /\ q.authed = r.authed
  BY Zenon DEF Ctxs

LEMMA AuthedSet ==
  ASSUME NEW r \in Ctxs, NEW v \in BOOLEAN
  PROVE  LET q == [r EXCEPT !.authed = v]
         IN  /\ q \in Ctxs /\ q.by = r.by /\ q.fd = r.fd /\ q.write = r.write
             /\ q.authed = v
  BY Zenon DEF Ctxs

LEMMA Messages ==
  ASSUME NEW c \in Queued, NEW a \in Addresses, NEW s \in Ids
  PROVE  LET m == [cmd |-> c, ctx |-> a, by |-> s]
         IN  m \in Msgs /\ m.cmd = c /\ m.ctx = a /\ m.by = s
  BY Zenon DEF Msgs

LEMMA MessageFields ==
  ASSUME NEW m \in Msgs
  PROVE  m.cmd \in Queued /\ m.ctx \in Addresses /\ m.by \in Ids
  BY Zenon DEF Msgs

\* Only pc[a] changes, and where it went.
LEMMA GotoEffect ==
  ASSUME TypeOK, NEW a \in Addresses, NEW from, NEW to \in {"free", "idle", "dispatch", "nulled"},
         Goto(a, from, to)
  PROVE  /\ pc[a] = from /\ pc'[a] = to
         /\ \A b \in Addresses \ {a} : pc'[b] = pc[b]
         /\ pc' \in [Addresses -> {"free", "idle", "dispatch", "nulled"}]
  BY TypesNamed DEF Goto

\* A new session has a number of its own.
LEMMA NumberGiven ==
  ASSUME TypeOK, Named, NEW a \in Addresses,
         sessions' = sessions + 1, authed' = authed,
         ctx'[a].by = sessions', ctx'[a].authed = FALSE,
         \A b \in Addresses \ {a} : ctx'[b] = ctx[b],
         \A b \in Addresses \ {a} : pc'[b] = pc[b]
  PROVE  Named'
<1>1. sessions \in Nat
  BY TypesNamed, CommandsAssumption
<1>2. ASSUME NEW b \in Addresses \ {a}, Live(b)'
      PROVE  /\ Live(b) /\ ctx'[b] = ctx[b] /\ ctx'[b].by < sessions'
             /\ ctx'[b].by \in 1..sessions' /\ (ctx'[b].authed => ctx'[b].by \in authed')
  <2>1. Live(b) /\ ctx'[b] = ctx[b]
    BY <1>2 DEF Live
  <2>2. ctx[b].by \in 1..sessions /\ (ctx[b].authed => ctx[b].by \in authed)
    BY <2>1 DEF Named
  <2> QED
    BY <1>1, <2>1, <2>2
<1>3. ASSUME NEW b \in Addresses, NEW c \in Addresses, Live(b)', Live(c)',
             ctx'[b].by = ctx'[c].by
      PROVE  b = c
  BY <1>1, <1>2, <1>3 DEF Named
<1> QED
  BY <1>1, <1>2, <1>3 DEF Named

LEMMA AnswerTyped ==
  ASSUME TypeOK, NEW s, Answer(s)
  PROVE  answered' \in [Ids -> Nat]
<1>1. CASE s \in Ids /\ s # 0
  <2>1. answered[s] + 1 \in Nat
    BY <1>1, TypesNamed
  <2> QED
    BY <1>1, <2>1, TypesNamed DEF Answer
<1>2. CASE s \notin Ids /\ s # 0
  BY <1>2, TypesNamed DEF Answer
<1>3. CASE s = 0
  BY <1>3, TypesNamed DEF Answer
<1> QED
  BY <1>1, <1>2, <1>3

-----------------------------------------------------------------------------
LEMMA InitBase == Init => Base
<1> SUFFICES ASSUME Init PROVE Base
  OBVIOUS
<1> USE DEF Init
<1>1. TypeOK
  <2>1. \A a \in Addresses : ctx[a] = NoCtx
    OBVIOUS
  <2>2. ctx \in [Addresses -> Ctxs]
    BY NoCtxIsCtx
  <2>3. bus \in Seq(Msgs) /\ Len(bus) <= BusDepth
    BY CommandsAssumption
  <2>4. 0 \in 0..MaxSessions
    BY CommandsAssumption
  <2> QED
    BY <2>2, <2>3, <2>4, TypesNamed DEF Settings
<1>2. Named /\ Wired /\ Handed
  BY DEF Named, Wired, Handed, Live, Serving, Addresses
<1> QED
  BY <1>1, <1>2 DEF Base

-----------------------------------------------------------------------------
(***************************************************************************)
(* Base, one operation at a time.                                          *)
(***************************************************************************)
LEMMA AcceptBase ==
  ASSUME Base, NEW a \in Stacks, Accept(a)
  PROVE  Base'
<1>a. TypeOK /\ Named /\ Wired /\ Handed /\ a \in Addresses
  BY DEF Base, Addresses
<1>1. PICK f \in Fds :
        /\ fdOwner[f] = 0
        /\ fdOwner' = [fdOwner EXCEPT ![f] = sessions']
        /\ ctx' = [ctx EXCEPT ![a] = [by |-> sessions', authed |-> FALSE, write |-> TRUE, fd |-> f]]
  BY DEF Accept
<1>2. /\ sessions' = sessions + 1 /\ sessions' \in 1..MaxSessions
      /\ UNCHANGED <<cmd, link, bus, rtr, dev, hist>> /\ Goto(a, "free", "idle")
  BY <1>a, TypesNamed, CommandsAssumption DEF Accept, Connects
<1>3. /\ pc[a] = "free" /\ pc'[a] = "idle"
      /\ \A b \in Addresses \ {a} : pc'[b] = pc[b]
      /\ pc' \in [Addresses -> {"free", "idle", "dispatch", "nulled"}]
  BY <1>a, <1>2, GotoEffect
<1>4. /\ ctx'[a] \in Ctxs /\ ctx' \in [Addresses -> Ctxs]
      /\ ctx'[a].by = sessions' /\ ctx'[a].authed = FALSE /\ ctx'[a].fd = f /\ ctx'[a].write = TRUE
      /\ \A b \in Addresses \ {a} : ctx'[b] = ctx[b]
  BY <1>a, <1>1, <1>2, TypesNamed, FreshCtx
<1>5. TypeOK'
  <2>1. fdOwner' \in [Fds -> 0..MaxSessions]
    BY <1>a, <1>1, <1>2, TypesNamed
  <2> QED
    BY <1>a, <1>2, <1>3, <1>4, <2>1, TypesNamed DEF TypeOK, Ctxs, rtr, hist
<1>6. Named'
  BY <1>a, <1>2, <1>3, <1>4, NumberGiven DEF hist
<1>7. Wired'
  <2>1. \A b \in Stacks : b # a /\ Live(b) => ctx[b].fd # f
    BY <1>a, <1>1 DEF Wired, Named, Addresses
  <2> QED
    BY <1>a, <1>1, <1>2, <1>3, <1>4, <2>1, TypesNamed, CommandsAssumption
       DEF Wired, Live, Serving, Addresses
<1> QED
  BY <1>a, <1>2, <1>5, <1>6, <1>7 DEF Base, Handed, rtr

LEMMA LeaveBase ==
  ASSUME Base, NEW a \in Stacks, Leave(a)
  PROVE  Base'
<1>a. TypeOK /\ Named /\ Wired /\ Handed /\ a \in Addresses
  BY DEF Base, Addresses
<1>1. /\ pc[a] = "idle" /\ pc'[a] = "nulled"
      /\ \A b \in Addresses \ {a} : pc'[b] = pc[b]
      /\ pc' \in [Addresses -> {"free", "idle", "dispatch", "nulled"}]
  BY <1>a, GotoEffect DEF Leave
<1>2. /\ ctx' \in [Addresses -> Ctxs]
      /\ ctx'[a].by = ctx[a].by /\ ctx'[a].authed = ctx[a].authed /\ ctx'[a].fd = ctx[a].fd
      /\ \A b \in Addresses \ {a} : ctx'[b] = ctx[b]
  BY <1>a, TypesNamed, WriteGone DEF Leave
<1>3. TypeOK'
  BY <1>a, <1>1, <1>2, TypesNamed DEF Leave, TypeOK, Ctxs, rtr, hist
<1>4. Named'
  BY <1>a, <1>1, <1>2 DEF Leave, Named, Live, hist
<1>5. Wired'
  BY <1>a, <1>1, <1>2, CommandsAssumption DEF Leave, Wired, Live, Serving, Addresses
<1> QED
  BY <1>a, <1>3, <1>4, <1>5 DEF Base, Handed, Leave, rtr

LEMMA CloseBase ==
  ASSUME Base, NEW a \in Stacks, CloseFd(a)
  PROVE  Base'
<1>a. TypeOK /\ Named /\ Wired /\ Handed /\ a \in Addresses
  BY DEF Base, Addresses
<1>1. /\ pc[a] = "nulled" /\ pc'[a] = "free"
      /\ \A b \in Addresses \ {a} : pc'[b] = pc[b]
      /\ pc' \in [Addresses -> {"free", "idle", "dispatch", "nulled"}]
  BY <1>a, GotoEffect DEF CloseFd
<1>2. /\ fdOwner' \in [Fds -> 0..MaxSessions]
      /\ \A f \in Fds : f # ctx[a].fd => fdOwner'[f] = fdOwner[f]
  BY <1>a, <1>1, TypesNamed, CommandsAssumption DEF CloseFd, Wired, Live
<1>3. TypeOK'
  BY <1>a, <1>1, <1>2 DEF CloseFd, TypeOK, rtr, hist
<1>4. Named'
  BY <1>a, <1>1 DEF CloseFd, Named, Live, hist
<1>5. Wired'
  <2>1. \A b \in Stacks : b # a /\ Live(b) => ctx[b].fd # ctx[a].fd
    BY <1>a, <1>1 DEF Wired, Named, Live, Addresses
  <2> QED
    BY <1>a, <1>1, <1>2, <2>1, CommandsAssumption DEF CloseFd, Wired, Live, Serving, Addresses
<1> QED
  BY <1>a, <1>3, <1>4, <1>5 DEF Base, Handed, CloseFd, rtr

LEMMA ConnectBase ==
  ASSUME Base, BleConnect
  PROVE  Base'
<1>a. TypeOK /\ Named /\ Wired /\ Handed /\ "ble" \in Addresses
  BY DEF Base, Addresses
<1>1. /\ sessions' = sessions + 1 /\ sessions' \in 1..MaxSessions
      /\ UNCHANGED <<cmd, fdOwner, bus, rtr, dev, hist>> /\ link' = sessions'
  BY <1>a, TypesNamed, CommandsAssumption DEF BleConnect, Connects
<1>2. /\ pc["ble"] = "free" /\ pc'["ble"] = "idle"
      /\ \A b \in Addresses \ {"ble"} : pc'[b] = pc[b]
      /\ pc' \in [Addresses -> {"free", "idle", "dispatch", "nulled"}]
  BY <1>a, GotoEffect DEF BleConnect
<1>3. /\ ctx' \in [Addresses -> Ctxs]
      /\ ctx'["ble"].by = sessions' /\ ctx'["ble"].authed = FALSE /\ ctx'["ble"].write = TRUE
      /\ \A b \in Addresses \ {"ble"} : ctx'[b] = ctx[b]
  <2> DEFINE r == [NoCtx EXCEPT !.by = sessions', !.write = TRUE]
  <2>1. r \in Ctxs /\ r.by = sessions' /\ r.write = TRUE /\ r.authed = FALSE
    <3>1. sessions' \in 0..MaxSessions
      BY <1>1
    <3> QED
      BY <3>1, ConsoleCtx, Zenon
  <2>2. ctx' = [ctx EXCEPT !["ble"] = r]
    BY DEF BleConnect
  <2> HIDE DEF r
  <2> QED
    BY <1>a, <2>1, <2>2, TypesNamed
<1>4. TypeOK'
  BY <1>a, <1>1, <1>2, <1>3 DEF TypeOK, Ctxs, rtr, hist
<1>5. Named'
  BY <1>a, <1>1, <1>2, <1>3, NumberGiven DEF hist
<1>6. Wired'
  BY <1>a, <1>1, <1>2, <1>3, CommandsAssumption DEF Wired, Live, Serving, Addresses
<1> QED
  BY <1>a, <1>1, <1>4, <1>5, <1>6 DEF Base, Handed, rtr

LEMMA DisconnectBase ==
  ASSUME Base, BleDisconnect
  PROVE  Base'
<1>a. TypeOK /\ Named /\ Wired /\ Handed /\ "ble" \in Addresses
  BY DEF Base, Addresses
<1>1. /\ pc["ble"] = "idle" /\ pc'["ble"] = "free"
      /\ \A b \in Addresses \ {"ble"} : pc'[b] = pc[b]
      /\ pc' \in [Addresses -> {"free", "idle", "dispatch", "nulled"}]
  BY <1>a, GotoEffect DEF BleDisconnect
<1>2. /\ ctx' \in [Addresses -> Ctxs]
      /\ \A b \in Addresses \ {"ble"} : ctx'[b] = ctx[b]
  BY <1>a, TypesNamed, AuthedSet DEF BleDisconnect
<1>3. TypeOK'
  BY <1>a, <1>1, <1>2, CommandsAssumption DEF BleDisconnect, TypeOK, Ctxs, rtr, hist
<1>4. Named'
  BY <1>a, <1>1, <1>2 DEF BleDisconnect, Named, Live, hist
<1>5. Wired'
  BY <1>a, <1>1, <1>2, CommandsAssumption DEF BleDisconnect, Wired, Live, Serving, Addresses
<1> QED
  BY <1>a, <1>3, <1>4, <1>5 DEF Base, Handed, BleDisconnect, rtr

-----------------------------------------------------------------------------
\* A handler moves its own task and leaves the sessions where they are.
LEMMA TaskMoves ==
  ASSUME Base, NEW a \in Addresses, NEW from \in {"idle", "dispatch"}, NEW to \in {"idle", "dispatch"},
         Goto(a, from, to), UNCHANGED <<fdOwner, link, sessions>>,
         ctx' \in [Addresses -> Ctxs], authed \subseteq authed',
         \A b \in Addresses : /\ ctx'[b].by = ctx[b].by /\ ctx'[b].fd = ctx[b].fd
                              /\ ctx'[b].write = ctx[b].write
                              /\ ctx'[b].authed => ctx[b].authed \/ ctx[b].by \in authed'
  PROVE  /\ pc[a] = from /\ pc'[a] = to /\ \A b \in Addresses \ {a} : pc'[b] = pc[b]
         /\ pc' \in [Addresses -> {"free", "idle", "dispatch", "nulled"}]
         /\ Named' /\ Wired'
<1>a. TypeOK /\ Named /\ Wired
  BY DEF Base
<1>1. /\ pc[a] = from /\ pc'[a] = to /\ \A b \in Addresses \ {a} : pc'[b] = pc[b]
      /\ pc' \in [Addresses -> {"free", "idle", "dispatch", "nulled"}]
  BY <1>a, GotoEffect
<1>2. \A b \in Addresses : (Live(b)' <=> Live(b)) /\ (Serving(b)' <=> Serving(b))
  BY <1>1 DEF Live, Serving
<1>3. Named'
  BY <1>a, <1>2 DEF Named
<1>4. Wired'
  BY <1>a, <1>1, <1>2 DEF Wired, Addresses
<1> QED
  BY <1>1, <1>3, <1>4

LEMMA LineBase ==
  ASSUME Base, NEW a \in Addresses, Line(a)
  PROVE  Base'
<1>a. TypeOK /\ Handed
  BY DEF Base
<1>1. /\ pc' \in [Addresses -> {"free", "idle", "dispatch", "nulled"}] /\ Named' /\ Wired'
  BY <1>a, TaskMoves, TypesNamed DEF Line
<1>2. cmd' \in [Addresses -> Cmds \cup {"none"}]
  BY <1>a, TypesNamed DEF Line
<1>3. asked' \in [Ids -> Nat]
  <2>1. CASE ctx[a].by \in Ids
    <3>1. asked[ctx[a].by] + 1 \in Nat
      BY <1>a, <2>1, TypesNamed
    <3> QED
      BY <1>a, <2>1, <3>1, TypesNamed DEF Line
  <2>2. CASE ctx[a].by \notin Ids
    BY <1>a, <2>2, TypesNamed DEF Line
  <2> QED
    BY <2>1, <2>2
<1>4. TypeOK'
  BY <1>a, <1>1, <1>2, <1>3 DEF Line, TypeOK, rtr
<1> QED
  BY <1>a, <1>1, <1>4 DEF Base, Handed, Line, rtr

\* AUTH with the right token, or any other command.
LEMMA DirectTrusts ==
  ASSUME Base, NEW a \in Addresses, Direct(a)
  PROVE  /\ ctx' \in [Addresses -> Ctxs] /\ authed \subseteq authed' /\ authed' \subseteq Ids
         /\ \A b \in Addresses : /\ ctx'[b].by = ctx[b].by /\ ctx'[b].fd = ctx[b].fd
                                 /\ ctx'[b].write = ctx[b].write
                                 /\ ctx'[b].authed => ctx[b].authed \/ ctx[b].by \in authed'
         /\ authed' \in {authed, authed \cup {ctx[a].by}}
<1>a. TypeOK /\ Named
  BY DEF Base
<1>1. CASE UNCHANGED <<ctx, authed>>
  BY <1>a, <1>1, TypesNamed
<1>2. CASE /\ ctx' = [ctx EXCEPT ![a].authed = TRUE]
           /\ authed' = authed \cup {ctx[a].by}
  <2> DEFINE r == [ctx[a] EXCEPT !.authed = TRUE]
  <2>1. r \in Ctxs /\ r.by = ctx[a].by /\ r.fd = ctx[a].fd /\ r.write = ctx[a].write
    BY <1>a, TypesNamed, AuthedSet
  <2>2. ctx' = [ctx EXCEPT ![a] = r]
    BY <1>2
  <2>3. ctx[a].by \in Ids
    <3>1. pc[a] = "dispatch"
      BY DEF Direct, Goto
    <3>2. ctx[a].by \in 1..sessions /\ sessions \in 0..MaxSessions
      BY <1>a, <3>1, TypesNamed DEF Named, Live
    <3> QED
      BY <3>2, CommandsAssumption DEF Ids
  <2> HIDE DEF r
  <2> QED
    BY <1>a, <1>2, <2>1, <2>2, <2>3, TypesNamed
<1> QED
  BY <1>1, <1>2 DEF Direct

LEMMA DirectBase ==
  ASSUME Base, NEW a \in Addresses, Direct(a)
  PROVE  Base'
<1>a. TypeOK /\ Handed
  BY DEF Base
<1>1. /\ pc' \in [Addresses -> {"free", "idle", "dispatch", "nulled"}] /\ Named' /\ Wired'
  BY <1>a, TaskMoves, DirectTrusts DEF Direct
<1>2. cmd' \in [Addresses -> Cmds \cup {"none"}]
  BY <1>a, TypesNamed DEF Direct
<1>3. answered' \in [Ids -> Nat]
  BY <1>a, AnswerTyped DEF Direct, Reply
<1>4. TypeOK'
  <2>1. ctx' \in [Addresses -> Ctxs] /\ authed' \subseteq Ids
    BY DirectTrusts
  <2> QED
    BY <1>a, <1>1, <1>2, <1>3, <2>1 DEF Direct, TypeOK, Ctxs, rtr
<1> QED
  BY <1>a, <1>1, <1>4 DEF Base, Handed, Direct, rtr

\* What is put on the bus is a message of a session.
LEMMA Queues ==
  ASSUME Base, NEW a \in Addresses, Enqueue(a)
  PROVE  LET m == [cmd |-> cmd[a], ctx |-> a, by |-> ctx[a].by]
         IN  /\ m \in Msgs /\ m.cmd = cmd[a] /\ m.ctx = a /\ m.by = ctx[a].by
             /\ bus \in Seq(Msgs) /\ bus' = Append(bus, m)
             /\ pc[a] = "dispatch" /\ ctx[a].by \in Ids
<1>a. TypeOK /\ Named /\ pc[a] = "dispatch" /\ cmd[a] \in Queued
  BY DEF Base, Enqueue, Goto
<1>1. ctx[a].by \in Ids
  <2>1. ctx[a].by \in 1..sessions /\ sessions \in 0..MaxSessions
    BY <1>a, TypesNamed DEF Named, Live
  <2> QED
    BY <2>1, CommandsAssumption DEF Ids
<1> QED
  BY <1>a, <1>1, Messages, TypesNamed DEF Enqueue, Put

LEMMA EnqueueBase ==
  ASSUME Base, NEW a \in Addresses, Enqueue(a)
  PROVE  Base'
<1>a. TypeOK /\ Handed
  BY DEF Base
<1>1. /\ pc' \in [Addresses -> {"free", "idle", "dispatch", "nulled"}] /\ Named' /\ Wired'
  BY <1>a, TaskMoves, TypesNamed DEF Enqueue
<1>2. cmd' \in [Addresses -> Cmds \cup {"none"}]
  BY <1>a, TypesNamed DEF Enqueue
<1>3. bus' \in Seq(Msgs) /\ Len(bus') <= BusDepth
  <2> DEFINE m == [cmd |-> cmd[a], ctx |-> a, by |-> ctx[a].by]
  <2>1. m \in Msgs /\ bus \in Seq(Msgs) /\ bus' = Append(bus, m) /\ Len(bus) < BusDepth
    BY Queues DEF Enqueue
  <2> HIDE DEF m
  <2> QED
    BY <2>1, CommandsAssumption
<1>4. TypeOK'
  BY <1>a, <1>1, <1>2, <1>3 DEF Enqueue, TypeOK, rtr
<1> QED
  BY <1>a, <1>1, <1>4 DEF Base, Handed, Enqueue, rtr

LEMMA BusFullBase ==
  ASSUME Base, NEW a \in Addresses, BusFull(a)
  PROVE  Base'
<1>a. TypeOK /\ Handed
  BY DEF Base
<1>1. /\ pc' \in [Addresses -> {"free", "idle", "dispatch", "nulled"}] /\ Named' /\ Wired'
  BY <1>a, TaskMoves, TypesNamed DEF BusFull
<1>2. cmd' \in [Addresses -> Cmds \cup {"none"}]
  BY <1>a, TypesNamed DEF BusFull
<1>3. answered' \in [Ids -> Nat]
  BY <1>a, AnswerTyped DEF BusFull, Reply
<1>4. TypeOK'
  BY <1>a, <1>1, <1>2, <1>3 DEF BusFull, TypeOK, rtr
<1> QED
  BY <1>a, <1>1, <1>4 DEF Base, Handed, BusFull, rtr

\* The message at the head of the bus.
LEMMA Receives ==
  ASSUME TypeOK, bus # <<>>
  PROVE  /\ Head(bus) \in Msgs /\ Tail(bus) \in Seq(Msgs) /\ Len(Tail(bus)) < Len(bus)
         /\ 1 \in DOMAIN bus /\ Head(bus) = bus[1]
  BY TypesNamed

LEMMA RouterBase ==
  ASSUME Base, R
  PROVE  Base'
<1>a. TypeOK /\ Named /\ Wired /\ Handed
  BY DEF Base
<1>b. UNCHANGED rFrame
  BY DEF R, RReceive, RAct, RLook, RWrite
<1>1. Named' /\ Wired'
  BY <1>a, <1>b DEF rFrame, Named, Wired, Live, Serving
<1>2. CASE RReceive
  <2>1. bus' \in Seq(Msgs) /\ Len(bus') <= BusDepth /\ rmsg' \in Msgs
    BY <1>a, <1>2, Receives, TypesNamed, CommandsAssumption DEF RReceive
  <2> QED
    BY <1>a, <1>1, <1>2, <2>1 DEF RReceive, rFrame, Base, TypeOK, Handed
<1>3. CASE RAct
  BY <1>a, <1>1, <1>3 DEF RAct, rFrame, Base, TypeOK, Handed
<1>4. CASE RLook
  <2>1. rmsg.ctx \in Addresses
    BY <1>a, <1>4, MessageFields DEF RLook, Handed
  <2>2. rto' \in Fds \cup {0}
    BY <1>a, <1>4, <2>1, CtxFields DEF RLook, TypeOK
  <2> QED
    BY <1>a, <1>1, <1>4, <2>2 DEF RLook, rFrame, Base, TypeOK, Handed
<1>5. CASE RWrite
  <2>1. answered' \in [Ids -> Nat]
    BY <1>a, <1>5, AnswerTyped DEF RWrite
  <2> QED
    BY <1>a, <1>1, <1>5, <2>1 DEF RWrite, rFrame, Base, TypeOK, Handed
<1> QED
  BY <1>2, <1>3, <1>4, <1>5 DEF R

LEMMA BaseStays == Base /\ [Next]_vars => Base'
<1> SUFFICES ASSUME Base, [Next]_vars PROVE Base'
  OBVIOUS
<1>1. CASE UNCHANGED vars
  BY <1>1 DEF vars, hist, rtr, Base, TypeOK, Named, Wired, Handed, Live, Serving
<1>2. CASE \E a \in Stacks : Accept(a) \/ Leave(a) \/ CloseFd(a)
  BY <1>2, AcceptBase, LeaveBase, CloseBase
<1>3. CASE \E a \in Addresses : Line(a) \/ Direct(a) \/ Enqueue(a) \/ BusFull(a)
  BY <1>3, LineBase, DirectBase, EnqueueBase, BusFullBase
<1> QED
  BY <1>1, <1>2, <1>3, ConnectBase, DisconnectBase, RouterBase DEF Next

-----------------------------------------------------------------------------
(***************************************************************************)
(* Counting the answers a session still has coming.                        *)
(***************************************************************************)
Asking(s) == {a \in Addresses : pc[a] = "dispatch" /\ ctx[a].by = s}
InBus(q, s) == {i \in DOMAIN q : q[i].by = s}
InHand(s) == IF rpc # "idle" /\ rmsg.by = s THEN 1 ELSE 0

LEMMA PendingParts ==
  ASSUME NEW s
  PROVE  Pending(s) = Cardinality(Asking(s)) + Cardinality(InBus(bus, s)) + InHand(s)
  BY DEF Pending, Asking, InBus, InHand

LEMMA InBusFinite ==
  ASSUME NEW q \in Seq(Msgs), NEW s
  PROVE  /\ IsFiniteSet(InBus(q, s)) /\ Cardinality(InBus(q, s)) \in Nat
         /\ Cardinality(InBus(q, s)) = 0 <=> InBus(q, s) = {}
<1>1. IsFiniteSet(1..Len(q))
  BY FS_Interval
<1>2. InBus(q, s) \in SUBSET (1..Len(q))
  BY DEF InBus
<1>3. IsFiniteSet(InBus(q, s))
  BY <1>1, <1>2, FS_Subset
<1> QED
  BY <1>3, FS_CardinalityType, FS_EmptySet

LEMMA InBusAppend ==
  ASSUME NEW q \in Seq(Msgs), NEW m \in Msgs, NEW s
  PROVE  Cardinality(InBus(Append(q, m), s))
           = Cardinality(InBus(q, s)) + (IF m.by = s THEN 1 ELSE 0)
<1> DEFINE n == Len(q) + 1
<1>1. CASE m.by = s
  <2>1. InBus(Append(q, m), s) = InBus(q, s) \cup {n}
    BY <1>1 DEF InBus
  <2>2. n \notin InBus(q, s)
    BY DEF InBus
  <2>3. IsFiniteSet(InBus(q, s)) /\ Cardinality(InBus(q, s)) \in Nat
    BY InBusFinite
  <2>4. Cardinality(InBus(q, s) \cup {n}) = Cardinality(InBus(q, s)) + 1
    BY <2>2, <2>3, FS_AddElement
  <2> QED
    BY <1>1, <2>1, <2>4
<1>2. CASE m.by # s
  <2>1. InBus(Append(q, m), s) = InBus(q, s)
    BY <1>2 DEF InBus
  <2> QED
    BY <1>2, <2>1, InBusFinite
<1> QED
  BY <1>1, <1>2

LEMMA InBusTail ==
  ASSUME NEW q \in Seq(Msgs), q # <<>>, NEW s
  PROVE  Cardinality(InBus(q, s))
           = Cardinality(InBus(Tail(q), s)) + (IF Head(q).by = s THEN 1 ELSE 0)
<1> DEFINE S == InBus(Tail(q), s)
           T == InBus(q, s) \ {1}
           f == [i \in S |-> i + 1]
<1>1. IsFiniteSet(S) /\ Cardinality(S) \in Nat
  <2>1. Tail(q) \in Seq(Msgs)
    OBVIOUS
  <2> QED
    BY <2>1, InBusFinite
<1>2. \A i \in S : i \in 1..(Len(q) - 1) /\ i + 1 \in T
  BY DEF InBus
<1>3. \A j \in T : j \in 2..Len(q) /\ j - 1 \in S
  BY DEF InBus
<1>4. f \in Bijection(S, T)
  <2>1. f \in [S -> T]
    BY <1>2
  <2>2. \A i, j \in S : f[i] = f[j] => i = j
    BY <1>2
  <2>3. \A j \in T : \E i \in S : f[i] = j
    BY <1>3
  <2> QED
    BY <2>1, <2>2, <2>3 DEF Bijection, Injection, Surjection, IsInjective
<1>5. Cardinality(T) = Cardinality(S) /\ IsFiniteSet(T)
  BY <1>1, <1>4, FS_Bijection DEF ExistsBijection
<1>6. 1 \in InBus(q, s) <=> Head(q).by = s
  BY DEF InBus
<1>7. IsFiniteSet(InBus(q, s)) /\ Cardinality(InBus(q, s)) \in Nat
  BY InBusFinite
<1>8. Cardinality(T) = IF 1 \in InBus(q, s) THEN Cardinality(InBus(q, s)) - 1
                                            ELSE Cardinality(InBus(q, s))
  BY <1>7, FS_RemoveElement
<1> QED
  BY <1>1, <1>5, <1>6, <1>7, <1>8

\* At most one task handles a command of session s.
LEMMA AskingOnce ==
  ASSUME Named, NEW s
  PROVE  IsFiniteSet(Asking(s)) /\ Cardinality(Asking(s)) \in {0, 1}
<1>1. ASSUME NEW a \in Addresses, pc[a] = "dispatch", ctx[a].by = s
      PROVE  IsFiniteSet(Asking(s)) /\ Cardinality(Asking(s)) = 1
  <2>1. Asking(s) = {a}
    BY <1>1 DEF Named, Live, Asking
  <2> QED
    BY <2>1, FS_Singleton
<1>2. ASSUME \A a \in Addresses : pc[a] = "dispatch" => ctx[a].by # s
      PROVE  IsFiniteSet(Asking(s)) /\ Cardinality(Asking(s)) = 0
  <2>1. Asking(s) = {}
    BY <1>2 DEF Asking
  <2> QED
    BY <2>1, FS_EmptySet
<1> QED
  BY <1>1, <1>2

\* With nothing owed, no task and no message is at work for s.
LEMMA NothingPending ==
  ASSUME Base, AnsweredOnce, NEW s \in Ids, asked[s] = answered[s]
  PROVE  /\ \A i \in DOMAIN bus : bus[i].by # s
         /\ rpc # "idle" => rmsg.by # s
<1>1. Cardinality(InBus(bus, s)) \in Nat /\ Cardinality(Asking(s)) \in Nat /\ InHand(s) \in Nat
  <2>1. bus \in Seq(Msgs) /\ Named
    BY TypesNamed DEF Base
  <2>2. Cardinality(Asking(s)) \in {0, 1}
    BY <2>1, AskingOnce
  <2> QED
    BY <2>1, <2>2, InBusFinite DEF InHand
<1>2. asked[s] \in Nat /\ asked[s] = asked[s] + Pending(s)
  BY TypesNamed DEF Base, AnsweredOnce
<1>3. Cardinality(InBus(bus, s)) = 0 /\ InHand(s) = 0
  BY <1>1, <1>2, PendingParts
<1>4. InBus(bus, s) = {}
  BY <1>3, InBusFinite, TypesNamed DEF Base
<1> QED
  BY <1>3, <1>4 DEF InBus, InHand

\* What one command of one task adds, and what its end takes away.
LEMMA TaskCounts ==
  ASSUME Base, NEW a \in Addresses, NEW s,
         \A b \in Addresses \ {a} : pc'[b] = pc[b],
         \A b \in Addresses : ctx'[b].by = ctx[b].by
  PROVE  /\ pc[a] = "idle" /\ pc'[a] = "dispatch" =>
              Cardinality(Asking(s)') = Cardinality(Asking(s)) + (IF ctx[a].by = s THEN 1 ELSE 0)
         /\ pc[a] = "dispatch" /\ pc'[a] = "idle" =>
              Cardinality(Asking(s)') = Cardinality(Asking(s)) - (IF ctx[a].by = s THEN 1 ELSE 0)
<1>1. IsFiniteSet(Asking(s)) /\ Cardinality(Asking(s)) \in {0, 1}
  BY AskingOnce DEF Base
<1>2. ASSUME pc[a] = "idle", pc'[a] = "dispatch"
      PROVE  Cardinality(Asking(s)') = Cardinality(Asking(s)) + (IF ctx[a].by = s THEN 1 ELSE 0)
  <2>1. a \notin Asking(s)
    BY <1>2 DEF Asking
  <2>2. Asking(s)' = IF ctx[a].by = s THEN Asking(s) \cup {a} ELSE Asking(s)
    BY <1>2 DEF Asking
  <2>3. Cardinality(Asking(s) \cup {a}) = Cardinality(Asking(s)) + 1
    BY <1>1, <2>1, FS_AddElement
  <2> QED
    BY <1>1, <2>2, <2>3
<1>3. ASSUME pc[a] = "dispatch", pc'[a] = "idle"
      PROVE  Cardinality(Asking(s)') = Cardinality(Asking(s)) - (IF ctx[a].by = s THEN 1 ELSE 0)
  <2>1. a \in Asking(s) <=> ctx[a].by = s
    BY <1>3 DEF Asking
  <2>2. Asking(s)' = IF ctx[a].by = s THEN Asking(s) \ {a} ELSE Asking(s)
    BY <1>3 DEF Asking
  <2>3. a \in Asking(s) => Cardinality(Asking(s) \ {a}) = Cardinality(Asking(s)) - 1
    BY <1>1, FS_RemoveElement
  <2> QED
    BY <1>1, <2>1, <2>2, <2>3
<1> QED
  BY <1>2, <1>3

\* All the numbers of session s, before and after a step.
LEMMA Numbers ==
  ASSUME Base, NEW s \in Ids
  PROVE  /\ Cardinality(Asking(s)) \in Nat /\ Cardinality(InBus(bus, s)) \in Nat /\ InHand(s) \in Nat
         /\ asked[s] \in Nat /\ answered[s] \in Nat
         /\ Pending(s) = Cardinality(Asking(s)) + Cardinality(InBus(bus, s)) + InHand(s)
         /\ Pending(s)' = Cardinality(Asking(s)') + Cardinality(InBus(bus', s)) + InHand(s)'
<1>1. bus \in Seq(Msgs) /\ Named /\ asked[s] \in Nat /\ answered[s] \in Nat
  BY TypesNamed DEF Base
<1>2. Cardinality(Asking(s)) \in {0, 1}
  BY <1>1, AskingOnce
<1>3. Cardinality(InBus(bus, s)) \in Nat
  BY <1>1, InBusFinite
<1>4. Pending(s)' = Cardinality(Asking(s)') + Cardinality(InBus(bus', s)) + InHand(s)'
  BY DEF Pending, Asking, InBus, InHand
<1> QED
  BY <1>1, <1>2, <1>3, <1>4, PendingParts DEF InHand

-----------------------------------------------------------------------------
(***************************************************************************)
(* Fresh and AnsweredOnce, one operation at a time.                        *)
(***************************************************************************)
\* Sessions come and go where no message is waiting.
LEMMA SessionMoves ==
  ASSUME Base, Fresh, AnsweredOnce, NEW a \in Addresses,
         pc[a] # "dispatch", pc'[a] # "dispatch",
         \A b \in Addresses \ {a} : pc'[b] = pc[b],
         \A b \in Addresses \ {a} : ctx'[b] = ctx[b],
         UNCHANGED <<bus, rtr, asked, answered>>,
         \A i \in DOMAIN bus : bus[i].ctx # a,
         rpc # "idle" => rmsg.ctx # a
  PROVE  Fresh' /\ AnsweredOnce'
<1>1. \A i \in DOMAIN bus : bus[i].ctx \in Addresses \ {a}
  <2>1. \A i \in DOMAIN bus : bus[i] \in Msgs
    BY TypesNamed DEF Base
  <2> QED
    BY <2>1, MessageFields
<1>2. rpc # "idle" => rmsg.ctx \in Addresses \ {a}
  BY MessageFields DEF Base, Handed
<1>3. Fresh'
  <2>1. \A b \in Addresses \ {a} : Serving(b)' <=> Serving(b)
    BY DEF Serving
  <2>2. \A i \in DOMAIN bus : Current(bus[i])'
    BY <1>1, <2>1 DEF Fresh, Current, rtr
  <2>3. rpc # "idle" => Current(rmsg)'
    BY <1>2, <2>1 DEF Fresh, Current, rtr
  <2> QED
    BY <1>2, <2>2, <2>3 DEF Fresh, rtr, Addresses
<1>4. ASSUME NEW s \in Ids
      PROVE  asked'[s] = answered'[s] + Pending(s)'
  <2>1. Asking(s)' = Asking(s) /\ InHand(s)' = InHand(s)
    BY DEF Asking, InHand, rtr
  <2> QED
    BY <2>1, Numbers DEF AnsweredOnce
<1> QED
  BY <1>3, <1>4 DEF AnsweredOnce

\* The session at a has all its answers: no message is for it.
LEMMA NoneWaits ==
  ASSUME Base, Fresh, AnsweredOnce, Polite, NEW a \in Addresses, Live(a), MayLeave(ctx[a].by)
  PROVE  /\ \A i \in DOMAIN bus : bus[i].ctx # a
         /\ rpc # "idle" => rmsg.ctx # a
<1>1. ctx[a].by \in Ids
  <2>1. ctx[a].by \in 1..sessions /\ sessions \in 0..MaxSessions
    BY TypesNamed DEF Base, Named
  <2> QED
    BY <2>1, CommandsAssumption DEF Ids
<1>2. /\ \A i \in DOMAIN bus : bus[i].by # ctx[a].by
      /\ rpc # "idle" => rmsg.by # ctx[a].by
  BY <1>1, NothingPending DEF MayLeave
<1> QED
  BY <1>2 DEF Fresh, Current

\* No message is for an address nobody serves.
LEMMA NoneForTheFree ==
  ASSUME Fresh, NEW a \in Addresses, ~Serving(a)
  PROVE  /\ \A i \in DOMAIN bus : bus[i].ctx # a
         /\ rpc # "idle" => rmsg.ctx # a
  BY DEF Fresh, Current

LEMMA SessionsPrompt ==
  ASSUME Base, Fresh, AnsweredOnce, Polite,
         \/ \E a \in Stacks : Accept(a) \/ Leave(a) \/ CloseFd(a)
         \/ BleConnect \/ BleDisconnect
  PROVE  Fresh' /\ AnsweredOnce'
<1>a. TypeOK /\ Stacks \subseteq Addresses /\ "ble" \in Addresses
  BY DEF Base, Addresses
<1> USE DEF hist
<1>1. ASSUME NEW a \in Stacks, Accept(a)
      PROVE  Fresh' /\ AnsweredOnce'
  <2>1. /\ pc[a] = "free" /\ pc'[a] = "idle"
        /\ \A b \in Addresses \ {a} : pc'[b] = pc[b]
    BY <1>a, <1>1, GotoEffect DEF Accept
  <2>2. \A b \in Addresses \ {a} : ctx'[b] = ctx[b]
    BY <1>a, <1>1, TypesNamed DEF Accept
  <2>3. UNCHANGED <<bus, rtr, asked, answered>>
    BY <1>1 DEF Accept
  <2> QED
    BY <1>a, <2>1, <2>2, <2>3, NoneForTheFree, SessionMoves DEF Serving
<1>2. ASSUME NEW a \in Stacks, Leave(a)
      PROVE  Fresh' /\ AnsweredOnce'
  <2>1. /\ pc[a] = "idle" /\ pc'[a] = "nulled"
        /\ \A b \in Addresses \ {a} : pc'[b] = pc[b]
    BY <1>a, <1>2, GotoEffect DEF Leave
  <2>2. \A b \in Addresses \ {a} : ctx'[b] = ctx[b]
    BY <1>a, <1>2, TypesNamed DEF Leave
  <2>3. UNCHANGED <<bus, rtr, asked, answered>> /\ MayLeave(ctx[a].by)
    BY <1>2 DEF Leave
  <2> QED
    BY <1>a, <2>1, <2>2, <2>3, NoneWaits, SessionMoves DEF Live
<1>3. ASSUME NEW a \in Stacks, CloseFd(a)
      PROVE  Fresh' /\ AnsweredOnce'
  <2>1. /\ pc[a] = "nulled" /\ pc'[a] = "free"
        /\ \A b \in Addresses \ {a} : pc'[b] = pc[b]
    BY <1>a, <1>3, GotoEffect DEF CloseFd
  <2>2. UNCHANGED <<ctx, bus, rtr, asked, answered>>
    BY <1>3 DEF CloseFd
  <2> QED
    BY <1>a, <2>1, <2>2, NoneForTheFree, SessionMoves DEF Serving
<1>4. ASSUME BleConnect
      PROVE  Fresh' /\ AnsweredOnce'
  <2>1. /\ pc["ble"] = "free" /\ pc'["ble"] = "idle"
        /\ \A b \in Addresses \ {"ble"} : pc'[b] = pc[b]
    BY <1>a, <1>4, GotoEffect DEF BleConnect
  <2>2. \A b \in Addresses \ {"ble"} : ctx'[b] = ctx[b]
    BY <1>a, <1>4, TypesNamed DEF BleConnect
  <2>3. UNCHANGED <<bus, rtr, asked, answered>>
    BY <1>4 DEF BleConnect
  <2> QED
    BY <1>a, <2>1, <2>2, <2>3, NoneForTheFree, SessionMoves DEF Serving
<1>5. ASSUME BleDisconnect
      PROVE  Fresh' /\ AnsweredOnce'
  <2>1. /\ pc["ble"] = "idle" /\ pc'["ble"] = "free"
        /\ \A b \in Addresses \ {"ble"} : pc'[b] = pc[b]
    BY <1>a, <1>5, GotoEffect DEF BleDisconnect
  <2>2. \A b \in Addresses \ {"ble"} : ctx'[b] = ctx[b]
    BY <1>a, <1>5, TypesNamed DEF BleDisconnect
  <2>3. UNCHANGED <<bus, rtr, asked, answered>> /\ MayLeave(link)
    BY <1>5 DEF BleDisconnect
  <2>4. link = ctx["ble"].by
    BY <2>1 DEF Base, Wired, Live
  <2> QED
    BY <1>a, <2>1, <2>2, <2>3, <2>4, NoneWaits, SessionMoves DEF Live
<1> QED
  BY <1>1, <1>2, <1>3, <1>4, <1>5

\* A task's own answer goes to its session.
LEMMA ReplyReaches ==
  ASSUME Base, NEW a \in Addresses, Live(a), Reply(a)
  PROVE  /\ ctx[a].by \in Ids /\ ctx[a].by # 0
         /\ answered' = [answered EXCEPT ![ctx[a].by] = @ + 1]
<1>1. ctx[a].by \in Ids /\ ctx[a].by # 0
  <2>1. ctx[a].by \in 1..sessions /\ sessions \in 0..MaxSessions
    BY TypesNamed DEF Base, Named
  <2> QED
    BY <2>1, CommandsAssumption DEF Ids
<1>2. (IF a = "ble" THEN link ELSE fdOwner[ctx[a].fd]) = ctx[a].by
  BY DEF Base, Wired, Addresses
<1> DEFINE t == IF a = "ble" THEN link ELSE fdOwner[ctx[a].fd]
<1>3. answered' = IF t = 0 THEN answered ELSE [answered EXCEPT ![t] = @ + 1]
  BY DEF Reply, Answer
<1>4. t = ctx[a].by
  BY <1>2
<1> HIDE DEF t
<1> QED
  BY <1>1, <1>3, <1>4

\* While a task handles its commands nothing it has queued goes stale.
LEMMA MessagesKept ==
  ASSUME Base, Fresh,
         \A b \in Addresses : (Serving(b)' <=> Serving(b)) /\ ctx'[b].by = ctx[b].by,
         NEW m \in Msgs
  PROVE  Current(m) => Current(m)'
  BY MessageFields DEF Current

LEMMA TaskFresh ==
  ASSUME Base, Fresh, NEW a \in Addresses, pc[a] \in {"idle", "dispatch"},
         pc'[a] \in {"idle", "dispatch"}, \A b \in Addresses \ {a} : pc'[b] = pc[b],
         \A b \in Addresses : ctx'[b].by = ctx[b].by /\ ctx'[b].fd = ctx[b].fd,
         UNCHANGED <<bus, rtr>>
  PROVE  Fresh'
<1>1. \A b \in Addresses : (Serving(b)' <=> Serving(b)) /\ ctx'[b].by = ctx[b].by
  BY DEF Serving
<1>2. /\ \A i \in DOMAIN bus : bus[i] \in Msgs
      /\ rpc # "idle" => rmsg \in Msgs
  BY TypesNamed DEF Base, Handed
<1>3. \A i \in DOMAIN bus : Current(bus[i])'
  BY <1>1, <1>2, MessagesKept DEF Fresh, rtr
<1>4. rpc # "idle" => Current(rmsg)'
  BY <1>1, <1>2, MessagesKept DEF Fresh, rtr
<1>5. rpc = "write" /\ rmsg.ctx \in Stacks => rto = ctx'[rmsg.ctx].fd
  BY DEF Fresh, Addresses
<1> QED
  BY <1>3, <1>4, <1>5 DEF Fresh, rtr

LEMMA LinePrompt ==
  ASSUME Base, Fresh, AnsweredOnce, NEW a \in Addresses, Line(a)
  PROVE  Fresh' /\ AnsweredOnce'
<1>a. TypeOK
  BY DEF Base
<1>1. /\ pc[a] = "idle" /\ pc'[a] = "dispatch" /\ \A b \in Addresses \ {a} : pc'[b] = pc[b]
      /\ UNCHANGED <<ctx, bus, rtr, answered>>
  BY <1>a, GotoEffect DEF Line
<1>2. Fresh'
  BY <1>1, TaskFresh
<1>3. ASSUME NEW s \in Ids
      PROVE  asked'[s] = answered'[s] + Pending(s)'
  <2>1. asked'[s] = asked[s] + (IF ctx[a].by = s THEN 1 ELSE 0)
    BY <1>a, TypesNamed DEF Line
  <2>2. Cardinality(Asking(s)') = Cardinality(Asking(s)) + (IF ctx[a].by = s THEN 1 ELSE 0)
    BY <1>1, TaskCounts
  <2>3. InHand(s)' = InHand(s)
    BY <1>1 DEF InHand, rtr
  <2> QED
    BY <1>1, <2>1, <2>2, <2>3, Numbers DEF AnsweredOnce
<1> QED
  BY <1>2, <1>3 DEF AnsweredOnce

\* Answered by the task itself: DENIED, PONG, AUTH, or BUSY.
LEMMA ReplyPrompt ==
  ASSUME Base, Fresh, AnsweredOnce, NEW a \in Addresses, Reply(a),
         Goto(a, "dispatch", "idle"), UNCHANGED <<bus, rtr, asked>>,
         \A b \in Addresses : ctx'[b].by = ctx[b].by /\ ctx'[b].fd = ctx[b].fd
  PROVE  Fresh' /\ AnsweredOnce'
<1>a. TypeOK
  BY DEF Base
<1>1. /\ pc[a] = "dispatch" /\ pc'[a] = "idle" /\ \A b \in Addresses \ {a} : pc'[b] = pc[b]
  BY <1>a, GotoEffect
<1>2. Fresh'
  BY <1>1, TaskFresh
<1>3. ASSUME NEW s \in Ids
      PROVE  asked'[s] = answered'[s] + Pending(s)'
  <2>1. answered'[s] = answered[s] + (IF ctx[a].by = s THEN 1 ELSE 0)
    BY <1>a, <1>1, ReplyReaches, TypesNamed DEF Live
  <2>2. Cardinality(Asking(s)') = Cardinality(Asking(s)) - (IF ctx[a].by = s THEN 1 ELSE 0)
    BY <1>1, TaskCounts
  <2>3. InHand(s)' = InHand(s)
    BY DEF InHand, rtr
  <2> QED
    BY <2>1, <2>2, <2>3, Numbers DEF AnsweredOnce
<1> QED
  BY <1>2, <1>3 DEF AnsweredOnce

LEMMA EnqueuePrompt ==
  ASSUME Base, Fresh, AnsweredOnce, NEW a \in Addresses, Enqueue(a)
  PROVE  Fresh' /\ AnsweredOnce'
<1> DEFINE m == [cmd |-> cmd[a], ctx |-> a, by |-> ctx[a].by]
<1>a. TypeOK
  BY DEF Base
<1>1. /\ m \in Msgs /\ m.ctx = a /\ m.by = ctx[a].by
      /\ bus \in Seq(Msgs) /\ bus' = Append(bus, m)
  BY Queues
<1> HIDE DEF m
<1>2. /\ pc[a] = "dispatch" /\ pc'[a] = "idle" /\ \A b \in Addresses \ {a} : pc'[b] = pc[b]
      /\ UNCHANGED <<ctx, rtr, asked, answered>>
  BY <1>a, GotoEffect DEF Enqueue
<1>3. Fresh'
  <2>1. \A b \in Addresses : (Serving(b)' <=> Serving(b)) /\ ctx'[b].by = ctx[b].by
    BY <1>2 DEF Serving
  <2>2. ASSUME NEW i \in DOMAIN bus'
        PROVE  Current(bus[i])'
    <3>1. CASE i \in DOMAIN bus
      <4>1. bus'[i] = bus[i] /\ bus[i] \in Msgs /\ Current(bus[i])
        BY <1>1, <3>1 DEF Fresh
      <4> QED
        BY <2>1, <4>1, MessageFields DEF Current
    <3>2. CASE i \notin DOMAIN bus
      <4>1. bus'[i] = m
        BY <1>1, <2>2, <3>2
      <4> QED
        BY <1>1, <1>2, <4>1 DEF Current, Serving
    <3> QED
      BY <3>1, <3>2
  <2>3. rpc # "idle" => Current(rmsg)'
    BY <1>2, <2>1, MessagesKept DEF Fresh, Base, Handed, rtr
  <2> QED
    BY <1>2, <2>2, <2>3 DEF Fresh, rtr
<1>4. ASSUME NEW s \in Ids
      PROVE  asked'[s] = answered'[s] + Pending(s)'
  <2>1. Cardinality(Asking(s)') = Cardinality(Asking(s)) - (IF ctx[a].by = s THEN 1 ELSE 0)
    BY <1>2, TaskCounts
  <2>2. Cardinality(InBus(bus', s))
          = Cardinality(InBus(bus, s)) + (IF ctx[a].by = s THEN 1 ELSE 0)
    BY <1>1, InBusAppend
  <2>3. InHand(s)' = InHand(s)
    BY <1>2 DEF InHand, rtr
  <2> QED
    BY <1>2, <2>1, <2>2, <2>3, Numbers DEF AnsweredOnce
<1> QED
  BY <1>3, <1>4 DEF AnsweredOnce

-----------------------------------------------------------------------------
\* The router's message and those on the bus stay current while it works.
LEMMA RouterKeeps ==
  ASSUME UNCHANGED rFrame, NEW m
  PROVE  Current(m)' <=> Current(m)
  BY DEF rFrame, Current, Serving

LEMMA ReceivePrompt ==
  ASSUME Base, Fresh, AnsweredOnce, RReceive
  PROVE  Fresh' /\ AnsweredOnce'
<1>1. /\ bus \in Seq(Msgs) /\ bus # <<>> /\ bus' = Tail(bus) /\ rmsg' = Head(bus)
      /\ rpc = "idle" /\ rpc' = "act" /\ UNCHANGED rFrame /\ UNCHANGED answered
  BY TypesNamed DEF RReceive, Base
<1>2. Fresh'
  <2>1. \A i \in DOMAIN Tail(bus) : i + 1 \in DOMAIN bus /\ Tail(bus)[i] = bus[i + 1]
    BY <1>1
  <2>2. \A i \in DOMAIN bus' : Current(bus'[i])
    BY <1>1, <2>1 DEF Fresh
  <2>3. Current(rmsg')
    <3>1. 1 \in DOMAIN bus /\ rmsg' = bus[1]
      BY <1>1
    <3> QED
      BY <3>1 DEF Fresh
  <2>4. (\A i \in DOMAIN bus : Current(bus[i]))' /\ Current(rmsg)'
    BY <1>1, <2>2, <2>3 DEF rFrame, Current, Serving
  <2> QED
    BY <1>1, <2>4 DEF Fresh
<1>3. ASSUME NEW s \in Ids
      PROVE  asked'[s] = answered'[s] + Pending(s)'
  <2>1. Cardinality(InBus(bus, s))
          = Cardinality(InBus(bus', s)) + (IF Head(bus).by = s THEN 1 ELSE 0)
    BY <1>1, InBusTail
  <2>2. Asking(s)' = Asking(s) /\ InHand(s) = 0
        /\ InHand(s)' = (IF Head(bus).by = s THEN 1 ELSE 0)
    BY <1>1 DEF Asking, InHand, rFrame
  <2>3. Cardinality(InBus(bus', s)) \in Nat
    <3>1. bus' \in Seq(Msgs)
      BY <1>1
    <3> QED
      BY <3>1, InBusFinite
  <2> QED
    BY <1>1, <2>1, <2>2, <2>3, Numbers DEF AnsweredOnce, rFrame
<1> QED
  BY <1>2, <1>3 DEF AnsweredOnce

\* Actuating and looking change no number: the context is still there to write to.
LEMMA WorkPrompt ==
  ASSUME Base, Fresh, AnsweredOnce, RAct \/ RLook
  PROVE  Fresh' /\ AnsweredOnce'
<1>1. UNCHANGED <<bus, rmsg, answered>> /\ UNCHANGED rFrame
  BY DEF RAct, RLook
<1>2. rmsg \in Msgs /\ rpc # "idle" /\ Current(rmsg) /\ rmsg.ctx \in Addresses
  BY MessageFields DEF RAct, RLook, Base, Handed, Fresh
<1>3. ctx[rmsg.ctx].write
  BY <1>2 DEF Base, Wired, Current
<1>4. rpc' # "idle" /\ (rpc' = "write" => rto' = ctx[rmsg.ctx].fd)
  BY <1>3 DEF RAct, RLook
<1>5. Fresh'
  <2>1. (\A i \in DOMAIN bus : Current(bus[i]))' /\ Current(rmsg)'
    BY <1>1, <1>2, RouterKeeps DEF Fresh
  <2> QED
    BY <1>1, <1>4, <2>1 DEF Fresh, rFrame
<1>6. ASSUME NEW s \in Ids
      PROVE  asked'[s] = answered'[s] + Pending(s)'
  <2>1. Asking(s)' = Asking(s) /\ InHand(s)' = InHand(s)
    BY <1>1, <1>2, <1>4 DEF Asking, InHand, rFrame
  <2> QED
    BY <1>1, <2>1, Numbers DEF AnsweredOnce, rFrame
<1> QED
  BY <1>5, <1>6 DEF AnsweredOnce

\* The router's answer reaches the session that asked.
LEMMA WriteReaches ==
  ASSUME Base, Fresh, RWrite
  PROVE  /\ rmsg.by \in Ids /\ rpc = "write"
         /\ answered' = [answered EXCEPT ![rmsg.by] = @ + 1]
<1>1. rmsg \in Msgs /\ Current(rmsg) /\ rmsg.ctx \in Addresses /\ rmsg.by \in Ids
  BY MessageFields DEF RWrite, Base, Handed, Fresh
<1>2. ctx[rmsg.ctx].by = rmsg.by /\ Live(rmsg.ctx)
  BY <1>1 DEF Current, Serving, Live
<1>3. rmsg.by # 0
  BY <1>1, CommandsAssumption DEF Ids
<1>4. (IF rmsg.ctx = "ble" THEN link ELSE fdOwner[rto]) = rmsg.by
  BY <1>1, <1>2 DEF RWrite, Base, Wired, Fresh, Addresses
<1> DEFINE t == IF rmsg.ctx = "ble" THEN link ELSE fdOwner[rto]
<1>5. answered' = IF t = 0 THEN answered ELSE [answered EXCEPT ![t] = @ + 1]
  BY DEF RWrite, Answer
<1>6. t = rmsg.by /\ rpc = "write"
  BY <1>4 DEF RWrite
<1> HIDE DEF t
<1> QED
  BY <1>1, <1>3, <1>5, <1>6

LEMMA WritePrompt ==
  ASSUME Base, Fresh, AnsweredOnce, RWrite
  PROVE  Fresh' /\ AnsweredOnce'
<1>1. /\ UNCHANGED <<bus, rmsg>> /\ UNCHANGED rFrame /\ rpc = "write" /\ rpc' = "idle"
      /\ rmsg.by \in Ids /\ answered' = [answered EXCEPT ![rmsg.by] = @ + 1]
  BY WriteReaches DEF RWrite
<1>2. Fresh'
  BY <1>1, RouterKeeps DEF Fresh
<1>3. ASSUME NEW s \in Ids
      PROVE  asked'[s] = answered'[s] + Pending(s)'
  <2>1. answered'[s] = answered[s] + (IF rmsg.by = s THEN 1 ELSE 0)
    BY <1>1, TypesNamed DEF Base
  <2>2. /\ Asking(s)' = Asking(s) /\ InHand(s)' = 0
        /\ InHand(s) = (IF rmsg.by = s THEN 1 ELSE 0)
    BY <1>1 DEF Asking, InHand, rFrame
  <2> QED
    BY <1>1, <2>1, <2>2, Numbers DEF AnsweredOnce, rFrame
<1> QED
  BY <1>2, <1>3 DEF AnsweredOnce

-----------------------------------------------------------------------------
LEMMA InitIInv == Init => IInv
<1> SUFFICES ASSUME Init PROVE IInv
  OBVIOUS
<1>1. Fresh
  BY DEF Init, Fresh
<1>2. ASSUME NEW s \in Ids
      PROVE  asked[s] = answered[s] + Pending(s)
  <2>1. Asking(s) = {} /\ InBus(bus, s) = {} /\ InHand(s) = 0
    BY DEF Init, Asking, InBus, InHand
  <2>2. Pending(s) = 0
    BY <2>1, PendingParts, FS_EmptySet
  <2> QED
    BY <2>2 DEF Init
<1> QED
  BY <1>1, <1>2, InitBase DEF IInv, AnsweredOnce

LEMMA PromptStays ==
  ASSUME Base, Fresh, AnsweredOnce, Polite, [Next]_vars
  PROVE  Fresh' /\ AnsweredOnce'
<1>1. CASE UNCHANGED vars
  BY <1>1 DEF vars, hist, rtr, Fresh, Current, Serving, AnsweredOnce, Pending
<1>2. ASSUME NEW a \in Addresses, Direct(a)
      PROVE  Fresh' /\ AnsweredOnce'
  BY <1>2, ReplyPrompt, DirectTrusts DEF Direct
<1>3. ASSUME NEW a \in Addresses, BusFull(a)
      PROVE  Fresh' /\ AnsweredOnce'
  BY <1>3, ReplyPrompt DEF BusFull
<1>4. CASE R
  BY <1>4, ReceivePrompt, WorkPrompt, WritePrompt DEF R
<1> QED
  BY <1>1, <1>2, <1>3, <1>4, SessionsPrompt, LinePrompt, EnqueuePrompt DEF Next

THEOREM Invariant == Spec => []IInv
<1>1. IInv /\ [Next]_vars => IInv'
  BY BaseStays, PromptStays DEF IInv
<1> QED
  BY InitIInv, <1>1, PTL DEF Spec

\* Types, and the capacity of the bus, for every host.
THEOREM CommandsTyped == Spec => []TypeOK
<1>1. IInv => TypeOK
  BY DEF IInv, Base
<1> QED
  BY Invariant, <1>1, PTL

\* Every command of every session is answered once, to that session, when the
\* hosts take their answers before they leave (client_task, cmd_bus.c, cmd_router.c).
THEOREM OneAnswerEach == ASSUME Polite PROVE Spec => []AnsweredOnce
<1>1. IInv => AnsweredOnce
  BY DEF IInv
<1> QED
  BY Invariant, <1>1, PTL

-----------------------------------------------------------------------------
(***************************************************************************)
(* The refinement: what the router has still to serve, as CommandService   *)
(* sees it.                                                                *)
(***************************************************************************)
Taken == [cmd : Queued, by : Ids]
TakenOf(m) == [cmd |-> m.cmd, by |-> m.by]

LEMMA TakenTyped ==
  ASSUME NEW m \in Msgs
  PROVE  TakenOf(m) \in Taken /\ TakenOf(m).cmd = m.cmd
<1>1. m.cmd \in Queued /\ m.by \in Ids
  BY MessageFields
<1> QED
  BY <1>1, Zenon DEF TakenOf, Taken

LEMMA AcceptedTyped ==
  ASSUME NEW q \in Seq(Msgs)
  PROVE  /\ AcceptedOf(q) \in Seq(Taken) /\ Len(AcceptedOf(q)) = Len(q)
         /\ \A i \in 1..Len(q) : AcceptedOf(q)[i] = TakenOf(q[i])
<1>1. \A i \in 1..Len(q) : q[i] \in Msgs /\ TakenOf(q[i]) \in Taken
  BY TakenTyped
<1>2. AcceptedOf(q) = [i \in 1..Len(q) |-> TakenOf(q[i])]
  BY DEF AcceptedOf, TakenOf
<1> QED
  BY <1>1, <1>2

LEMMA AcceptedAppend ==
  ASSUME NEW q \in Seq(Msgs), NEW m \in Msgs
  PROVE  AcceptedOf(Append(q, m)) = Append(AcceptedOf(q), TakenOf(m))
<1> DEFINE s == AcceptedOf(Append(q, m))
           t == Append(AcceptedOf(q), TakenOf(m))
           n == Len(q) + 1
<1>1. Append(q, m) \in Seq(Msgs) /\ Len(Append(q, m)) = n
      /\ \A i \in 1..n : Append(q, m)[i] = IF i = n THEN m ELSE q[i]
  OBVIOUS
<1>2. s \in Seq(Taken) /\ Len(s) = n /\ \A i \in 1..n : s[i] = TakenOf(Append(q, m)[i])
  BY <1>1, AcceptedTyped
<1>3. AcceptedOf(q) \in Seq(Taken) /\ Len(AcceptedOf(q)) = Len(q) /\ TakenOf(m) \in Taken
      /\ \A i \in 1..Len(q) : AcceptedOf(q)[i] = TakenOf(q[i])
  BY AcceptedTyped, TakenTyped
<1>4. t \in Seq(Taken) /\ Len(t) = n
      /\ \A i \in 1..n : t[i] = IF i = n THEN TakenOf(m) ELSE TakenOf(q[i])
  BY <1>3
<1>5. \A i \in 1..Len(s) : s[i] = t[i]
  BY <1>1, <1>2, <1>4
<1> HIDE DEF s, t
<1>6. s = t
  BY <1>2, <1>4, <1>5, SeqEqual
<1> QED
  BY <1>6 DEF s, t

\* A message in front of a queue, and the queue without it.
LEMMA AcceptedFront ==
  ASSUME NEW q \in Seq(Msgs), NEW m \in Msgs
  PROVE  LET s == AcceptedOf(<<m>> \o q)
         IN  s # <<>> /\ Head(s) = TakenOf(m) /\ Tail(s) = AcceptedOf(q)
<1> DEFINE f == <<m>> \o q
           s == AcceptedOf(f)
           n == Len(q)
<1>1. f \in Seq(Msgs) /\ Len(f) = n + 1 /\ f[1] = m /\ \A i \in 1..n : f[i + 1] = q[i]
  OBVIOUS
<1> HIDE DEF f
<1>2. s \in Seq(Taken) /\ Len(s) = n + 1 /\ \A i \in 1..(n + 1) : s[i] = TakenOf(f[i])
  BY <1>1, AcceptedTyped
<1>3. AcceptedOf(q) \in Seq(Taken) /\ Len(AcceptedOf(q)) = n
      /\ \A i \in 1..n : AcceptedOf(q)[i] = TakenOf(q[i])
  BY AcceptedTyped
<1> HIDE DEF s
<1>4. n \in Nat
  OBVIOUS
<1>5. s # <<>> /\ Head(s) = TakenOf(m)
  BY <1>1, <1>2, <1>4
<1>6. Tail(s) \in Seq(Taken) /\ Len(Tail(s)) = n /\ \A i \in 1..n : Tail(s)[i] = TakenOf(q[i])
  BY <1>1, <1>2, <1>4, <1>5
<1>7. Tail(s) = AcceptedOf(q)
  BY <1>3, <1>6, SeqEqual
<1> QED
  BY <1>5, <1>7 DEF s, f

LEMMA HeadBack ==
  ASSUME NEW q \in Seq(Msgs), q # <<>>
  PROVE  <<Head(q)>> \o Tail(q) = q
<1> DEFINE t == <<Head(q)>> \o Tail(q)
<1>1. /\ Head(q) \in Msgs /\ Tail(q) \in Seq(Msgs) /\ Head(q) = q[1] /\ Len(Tail(q)) = Len(q) - 1
      /\ \A i \in 1..(Len(q) - 1) : Tail(q)[i] = q[i + 1]
  OBVIOUS
<1>2. t \in Seq(Msgs) /\ Len(t) = Len(q)
      /\ \A i \in 1..Len(q) : t[i] = IF i = 1 THEN Head(q) ELSE Tail(q)[i - 1]
  BY <1>1
<1>3. \A i \in 1..Len(t) : t[i] = q[i]
  BY <1>1, <1>2
<1> HIDE DEF t
<1>4. t = q
  BY <1>2, <1>3, SeqEqual
<1> QED
  BY <1>4 DEF t

LEMMA ToServeTyped ==
  ASSUME TypeOK, Handed
  PROVE  /\ ToServe \in Seq(Msgs)
         /\ rpc # "act" => ToServe = bus
<1>1. bus \in Seq(Msgs)
  BY TypesNamed
<1>2. <<>> \o bus = bus
  BY <1>1, ConcatEmptySeq
<1> QED
  BY <1>1, <1>2 DEF ToServe, Handed

LEMMA ToServeGrows ==
  ASSUME TypeOK, Handed, NEW m \in Msgs, bus' = Append(bus, m), UNCHANGED rtr
  PROVE  ToServe' = Append(ToServe, m)
<1> DEFINE p == IF rpc = "act" THEN <<rmsg>> ELSE <<>>
<1>1. p \in Seq(Msgs) /\ bus \in Seq(Msgs) /\ <<m>> \in Seq(Msgs)
  BY TypesNamed DEF Handed
<1>2. ToServe = p \o bus /\ ToServe' = p \o bus'
  BY DEF ToServe, rtr
<1> HIDE DEF p
<1>3. p \o bus \in Seq(Msgs)
  BY <1>1
<1>4. p \o (bus \o <<m>>) = (p \o bus) \o <<m>>
  BY <1>1, ConcatAssociative
<1>5. Append(bus, m) = bus \o <<m>> /\ Append(p \o bus, m) = (p \o bus) \o <<m>>
  BY <1>1, <1>3, AppendIsConcat
<1> QED
  BY <1>2, <1>4, <1>5

\* The router takes a message: what it has still to serve stays the same.
LEMMA ToServeStays ==
  ASSUME TypeOK, RReceive
  PROVE  ToServe' = ToServe
<1>1. bus \in Seq(Msgs) /\ bus # <<>> /\ ToServe' = <<Head(bus)>> \o Tail(bus) /\ ToServe = <<>> \o bus
  BY TypesNamed DEF RReceive, ToServe
<1> QED
  BY <1>1, HeadBack, ConcatEmptySeq

\* Whoever has a command with its task, or with the router, is owed an answer.
LEMMA Owed ==
  ASSUME Base, AnsweredOnce, NEW s \in Ids, NEW a \in Addresses,
         \/ pc[a] = "dispatch" /\ ctx[a].by = s
         \/ rpc # "idle" /\ rmsg.by = s
  PROVE  asked[s] - answered[s] > 0
<1>1. IsFiniteSet(Asking(s))
  BY AskingOnce DEF Base
<1>2. CASE pc[a] = "dispatch" /\ ctx[a].by = s
  <2>1. Cardinality(Asking(s)) # 0
    BY <1>1, <1>2, FS_EmptySet DEF Asking
  <2> QED
    BY <2>1, Numbers DEF AnsweredOnce
<1>3. CASE rpc # "idle" /\ rmsg.by = s
  BY <1>3, Numbers DEF AnsweredOnce, InHand
<1> QED
  BY <1>2, <1>3

\* The number of a task's session, and that it names one.
LEMMA TasksSession ==
  ASSUME Base, NEW a \in Addresses, Live(a)
  PROVE  ctx[a].by \in Ids
<1>1. ctx[a].by \in 1..sessions /\ sessions \in 0..MaxSessions
  BY TypesNamed DEF Base, Named
<1> QED
  BY <1>1, CommandsAssumption DEF Ids

OwedOf(k, n) == [s \in Ids |-> k[s] - n[s]]

LEMMA LineAsks ==
  ASSUME Base, NEW a \in Addresses, Line(a)
  PROVE  \E s \in Ids : Service!Ask(s)
<1>1. PICK s \in Ids : ctx[a].by = s
  BY TasksSession DEF Line, Goto, Live
<1>2. asked' = [asked EXCEPT ![s] = @ + 1] /\ UNCHANGED <<answered, authed, dev, rtr, bus>>
  BY <1>1 DEF Line
<1>3. asked \in [Ids -> Nat] /\ answered \in [Ids -> Nat]
  BY TypesNamed DEF Base
<1>4. OwedOf(asked', answered') = [OwedOf(asked, answered) EXCEPT ![s] = @ + 1]
  <2>1. \A t \in Ids : asked'[t] - answered'[t] = IF t = s THEN asked[t] - answered[t] + 1
                                                           ELSE asked[t] - answered[t]
    BY <1>2, <1>3
  <2> QED
    BY <2>1 DEF OwedOf
<1>5. UNCHANGED AcceptedOf(ToServe)
  BY <1>2 DEF ToServe, AcceptedOf, rtr
<1>6. Service!Ask(s)
  BY <1>2, <1>4, <1>5 DEF Service!Ask, OwedOf
<1> QED
  BY <1>6

\* An answer that reaches s is the abstract one.
LEMMA Answers ==
  ASSUME Base, NEW s \in Ids, asked[s] - answered[s] > 0,
         answered' = [answered EXCEPT ![s] = @ + 1],
         authed' \in {authed, authed \cup {s}},
         UNCHANGED <<asked, dev>>, UNCHANGED ToServe
  PROVE  Service!Answer(s)
<1>1. asked \in [Ids -> Nat] /\ answered \in [Ids -> Nat]
  BY TypesNamed DEF Base
<1>2. OwedOf(asked', answered') = [OwedOf(asked, answered) EXCEPT ![s] = @ - 1]
  <2>1. \A t \in Ids : asked'[t] - answered'[t] = IF t = s THEN asked[t] - answered[t] - 1
                                                           ELSE asked[t] - answered[t]
    BY <1>1
  <2> QED
    BY <2>1 DEF OwedOf
<1>3. UNCHANGED AcceptedOf(ToServe)
  BY DEF AcceptedOf
<1> QED
  BY <1>2, <1>3 DEF Service!Answer, OwedOf

LEMMA ReplyAnswers ==
  ASSUME Base, AnsweredOnce, NEW a \in Addresses, Direct(a) \/ BusFull(a)
  PROVE  \E s \in Ids : Service!Answer(s)
<1>1. pc[a] = "dispatch" /\ Reply(a) /\ UNCHANGED <<asked, dev, rtr, bus>>
  BY DEF Direct, BusFull, Goto
<1>2. PICK s \in Ids : ctx[a].by = s /\ answered' = [answered EXCEPT ![s] = @ + 1]
  BY <1>1, ReplyReaches DEF Live
<1>3. asked[s] - answered[s] > 0
  BY <1>1, <1>2, Owed
<1>4. authed' \in {authed, authed \cup {s}}
  BY <1>2, DirectTrusts DEF BusFull
<1>5. UNCHANGED ToServe
  BY <1>1 DEF ToServe, rtr
<1>6. Service!Answer(s)
  BY <1>1, <1>2, <1>3, <1>4, <1>5, Answers
<1> QED
  BY <1>6

LEMMA EnqueueAccepts ==
  ASSUME Base, AnsweredOnce, NEW a \in Addresses, Enqueue(a)
  PROVE  \E s \in Ids, c \in Queued : Service!Accept(s, c)
<1>1. PICK m \in Msgs : /\ m.cmd = cmd[a] /\ m.by = ctx[a].by /\ bus' = Append(bus, m)
                        /\ pc[a] = "dispatch"
  <2> DEFINE r == [cmd |-> cmd[a], ctx |-> a, by |-> ctx[a].by]
  <2>1. /\ r \in Msgs /\ r.cmd = cmd[a] /\ r.by = ctx[a].by /\ bus' = Append(bus, r)
        /\ pc[a] = "dispatch"
    BY Queues
  <2> HIDE DEF r
  <2> QED
    BY <2>1
<1>2. UNCHANGED <<asked, answered, authed, dev, rtr>>
  BY DEF Enqueue
<1>3. PICK s \in Ids, c \in Queued : s = m.by /\ c = m.cmd
  BY MessageFields
<1>4. c \in Settings => s \in authed
  BY <1>1, <1>3 DEF Enqueue, Denied, Base, Named, Live
<1>5. asked[s] - answered[s] > 0
  BY <1>1, <1>3, Owed
<1>6. AcceptedOf(ToServe)' = Append(AcceptedOf(ToServe), [cmd |-> c, by |-> s])
  <2>1. PICK q \in Seq(Msgs) : ToServe = q
    BY ToServeTyped DEF Base
  <2>2. ToServe' = Append(q, m)
    BY <1>1, <1>2, <2>1, ToServeGrows DEF Base
  <2>3. AcceptedOf(Append(q, m)) = Append(AcceptedOf(q), TakenOf(m))
    BY AcceptedAppend
  <2>4. AcceptedOf(ToServe)' = AcceptedOf(Append(q, m)) /\ AcceptedOf(ToServe) = AcceptedOf(q)
    BY <2>1, <2>2 DEF AcceptedOf
  <2> QED
    BY <1>3, <2>3, <2>4 DEF TakenOf
<1>7. Service!Accept(s, c)
  BY <1>2, <1>4, <1>5, <1>6 DEF Service!Accept
<1> QED
  BY <1>7

LEMMA ActApplies ==
  ASSUME Base, RAct
  PROVE  Service!Apply
<1>1. /\ bus \in Seq(Msgs) /\ rmsg \in Msgs /\ bus' = bus
      /\ ToServe = <<rmsg>> \o bus /\ ToServe' = <<>> \o bus
      /\ dev' = IF rmsg.cmd \in Settings THEN rmsg.cmd ELSE dev
      /\ UNCHANGED <<asked, answered, authed>>
  BY TypesNamed DEF RAct, ToServe, Base, Handed, rFrame
<1>2. ToServe' = bus
  BY <1>1, ConcatEmptySeq
<1>3. /\ AcceptedOf(ToServe) # <<>> /\ Head(AcceptedOf(ToServe)) = TakenOf(rmsg)
      /\ Tail(AcceptedOf(ToServe)) = AcceptedOf(bus)
  BY <1>1, AcceptedFront
<1>4. AcceptedOf(ToServe)' = AcceptedOf(bus)
  BY <1>2 DEF AcceptedOf
<1>5. Head(AcceptedOf(ToServe)).cmd = rmsg.cmd
  BY <1>1, <1>3, TakenTyped
<1> QED
  BY <1>1, <1>3, <1>4, <1>5 DEF Service!Apply

LEMMA WriteAnswers ==
  ASSUME Base, Fresh, AnsweredOnce, RWrite
  PROVE  \E s \in Ids : Service!Answer(s)
<1>1. PICK s \in Ids : rmsg.by = s /\ answered' = [answered EXCEPT ![s] = @ + 1]
  BY WriteReaches
<1>2. rpc = "write" /\ rpc' = "idle" /\ UNCHANGED <<asked, authed, dev, bus>>
  BY DEF RWrite, rFrame
<1>3. asked[s] - answered[s] > 0
  BY <1>1, <1>2, Owed DEF Addresses
<1>4. UNCHANGED ToServe
  BY <1>2 DEF ToServe
<1>5. Service!Answer(s)
  BY <1>1, <1>2, <1>3, <1>4, Answers
<1> QED
  BY <1>5

\* Connecting, leaving, receiving and looking are not seen by the sessions.
LEMMA Unseen ==
  ASSUME UNCHANGED <<asked, answered, authed, dev>>, UNCHANGED ToServe
  PROVE  UNCHANGED Service!vars
  BY DEF Service!vars, AcceptedOf

LEMMA InitServes == Init => Service!Init
<1> SUFFICES ASSUME Init PROVE Service!Init
  OBVIOUS
<1>1. \A s \in Ids : asked[s] - answered[s] = 0
  BY DEF Init
<1>2. AcceptedOf(ToServe) = <<>>
  <2>1. <<>> \in Seq(Msgs) /\ ToServe = <<>> \o <<>> /\ Len(<<>>) = 0
    BY DEF Init, ToServe
  <2>2. ToServe = <<>>
    BY <2>1, ConcatEmptySeq
  <2>3. AcceptedOf(<<>>) \in Seq(Taken) /\ Len(AcceptedOf(<<>>)) = 0
    BY <2>1, AcceptedTyped
  <2> QED
    BY <2>2, <2>3
<1> QED
  BY <1>1, <1>2 DEF Init, Service!Init, Settings

LEMMA StepServes ==
  ASSUME Base, Fresh, AnsweredOnce, Next
  PROVE  Service!Next \/ UNCHANGED Service!vars
<1>1. ASSUME NEW a \in Addresses, Line(a) \/ Direct(a) \/ Enqueue(a) \/ BusFull(a)
      PROVE  Service!Next
  BY <1>1, LineAsks, ReplyAnswers, EnqueueAccepts DEF Service!Next, Queued
<1>2. ASSUME \/ \E a \in Stacks : Accept(a) \/ Leave(a) \/ CloseFd(a)
             \/ BleConnect \/ BleDisconnect
      PROVE  UNCHANGED Service!vars
  BY <1>2, Unseen
     DEF Accept, Leave, CloseFd, BleConnect, BleDisconnect, hist, rtr, ToServe
<1>3. ASSUME R
      PROVE  Service!Next \/ UNCHANGED Service!vars
  <2>1. CASE RReceive
    BY <2>1, ToServeStays, Unseen DEF RReceive, rFrame, Base
  <2>2. CASE RAct
    BY <2>2, ActApplies DEF Service!Next
  <2>3. CASE RLook
    <3>1. UNCHANGED ToServe
      BY <2>3 DEF RLook, ToServe
    <3> QED
      BY <2>3, <3>1, Unseen DEF RLook, rFrame
  <2>4. CASE RWrite
    BY <2>4, WriteAnswers DEF Service!Next
  <2> QED
    BY <1>3, <2>1, <2>2, <2>3, <2>4 DEF R
<1> QED
  BY <1>1, <1>2, <1>3 DEF Next

\* Tasks, contexts, descriptors, bus and router together serve each session as
\* CommandService says: one answer per command, queued commands served in order,
\* settings taken from sessions that have shown the token.
THEOREM ServiceImplemented == ASSUME Polite PROVE Spec => ImplementsService
<1>1. ASSUME IInv, [Next]_vars
      PROVE  [Service!Next]_(Service!vars)
  <2>1. CASE UNCHANGED vars
    BY <2>1, Unseen DEF vars, hist, rtr, ToServe
  <2>2. CASE Next
    BY <1>1, <2>2, StepServes DEF IInv
  <2> QED
    BY <1>1, <2>1, <2>2
<1> QED
  BY <1>1, Invariant, InitServes, PTL DEF Spec, ImplementsService, Service!Spec

=============================================================================
