------------------------------ MODULE Commands ------------------------------
(***************************************************************************)
(* The command path: TCP connection tasks (net/tcp), the BLE console       *)
(* (ble_cmd.c), the dispatcher and the bus to the router (components/cmd). *)
(*                                                                         *)
(* A session is one connection, TCP or BLE.  It talks through a command    *)
(* context: a TCP session's context lives on its task's stack, and the     *)
(* next task may be given the same memory; BLE has one context for good.   *)
(* A queued command carries the address of the context, nothing else.      *)
(***************************************************************************)
EXTENDS Naturals, Sequences, FiniteSets

CONSTANTS
  Stacks,       \* memory a connection task may get
  Fds,          \* socket descriptors, reused as soon as closed
  BusDepth,     \* CMD_BUS_DEPTH, 16 in the code
  Polite,       \* hosts take their answers before they leave
  MaxSessions,  \* bound: sessions in a behaviour
  MaxAsks       \* bound: commands of one session

ASSUME CommandsAssumption ==
  /\ "ble" \notin Stacks /\ BusDepth \in Nat \ {0} /\ Polite \in BOOLEAN
  /\ MaxSessions \in Nat /\ MaxAsks \in Nat

VARIABLES
  ctx,       \* cmd_ctx_t at each address; by is the session it was set up for
  pc, cmd,   \* the task at each address, and the command it handles
  fdOwner,   \* the session an open descriptor belongs to, 0 when closed
  link,      \* the session of the connected BLE central, or 0
  bus,       \* s_q
  rpc, rmsg, rto,  \* the router: program counter, message, descriptor to write to
  dev,       \* what the router actuates: the LED, or the DHT stream switch
  authed, asked, answered,  \* history, per session
  sessions   \* sessions so far

hist == <<authed, asked, answered>>
rtr  == <<rpc, rmsg, rto>>
vars == <<ctx, pc, cmd, fdOwner, link, bus, rtr, dev, hist, sessions>>

Addresses == Stacks \cup {"ble"}
Ids       == 1..MaxSessions
Settings  == {"on", "off"}               \* LED_ON/OFF, DHTSTREAM: need AUTH
Queued    == Settings \cup {"query"}     \* DHT?, DHTSTATE: do not
Cmds      == Queued \cup {"auth", "ping"}
NoCtx     == [by |-> 0, authed |-> FALSE, write |-> FALSE, fd |-> 0]
NoMsg     == [cmd |-> "none", ctx |-> "none", by |-> 0]

Init ==
  /\ ctx = [a \in Addresses |-> NoCtx]
  /\ pc = [a \in Addresses |-> "free"] /\ cmd = [a \in Addresses |-> "none"]
  /\ fdOwner = [f \in Fds |-> 0] /\ link = 0
  /\ bus = <<>> /\ rpc = "idle" /\ rmsg = NoMsg /\ rto = 0
  /\ dev = "off"
  /\ authed = {} /\ asked = [s \in Ids |-> 0] /\ answered = [s \in Ids |-> 0]
  /\ sessions = 0

Goto(a, from, to) == pc[a] = from /\ pc' = [pc EXCEPT ![a] = to]

\* An answer that reaches session s; 0 is nobody.
Answer(s) == answered' = IF s = 0 THEN answered ELSE [answered EXCEPT ![s] = @ + 1]

\* cmd_reply through the context at a, by the task that owns it.
Reply(a) == Answer(IF a = "ble" THEN link ELSE fdOwner[ctx[a].fd])

MayLeave(s) == Polite => asked[s] = answered[s]

-----------------------------------------------------------------------------
(***************************************************************************)
(* Sessions come and go.                                                   *)
(***************************************************************************)
Connects == sessions < MaxSessions /\ sessions' = sessions + 1

\* server_task accepts on a free descriptor and spawns client_task on free memory.
Accept(a) ==
  /\ Connects /\ Goto(a, "free", "idle")
  /\ \E f \in Fds :
       /\ fdOwner[f] = 0
       /\ fdOwner' = [fdOwner EXCEPT ![f] = sessions']
       /\ ctx' = [ctx EXCEPT ![a] = [by |-> sessions', authed |-> FALSE, write |-> TRUE, fd |-> f]]
  /\ UNCHANGED <<cmd, link, bus, rtr, dev, hist>>

\* client_task past its loop: the context's write goes first ...
Leave(a) ==
  /\ Goto(a, "idle", "nulled") /\ MayLeave(ctx[a].by)
  /\ ctx' = [ctx EXCEPT ![a].write = FALSE]
  /\ UNCHANGED <<cmd, fdOwner, link, bus, rtr, dev, hist, sessions>>

\* ... then the descriptor, and the task with its stack.
CloseFd(a) ==
  /\ Goto(a, "nulled", "free")
  /\ fdOwner' = [fdOwner EXCEPT ![ctx[a].fd] = 0]
  /\ UNCHANGED <<ctx, cmd, link, bus, rtr, dev, hist, sessions>>

\* ble_cmd_on_connect sets the one context up again.
BleConnect ==
  /\ link = 0 /\ Connects
  /\ Goto("ble", "free", "idle")
  /\ link' = sessions'
  /\ ctx' = [ctx EXCEPT !["ble"] = [NoCtx EXCEPT !.by = sessions', !.write = TRUE]]
  /\ UNCHANGED <<cmd, fdOwner, bus, rtr, dev, hist>>

\* ble_cmd_on_disconnect: the context keeps its write.
BleDisconnect ==
  /\ link # 0 /\ MayLeave(link)
  /\ Goto("ble", "idle", "free")
  /\ link' = 0
  /\ ctx' = [ctx EXCEPT !["ble"].authed = FALSE]
  /\ UNCHANGED <<cmd, fdOwner, bus, rtr, dev, hist, sessions>>

-----------------------------------------------------------------------------
(***************************************************************************)
(* cmd_dispatch_line and the handlers.                                     *)
(***************************************************************************)
\* A line arrives: the command is looked up ...
Line(a) ==
  /\ Goto(a, "idle", "dispatch") /\ asked[ctx[a].by] < MaxAsks
  /\ \E c \in Cmds : cmd' = [cmd EXCEPT ![a] = c]
  /\ asked' = [asked EXCEPT ![ctx[a].by] = @ + 1]
  /\ UNCHANGED <<ctx, fdOwner, link, bus, rtr, dev, authed, answered, sessions>>

Denied(a) == cmd[a] \in Settings /\ ~ctx[a].authed

\* ... answered on the spot: DENIED, PONG, or AUTH with a right or wrong token ...
Direct(a) ==
  /\ cmd[a] \notin Queued \/ Denied(a)
  /\ Goto(a, "dispatch", "idle")
  /\ \/ UNCHANGED <<ctx, authed>>
     \/ /\ cmd[a] = "auth"
        /\ ctx' = [ctx EXCEPT ![a].authed = TRUE]
        /\ authed' = authed \cup {ctx[a].by}
  /\ Reply(a)
  /\ cmd' = [cmd EXCEPT ![a] = "none"]
  /\ UNCHANGED <<fdOwner, link, bus, rtr, dev, asked, sessions>>

Put(q, m) == Append(q, m)

\* Variant: room on the bus is not asked for.
EnqueueUnbounded(a) ==
  /\ cmd[a] \in Queued /\ ~Denied(a)
  /\ Goto(a, "dispatch", "idle")
  /\ bus' = Put(bus, [cmd |-> cmd[a], ctx |-> a, by |-> ctx[a].by])
  /\ cmd' = [cmd EXCEPT ![a] = "none"]
  /\ UNCHANGED <<ctx, fdOwner, link, rtr, dev, authed, asked, answered, sessions>>

\* ... or put on the bus, where it waits for the router to answer ...
Enqueue(a) ==
  /\ cmd[a] \in Queued /\ ~Denied(a)
  /\ Len(bus) < BusDepth
  /\ Goto(a, "dispatch", "idle")
  /\ bus' = Put(bus, [cmd |-> cmd[a], ctx |-> a, by |-> ctx[a].by])
  /\ cmd' = [cmd EXCEPT ![a] = "none"]
  /\ UNCHANGED <<ctx, fdOwner, link, rtr, dev, authed, asked, answered, sessions>>

\* Variant: the command is dropped in silence.
BusFullSilent(a) ==
  /\ cmd[a] \in Queued /\ ~Denied(a)
  /\ Len(bus) = BusDepth
  /\ Goto(a, "dispatch", "idle")
  /\ cmd' = [cmd EXCEPT ![a] = "none"]
  /\ UNCHANGED <<ctx, fdOwner, link, bus, rtr, dev, hist, sessions>>

\* ... unless it stayed full for 20 ms (LED) or 50 ms (DHT).
BusFull(a) ==
  /\ cmd[a] \in Queued /\ ~Denied(a)
  /\ Len(bus) = BusDepth
  /\ Goto(a, "dispatch", "idle")
  /\ Reply(a)
  /\ cmd' = [cmd EXCEPT ![a] = "none"]
  /\ UNCHANGED <<ctx, fdOwner, link, bus, rtr, dev, authed, asked, sessions>>

-----------------------------------------------------------------------------
(***************************************************************************)
(* cmd_router_task: actuate, look at the context, write.                   *)
(***************************************************************************)
rFrame == <<ctx, pc, cmd, fdOwner, link, authed, asked, sessions>>

\* Variant: a message leaves the bus only when it is the last one.
RReceiveAgain ==
  /\ rpc = "idle" /\ bus # <<>>
  /\ rpc' = "act" /\ rmsg' = Head(bus)
  /\ bus' = IF Len(bus) > 1 THEN bus ELSE Tail(bus)
  /\ UNCHANGED <<rto, dev, answered, rFrame>>

RReceive ==
  /\ rpc = "idle" /\ bus # <<>>
  /\ rpc' = "act" /\ rmsg' = Head(bus) /\ bus' = Tail(bus)
  /\ UNCHANGED <<rto, dev, answered, rFrame>>

RAct ==
  /\ rpc = "act" /\ rpc' = "look"
  /\ dev' = IF rmsg.cmd \in Settings THEN rmsg.cmd ELSE dev
  /\ UNCHANGED <<rmsg, rto, bus, answered, rFrame>>

RLook ==
  /\ rpc = "look"
  /\ IF ctx[rmsg.ctx].write THEN rpc' = "write" /\ rto' = ctx[rmsg.ctx].fd
                            ELSE rpc' = "idle" /\ UNCHANGED rto
  /\ UNCHANGED <<rmsg, bus, dev, answered, rFrame>>

\* send() on the descriptor, or a notification to whichever central is there.
RWrite ==
  /\ rpc = "write" /\ rpc' = "idle"
  /\ Answer(IF rmsg.ctx = "ble" THEN link ELSE fdOwner[rto])
  /\ UNCHANGED <<rmsg, rto, bus, dev, rFrame>>

R == RReceive \/ RAct \/ RLook \/ RWrite

-----------------------------------------------------------------------------
Next ==
  \/ \E a \in Stacks : Accept(a) \/ Leave(a) \/ CloseFd(a)
  \/ BleConnect \/ BleDisconnect
  \/ \E a \in Addresses : Line(a) \/ Direct(a) \/ Enqueue(a) \/ BusFull(a)
  \/ R

Spec == Init /\ [][Next]_vars

-----------------------------------------------------------------------------
Msgs == [cmd : Queued, ctx : Addresses, by : Ids]

\* Types, and the capacity of the bus.
TypeOK ==
  /\ ctx \in [Addresses -> [by : 0..MaxSessions, authed : BOOLEAN, write : BOOLEAN,
                            fd : Fds \cup {0}]]
  /\ pc \in [Addresses -> {"free", "idle", "dispatch", "nulled"}]
  /\ cmd \in [Addresses -> Cmds \cup {"none"}]
  /\ fdOwner \in [Fds -> 0..MaxSessions] /\ link \in 0..MaxSessions
  /\ bus \in Seq(Msgs) /\ Len(bus) <= BusDepth
  /\ rpc \in {"idle", "act", "look", "write"} /\ rmsg \in Msgs \cup {NoMsg}
  /\ rto \in Fds \cup {0}
  /\ dev \in Settings /\ authed \subseteq Ids
  /\ asked \in [Ids -> Nat] /\ answered \in [Ids -> Nat] /\ sessions \in 0..MaxSessions

\* The answers session s still has coming: from its own task or from the router.
Pending(s) ==
    Cardinality({a \in Addresses : pc[a] = "dispatch" /\ ctx[a].by = s})
  + Cardinality({i \in DOMAIN bus : bus[i].by = s})
  + (IF rpc # "idle" /\ rmsg.by = s THEN 1 ELSE 0)

\* Every command of a session is answered exactly once, to that session: also when
\* the bus is full, when other sessions' commands are ahead, and when the memory and
\* the descriptor served someone before.  Needs polite hosts: see LateReplyStopped.
AnsweredOnce == \A s \in Ids : asked[s] = answered[s] + Pending(s)

\* What the router has still to serve: the command in its hands, then the bus.
ToServe == (IF rpc = "act" THEN <<rmsg>> ELSE <<>>) \o bus

AcceptedOf(q) == [i \in DOMAIN q |-> [cmd |-> q[i].cmd, by |-> q[i].by]]

\* All connection tasks, the console and the router together serve each session as
\* one server would: one answer per command, queued commands in order, settings from
\* trusted sessions only (cmd_bus.c, cmd_router.c, command.c).  Needs polite hosts.
Service == INSTANCE CommandService
             WITH Sessions <- Ids, Queries <- {"query"},
                  trusted <- authed, accepted <- AcceptedOf(ToServe),
                  owed <- [s \in Ids |-> asked[s] - answered[s]]

ImplementsService == Service!Spec

\* tcp_client.c:89: ctx.write = NULL stops late router replies for this client, so
\* the router never writes for a session that has closed its descriptor.
LateReplyStopped ==
  rpc = "write" /\ rmsg.ctx \in Stacks => \E f \in Fds : fdOwner[f] = rmsg.by
=============================================================================
