----------------------------- MODULE GattProofs -----------------------------
(***************************************************************************)
(* That what a central is told follows what happened, for any set of error *)
(* strings and any number of changes, alerts and connections.              *)
(*                                                                         *)
(* None of the three promises is inductive: each holds when every thread   *)
(* is idle because, while it does not hold, some thread is still on its    *)
(* way to make it hold.                                                    *)
(***************************************************************************)
EXTENDS Gatt, TLAPS

\* Somebody is going to compare the error with what was sent last.
Remembering ==
  subscribed /\ lastSent # err
    => \E t \in Threads : pc[t] \in {"callback", "n_attr", "n_compare", "n_sent"}

\* Somebody is going to write the characteristic.
Mirroring ==
  subscribed /\ gatts = "ready" /\ ~initial /\ attr # err
    => \E t \in Threads : pc[t] \in {"callback", "n_attr"}

\* Somebody is going to format the latest alert, or has and is going to send it.
Brings(t) ==
  \/ pc[t] \in {"a_code", "a_line"}
  \/ pc[t] \in {"a_check", "a_send"} /\ line[t] = "latest"

Telling == central = "up" /\ alertOn /\ ~told => \E t \in Threads : Brings(t)

\* The server is brought up once, before a central comes.
Started ==
  /\ subscribed => pc["W"] \notin {"register", "subscribe"}
  /\ ~subscribed => pc["W"] \in {"idle", "register", "subscribe"}
  /\ ~subscribed /\ pc["W"] # "subscribe" => gatts = "none"
  /\ central # "off" => gatts = "ready"
  /\ central = "up" => connId
  /\ pc["B"] = "init" => gatts = "handles"
  /\ pc["B"] = "unsubscribe" => central \in {"new", "left"}

Promises == Remembering /\ Mirroring /\ Telling /\ Started

IInv == TypeOK /\ Promises

\* The first state.
LEMMA InitHolds == Init => IInv
<1> SUFFICES ASSUME Init PROVE IInv
  OBVIOUS
<1>1. TypeOK
  <2>1. pc \in [Threads -> Pcs]
    BY DEF Init, Pcs
  <2>2. arg \in [Setters -> Strings] /\ line \in [Threads -> {"none", "latest", "older"}]
    BY DEF Init, Strings
  <2>3. asks \in 0..QueueDepth
    <3>1. asks = 0
      BY DEF Init
    <3> QED
      BY <3>1, GattAssumption DEF GattAssumption
  <2> QED
    BY <2>1, <2>2, <2>3 DEF Init, TypeOK, Strings, Phases
<1>2. Promises
  BY DEF Init, Promises, Remembering, Mirroring, Telling, Started, Threads
<1> QED
  BY <1>1, <1>2 DEF IInv

\* What a thread's own step does to the program counters.
Moves(t, from, to) ==
  /\ pc' \in [Threads -> Pcs]
  /\ pc[t] \in from /\ pc'[t] \in to
  /\ \A u \in Threads \ {t} : pc'[u] = pc[u]

LEMMA GotoMoves ==
  ASSUME pc \in [Threads -> Pcs], NEW t \in Threads, NEW from, NEW to \in Pcs, Goto(t, from, to)
  PROVE  Moves(t, {from}, {to})
BY DEF Goto, Moves

\* errsrc_set: a change leaves the thread that made it at the callback.
LEMMA SetKeeps ==
  ASSUME IInv, NEW t \in Setters, SetErr(t) \/ Compare(t) \/ Copy(t) \/ Callback(t)
  PROVE  IInv'
<1> USE DEF setFrame, errsrc, value, link, alert
<1>t. TypeOK /\ Remembering /\ Mirroring /\ Telling /\ Started
  BY DEF IInv, Promises
<1>p. pc \in [Threads -> Pcs]
  BY <1>t DEF TypeOK
<1>s. t \in Threads /\ t # "W"
  BY DEF Setters, Threads
<1>1. CASE SetErr(t)
  <2>g. Moves(t, {"idle"}, {"compare"})
    BY <1>1, <1>p, <1>s, GotoMoves DEF SetErr, Moves, Pcs, Threads
  <2>b. sets' \in Nat
    <3>1. sets \in Nat
      BY <1>t DEF TypeOK
    <3>2. sets' = sets + 1
      BY <1>1 DEF SetErr
    <3> QED
      BY <3>1, <3>2
  <2>0. arg' \in [Setters -> Strings]
    <3>1. PICK s \in Strings : arg' = [arg EXCEPT ![t] = s]
      BY <1>1, GattAssumption DEF GattAssumption, SetErr, Strings
    <3> QED
      BY <1>t, <3>1 DEF TypeOK
  <2>1. TypeOK'
    BY <1>t, <1>1, <1>s, <2>g, <2>b, <2>0 DEF TypeOK, Phases, Moves, SetErr
  <2>2. Remembering'
    BY <1>t, <1>1, <1>s, <2>g, <2>b DEF Remembering, Moves, SetErr, Threads, TypeOK
  <2>3. Mirroring'
    BY <1>t, <1>1, <1>s, <2>g, <2>b DEF Mirroring, Moves, SetErr, Threads, TypeOK
  <2>4. Telling'
    BY <1>t, <1>1, <1>s, <2>g, <2>b DEF Telling, Brings, Moves, SetErr, Threads, TypeOK
  <2>5. Started'
    BY <1>t, <1>1, <1>s, <2>g, <2>b DEF Started, Moves, SetErr, Threads, TypeOK
  <2> QED
    BY <2>1, <2>2, <2>3, <2>4, <2>5 DEF IInv, Promises
<1>2. CASE Compare(t)
  <2>g. Moves(t, {"compare"}, {"idle", "copy"})
    BY <1>2, <1>p, <1>s, GotoMoves DEF Compare, Moves, Pcs, Threads
  <2>1. TypeOK'
    BY <1>t, <1>2, <1>s, <2>g DEF TypeOK, Phases, Moves, Compare
  <2>2. Remembering'
    BY <1>t, <1>2, <1>s, <2>g DEF Remembering, Moves, Compare, Threads, TypeOK
  <2>3. Mirroring'
    BY <1>t, <1>2, <1>s, <2>g DEF Mirroring, Moves, Compare, Threads, TypeOK
  <2>4. Telling'
    BY <1>t, <1>2, <1>s, <2>g DEF Telling, Brings, Moves, Compare, Threads, TypeOK
  <2>5. Started'
    BY <1>t, <1>2, <1>s, <2>g DEF Started, Moves, Compare, Threads, TypeOK
  <2> QED
    BY <2>1, <2>2, <2>3, <2>4, <2>5 DEF IInv, Promises
<1>3. CASE Copy(t)
  <2>g. Moves(t, {"copy"}, {"callback"})
    BY <1>3, <1>p, <1>s, GotoMoves DEF Copy, Moves, Pcs, Threads
  <2>1. TypeOK'
    BY <1>t, <1>3, <1>s, <2>g DEF TypeOK, Phases, Moves, Copy
  <2>2. Remembering'
    BY <1>t, <1>3, <1>s, <2>g DEF Remembering, Moves, Copy, Threads, TypeOK
  <2>3. Mirroring'
    BY <1>t, <1>3, <1>s, <2>g DEF Mirroring, Moves, Copy, Threads, TypeOK
  <2>4. Telling'
    BY <1>t, <1>3, <1>s, <2>g DEF Telling, Brings, Moves, Copy, Threads, TypeOK
  <2>5. Started'
    BY <1>t, <1>3, <1>s, <2>g DEF Started, Moves, Copy, Threads, TypeOK
  <2> QED
    BY <2>1, <2>2, <2>3, <2>4, <2>5 DEF IInv, Promises
<1>4. CASE Callback(t)
  <2>g. Moves(t, {"callback"}, {"n_attr", "idle"})
    BY <1>4, <1>p, <1>s, GotoMoves DEF Callback, Moves, Pcs, Threads
  <2>b. subscribed => pc'[t] = "n_attr"
    BY <1>t, <1>4, <1>p, <1>s DEF Callback, Goto, TypeOK
  <2>1. TypeOK'
    BY <1>t, <1>4, <1>s, <2>g, <2>b DEF TypeOK, Phases, Moves, Callback
  <2>2. Remembering'
    BY <1>t, <1>4, <1>s, <2>g, <2>b DEF Remembering, Moves, Callback, Threads, TypeOK
  <2>3. Mirroring'
    BY <1>t, <1>4, <1>s, <2>g, <2>b DEF Mirroring, Moves, Callback, Threads, TypeOK
  <2>4. Telling'
    BY <1>t, <1>4, <1>s, <2>g, <2>b DEF Telling, Brings, Moves, Callback, Threads, TypeOK
  <2>5. Started'
    BY <1>t, <1>4, <1>s, <2>g, <2>b DEF Started, Moves, Callback, Threads, TypeOK
  <2> QED
    BY <2>1, <2>2, <2>3, <2>4, <2>5 DEF IInv, Promises
<1> QED
  BY <1>1, <1>2, <1>3, <1>4

\* errsrc_notify_if_changed: the characteristic, then what was sent, follow the error.
LEMMA NotifyKeeps ==
  ASSUME IInv, NEW t \in Threads, Notify(t)
  PROVE  IInv'
<1> USE DEF nFrame, errsrc, value, link, alert, bound
<1>t. TypeOK /\ Remembering /\ Mirroring /\ Telling /\ Started
  BY DEF IInv, Promises
<1>p. pc \in [Threads -> Pcs]
  BY <1>t DEF TypeOK
<1>1. CASE NAttr(t)
  <2>g. Moves(t, {"n_attr"}, {"n_compare"})
    BY <1>1, <1>p, GotoMoves DEF NAttr, Moves, Pcs, Threads, Handles
  <2>1. TypeOK'
    BY <1>t, <1>1, <2>g DEF TypeOK, Phases, Moves, NAttr, Handles
  <2>2. Remembering'
    BY <1>t, <1>1, <2>g DEF Remembering, Moves, NAttr, Threads, TypeOK, Handles
  <2>3. Mirroring'
    BY <1>t, <1>1, <2>g DEF Mirroring, Moves, NAttr, Threads, TypeOK, Handles
  <2>4. Telling'
    BY <1>t, <1>1, <2>g DEF Telling, Brings, Moves, NAttr, Threads, TypeOK, Handles
  <2>5. Started'
    BY <1>t, <1>1, <2>g DEF Started, Moves, NAttr, Threads, TypeOK, Handles
  <2> QED
    BY <2>1, <2>2, <2>3, <2>4, <2>5 DEF IInv, Promises
<1>2. CASE NCompare(t)
  <2>g. Moves(t, {"n_compare"}, {"a_seq", "idle", "n_sent"})
    BY <1>2, <1>p, GotoMoves DEF NCompare, Moves, Pcs, Threads, Notified
  <2>b. err # lastSent => pc'[t] = "n_sent"
    BY <1>t, <1>2, <1>p DEF NCompare, Goto, TypeOK
  <2>1. TypeOK'
    BY <1>t, <1>2, <2>g, <2>b DEF TypeOK, Phases, Moves, NCompare, Notified
  <2>2. Remembering'
    BY <1>t, <1>2, <2>g, <2>b DEF Remembering, Moves, NCompare, Threads, TypeOK, Notified
  <2>3. Mirroring'
    BY <1>t, <1>2, <2>g, <2>b DEF Mirroring, Moves, NCompare, Threads, TypeOK, Notified
  <2>4. Telling'
    BY <1>t, <1>2, <2>g, <2>b DEF Telling, Brings, Moves, NCompare, Threads, TypeOK, Notified
  <2>5. Started'
    BY <1>t, <1>2, <2>g, <2>b DEF Started, Moves, NCompare, Threads, TypeOK, Notified
  <2> QED
    BY <2>1, <2>2, <2>3, <2>4, <2>5 DEF IInv, Promises
<1>3. CASE NSent(t)
  <2>g. Moves(t, {"n_sent"}, {"a_seq", "idle"})
    BY <1>3, <1>p, GotoMoves DEF NSent, Moves, Pcs, Threads, Notified
  <2>1. TypeOK'
    BY <1>t, <1>3, <2>g DEF TypeOK, Phases, Moves, NSent, Notified
  <2>2. Remembering'
    BY <1>t, <1>3, <2>g DEF Remembering, Moves, NSent, Threads, TypeOK, Notified
  <2>3. Mirroring'
    BY <1>t, <1>3, <2>g DEF Mirroring, Moves, NSent, Threads, TypeOK, Notified
  <2>4. Telling'
    BY <1>t, <1>3, <2>g DEF Telling, Brings, Moves, NSent, Threads, TypeOK, Notified
  <2>5. Started'
    BY <1>t, <1>3, <2>g DEF Started, Moves, NSent, Threads, TypeOK, Notified
  <2> QED
    BY <2>1, <2>2, <2>3, <2>4, <2>5 DEF IInv, Promises
<1> QED
  BY <1>1, <1>2, <1>3 DEF Notify

\* alert_raise and gatt_alert_notify: whoever made the record older formats it again.
LEMMA AlertKeeps ==
  ASSUME IInv, NEW t \in Threads, Forward(t) \/ (t \in Raisers /\ Write(t))
  PROVE  IInv'
<1> USE DEF aFrame, errsrc, value, link, bound
<1>t. TypeOK /\ Remembering /\ Mirroring /\ Telling /\ Started
  BY DEF IInv, Promises
<1>p. pc \in [Threads -> Pcs]
  BY <1>t DEF TypeOK
<1>1. CASE Write(t)
  <2>g. Moves(t, {"a_seq", "a_code"}, {"a_code", "a_line"})
    BY <1>1, <1>p, GotoMoves, SMTT(30) DEF Write, Moves, Pcs, Threads
  <2>1. TypeOK'
    BY <1>t, <1>1, <2>g DEF TypeOK, Phases, Moves, Write
  <2>2. Remembering'
    BY <1>t, <1>1, <2>g DEF Remembering, Moves, Write, Threads, TypeOK
  <2>3. Mirroring'
    BY <1>t, <1>1, <2>g DEF Mirroring, Moves, Write, Threads, TypeOK
  <2>4. Telling'
    BY <1>t, <1>1, <2>g DEF Telling, Brings, Moves, Write, Threads, TypeOK
  <2>5. Started'
    BY <1>t, <1>1, <2>g DEF Started, Moves, Write, Threads, TypeOK
  <2> QED
    BY <2>1, <2>2, <2>3, <2>4, <2>5 DEF IInv, Promises
<1>2. CASE Format(t)
  <2>g. Moves(t, {"a_line"}, {"a_check"})
    BY <1>2, <1>p, GotoMoves DEF Format, Moves, Pcs, Threads
  <2>1. TypeOK'
    BY <1>t, <1>2, <2>g DEF TypeOK, Phases, Moves, Format
  <2>2. Remembering'
    BY <1>t, <1>2, <2>g DEF Remembering, Moves, Format, Threads, TypeOK
  <2>3. Mirroring'
    BY <1>t, <1>2, <2>g DEF Mirroring, Moves, Format, Threads, TypeOK
  <2>4. Telling'
    BY <1>t, <1>2, <2>g DEF Telling, Brings, Moves, Format, Threads, TypeOK
  <2>5. Started'
    BY <1>t, <1>2, <2>g DEF Started, Moves, Format, Threads, TypeOK
  <2> QED
    BY <2>1, <2>2, <2>3, <2>4, <2>5 DEF IInv, Promises
<1>3. CASE Check(t)
  <2>g. Moves(t, {"a_check"}, {"a_send", "a_ask", "idle"})
    BY <1>3, <1>p, GotoMoves DEF Check, Moves, Pcs, Threads, Raised, Dropped, GattsIf, Started
  <2>b. alertOn /\ connId /\ GattsIf => pc'[t] = "a_send" /\ line' = line
    BY <1>t, <1>3, <1>p DEF Check, Goto, TypeOK
  <2>1. TypeOK'
    BY <1>t, <1>3, <2>g, <2>b DEF TypeOK, Phases, Moves, Check, Raised, Dropped, GattsIf, Started
  <2>2. Remembering'
    BY <1>t, <1>3, <2>g, <2>b DEF Remembering, Moves, Check, Threads, TypeOK, Raised, Dropped, GattsIf, Started
  <2>3. Mirroring'
    BY <1>t, <1>3, <2>g, <2>b DEF Mirroring, Moves, Check, Threads, TypeOK, Raised, Dropped, GattsIf, Started
  <2>4. Telling'
    BY <1>t, <1>3, <2>g, <2>b DEF Telling, Brings, Moves, Check, Threads, TypeOK, Raised, Dropped, GattsIf, Started
  <2>5. Started'
    BY <1>t, <1>3, <2>g, <2>b DEF Started, Moves, Check, Threads, TypeOK, Raised, Dropped, GattsIf, Started
  <2> QED
    BY <2>1, <2>2, <2>3, <2>4, <2>5 DEF IInv, Promises
<1>4. CASE Send(t)
  <2>g. Moves(t, {"a_send"}, {"a_ask", "idle"})
    BY <1>4, <1>p, GotoMoves DEF Send, Moves, Pcs, Threads, Raised, Dropped
  <2>1. TypeOK'
    BY <1>t, <1>4, <2>g DEF TypeOK, Phases, Moves, Send, Raised, Dropped
  <2>2. Remembering'
    BY <1>t, <1>4, <2>g DEF Remembering, Moves, Send, Threads, TypeOK, Raised, Dropped
  <2>3. Mirroring'
    BY <1>t, <1>4, <2>g DEF Mirroring, Moves, Send, Threads, TypeOK, Raised, Dropped
  <2>4. Telling'
    BY <1>t, <1>4, <2>g DEF Telling, Brings, Moves, Send, Threads, TypeOK, Raised, Dropped
  <2>5. Started'
    BY <1>t, <1>4, <2>g DEF Started, Moves, Send, Threads, TypeOK, Raised, Dropped
  <2> QED
    BY <2>1, <2>2, <2>3, <2>4, <2>5 DEF IInv, Promises
<1> QED
  BY <1>1, <1>2, <1>3, <1>4 DEF Forward

\* The monitor starts an alert, and asks for RECOVERY after it.
LEMMA EscalationKeeps ==
  ASSUME IInv, ERaise \/ EAsk
  PROVE  IInv'
<1> USE DEF aFrame, errsrc, value, link, bound
<1>t. TypeOK /\ Remembering /\ Mirroring /\ Telling /\ Started
  BY DEF IInv, Promises
<1>p. pc \in [Threads -> Pcs]
  BY <1>t DEF TypeOK
<1>1. CASE ERaise
  <2>g. Moves("E", {"idle"}, {"a_seq"})
    BY <1>1, <1>p, GotoMoves DEF ERaise, Moves, Pcs, Threads, alert
  <2>b. alerts' \in Nat
    <3>1. alerts \in Nat
      BY <1>t DEF TypeOK
    <3>2. alerts' = alerts + 1
      BY <1>1 DEF ERaise
    <3> QED
      BY <3>1, <3>2
  <2>1. TypeOK'
    BY <1>t, <1>1, <2>g, <2>b DEF TypeOK, Phases, Moves, ERaise, alert
  <2>2. Remembering'
    BY <1>t, <1>1, <2>g, <2>b DEF Remembering, Moves, ERaise, Threads, TypeOK, alert
  <2>3. Mirroring'
    BY <1>t, <1>1, <2>g, <2>b DEF Mirroring, Moves, ERaise, Threads, TypeOK, alert
  <2>4. Telling'
    BY <1>t, <1>1, <2>g, <2>b DEF Telling, Brings, Moves, ERaise, Threads, TypeOK, alert
  <2>5. Started'
    BY <1>t, <1>1, <2>g, <2>b DEF Started, Moves, ERaise, Threads, TypeOK, alert
  <2> QED
    BY <2>1, <2>2, <2>3, <2>4, <2>5 DEF IInv, Promises
<1>2. CASE EAsk
  <2>g. Moves("E", {"a_ask"}, {"idle"})
    BY <1>2, <1>p, GotoMoves DEF EAsk, Moves, Pcs, Threads, alert
  <2>b. asks' \in 0..QueueDepth
    <3>1. asks \in 0..QueueDepth
      BY <1>t DEF TypeOK
    <3>2. asks' \in {asks, IF asks < QueueDepth THEN asks + 1 ELSE asks}
      BY <1>2 DEF EAsk
    <3> QED
      BY <3>1, <3>2, GattAssumption DEF GattAssumption
  <2>1. TypeOK'
    BY <1>t, <1>2, <2>g, <2>b DEF TypeOK, Phases, Moves, EAsk, alert
  <2>2. Remembering'
    BY <1>t, <1>2, <2>g, <2>b DEF Remembering, Moves, EAsk, Threads, TypeOK, alert
  <2>3. Mirroring'
    BY <1>t, <1>2, <2>g, <2>b DEF Mirroring, Moves, EAsk, Threads, TypeOK, alert
  <2>4. Telling'
    BY <1>t, <1>2, <2>g, <2>b DEF Telling, Brings, Moves, EAsk, Threads, TypeOK, alert
  <2>5. Started'
    BY <1>t, <1>2, <2>g, <2>b DEF Started, Moves, EAsk, Threads, TypeOK, alert
  <2> QED
    BY <2>1, <2>2, <2>3, <2>4, <2>5 DEF IInv, Promises
<1> QED
  BY <1>1, <1>2

\* The worker brings the server up and subscribes it.
LEMMA WorkerKeeps ==
  ASSUME IInv, WEnter \/ WRegister \/ WSubscribe
  PROVE  IInv'
<1> USE DEF wFrame, errsrc, value, link, alert, bound
<1>t. TypeOK /\ Remembering /\ Mirroring /\ Telling /\ Started
  BY DEF IInv, Promises
<1>p. pc \in [Threads -> Pcs]
  BY <1>t DEF TypeOK
<1>1. CASE WEnter
  <2>g. Moves("W", {"idle"}, {"a_seq", "register"})
    BY <1>1, <1>p, GotoMoves DEF WEnter, Moves, Pcs, Threads
  <2>b. asks' \in 0..QueueDepth
    <3>1. asks \in 0..QueueDepth
      BY <1>t DEF TypeOK
    <3>2. asks > 0 /\ asks' = asks - 1
      BY <1>1 DEF WEnter
    <3> QED
      BY <3>1, <3>2, GattAssumption DEF GattAssumption
  <2>c. IF subscribed THEN pc'["W"] = "a_seq" ELSE pc'["W"] = "register"
    BY <1>t, <1>1, <1>p DEF WEnter, Goto, TypeOK, Threads
  <2>1. TypeOK'
    BY <1>t, <1>1, <2>g, <2>b, <2>c DEF TypeOK, Phases, Moves, WEnter
  <2>2. Remembering'
    BY <1>t, <1>1, <2>g, <2>b, <2>c DEF Remembering, Moves, WEnter, Threads, TypeOK
  <2>3. Mirroring'
    BY <1>t, <1>1, <2>g, <2>b, <2>c DEF Mirroring, Moves, WEnter, Threads, TypeOK
  <2>4. Telling'
    BY <1>t, <1>1, <2>g, <2>b, <2>c DEF Telling, Brings, Moves, WEnter, Threads, TypeOK
  <2>5. Started'
    BY <1>t, <1>1, <2>g, <2>b, <2>c DEF Started, Moves, WEnter, Threads, TypeOK
  <2> QED
    BY <2>1, <2>2, <2>3, <2>4, <2>5 DEF IInv, Promises
<1>2. CASE WRegister
  <2>g. Moves("W", {"register"}, {"subscribe"})
    BY <1>2, <1>p, GotoMoves DEF WRegister, Moves, Pcs, Threads
  <2>1. TypeOK'
    BY <1>t, <1>2, <2>g DEF TypeOK, Phases, Moves, WRegister
  <2>2. Remembering'
    BY <1>t, <1>2, <2>g DEF Remembering, Moves, WRegister, Threads, TypeOK
  <2>3. Mirroring'
    BY <1>t, <1>2, <2>g DEF Mirroring, Moves, WRegister, Threads, TypeOK
  <2>4. Telling'
    BY <1>t, <1>2, <2>g DEF Telling, Brings, Moves, WRegister, Threads, TypeOK
  <2>5. Started'
    BY <1>t, <1>2, <2>g DEF Started, Moves, WRegister, Threads, TypeOK
  <2> QED
    BY <2>1, <2>2, <2>3, <2>4, <2>5 DEF IInv, Promises
<1>3. CASE WSubscribe
  <2>g. Moves("W", {"subscribe"}, {"n_attr"})
    BY <1>3, <1>p, GotoMoves DEF WSubscribe, Moves, Pcs, Threads
  <2>1. TypeOK'
    BY <1>t, <1>3, <2>g DEF TypeOK, Phases, Moves, WSubscribe
  <2>2. Remembering'
    BY <1>t, <1>3, <2>g DEF Remembering, Moves, WSubscribe, Threads, TypeOK
  <2>3. Mirroring'
    BY <1>t, <1>3, <2>g DEF Mirroring, Moves, WSubscribe, Threads, TypeOK
  <2>4. Telling'
    BY <1>t, <1>3, <2>g DEF Telling, Brings, Moves, WSubscribe, Threads, TypeOK
  <2>5. Started'
    BY <1>t, <1>3, <2>g DEF Started, Moves, WSubscribe, Threads, TypeOK
  <2> QED
    BY <2>1, <2>2, <2>3, <2>4, <2>5 DEF IInv, Promises
<1> QED
  BY <1>1, <1>2, <1>3

\* The events of the GATT server.
LEMMA BluetoothKeeps ==
  ASSUME IInv, B
  PROVE  IInv'
<1> USE DEF bFrame, errsrc, value, link, bound
<1>t. TypeOK /\ Remembering /\ Mirroring /\ Telling /\ Started
  BY DEF IInv, Promises
<1>p. pc \in [Threads -> Pcs]
  BY <1>t DEF TypeOK
<1>1. CASE BRegistered
  <2>1. TypeOK'
    BY <1>t, <1>1 DEF TypeOK, Phases, BRegistered
  <2>2. Remembering'
    BY <1>t, <1>1 DEF Remembering, BRegistered, Threads, TypeOK
  <2>3. Mirroring'
    BY <1>t, <1>1 DEF Mirroring, BRegistered, Threads, TypeOK
  <2>4. Telling'
    BY <1>t, <1>1 DEF Telling, Brings, BRegistered, Threads, TypeOK
  <2>5. Started'
    BY <1>t, <1>1 DEF Started, BRegistered, Threads, TypeOK
  <2> QED
    BY <2>1, <2>2, <2>3, <2>4, <2>5 DEF IInv, Promises
<1>2. CASE BTable
  <2>g. Moves("B", {"idle"}, {"init"})
    BY <1>2, <1>p, GotoMoves DEF BTable, Moves, Pcs, Threads
  <2>1. TypeOK'
    BY <1>t, <1>2, <2>g DEF TypeOK, Phases, Moves, BTable
  <2>2. Remembering'
    BY <1>t, <1>2, <2>g DEF Remembering, Moves, BTable, Threads, TypeOK
  <2>3. Mirroring'
    BY <1>t, <1>2, <2>g DEF Mirroring, Moves, BTable, Threads, TypeOK
  <2>4. Telling'
    BY <1>t, <1>2, <2>g DEF Telling, Brings, Moves, BTable, Threads, TypeOK
  <2>5. Started'
    BY <1>t, <1>2, <2>g DEF Started, Moves, BTable, Threads, TypeOK
  <2> QED
    BY <2>1, <2>2, <2>3, <2>4, <2>5 DEF IInv, Promises
<1>3. CASE BInitial
  <2>g. Moves("B", {"init"}, {"idle"})
    BY <1>3, <1>p, GotoMoves DEF BInitial, Moves, Pcs, Threads, Strings
  <2>1. TypeOK'
    BY <1>t, <1>3, <2>g DEF TypeOK, Phases, Moves, BInitial, Strings
  <2>2. Remembering'
    BY <1>t, <1>3, <2>g DEF Remembering, Moves, BInitial, Threads, TypeOK, Strings
  <2>3. Mirroring'
    BY <1>t, <1>3, <2>g DEF Mirroring, Moves, BInitial, Threads, TypeOK, Strings
  <2>4. Telling'
    BY <1>t, <1>3, <2>g DEF Telling, Brings, Moves, BInitial, Threads, TypeOK, Strings
  <2>5. Started'
    BY <1>t, <1>3, <2>g DEF Started, Moves, BInitial, Threads, TypeOK, Strings
  <2> QED
    BY <2>1, <2>2, <2>3, <2>4, <2>5 DEF IInv, Promises
<1>4. CASE BConnect
  <2>g. Moves("B", {"idle"}, {"unsubscribe"})
    BY <1>4, <1>p, GotoMoves DEF BConnect, Moves, Pcs, Threads
  <2>1. TypeOK'
    BY <1>t, <1>4, <2>g DEF TypeOK, Phases, Moves, BConnect
  <2>2. Remembering'
    BY <1>t, <1>4, <2>g DEF Remembering, Moves, BConnect, Threads, TypeOK
  <2>3. Mirroring'
    BY <1>t, <1>4, <2>g DEF Mirroring, Moves, BConnect, Threads, TypeOK
  <2>4. Telling'
    BY <1>t, <1>4, <2>g DEF Telling, Brings, Moves, BConnect, Threads, TypeOK
  <2>5. Started'
    BY <1>t, <1>4, <2>g DEF Started, Moves, BConnect, Threads, TypeOK
  <2> QED
    BY <2>1, <2>2, <2>3, <2>4, <2>5 DEF IInv, Promises
<1>5. CASE BDisconnect
  <2>g. Moves("B", {"idle"}, {"unsubscribe"})
    BY <1>5, <1>p, GotoMoves DEF BDisconnect, Moves, Pcs, Threads
  <2>1. TypeOK'
    BY <1>t, <1>5, <2>g DEF TypeOK, Phases, Moves, BDisconnect
  <2>2. Remembering'
    BY <1>t, <1>5, <2>g DEF Remembering, Moves, BDisconnect, Threads, TypeOK
  <2>3. Mirroring'
    BY <1>t, <1>5, <2>g DEF Mirroring, Moves, BDisconnect, Threads, TypeOK
  <2>4. Telling'
    BY <1>t, <1>5, <2>g DEF Telling, Brings, Moves, BDisconnect, Threads, TypeOK
  <2>5. Started'
    BY <1>t, <1>5, <2>g DEF Started, Moves, BDisconnect, Threads, TypeOK
  <2> QED
    BY <2>1, <2>2, <2>3, <2>4, <2>5 DEF IInv, Promises
<1>6. CASE BUnsubscribe
  <2>g. Moves("B", {"unsubscribe"}, {"idle"})
    BY <1>6, <1>p, GotoMoves DEF BUnsubscribe, Moves, Pcs, Threads
  <2>1. TypeOK'
    BY <1>t, <1>6, <2>g DEF TypeOK, Phases, Moves, BUnsubscribe
  <2>2. Remembering'
    BY <1>t, <1>6, <2>g DEF Remembering, Moves, BUnsubscribe, Threads, TypeOK
  <2>3. Mirroring'
    BY <1>t, <1>6, <2>g DEF Mirroring, Moves, BUnsubscribe, Threads, TypeOK
  <2>4. Telling'
    BY <1>t, <1>6, <2>g DEF Telling, Brings, Moves, BUnsubscribe, Threads, TypeOK
  <2>5. Started'
    BY <1>t, <1>6, <2>g DEF Started, Moves, BUnsubscribe, Threads, TypeOK
  <2> QED
    BY <2>1, <2>2, <2>3, <2>4, <2>5 DEF IInv, Promises
<1>7. CASE BRead
  <2>1. TypeOK'
    BY <1>t, <1>7 DEF TypeOK, Phases, BRead
  <2>2. Remembering'
    BY <1>t, <1>7 DEF Remembering, BRead, Threads, TypeOK
  <2>3. Mirroring'
    BY <1>t, <1>7 DEF Mirroring, BRead, Threads, TypeOK
  <2>4. Telling'
    BY <1>t, <1>7 DEF Telling, Brings, BRead, Threads, TypeOK
  <2>5. Started'
    BY <1>t, <1>7 DEF Started, BRead, Threads, TypeOK
  <2> QED
    BY <2>1, <2>2, <2>3, <2>4, <2>5 DEF IInv, Promises
<1>8. CASE BErrorCcc
  <2>g. Moves("B", {"idle"}, {"n_attr"})
    BY <1>8, <1>p, GotoMoves DEF BErrorCcc, Moves, Pcs, Threads
  <2>1. TypeOK'
    BY <1>t, <1>8, <2>g DEF TypeOK, Phases, Moves, BErrorCcc
  <2>2. Remembering'
    BY <1>t, <1>8, <2>g DEF Remembering, Moves, BErrorCcc, Threads, TypeOK
  <2>3. Mirroring'
    BY <1>t, <1>8, <2>g DEF Mirroring, Moves, BErrorCcc, Threads, TypeOK
  <2>4. Telling'
    BY <1>t, <1>8, <2>g DEF Telling, Brings, Moves, BErrorCcc, Threads, TypeOK
  <2>5. Started'
    BY <1>t, <1>8, <2>g DEF Started, Moves, BErrorCcc, Threads, TypeOK
  <2> QED
    BY <2>1, <2>2, <2>3, <2>4, <2>5 DEF IInv, Promises
<1>9. CASE BAlertCcc
  <2>g. Moves("B", {"idle"}, {"a_line", "idle"})
    BY <1>9, <1>p, GotoMoves DEF BAlertCcc, Moves, Pcs, Threads
  <2>b. alertOn' => pc'["B"] = "a_line"
    BY <1>t, <1>9, <1>p DEF BAlertCcc, Goto, TypeOK, Threads
  <2>1. TypeOK'
    BY <1>t, <1>9, <2>g, <2>b DEF TypeOK, Phases, Moves, BAlertCcc
  <2>2. Remembering'
    BY <1>t, <1>9, <2>g, <2>b DEF Remembering, Moves, BAlertCcc, Threads, TypeOK
  <2>3. Mirroring'
    BY <1>t, <1>9, <2>g, <2>b DEF Mirroring, Moves, BAlertCcc, Threads, TypeOK
  <2>4. Telling'
    BY <1>t, <1>9, <2>g, <2>b DEF Telling, Brings, Moves, BAlertCcc, Threads, TypeOK
  <2>5. Started'
    BY <1>t, <1>9, <2>g, <2>b DEF Started, Moves, BAlertCcc, Threads, TypeOK
  <2> QED
    BY <2>1, <2>2, <2>3, <2>4, <2>5 DEF IInv, Promises
<1> QED
  BY <1>1, <1>2, <1>3, <1>4, <1>5, <1>6, <1>7, <1>8, <1>9 DEF B

\* The central comes and goes.
LEMMA CentralKeeps ==
  ASSUME IInv, CentralComes \/ CentralLeaves
  PROVE  IInv'
<1> USE DEF bFrame, errsrc, value, link, bound
<1>t. TypeOK /\ Remembering /\ Mirroring /\ Telling /\ Started
  BY DEF IInv, Promises
<1>p. pc \in [Threads -> Pcs]
  BY <1>t DEF TypeOK
<1>1. CASE CentralComes
  <2>b. links' \in Nat
    <3>1. links \in Nat
      BY <1>t DEF TypeOK
    <3>2. links' = links + 1
      BY <1>1 DEF CentralComes
    <3> QED
      BY <3>1, <3>2
  <2>1. TypeOK'
    BY <1>t, <1>1, <2>b DEF TypeOK, Phases, CentralComes
  <2>2. Remembering'
    BY <1>t, <1>1, <2>b DEF Remembering, CentralComes, Threads, TypeOK
  <2>3. Mirroring'
    BY <1>t, <1>1, <2>b DEF Mirroring, CentralComes, Threads, TypeOK
  <2>4. Telling'
    BY <1>t, <1>1, <2>b DEF Telling, Brings, CentralComes, Threads, TypeOK
  <2>5. Started'
    BY <1>t, <1>1, <2>b DEF Started, CentralComes, Threads, TypeOK
  <2> QED
    BY <2>1, <2>2, <2>3, <2>4, <2>5 DEF IInv, Promises
<1>2. CASE CentralLeaves
  <2>1. TypeOK'
    BY <1>t, <1>2 DEF TypeOK, Phases, CentralLeaves
  <2>2. Remembering'
    BY <1>t, <1>2 DEF Remembering, CentralLeaves, Threads, TypeOK
  <2>3. Mirroring'
    BY <1>t, <1>2 DEF Mirroring, CentralLeaves, Threads, TypeOK
  <2>4. Telling'
    BY <1>t, <1>2 DEF Telling, Brings, CentralLeaves, Threads, TypeOK
  <2>5. Started'
    BY <1>t, <1>2 DEF Started, CentralLeaves, Threads, TypeOK
  <2> QED
    BY <2>1, <2>2, <2>3, <2>4, <2>5 DEF IInv, Promises
<1> QED
  BY <1>1, <1>2

\* The invariant, of every behaviour.
LEMMA Inductive == Spec => []IInv
<1>1. Init => IInv
  BY InitHolds
<1>2. IInv /\ [Next]_vars => IInv'
  <2> SUFFICES ASSUME IInv, [Next]_vars PROVE IInv'
    OBVIOUS
  <2>1. CASE UNCHANGED vars
    <3>1. TypeOK'
      BY <2>1 DEF IInv, TypeOK, vars, errsrc, value, link, alert, bound
    <3>2. Promises'
      BY <2>1 DEF IInv, Promises, Remembering, Mirroring, Telling, Brings, Started,
                  vars, errsrc, value, link, alert, bound
    <3> QED
      BY <3>1, <3>2 DEF IInv
  <2> QED
    BY <2>1, SetKeeps, NotifyKeeps, AlertKeeps, EscalationKeeps, WorkerKeeps, BluetoothKeeps,
       CentralKeeps DEF Next, Raisers, Threads
<1> QED
  BY <1>1, <1>2, PTL DEF Spec

\* Types and the queue's bound, for any errors and any number of calls.
THEOREM GattTyped == Spec => []TypeOK
<1>1. IInv => TypeOK
  BY DEF IInv
<1> QED
  BY <1>1, Inductive, PTL

\* The characteristic ends up showing the error in force, for any errors and any number
\* of changes and connections.
THEOREM CharacteristicFollows == Spec => []AttrFollows
<1>1. IInv => AttrFollows
  BY DEF IInv, Promises, Mirroring, AttrFollows, Settled
<1> QED
  BY <1>1, Inductive, PTL

\* What is remembered as sent ends up being the error in force.
THEOREM SentFollows == Spec => []LastSentInStep
<1>1. IInv => LastSentInStep
  BY DEF IInv, Promises, Remembering, LastSentInStep, Settled
<1> QED
  BY <1>1, Inductive, PTL

\* A subscribed central is told the latest alert, for any number of alerts and
\* connections.
THEOREM AlertsArrive == Spec => []AlertNeverMissed
<1>1. IInv => AlertNeverMissed
  BY DEF IInv, Promises, Telling, Brings, AlertNeverMissed, Settled
<1> QED
  BY <1>1, Inductive, PTL
=============================================================================
