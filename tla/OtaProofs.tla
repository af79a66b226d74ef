------------------------------ MODULE OtaProofs ------------------------------
(***************************************************************************)
(* The safety of Ota for any number of connection tasks and any size of    *)
(* the partition.  One invariant carries all of it: what each transport    *)
(* keeps about its own session (Session), and how the Bluetooth task's two *)
(* sets of books belong together at each of its steps (Books).             *)
(***************************************************************************)
EXTENDS Ota, TLAPS

Pcs == {"idle", "begin", "recv", "finish", "set_boot", "delay"}

\* A handle belongs to a transfer under way, an image about to be booted arrived
\* whole, and the bytes of a TCP stream are never out of place.
Session(a) ==
  /\ sess[a].written <= sess[a].size
  /\ sess[a].handle => sess[a].active /\ (a \in Tcp => pc[a] # "idle")
  /\ pc[a] \in {"set_boot", "delay"} =>
       Complete(a) /\ sess[a].clean /\ sess[a].crc # "off" /\ ~sess[a].active
  /\ a \in Tcp /\ pc[a] \in {"recv", "finish"} => sess[a].clean

\* s_bo and s_ble agree whenever a handler may look at both; a start finds neither in
\* use, and a finish belongs to a transfer.
Books ==
  /\ pc["ble"] # "recv"
  /\ pc["ble"] \in {"idle", "finish"} => bo.active = sess["ble"].active
  /\ pc["ble"] \in {"idle", "finish"} /\ bo.active =>
       bo.written = sess["ble"].written /\ bo.total = sess["ble"].size
  /\ pc["ble"] = "begin"  => ~bo.active /\ ~sess["ble"].active /\ link
  /\ pc["ble"] = "finish" => bo.active
  /\ bo.active => sess["ble"].clean /\ bo.seq = bo.written
  /\ bo.active /\ pc["ble"] = "idle" => link

Typed ==
  /\ sess \in [Actors -> Sessions]
  /\ bo \in [active : BOOLEAN, total : 0..SlotSize, written : 0..SlotSize, seq : 0..SlotSize]
  /\ pc \in [Actors -> Pcs]
  /\ slot \in [Cells -> Actors \cup {"erased", "junk"}] /\ boot \in {"old", "new"}
  /\ link \in BOOLEAN /\ recovery \in BOOLEAN

IInv == Typed /\ Books /\ \A a \in Actors : Session(a)

-----------------------------------------------------------------------------
(***************************************************************************)
(* What the operations of ota_session.c and ota_writer.c do to a session.  *)
(***************************************************************************)
\* The sessions of the other transports are not touched.
Apart(a) == sess' \in [Actors -> Sessions] /\ \A b \in Actors \ {a} : sess'[b] = sess[b]

SlotTyped == slot \in [Cells -> Actors \cup {"erased", "junk"}]

\* An open session is new: a handle, nothing written, nothing out of place.
LEMMA BeginOpens ==
  ASSUME Typed, NEW a \in Actors, NEW n \in Sizes, NEW c \in Crcs, Begin(a, n, c)
  PROVE  /\ Apart(a) /\ SlotTyped'
         /\ sess'[a].active /\ sess'[a].handle /\ sess'[a].clean
         /\ sess'[a].size = n /\ sess'[a].written = 0 /\ n \in 1..SlotSize
<1> DEFINE r == [NoSession EXCEPT !.active = TRUE, !.handle = TRUE, !.size = n, !.crc = c]
<1>1. n \in 1..SlotSize
  BY DEF Begin, Cells
<1>2. NoSession \in Sessions /\ n \in 0..SlotSize
  BY <1>1, OtaAssumption DEF NoSession, Sessions, Crcs, OtaAssumption
<1>5. r \in Sessions
  BY <1>2, Zenon DEF Sessions
<1>6. /\ r.active /\ r.handle /\ r.size = n
      /\ r.written = NoSession.written /\ r.clean = NoSession.clean
  BY <1>2, Zenon DEF Sessions
<1>3. sess' = [sess EXCEPT ![a] = r]
  BY DEF Begin
<1>4. SlotTyped'
  BY DEF Begin, SlotTyped, Typed
<1> HIDE DEF r
<1> QED
  BY <1>1, <1>3, <1>4, <1>5, <1>6 DEF Typed, Apart, NoSession

\* A refused one is zeroed.
LEMMA BeginFailsZeroes ==
  ASSUME Typed, NEW a \in Actors, BeginFails(a)
  PROVE  /\ Apart(a) /\ slot' = slot
         /\ ~sess'[a].active /\ ~sess'[a].handle
         /\ sess'[a].size = 0 /\ sess'[a].written = 0
<1>1. NoSession \in Sessions
  BY OtaAssumption DEF NoSession, Sessions, Crcs, OtaAssumption
<1>2. sess'[a] = NoSession
  BY DEF BeginFails, Typed
<1> QED
  BY <1>1, <1>2 DEF BeginFails, Typed, Apart, NoSession

\* An abort closes the session with its handle and leaves its counters.
LEMMA AbortCloses ==
  ASSUME Typed, NEW a \in Actors, Abort(a)
  PROVE  /\ Apart(a)
         /\ ~sess'[a].active
         /\ sess'[a].handle => sess[a].handle /\ ~sess[a].active
         /\ sess'[a].size = sess[a].size /\ sess'[a].written = sess[a].written
         /\ sess'[a].clean = sess[a].clean
<1>1. CASE sess[a].active
  <2>1. sess' = [sess EXCEPT ![a] = [sess[a] EXCEPT !.active = FALSE, !.handle = FALSE]]
    BY <1>1 DEF Abort, Typed
  <2> QED
    BY <2>1, ZenonT(60) DEF Typed, Sessions, Apart
<1>2. CASE ~sess[a].active
  BY <1>2 DEF Abort, Typed, Apart
<1> QED
  BY <1>1, <1>2

\* A write counts one more cell, and stays clean if the cell was the next one.
LEMMA WriteCounts ==
  ASSUME Typed, NEW a \in Actors, Session(a), NEW k \in Nat, Write(a, k)
  PROVE  /\ Apart(a) /\ SlotTyped'
         /\ sess[a].active /\ sess'[a].active /\ sess'[a].handle = sess[a].handle
         /\ sess'[a].size = sess[a].size /\ sess'[a].written = sess[a].written + 1
         /\ sess'[a].written <= sess'[a].size
         /\ sess'[a].clean = (sess[a].clean /\ k = sess[a].written + 1)
<1> DEFINE at == sess[a].written + 1
<1>1. sess[a] \in Sessions /\ sess[a].active /\ at <= sess[a].size
  BY DEF Typed, Write
<1>2. at \in Cells
  BY <1>1, OtaAssumption DEF Sessions, Cells, OtaAssumption
<1>3. SlotTyped'
  BY <1>2 DEF Write, Typed, SlotTyped
<1> DEFINE r == [sess[a] EXCEPT !.written = at, !.clean = (sess[a].clean /\ k = at)]
<1>4. sess' = [sess EXCEPT ![a] = r]
  BY DEF Write, Typed
<1>5. (sess[a].clean /\ k = at) \in BOOLEAN
  OBVIOUS
<1>6. r \in Sessions
  <2>1. at \in 0..SlotSize
    BY <1>2, OtaAssumption DEF Cells, OtaAssumption
  <2> HIDE DEF at
  <2> QED
    BY <1>1, <1>5, <2>1, Zenon DEF Sessions
<1>7. /\ r.active = sess[a].active /\ r.handle = sess[a].handle
      /\ r.size = sess[a].size /\ r.written = at /\ r.clean = (sess[a].clean /\ k = at)
  BY <1>1, Zenon DEF Sessions
<1> HIDE DEF r
<1>8. sess'[a] = r /\ Apart(a)
  BY <1>4, <1>6 DEF Typed, Apart
<1> QED
  BY <1>1, <1>3, <1>6, <1>7, <1>8

\* A finish closes the session, and goes on only if the image arrived whole.
LEMMA FinishCloses ==
  ASSUME Typed, NEW a \in Actors, Finish(a, "idle")
  PROVE  /\ Apart(a)
         /\ ~sess'[a].active /\ ~sess'[a].handle
         /\ sess'[a].size = sess[a].size /\ sess'[a].written = sess[a].written
         /\ sess'[a].clean = sess[a].clean /\ sess'[a].crc = sess[a].crc
         /\ \/ Goto(a, "finish", "set_boot") /\ Complete(a) /\ CrcOk(a)
            \/ Goto(a, "finish", "idle")
<1>1. sess' = [sess EXCEPT ![a] = [sess[a] EXCEPT !.active = FALSE, !.handle = FALSE]]
  BY DEF Finish, Typed
<1>2. Apart(a)
  BY <1>1, ZenonT(60) DEF Typed, Sessions, Apart
<1> QED
  BY <1>1, <1>2 DEF Finish, Typed, Sessions

\* A program counter that moves is the actor's own.
LEMMA GotoMoves ==
  ASSUME Typed, NEW a \in Actors, NEW from, NEW to \in Pcs, Goto(a, from, to)
  PROVE  /\ pc' \in [Actors -> Pcs] /\ pc[a] = from /\ pc'[a] = to
         /\ \A b \in Actors \ {a} : pc'[b] = pc[b]
  BY DEF Goto, Typed

-----------------------------------------------------------------------------
(***************************************************************************)
(* A step of one transport, and what it owes the others.                   *)
(***************************************************************************)
\* Only a's program counter moves.
Alone(a) == pc' \in [Actors -> Pcs] /\ \A b \in Actors \ {a} : pc'[b] = pc[b]

LEMMA OthersKeep ==
  ASSUME NEW a \in Actors, Apart(a), Alone(a), NEW b \in Actors \ {a}, Session(b)
  PROVE  Session(b)'
  BY DEF Apart, Alone, Session, Complete

\* A TCP transfer has only its own session to look after.
LEMMA TcpKeeps ==
  ASSUME IInv, NEW t \in Tcp, Apart(t), Alone(t), Session(t)', SlotTyped',
         boot' \in {"old", "new"}, bo' = bo, link' = link, recovery' = recovery
  PROVE  IInv'
<1>1. t \in Actors /\ "ble" \in Actors \ {t}
  BY OtaAssumption DEF OtaAssumption, Actors
<1>2. Typed'
  BY DEF IInv, Typed, Apart, Alone, SlotTyped
<1>3. Books'
  BY <1>1, Zenon DEF IInv, Books, Apart, Alone
<1>4. ASSUME NEW b \in Actors PROVE Session(b)'
  BY <1>1, <1>4, OthersKeep DEF IInv
<1> QED
  BY <1>2, <1>3, <1>4 DEF IInv

BoTyped ==
  bo \in [active : BOOLEAN, total : 0..SlotSize, written : 0..SlotSize, seq : 0..SlotSize]

LEMMA BoCleared ==
  ASSUME bo' = NoBo
  PROVE  BoTyped' /\ ~bo'.active
<1>1. NoBo \in [active : BOOLEAN, total : 0..SlotSize, written : 0..SlotSize, seq : 0..SlotSize]
  BY OtaAssumption DEF NoBo, OtaAssumption
<1>2. ~NoBo.active
  BY DEF NoBo
<1> QED
  BY <1>1, <1>2 DEF BoTyped

LEMMA BothClosed ==
  ASSUME BoTyped', ~bo'.active, Apart("ble"), ~sess'["ble"].active,
         pc'["ble"] \in {"idle", "set_boot", "delay"}
  PROVE  Books'
<1>1. sess'["ble"] \in Sessions
  BY DEF Apart, Actors
<1>2. bo'.active = FALSE /\ sess'["ble"].active = FALSE
  BY <1>1 DEF BoTyped, Sessions
<1> QED
  BY <1>2 DEF Books

\* The Bluetooth task has its books to look after as well.
LEMMA BleKeeps ==
  ASSUME IInv, Apart("ble"), Alone("ble"), Session("ble")', Books', BoTyped', SlotTyped',
         boot' \in {"old", "new"}, link' \in BOOLEAN, recovery' \in BOOLEAN
  PROVE  IInv'
<1>1. "ble" \in Actors
  BY DEF Actors
<1>2. Typed'
  BY DEF IInv, Typed, Apart, Alone, SlotTyped, BoTyped
<1>4. ASSUME NEW b \in Actors PROVE Session(b)'
  BY <1>1, <1>4, OthersKeep DEF IInv
<1> QED
  BY <1>2, <1>4 DEF IInv

\* After a restart nothing is in use.
LEMMA RestartKeeps ==
  ASSUME IInv, NEW a \in Actors, Restart(a)
  PROVE  IInv'
<1>1. NoSession \in Sessions /\ NoBo' \in [active : BOOLEAN, total : 0..SlotSize,
                                          written : 0..SlotSize, seq : 0..SlotSize]
  BY OtaAssumption DEF NoSession, NoBo, Sessions, Crcs, OtaAssumption
<1>2. Typed'
  BY <1>1 DEF Restart, Typed, Pcs
<1>3. "ble" \in Actors
  BY DEF Actors
<1>4. Books'
  BY <1>3 DEF Restart, Books, NoSession, NoBo
<1>5. \A b \in Actors : Session(b)'
  BY DEF Restart, Session, NoSession, Complete
<1> QED
  BY <1>2, <1>4, <1>5 DEF IInv

-----------------------------------------------------------------------------
(***************************************************************************)
(* The steps of a connection task.                                         *)
(***************************************************************************)
LEMMA TcpStep ==
  ASSUME IInv, NEW t \in Tcp, TStart(t) \/ TRecv(t) \/ TTail(t) \/ TOwn(t)
  PROVE  IInv'
<1>a. /\ Typed /\ Session(t) /\ t \in Actors /\ t # "ble" /\ SlotTyped
      /\ boot \in {"old", "new"} /\ sess[t] \in Sessions
  BY OtaAssumption DEF IInv, Actors, OtaAssumption, Typed, SlotTyped
<1> USE DEF tFrame, env
\* Each case shows what the step does to the session, and hands over to TcpKeeps.
<1>1. CASE TStart(t)
  <2>1. Alone(t) /\ pc[t] = "idle" /\ pc'[t] = "begin"
    BY <1>a, <1>1, GotoMoves DEF TStart, Pcs, Alone
  <2>2. Apart(t) /\ sess' = sess /\ SlotTyped'
    BY <1>a, <1>1 DEF TStart, Typed, Apart, SlotTyped
  <2>3. Session(t)'
    BY <1>a, <2>1, <2>2 DEF Session, Complete
  <2> QED
    BY <1>a, <1>1, <2>1, <2>2, <2>3, TcpKeeps DEF TStart
<1>2. CASE TRecv(t)
  <2>1. Alone(t) /\ pc[t] = "recv" /\ pc'[t] = "recv"
    BY <1>a, <1>2, GotoMoves DEF TRecv, Pcs, Alone
  <2>2. sess[t].written + 1 \in Nat
    BY <1>a, OtaAssumption DEF Sessions, OtaAssumption
  <2>3. /\ Apart(t) /\ SlotTyped' /\ sess'[t].active /\ sess'[t].written <= sess'[t].size
        /\ sess[t].clean => sess'[t].clean
    <3>1. Write(t, sess[t].written + 1)
      BY <1>2 DEF TRecv
    <3> QED
      BY <1>a, <2>2, <3>1, WriteCounts
  <2>4. Session(t)'
    BY <1>a, <2>1, <2>3 DEF Session
  <2> QED
    BY <1>a, <1>2, <2>1, <2>3, <2>4, TcpKeeps DEF TRecv
<1>3. CASE TTail(t)
  <2>1. Alone(t) /\ pc[t] = "recv" /\ pc'[t] = "finish"
    BY <1>a, <1>3, GotoMoves DEF TTail, Pcs, Alone
  <2>2. PICK c \in Crcs : sess' = [sess EXCEPT ![t] = [sess[t] EXCEPT !.crc = c]]
    BY <1>a, <1>3 DEF TTail, Typed
  <2>3. [sess[t] EXCEPT !.crc = c] \in Sessions
    BY <1>a, Zenon DEF Sessions
  <2>4. Apart(t) /\ sess'[t] = [sess[t] EXCEPT !.crc = c]
    BY <1>a, <2>2, <2>3 DEF Typed, Apart
  <2>5. Session(t)'
    BY <1>a, <2>1, <2>4 DEF Session, Sessions
  <2> QED
    BY <1>a, <1>3, <2>1, <2>4, <2>5, TcpKeeps DEF TTail, SlotTyped
<1>4. CASE TBegin(t)
  <2>1. Alone(t) /\ pc'[t] \in {"recv", "idle"}
    BY <1>a, <1>4, GotoMoves DEF TBegin, Pcs, Alone
  <2>2. CASE \E n \in Sizes : Begin(t, n, "skip") /\ Goto(t, "begin", "recv")
    <3>1. PICK n \in Sizes : Begin(t, n, "skip")
      BY <2>2
    <3>2. /\ Apart(t) /\ SlotTyped' /\ sess'[t].active /\ sess'[t].clean
          /\ sess'[t].size = n /\ sess'[t].written = 0 /\ n \in 1..SlotSize
      BY <1>a, <3>1, BeginOpens DEF Crcs
    <3>3. pc'[t] = "recv"
      BY <1>a, <2>2, GotoMoves DEF Pcs
    <3>4. Session(t)'
      BY <3>2, <3>3, OtaAssumption DEF Session, OtaAssumption
    <3> QED
      BY <1>a, <1>4, <2>1, <3>2, <3>4, TcpKeeps DEF TBegin
  <2>3. CASE BeginFails(t)
    <3>1. /\ Apart(t) /\ slot' = slot /\ ~sess'[t].active /\ ~sess'[t].handle
          /\ sess'[t].size = 0 /\ sess'[t].written = 0
      BY <1>a, <2>3, BeginFailsZeroes
    <3>2. pc'[t] = "idle"
      BY <1>a, <1>4, <2>3, <3>1, BeginOpens, GotoMoves DEF TBegin, Pcs, Crcs
    <3>3. Session(t)'
      BY <3>1, <3>2 DEF Session
    <3> QED
      BY <1>a, <1>4, <2>1, <3>1, <3>3, TcpKeeps DEF TBegin, SlotTyped
  <2> QED
    BY <1>4, <2>2, <2>3 DEF TBegin
<1>5. CASE TFails(t)
  <2>1. Alone(t) /\ pc[t] = "recv" /\ pc'[t] = "idle"
    BY <1>a, <1>5, GotoMoves DEF TFails, Pcs, Alone
  <2>2. /\ Apart(t) /\ (sess'[t].handle => sess[t].handle /\ ~sess[t].active)
        /\ sess'[t].size = sess[t].size /\ sess'[t].written = sess[t].written
    BY <1>a, <1>5, AbortCloses DEF TFails
  <2>3. Session(t)'
    BY <1>a, <2>1, <2>2 DEF Session
  <2> QED
    BY <1>a, <1>5, <2>1, <2>2, <2>3, TcpKeeps DEF TFails, SlotTyped
<1>6. CASE TFinish(t)
  <2>1. Finish(t, "idle")
    BY <1>6 DEF TFinish
  <2>2. /\ Apart(t) /\ ~sess'[t].active /\ ~sess'[t].handle
        /\ sess'[t].size = sess[t].size /\ sess'[t].written = sess[t].written
        /\ sess'[t].clean = sess[t].clean /\ sess'[t].crc = sess[t].crc
        /\ \/ Goto(t, "finish", "set_boot") /\ Complete(t) /\ CrcOk(t)
           \/ Goto(t, "finish", "idle")
    BY <1>a, <2>1, FinishCloses
  <2>3. Alone(t) /\ pc[t] = "finish" /\ pc'[t] \in {"set_boot", "idle"}
    BY <1>a, <2>2, GotoMoves DEF Pcs, Alone
  <2>4. pc'[t] = "set_boot" => Complete(t) /\ CrcOk(t)
    BY <1>a, <2>2, GotoMoves DEF Pcs
  <2>5. Session(t)'
    BY <1>a, <2>2, <2>3, <2>4 DEF Session, Complete, CrcOk
  <2> QED
    BY <1>a, <1>6, <2>2, <2>3, <2>5, TcpKeeps DEF TFinish, Finish, SlotTyped
<1>7. CASE TSetBoot(t)
  <2>1. Alone(t) /\ pc[t] = "set_boot" /\ pc'[t] \in {"delay", "idle"}
    BY <1>a, <1>7, GotoMoves DEF TSetBoot, SetBoot, Pcs, Alone
  <2>2. Apart(t) /\ sess' = sess /\ SlotTyped' /\ boot' \in {"old", "new"}
    BY <1>a, <1>7 DEF TSetBoot, SetBoot, Typed, Apart, SlotTyped
  <2>3. Session(t)'
    BY <1>a, <2>1, <2>2 DEF Session, Complete
  <2> QED
    BY <1>a, <1>7, <2>1, <2>2, <2>3, TcpKeeps DEF TSetBoot, SetBoot
<1>8. CASE Restart(t)
  BY <1>a, <1>8, RestartKeeps
<1> QED
  BY <1>1, <1>2, <1>3, <1>4, <1>5, <1>6, <1>7, <1>8 DEF TOwn

-----------------------------------------------------------------------------
(***************************************************************************)
(* The steps of the Bluetooth task.                                        *)
(***************************************************************************)
LEMMA BleStep ==
  ASSUME IInv, B \/ (link /\ Host)
  PROVE  IInv'
<1>a. /\ Typed /\ Books /\ Session("ble") /\ "ble" \in Actors /\ "ble" \notin Tcp
      /\ SlotTyped /\ BoTyped /\ boot \in {"old", "new"} /\ link \in BOOLEAN
      /\ recovery \in BOOLEAN /\ sess["ble"] \in Sessions
  BY OtaAssumption DEF IInv, Actors, OtaAssumption, Typed, SlotTyped, BoTyped
<1> USE DEF bFrame, env
<1>1. CASE link /\ BStart
  <2>1. Alone("ble") /\ pc["ble"] = "idle" /\ pc'["ble"] = "begin"
    BY <1>a, <1>1, GotoMoves DEF BStart, Pcs, Alone
  <2>2. Apart("ble") /\ sess' = sess /\ SlotTyped' /\ BoTyped'
    BY <1>a, <1>1 DEF BStart, Typed, Apart, SlotTyped, BoTyped
  <2>3. Session("ble")' /\ Books'
    BY <1>a, <1>1, <2>1, <2>2 DEF Session, Complete, Books, BStart
  <2> QED
    BY <1>a, <1>1, <2>1, <2>2, <2>3, BleKeeps DEF BStart
<1>2. CASE BBegin
  <2>1. Alone("ble") /\ pc["ble"] = "begin" /\ pc'["ble"] = "idle"
    BY <1>a, <1>2, GotoMoves DEF BBegin, Pcs, Alone
  <2>2. CASE BeginFails("ble") /\ UNCHANGED bo
    <3>1. /\ Apart("ble") /\ slot' = slot /\ ~sess'["ble"].active /\ ~sess'["ble"].handle
          /\ sess'["ble"].size = 0 /\ sess'["ble"].written = 0
      BY <1>a, <2>2, BeginFailsZeroes
    <3>2. Session("ble")'
      BY <1>a, <2>1, <3>1 DEF Session
    <3>3. Books'
      <4>1. ~bo.active
        BY <1>a, <2>1 DEF Books
      <4> QED
        BY <1>a, <2>1, <2>2, <3>1, <4>1, BothClosed DEF BoTyped
    <3> QED
      BY <1>a, <1>2, <2>1, <2>2, <3>1, <3>2, <3>3, BleKeeps DEF BBegin, SlotTyped, BoTyped
  <2>3. ASSUME NEW n \in Sizes, NEW c \in Crcs, Begin("ble", n, c),
               bo' = [NoBo EXCEPT !.active = TRUE, !.total = n]
        PROVE  IInv'
    <3>1. /\ Apart("ble") /\ SlotTyped' /\ sess'["ble"].active /\ sess'["ble"].clean
          /\ sess'["ble"].size = n /\ sess'["ble"].written = 0 /\ n \in 1..SlotSize
      BY <1>a, <2>3, BeginOpens
    <3>2. /\ BoTyped' /\ bo'.active /\ bo'.total = n /\ bo'.written = 0 /\ bo'.seq = 0
      <4>1. bo' = [active |-> TRUE, total |-> n, written |-> 0, seq |-> 0]
        BY <2>3 DEF NoBo
      <4>2. 0 \in 0..SlotSize /\ n \in 0..SlotSize
        BY <3>1, OtaAssumption DEF OtaAssumption
      <4> QED
        BY <4>1, <4>2 DEF BoTyped
    <3>3. Session("ble")'
      BY <2>1, <3>1, OtaAssumption DEF Session, OtaAssumption
    <3>4. link' = link /\ link
      BY <1>a, <1>2, <2>1 DEF BBegin, Books
    <3>5. Books'
      BY <2>1, <3>1, <3>2, <3>4 DEF Books
    <3> QED
      BY <1>a, <1>2, <2>1, <3>1, <3>2, <3>3, <3>5, BleKeeps DEF BBegin
  <2> QED
    BY <1>2, <2>2, <2>3 DEF BBegin
<1>3. CASE link /\ BData
  <2>1. PICK k \in 0..SlotSize : k = bo.seq /\ Write("ble", k + 1)
    BY <1>3 DEF BData, InSequence
  <2>2. /\ pc["ble"] = "idle" /\ Alone("ble")
        /\ pc'["ble"] = IF bo.written + 1 = bo.total THEN "finish" ELSE "idle"
    BY <1>a, <1>3, GotoMoves DEF BData, Pcs, Alone
  <2>3. /\ bo.active /\ bo.written + 1 <= bo.total /\ bo.seq = bo.written
        /\ bo.written = sess["ble"].written /\ bo.total = sess["ble"].size
        /\ sess["ble"].clean
    BY <1>a, <1>3, <2>2 DEF BData, Books
  <2>4. k + 1 \in Nat /\ k + 1 = sess["ble"].written + 1
    BY <2>1, <2>3, OtaAssumption DEF OtaAssumption
  <2>5. /\ Apart("ble") /\ SlotTyped' /\ sess'["ble"].active
        /\ sess'["ble"].size = sess["ble"].size
        /\ sess'["ble"].written = sess["ble"].written + 1
        /\ sess'["ble"].written <= sess'["ble"].size
        /\ sess'["ble"].clean
    BY <1>a, <2>1, <2>3, <2>4, WriteCounts
  <2>6. /\ BoTyped' /\ bo'.active /\ bo'.total = bo.total
        /\ bo'.written = bo.written + 1 /\ bo'.seq = bo.seq + 1
    <3>1. /\ bo.seq \in 0..SlotSize /\ bo.written \in 0..SlotSize /\ bo.total \in 0..SlotSize
      BY <1>a DEF BoTyped
    <3>2. bo.seq + 1 \in 0..SlotSize /\ bo.written + 1 \in 0..SlotSize
      BY <2>3, <3>1, OtaAssumption DEF OtaAssumption
    <3>3. bo' = [bo EXCEPT !.seq = bo.seq + 1, !.written = bo.written + 1]
      BY <1>3 DEF BData
    <3>4. bo' \in [active : BOOLEAN, total : 0..SlotSize, written : 0..SlotSize, seq : 0..SlotSize]
      BY <1>a, <3>2, <3>3, Zenon DEF BoTyped
    <3> QED
      BY <1>a, <2>3, <3>3, <3>4 DEF BoTyped
  <2>7. Session("ble")' /\ Books'
    BY <1>a, <1>3, <2>2, <2>3, <2>5, <2>6 DEF Session, Books, BData
  <2> QED
    BY <1>a, <1>3, <2>2, <2>5, <2>6, <2>7, BleKeeps DEF BData
<1>4. CASE BDataFails \/ BAbortCmd
  <2>1. Alone("ble") /\ pc["ble"] = "idle" /\ pc'["ble"] = "idle"
    BY <1>a, <1>4, GotoMoves DEF BDataFails, BAbortCmd, Pcs, Alone
  <2>2. /\ Apart("ble") /\ ~sess'["ble"].active
        /\ sess'["ble"].handle => sess["ble"].handle /\ ~sess["ble"].active
        /\ sess'["ble"].size = sess["ble"].size /\ sess'["ble"].written = sess["ble"].written
    BY <1>a, <1>4, AbortCloses DEF BDataFails, BAbortCmd
  <2>3. bo' = NoBo
    BY <1>4 DEF BDataFails, BAbortCmd
  <2>4. Session("ble")'
    BY <1>a, <2>1, <2>2 DEF Session
  <2>5. Books'
    BY <2>1, <2>2, <2>3, BoCleared, BothClosed
  <2> QED
    BY <1>a, BoCleared, <1>4, <2>1, <2>2, <2>3, <2>4, <2>5, BleKeeps DEF BDataFails, BAbortCmd, SlotTyped
<1>5. CASE link /\ BFinishCmd
  <2>1. Alone("ble") /\ pc["ble"] = "idle" /\ pc'["ble"] = "finish"
    BY <1>a, <1>5, GotoMoves DEF BFinishCmd, Pcs, Alone
  <2>2. Apart("ble") /\ sess' = sess /\ SlotTyped' /\ BoTyped'
    BY <1>a, <1>5 DEF BFinishCmd, Typed, Apart, SlotTyped, BoTyped
  <2>3. Session("ble")' /\ Books'
    BY <1>a, <1>5, <2>1, <2>2 DEF Session, Complete, Books, BFinishCmd
  <2> QED
    BY <1>a, <1>5, <2>1, <2>2, <2>3, BleKeeps DEF BFinishCmd
<1>6. CASE BFinish
  <2>1. Finish("ble", "idle")
    BY <1>6 DEF BFinish
  <2>2. /\ Apart("ble") /\ ~sess'["ble"].active /\ ~sess'["ble"].handle
        /\ sess'["ble"].size = sess["ble"].size
        /\ sess'["ble"].written = sess["ble"].written
        /\ sess'["ble"].clean = sess["ble"].clean /\ sess'["ble"].crc = sess["ble"].crc
        /\ \/ Goto("ble", "finish", "set_boot") /\ Complete("ble") /\ CrcOk("ble")
           \/ Goto("ble", "finish", "idle")
    BY <1>a, <2>1, FinishCloses
  <2>3. Alone("ble") /\ pc["ble"] = "finish" /\ pc'["ble"] \in {"set_boot", "idle"}
    BY <1>a, <2>2, GotoMoves DEF Pcs, Alone
  <2>4. pc'["ble"] = "set_boot" => Complete("ble") /\ CrcOk("ble")
    BY <1>a, <2>2, GotoMoves DEF Pcs
  <2>5. bo' = IF pc'["ble"] = "idle" THEN NoBo ELSE bo
    BY <1>6 DEF BFinish
  <2>6. sess["ble"].clean
    BY <1>a, <2>3 DEF Books
  <2>7. Session("ble")'
    BY <1>a, <2>2, <2>3, <2>4, <2>6 DEF Session, Complete, CrcOk
  <2>8. Books'
    <3>1. CASE pc'["ble"] = "idle"
      BY <2>2, <2>5, <3>1, BoCleared, BothClosed
    <3>2. CASE pc'["ble"] = "set_boot"
      BY <1>a, <2>2, <2>3, <2>5, <2>6, <3>2 DEF Books
    <3> QED
      BY <2>3, <3>1, <3>2
  <2>9. BoTyped'
    BY <1>a, BoCleared, <2>5 DEF BoTyped
  <2> QED
    BY <1>a, <1>6, <2>2, <2>3, <2>7, <2>8, <2>9, BleKeeps DEF BFinish, Finish, SlotTyped
<1>7. CASE BSetBoot
  <2>1. Alone("ble") /\ pc["ble"] = "set_boot" /\ pc'["ble"] \in {"delay", "idle"}
    BY <1>a, <1>7, GotoMoves DEF BSetBoot, SetBoot, Pcs, Alone
  <2>2. Apart("ble") /\ sess' = sess /\ SlotTyped' /\ boot' \in {"old", "new"} /\ bo' = NoBo
    BY <1>a, <1>7 DEF BSetBoot, SetBoot, Typed, Apart, SlotTyped
  <2>3. Session("ble")'
    BY <1>a, <2>1, <2>2 DEF Session, Complete
  <2>4. Books'
    BY <1>a, <2>1, <2>2, BoCleared, BothClosed DEF Session
  <2> QED
    BY <1>a, BoCleared, <1>7, <2>1, <2>2, <2>3, <2>4, BleKeeps DEF BSetBoot, SetBoot
<1>8. CASE Restart("ble")
  BY <1>a, <1>8, RestartKeeps
<1> QED
  BY <1>1, <1>2, <1>3, <1>4, <1>5, <1>6, <1>7, <1>8 DEF B, Host

\* The central comes and goes.
LEMMA LinkStep ==
  ASSUME IInv, BConnect \/ BDisconnect
  PROVE  IInv'
<1>a. /\ Typed /\ Books /\ Session("ble") /\ "ble" \in Actors /\ "ble" \notin Tcp
      /\ SlotTyped /\ BoTyped /\ boot \in {"old", "new"} /\ recovery \in BOOLEAN
  BY OtaAssumption DEF IInv, Actors, OtaAssumption, Typed, SlotTyped, BoTyped
<1>1. CASE BConnect
  <2>1. Alone("ble") /\ pc["ble"] = "idle" /\ pc'["ble"] = "idle"
    BY <1>a, <1>1, GotoMoves DEF BConnect, Pcs, Alone
  <2>2. Apart("ble") /\ sess' = sess /\ SlotTyped' /\ BoTyped'
    BY <1>a, <1>1 DEF BConnect, Typed, Apart, SlotTyped, BoTyped
  <2>3. Session("ble")' /\ Books'
    BY <1>a, <1>1, <2>1, <2>2 DEF Session, Complete, Books, BConnect
  <2> QED
    BY <1>a, <1>1, <2>1, <2>2, <2>3, BleKeeps DEF BConnect
<1>2. CASE BDisconnect /\ bo.active /\ bo.written = bo.total
  <2>1. Alone("ble") /\ pc["ble"] = "idle" /\ pc'["ble"] = "finish"
    BY <1>a, <1>2, GotoMoves DEF BDisconnect, Pcs, Alone
  <2>2. Apart("ble") /\ sess' = sess /\ bo' = bo /\ SlotTyped' /\ BoTyped'
    BY <1>a, <1>2 DEF BDisconnect, Typed, Apart, SlotTyped, BoTyped
  <2>3. Session("ble")' /\ Books'
    BY <1>a, <1>2, <2>1, <2>2 DEF Session, Complete, Books, BDisconnect
  <2> QED
    BY <1>a, <1>2, <2>1, <2>2, <2>3, BleKeeps DEF BDisconnect
<1>3. CASE BDisconnect /\ ~(bo.active /\ bo.written = bo.total)
  <2>0. Goto("ble", "idle", "idle") /\ Abort("ble") /\ bo' = NoBo
    BY <1>3 DEF BDisconnect
  <2>1. Alone("ble") /\ pc["ble"] = "idle" /\ pc'["ble"] = "idle"
    BY <1>a, <2>0, GotoMoves DEF Pcs, Alone
  <2>2. /\ Apart("ble") /\ ~sess'["ble"].active
        /\ sess'["ble"].handle => sess["ble"].handle /\ ~sess["ble"].active
        /\ sess'["ble"].size = sess["ble"].size /\ sess'["ble"].written = sess["ble"].written
    BY <1>a, <2>0, AbortCloses
  <2>3. Session("ble")'
    BY <1>a, <2>1, <2>2 DEF Session
  <2>4. Books'
    BY <2>0, <2>1, <2>2, BoCleared, BothClosed
  <2> QED
    BY <1>a, BoCleared, <1>3, <2>0, <2>1, <2>2, <2>3, <2>4, BleKeeps DEF BDisconnect, SlotTyped
<1> QED
  BY <1>1, <1>2, <1>3

-----------------------------------------------------------------------------
LEMMA InitIInv == Init => IInv
<1> SUFFICES ASSUME Init PROVE IInv
  OBVIOUS
<1>1. NoSession \in Sessions
  BY OtaAssumption DEF NoSession, Sessions, Crcs, OtaAssumption
<1>2. BoTyped
  BY OtaAssumption DEF Init, NoBo, BoTyped, OtaAssumption
<1>3. Typed
  BY <1>1, <1>2 DEF Init, Typed, Pcs, BoTyped
<1>4. Books
  BY DEF Init, Books, Actors, NoBo, NoSession
<1>5. \A a \in Actors : Session(a)
  BY DEF Init, Session, NoSession
<1> QED
  BY <1>3, <1>4, <1>5 DEF IInv

LEMMA IInvCorrect == Spec => []IInv
<1>1. IInv /\ [Next]_vars => IInv'
  <2> SUFFICES ASSUME IInv, [Next]_vars PROVE IInv'
    OBVIOUS
  <2>1. CASE UNCHANGED vars
    BY <2>1 DEF vars, env, IInv, Typed, Books, Session, Complete
  <2>2. CASE ModeChanges
    BY <2>2 DEF ModeChanges, IInv, Typed, Books, Session, Complete
  <2>3. CASE \E t \in Tcp : TStart(t) \/ TRecv(t) \/ TTail(t) \/ TOwn(t)
    BY <2>3, TcpStep
  <2> QED
    BY <2>1, <2>2, <2>3, BleStep, LinkStep DEF Next
<1> QED
  BY <1>1, InitIInv, PTL DEF Spec

\* Types, and nothing is written past the size announced, over either transport.
THEOREM OtaTyped == Spec => []TypeOK
<1>1. IInv => TypeOK
  BY DEF IInv, Typed, Pcs, Session, TypeOK
<1> QED
  BY <1>1, IInvCorrect, PTL

\* Between two handlers s_bo and s_ble tell the same story (ble_ota.c), whatever
\* failed in the handlers before, and however many TCP transfers run beside them.
THEOREM BooksStayTogether == Spec => []BooksAgree
<1>1. IInv => BooksAgree
  BY DEF IInv, Books, BooksAgree
<1> QED
  BY <1>1, IInvCorrect, PTL

\* No path of either transport keeps an esp_ota handle it no longer uses, although
\* a TCP session starts out as whatever is on the stack (ota_handler.c).
THEOREM HandlesReturned == Spec => []NoHandleLeak
<1>1. IInv => NoHandleLeak
  BY DEF IInv, Session, NoHandleLeak
<1> QED
  BY <1>1, IInvCorrect, PTL

\* The boot partition is only switched for an image that came whole, in order and
\* with the CRC the host gave (ota_session_finish).
THEOREM SwitchIsEarned == Spec => []EarnedSwitch
<1>1. IInv => EarnedSwitch
  BY DEF IInv, Session, EarnedSwitch
<1> QED
  BY <1>1, IInvCorrect, PTL

\* Lost or repeated data frames never shift the image, whatever the size.
THEOREM FramesInPlace == Spec => []NeverShifted
<1>1. IInv => NeverShifted
  BY DEF IInv, Books, NeverShifted
<1> QED
  BY <1>1, IInvCorrect, PTL

\* No transfer outlives the link of the central that started it
\* (ble_ota_on_disconnect).
THEOREM TransferNeedsLink == Spec => []LinkOwnsTransfer
<1>1. IInv => LinkOwnsTransfer
  BY DEF IInv, Books, LinkOwnsTransfer
<1> QED
  BY <1>1, IInvCorrect, PTL
=============================================================================
