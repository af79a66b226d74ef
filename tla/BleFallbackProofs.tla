-------------------------- MODULE BleFallbackProofs --------------------------
(***************************************************************************)
(* Types of BleFallback, and that nothing unconfigured is ever on the air, *)
(* for any queue depths and any number of RECOVERY entries, hidings and    *)
(* failed requests.  The argument is one flag: s_adv_ready is the only way *)
(* to a start, it is taken back by the initialisation alone, and that runs *)
(* once, while nothing else can have happened yet.                         *)
(***************************************************************************)
EXTENDS BleFallback, TLAPS

Starting(q) == \E i \in DOMAIN q : q[i] = "start"

\* What leads to an advertisement has passed s_adv_ready, and that means both payloads.
ReadyFirst ==
  /\ ready => cfgDone = Payloads
  /\ kicks > 0 \/ kpc # "idle" \/ bpc = "deferred" \/ air \/ Starting(reqs) => ready

\* Until the flags are reset no request has been made and no event has come.
Pristine ==
  /\ ~ready /\ ~running /\ ~air /\ ~central
  /\ kicks = 0 /\ reqs = <<>> /\ evs = <<>> /\ kpc = "idle" /\ bpc = "idle"

\* The stack is initialised once, before anything else is configured.
InitOnce ==
  /\ ~stack \/ wpc \in {"stack", "reset"} => Pristine
  /\ wpc = "stack" => ~stack
  /\ wpc \notin {"idle", "stack"} => stack

Flags ==
  /\ enabled \in BOOLEAN /\ deferred \in BOOLEAN /\ ready \in BOOLEAN
  /\ running \in BOOLEAN /\ connected \in BOOLEAN /\ stack \in BOOLEAN
  /\ air \in BOOLEAN /\ central \in BOOLEAN

Rest ==
  /\ cfgDone \subseteq Payloads /\ watch \in {"none", "on", "off"}
  /\ kicks \in 0..KickDepth /\ reqs \in Seq(Requests) /\ evs \in Seq(GapEvents)

Pcs ==
  /\ wpc \in {"idle", "stack", "reset", "adv", "scan", "watch", "enable", "test", "defer"}
  /\ xpc \in {"idle", "disable", "undefer", "stop", "stop_again", "unwatch",
              "clear_connected", "clear_running", "clear_deferred"}
  /\ kpc \in {"idle", "test", "start"}
  /\ bpc \in {"idle", "restart", "ready", "deferred", "reopen"}

IInv == Flags /\ Rest /\ Pcs /\ ReadyFirst /\ InitOnce

-----------------------------------------------------------------------------
(***************************************************************************)
(* The queues.                                                             *)
(***************************************************************************)
LEMMA NothingStarts == ~Starting(<<>>)
  BY DEF Starting

\* A request at the end of the queue starts something only if it is a start.
LEMMA RequestQueued ==
  ASSUME Rest, NEW r \in Requests, Request(r)
  PROVE  /\ reqs' \in Seq(Requests)
         /\ Starting(reqs') => Starting(reqs) \/ r = "start"
<1>1. reqs' = Append(reqs, r) /\ reqs \in Seq(Requests)
  BY DEF Request, Rest
<1>2. ASSUME NEW i \in DOMAIN reqs', reqs'[i] = "start", r # "start"
      PROVE  Starting(reqs)
  BY <1>1, <1>2 DEF Starting
<1> QED
  BY <1>1, <1>2 DEF Starting

\* The first request served: what is left starts no more than before.
LEMMA RequestServed ==
  ASSUME Rest, NEW r, NEW e \in GapEvents, Serve(r, e)
  PROVE  /\ reqs' \in Seq(Requests) /\ evs' \in Seq(GapEvents)
         /\ reqs # <<>>
         /\ Starting(reqs') => Starting(reqs)
         /\ r = "start" => Starting(reqs)
<1>1. /\ reqs' = Tail(reqs) /\ reqs \in Seq(Requests) /\ reqs # <<>> /\ reqs[1] = r
      /\ evs' = Append(evs, e) /\ evs \in Seq(GapEvents)
  BY DEF Serve, Rest
<1>2. 1 \in DOMAIN reqs
  BY <1>1
<1>3. ASSUME NEW i \in DOMAIN reqs', reqs'[i] = "start"
      PROVE  Starting(reqs)
  <2>1. i + 1 \in DOMAIN reqs /\ reqs[i + 1] = "start"
    BY <1>1, <1>3
  <2> QED
    BY <2>1 DEF Starting
<1> QED
  BY <1>1, <1>2, <1>3 DEF Starting

LEMMA EventTaken ==
  ASSUME Rest, NEW e, BFrom(e)
  PROVE  evs' \in Seq(GapEvents) /\ evs # <<>>
  BY DEF BFrom, Rest

LEMMA KickStays ==
  ASSUME Rest, Kick
  PROVE  kicks' \in 0..KickDepth
  BY BleFallbackAssumption DEF Kick, Rest

-----------------------------------------------------------------------------
THEOREM InitIInv == Init => IInv
<1> SUFFICES ASSUME Init PROVE IInv
  OBVIOUS
<1> USE DEF Init
<1>1. Flags /\ Pcs
  BY DEF Flags, Pcs
<1>2. Rest
  BY BleFallbackAssumption DEF Rest
<1>3. ReadyFirst /\ InitOnce
  BY NothingStarts DEF ReadyFirst, InitOnce, Pristine
<1> QED
  BY <1>1, <1>2, <1>3 DEF IInv

\* Initialising, then enabling.
LEMMA WKeeps ==
  ASSUME IInv, WEnter \/ W
  PROVE  IInv'
<1>t. Flags /\ Rest /\ Pcs /\ ReadyFirst /\ InitOnce
  BY DEF IInv
<1> USE DEF WGoto, wFrame, flags, bound, bt
<1>1. CASE WEnter
  <2>f. Flags'
    BY <1>t, <1>1, Zenon DEF WEnter, Flags
  <2>p. Pcs'
    BY <1>t, <1>1 DEF WEnter, Pcs
  <2>r. Rest'
    BY <1>t, <1>1 DEF WEnter, Rest
  <2>i. ReadyFirst' /\ InitOnce'
    BY <1>t, <1>1 DEF WEnter, ReadyFirst, InitOnce, Pristine
  <2> QED
    BY <2>f, <2>p, <2>r, <2>i DEF IInv
<1>2. CASE WStack
  <2>f. Flags'
    BY <1>t, <1>2, Zenon DEF WStack, Flags
  <2>p. Pcs'
    BY <1>t, <1>2 DEF WStack, Pcs
  <2>r. Rest'
    BY <1>t, <1>2 DEF WStack, Rest
  <2>i. ReadyFirst' /\ InitOnce'
    BY <1>t, <1>2 DEF WStack, ReadyFirst, InitOnce, Pristine
  <2> QED
    BY <2>f, <2>p, <2>r, <2>i DEF IInv
<1>3. CASE WReset
  <2>f. Flags'
    BY <1>t, <1>3, Zenon DEF WReset, Flags
  <2>p. Pcs'
    BY <1>t, <1>3 DEF WReset, Pcs
  <2>r. Rest'
    BY <1>t, <1>3 DEF WReset, Rest
  <2>i. ReadyFirst' /\ InitOnce'
    BY <1>t, <1>3 DEF WReset, ReadyFirst, InitOnce, Pristine
  <2> QED
    BY <2>f, <2>p, <2>r, <2>i DEF IInv
<1>4. CASE WConfig
  <2>1. /\ reqs' \in Seq(Requests)
        /\ Starting(reqs') => Starting(reqs)
    BY <1>t, <1>4, RequestQueued DEF WConfig, Requests, Payloads
  <2>f. Flags'
    BY <1>t, <1>4, Zenon DEF WConfig, Payloads, Flags
  <2>p. Pcs'
    BY <1>t, <1>4 DEF WConfig, Pcs
  <2>r. Rest'
    BY <1>t, <1>4, <2>1 DEF WConfig, Rest
  <2>i. ReadyFirst' /\ InitOnce'
    BY <1>t, <1>4, <2>1 DEF WConfig, ReadyFirst, InitOnce
  <2> QED
    BY <2>f, <2>p, <2>r, <2>i DEF IInv
<1>5. CASE WWatch
  <2>f. Flags'
    BY <1>t, <1>5, Zenon DEF WWatch, Flags
  <2>p. Pcs'
    BY <1>t, <1>5 DEF WWatch, Pcs
  <2>r. Rest'
    BY <1>t, <1>5 DEF WWatch, Rest
  <2>i. ReadyFirst' /\ InitOnce'
    BY <1>t, <1>5 DEF WWatch, ReadyFirst, InitOnce
  <2> QED
    BY <2>f, <2>p, <2>r, <2>i DEF IInv
<1>6. CASE WEnable
  <2>f. Flags'
    BY <1>t, <1>6, Zenon DEF WEnable, Flags
  <2>p. Pcs'
    BY <1>t, <1>6 DEF WEnable, Pcs
  <2>r. Rest'
    BY <1>t, <1>6 DEF WEnable, Rest
  <2>i. ReadyFirst' /\ InitOnce'
    BY <1>t, <1>6 DEF WEnable, ReadyFirst, InitOnce
  <2> QED
    BY <2>f, <2>p, <2>r, <2>i DEF IInv
<1>7. CASE WTest
  <2>1. kicks' \in 0..KickDepth /\ (kicks' > 0 => kicks > 0 \/ ready)
    BY <1>t, <1>7, KickStays DEF WTest, MayKick, Kick, Rest
  <2>f. Flags'
    BY <1>t, <1>7, Zenon DEF WTest, MayKick, Kick, Flags
  <2>p. Pcs'
    BY <1>t, <1>7 DEF WTest, Kick, Pcs
  <2>r. Rest'
    BY <1>t, <1>7, <2>1 DEF WTest, Kick, Rest
  <2>i. ReadyFirst' /\ InitOnce'
    BY <1>t, <1>7, <2>1 DEF WTest, Kick, ReadyFirst, InitOnce
  <2> QED
    BY <2>f, <2>p, <2>r, <2>i DEF IInv
<1>8. CASE WDefer
  <2>f. Flags'
    BY <1>t, <1>8, Zenon DEF WDefer, Flags
  <2>p. Pcs'
    BY <1>t, <1>8 DEF WDefer, Pcs
  <2>r. Rest'
    BY <1>t, <1>8 DEF WDefer, Rest
  <2>i. ReadyFirst' /\ InitOnce'
    BY <1>t, <1>8 DEF WDefer, ReadyFirst, InitOnce
  <2> QED
    BY <2>f, <2>p, <2>r, <2>i DEF IInv
<1> QED
  BY <1>1, <1>2, <1>3, <1>4, <1>5, <1>6, <1>7, <1>8 DEF W

\* Hiding.
LEMMA XKeeps ==
  ASSUME IInv, XEnter \/ X
  PROVE  IInv'
<1>t. Flags /\ Rest /\ Pcs /\ ReadyFirst /\ InitOnce
  BY DEF IInv
<1> USE DEF XGoto, xFrame
<1>1. CASE XEnter
  <2>f. Flags'
    BY <1>t, <1>1, Zenon DEF XEnter, Flags
  <2>p. Pcs'
    BY <1>t, <1>1 DEF XEnter, Pcs
  <2>r. Rest'
    BY <1>t, <1>1 DEF XEnter, Rest
  <2>i. ReadyFirst' /\ InitOnce'
    BY <1>t, <1>1 DEF XEnter, ReadyFirst, InitOnce, Pristine
  <2> QED
    BY <2>f, <2>p, <2>r, <2>i DEF IInv
<1>2. CASE XDisable
  <2>f. Flags'
    BY <1>t, <1>2, Zenon DEF XDisable, Flags
  <2>p. Pcs'
    BY <1>t, <1>2 DEF XDisable, Pcs
  <2>r. Rest'
    BY <1>t, <1>2 DEF XDisable, Rest
  <2>i. ReadyFirst' /\ InitOnce'
    BY <1>t, <1>2 DEF XDisable, ReadyFirst, InitOnce, Pristine
  <2> QED
    BY <2>f, <2>p, <2>r, <2>i DEF IInv
<1>3. CASE XUndefer
  <2>f. Flags'
    BY <1>t, <1>3, Zenon DEF XUndefer, Flags
  <2>p. Pcs'
    BY <1>t, <1>3 DEF XUndefer, Pcs
  <2>r. Rest'
    BY <1>t, <1>3 DEF XUndefer, Rest
  <2>i. ReadyFirst' /\ InitOnce'
    BY <1>t, <1>3 DEF XUndefer, ReadyFirst, InitOnce, Pristine
  <2> QED
    BY <2>f, <2>p, <2>r, <2>i DEF IInv
<1>4. CASE XStop
  <2>1. /\ reqs' \in Seq(Requests)
        /\ Starting(reqs') => Starting(reqs)
    BY <1>t, <1>4, RequestQueued DEF XStop, Requests, Rest
  <2>f. Flags'
    BY <1>t, <1>4, Zenon DEF XStop, Flags
  <2>p. Pcs'
    BY <1>t, <1>4 DEF XStop, Pcs
  <2>r. Rest'
    BY <1>t, <1>4, <2>1 DEF XStop, Rest
  <2>i. ReadyFirst' /\ InitOnce'
    BY <1>t, <1>4, <2>1 DEF XStop, ReadyFirst, InitOnce, Pristine
  <2> QED
    BY <2>f, <2>p, <2>r, <2>i DEF IInv
<1>5. CASE XUnwatch
  <2>f. Flags'
    BY <1>t, <1>5, Zenon DEF XUnwatch, Flags
  <2>p. Pcs'
    BY <1>t, <1>5 DEF XUnwatch, Pcs
  <2>r. Rest'
    BY <1>t, <1>5 DEF XUnwatch, Rest
  <2>i. ReadyFirst' /\ InitOnce'
    BY <1>t, <1>5 DEF XUnwatch, ReadyFirst, InitOnce, Pristine
  <2> QED
    BY <2>f, <2>p, <2>r, <2>i DEF IInv
<1>6. CASE XClearConnected
  <2>f. Flags'
    BY <1>t, <1>6, Zenon DEF XClearConnected, Flags
  <2>p. Pcs'
    BY <1>t, <1>6 DEF XClearConnected, Pcs
  <2>r. Rest'
    BY <1>t, <1>6 DEF XClearConnected, Rest
  <2>i. ReadyFirst' /\ InitOnce'
    BY <1>t, <1>6 DEF XClearConnected, ReadyFirst, InitOnce, Pristine
  <2> QED
    BY <2>f, <2>p, <2>r, <2>i DEF IInv
<1>7. CASE XClearRunning
  <2>f. Flags'
    BY <1>t, <1>7, Zenon DEF XClearRunning, Flags
  <2>p. Pcs'
    BY <1>t, <1>7 DEF XClearRunning, Pcs
  <2>r. Rest'
    BY <1>t, <1>7 DEF XClearRunning, Rest
  <2>i. ReadyFirst' /\ InitOnce'
    BY <1>t, <1>7 DEF XClearRunning, ReadyFirst, InitOnce, Pristine
  <2> QED
    BY <2>f, <2>p, <2>r, <2>i DEF IInv
<1> QED
  BY <1>1, <1>2, <1>3, <1>4, <1>5, <1>6, <1>7 DEF X

\* The kick worker and the watchdog.
LEMMA KKeeps ==
  ASSUME IInv, K \/ WatchFires
  PROVE  IInv'
<1>t. Flags /\ Rest /\ Pcs /\ ReadyFirst /\ InitOnce
  BY DEF IInv
<1> USE DEF KGoto, kFrame, flags, bound, bt
<1>1. CASE KReceive
  <2>f. Flags'
    BY <1>t, <1>1, Zenon DEF KReceive, Flags
  <2>p. Pcs'
    BY <1>t, <1>1 DEF KReceive, Pcs
  <2>r. Rest'
    BY <1>t, <1>1, BleFallbackAssumption DEF KReceive, Rest
  <2>i. ReadyFirst' /\ InitOnce'
    BY <1>t, <1>1 DEF KReceive, ReadyFirst, InitOnce, Pristine
  <2> QED
    BY <2>f, <2>p, <2>r, <2>i DEF IInv
<1>2. CASE KTest
  <2>f. Flags'
    BY <1>t, <1>2, Zenon DEF KTest, Flags
  <2>p. Pcs'
    BY <1>t, <1>2 DEF KTest, Pcs
  <2>r. Rest'
    BY <1>t, <1>2 DEF KTest, Rest
  <2>i. ReadyFirst' /\ InitOnce'
    BY <1>t, <1>2 DEF KTest, ReadyFirst, InitOnce, Pristine
  <2> QED
    BY <2>f, <2>p, <2>r, <2>i DEF IInv
<1>3. CASE KStart
  <2>1. /\ reqs' \in Seq(Requests)
    BY <1>t, <1>3, RequestQueued DEF KStart, Requests
  <2>f. Flags'
    BY <1>t, <1>3, Zenon DEF KStart, Flags
  <2>p. Pcs'
    BY <1>t, <1>3 DEF KStart, Pcs
  <2>r. Rest'
    BY <1>t, <1>3, <2>1 DEF KStart, Rest
  <2>i. ReadyFirst' /\ InitOnce'
    BY <1>t, <1>3, <2>1 DEF KStart, ReadyFirst, InitOnce, Pristine
  <2> QED
    BY <2>f, <2>p, <2>r, <2>i DEF IInv
<1>4. CASE WatchFires
  <2>1. kicks' \in 0..KickDepth
    BY <1>t, <1>4, KickStays DEF WatchFires
  <2>f. Flags'
    BY <1>t, <1>4, Zenon DEF WatchFires, Flags
  <2>p. Pcs'
    BY <1>t, <1>4 DEF WatchFires, Pcs
  <2>r. Rest'
    BY <1>t, <1>4, <2>1 DEF WatchFires, Rest
  <2>i. ReadyFirst' /\ InitOnce'
    BY <1>t, <1>4, <2>1 DEF WatchFires, MayKick, ReadyFirst, InitOnce, Pristine
  <2> QED
    BY <2>f, <2>p, <2>r, <2>i DEF IInv
<1> QED
  BY <1>1, <1>2, <1>3, <1>4 DEF K

\* The stack and the controller.
LEMMA BtKeeps ==
  ASSUME IInv, Bt \/ Connect \/ Disconnect
  PROVE  IInv'
<1>t. Flags /\ Rest /\ Pcs /\ ReadyFirst /\ InitOnce
  BY DEF IInv
<1> USE DEF airFrame, flags
<1>1. CASE BtConfig
  <2>1. /\ reqs' \in Seq(Requests) /\ evs' \in Seq(GapEvents) /\ reqs # <<>>
        /\ Starting(reqs') => Starting(reqs)
    BY <1>t, <1>1, RequestServed DEF BtConfig, GapEvents
  <2>f. Flags'
    BY <1>t, <1>1, Zenon DEF BtConfig, Flags
  <2>p. Pcs'
    BY <1>t, <1>1 DEF BtConfig, Pcs
  <2>r. Rest'
    BY <1>t, <1>1, <2>1 DEF BtConfig, Rest
  <2>i. ReadyFirst' /\ InitOnce'
    BY <1>t, <1>1, <2>1 DEF BtConfig, ReadyFirst, InitOnce, Pristine
  <2> QED
    BY <2>f, <2>p, <2>r, <2>i DEF IInv
<1>2. CASE BtStart
  <2>1. /\ reqs' \in Seq(Requests) /\ evs' \in Seq(GapEvents) /\ reqs # <<>>
        /\ Starting(reqs)
    BY <1>t, <1>2, RequestServed DEF BtStart, GapEvents
  <2>f. Flags'
    BY <1>t, <1>2, Zenon DEF BtStart, Flags
  <2>p. Pcs'
    BY <1>t, <1>2 DEF BtStart, Pcs
  <2>r. Rest'
    BY <1>t, <1>2, <2>1 DEF BtStart, Rest
  <2>i. ReadyFirst' /\ InitOnce'
    BY <1>t, <1>2, <2>1 DEF BtStart, ReadyFirst, InitOnce, Pristine
  <2> QED
    BY <2>f, <2>p, <2>r, <2>i DEF IInv
<1>3. CASE BtStop
  <2>1. /\ reqs' \in Seq(Requests) /\ evs' \in Seq(GapEvents) /\ reqs # <<>>
        /\ Starting(reqs') => Starting(reqs)
    BY <1>t, <1>3, RequestServed DEF BtStop, GapEvents
  <2>f. Flags'
    BY <1>t, <1>3, Zenon DEF BtStop, Flags
  <2>p. Pcs'
    BY <1>t, <1>3 DEF BtStop, Pcs
  <2>r. Rest'
    BY <1>t, <1>3, <2>1 DEF BtStop, Rest
  <2>i. ReadyFirst' /\ InitOnce'
    BY <1>t, <1>3, <2>1 DEF BtStop, ReadyFirst, InitOnce, Pristine
  <2> QED
    BY <2>f, <2>p, <2>r, <2>i DEF IInv
<1>4. CASE BtFails
  <2>1. /\ reqs' \in Seq(Requests) /\ evs' \in Seq(GapEvents) /\ reqs # <<>>
        /\ Starting(reqs') => Starting(reqs)
    BY <1>t, <1>4, RequestServed DEF BtFails, GapEvents
  <2>f. Flags'
    BY <1>t, <1>4, Zenon DEF BtFails, Flags
  <2>p. Pcs'
    BY <1>t, <1>4 DEF BtFails, Pcs
  <2>r. Rest'
    BY <1>t, <1>4, <2>1 DEF BtFails, Rest
  <2>i. ReadyFirst' /\ InitOnce'
    BY <1>t, <1>4, <2>1 DEF BtFails, ReadyFirst, InitOnce, Pristine
  <2> QED
    BY <2>f, <2>p, <2>r, <2>i DEF IInv
<1>5. CASE Connect
  <2>1. evs' \in Seq(GapEvents)
    BY <1>t, <1>5 DEF Connect, GapEvents, Rest
  <2>f. Flags'
    BY <1>t, <1>5, Zenon DEF Connect, Flags
  <2>p. Pcs'
    BY <1>t, <1>5 DEF Connect, Pcs
  <2>r. Rest'
    BY <1>t, <1>5, <2>1 DEF Connect, Rest
  <2>i. ReadyFirst' /\ InitOnce'
    BY <1>t, <1>5, <2>1 DEF Connect, ReadyFirst, InitOnce, Pristine
  <2> QED
    BY <2>f, <2>p, <2>r, <2>i DEF IInv
<1>6. CASE Disconnect
  <2>1. evs' \in Seq(GapEvents)
    BY <1>t, <1>6 DEF Disconnect, GapEvents, Rest
  <2>f. Flags'
    BY <1>t, <1>6, Zenon DEF Disconnect, Flags
  <2>p. Pcs'
    BY <1>t, <1>6 DEF Disconnect, Pcs
  <2>r. Rest'
    BY <1>t, <1>6, <2>1 DEF Disconnect, Rest
  <2>i. ReadyFirst' /\ InitOnce'
    BY <1>t, <1>6, <2>1 DEF Disconnect, ReadyFirst, InitOnce, Pristine
  <2> QED
    BY <2>f, <2>p, <2>r, <2>i DEF IInv
<1> QED
  BY <1>1, <1>2, <1>3, <1>4, <1>5, <1>6 DEF Bt

\* The Bluetooth task.
LEMMA BKeeps ==
  ASSUME IInv, B
  PROVE  IInv'
<1>t. Flags /\ Rest /\ Pcs /\ ReadyFirst /\ InitOnce
  BY DEF IInv
<1> USE DEF bFrame, bound
<1>1. CASE BPayload
  <2>1. evs' \in Seq(GapEvents) /\ evs # <<>>
    BY <1>t, <1>1, EventTaken DEF BPayload
  <2>f. Flags'
    BY <1>t, <1>1, Zenon DEF BPayload, Flags
  <2>p. Pcs'
    BY <1>t, <1>1 DEF BPayload, Pcs
  <2>r. Rest'
    BY <1>t, <1>1, <2>1 DEF BPayload, Rest
  <2>i. ReadyFirst' /\ InitOnce'
    BY <1>t, <1>1, <2>1 DEF BPayload, ReadyFirst, InitOnce, Pristine
  <2> QED
    BY <2>f, <2>p, <2>r, <2>i DEF IInv
<1>2. CASE BStarted
  <2>1. evs' \in Seq(GapEvents) /\ evs # <<>>
    BY <1>t, <1>2, EventTaken DEF BStarted
  <2>f. Flags'
    BY <1>t, <1>2, Zenon DEF BStarted, Flags
  <2>p. Pcs'
    BY <1>t, <1>2 DEF BStarted, Pcs
  <2>r. Rest'
    BY <1>t, <1>2, <2>1 DEF BStarted, Rest
  <2>i. ReadyFirst' /\ InitOnce'
    BY <1>t, <1>2, <2>1 DEF BStarted, ReadyFirst, InitOnce, Pristine
  <2> QED
    BY <2>f, <2>p, <2>r, <2>i DEF IInv
<1>3. CASE BStopped
  <2>1. evs' \in Seq(GapEvents) /\ evs # <<>>
    BY <1>t, <1>3, EventTaken DEF BStopped
  <2>f. Flags'
    BY <1>t, <1>3, Zenon DEF BStopped, Flags
  <2>p. Pcs'
    BY <1>t, <1>3 DEF BStopped, Pcs
  <2>r. Rest'
    BY <1>t, <1>3, <2>1 DEF BStopped, Rest
  <2>i. ReadyFirst' /\ InitOnce'
    BY <1>t, <1>3, <2>1 DEF BStopped, ReadyFirst, InitOnce, Pristine
  <2> QED
    BY <2>f, <2>p, <2>r, <2>i DEF IInv
<1>4. CASE BRestart
  <2>1. kicks' \in 0..KickDepth
    BY <1>t, <1>4, KickStays DEF BRestart, Rest
  <2>f. Flags'
    BY <1>t, <1>4, Zenon DEF BRestart, Flags
  <2>p. Pcs'
    BY <1>t, <1>4 DEF BRestart, Pcs
  <2>r. Rest'
    BY <1>t, <1>4, <2>1 DEF BRestart, Rest
  <2>i. ReadyFirst' /\ InitOnce'
    BY <1>t, <1>4, <2>1 DEF BRestart, MayKick, ReadyFirst, InitOnce, Pristine
  <2> QED
    BY <2>f, <2>p, <2>r, <2>i DEF IInv
<1>5. CASE BReady
  <2>f. Flags'
    BY <1>t, <1>5, Zenon DEF BReady, Flags
  <2>p. Pcs'
    BY <1>t, <1>5 DEF BReady, Pcs
  <2>r. Rest'
    BY <1>t, <1>5 DEF BReady, Rest
  <2>i. ReadyFirst' /\ InitOnce'
    BY <1>t, <1>5 DEF BReady, ReadyFirst, InitOnce, Pristine
  <2> QED
    BY <2>f, <2>p, <2>r, <2>i DEF IInv
<1>6. CASE BDeferred
  <2>1. kicks' \in 0..KickDepth
    BY <1>t, <1>6, KickStays DEF BDeferred, Rest
  <2>f. Flags'
    BY <1>t, <1>6, Zenon DEF BDeferred, Flags
  <2>p. Pcs'
    BY <1>t, <1>6 DEF BDeferred, Pcs
  <2>r. Rest'
    BY <1>t, <1>6, <2>1 DEF BDeferred, Rest
  <2>i. ReadyFirst' /\ InitOnce'
    BY <1>t, <1>6, <2>1 DEF BDeferred, ReadyFirst, InitOnce, Pristine
  <2> QED
    BY <2>f, <2>p, <2>r, <2>i DEF IInv
<1>7. CASE BConnected
  <2>1. evs' \in Seq(GapEvents) /\ evs # <<>>
    BY <1>t, <1>7, EventTaken DEF BConnected
  <2>f. Flags'
    BY <1>t, <1>7, Zenon DEF BConnected, Flags
  <2>p. Pcs'
    BY <1>t, <1>7 DEF BConnected, Pcs
  <2>r. Rest'
    BY <1>t, <1>7, <2>1 DEF BConnected, Rest
  <2>i. ReadyFirst' /\ InitOnce'
    BY <1>t, <1>7, <2>1 DEF BConnected, ReadyFirst, InitOnce, Pristine
  <2> QED
    BY <2>f, <2>p, <2>r, <2>i DEF IInv
<1>8. CASE BReopen
  <2>1. kicks' \in 0..KickDepth
    BY <1>t, <1>8, KickStays DEF BReopen, Rest
  <2>f. Flags'
    BY <1>t, <1>8, Zenon DEF BReopen, Flags
  <2>p. Pcs'
    BY <1>t, <1>8 DEF BReopen, Pcs
  <2>r. Rest'
    BY <1>t, <1>8, <2>1 DEF BReopen, Rest
  <2>i. ReadyFirst' /\ InitOnce'
    BY <1>t, <1>8, <2>1 DEF BReopen, ReadyFirst, InitOnce, Pristine
  <2> QED
    BY <2>f, <2>p, <2>r, <2>i DEF IInv
<1> QED
  BY <1>1, <1>2, <1>3, <1>4, <1>5, <1>6, <1>7, <1>8 DEF B

-----------------------------------------------------------------------------
THEOREM Invariant == Spec => []IInv
<1>1. ASSUME IInv, [Next]_vars PROVE IInv'
  <2>1. CASE UNCHANGED vars
    BY <1>1, <2>1
       DEF vars, flags, bt, bound, IInv, Flags, Rest, Pcs, ReadyFirst, InitOnce, Pristine
  <2> QED
    BY <1>1, <2>1, WKeeps, XKeeps, KKeeps, BtKeeps, BKeeps DEF Next
<1> QED
  BY InitIInv, <1>1, PTL DEF Spec

\* Types, and the capacity of the kick queue, for every queue depth.
THEOREM FallbackTyped == Spec => []TypeOK
<1>1. IInv => TypeOK
  BY DEF IInv, TypeOK, Flags, Rest, Pcs
<1> QED
  BY Invariant, <1>1, PTL

\* Whatever is advertised, or on the way to it, carries both payloads: fb_gap_evt
\* sets s_adv_ready once both are in, and no later RECOVERY takes them back.
THEOREM OnlyConfiguredStarts == Spec => []StartsOnlyConfigured
<1>1. IInv => StartsOnlyConfigured
  BY DEF IInv, ReadyFirst, StartsOnlyConfigured, Starting
<1> QED
  BY Invariant, <1>1, PTL
=============================================================================
