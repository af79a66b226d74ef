----------------------------- MODULE BleFallback -----------------------------
(***************************************************************************)
(* The BLE lifeboat (components/ble/fallback): when the device advertises. *)
(*                                                                         *)
(*   W   ble_fallback_init, then ble_lifeboat_set(true)  (syscoord.wkr)    *)
(*   X   ble_lifeboat_set(false), then ble_fallback_stop (set_mode)        *)
(*   K   ble.wkr, the worker that serves ADV_KICK                          *)
(*   B   the Bluetooth task: fb_gap_evt and ble_set_connected              *)
(*   T   the FreeRTOS timer task: adv_watch_cb                             *)
(*                                                                         *)
(* They share six plain bools.  Starting, stopping and configuring the     *)
(* advertisement only queue a request; its effect on the air and the       *)
(* completion event come later, in order.                                  *)
(***************************************************************************)
EXTENDS Naturals, Sequences

CONSTANTS
  KickDepth,  \* BLE_QUEUE_DEPTH, 8 in the code
  BtcDepth,   \* requests and events the Bluetooth task holds
  MaxOns,     \* bound: RECOVERY entries
  MaxOffs,    \* bound: set_mode calls that hide the lifeboat
  MaxFails    \* bound: GAP requests that complete with an error

ASSUME BleFallbackAssumption ==
  /\ KickDepth \in Nat \ {0} /\ BtcDepth \in Nat \ {0}
  /\ MaxOns \in Nat /\ MaxOffs \in Nat /\ MaxFails \in Nat

VARIABLES
  enabled, deferred, ready, running, connected, stack,  \* s_lifeboat_enabled .. s_stack_ready
  cfgDone,    \* s_adv_cfg_done
  watch,      \* s_adv_watch: "none", "on", "off"
  kicks,      \* ADV_KICKs in s_ble_q
  reqs, evs,  \* requests to, and events from, the Bluetooth stack
  air,        \* the controller advertises
  central,    \* a central is connected
  wpc, xpc, kpc, bpc,  \* program counters
  ons, offs, fails     \* bounds used up

flags == <<enabled, deferred, ready, running, connected, stack, cfgDone>>
bt    == <<reqs, evs, air, central>>
bound == <<ons, offs, fails>>
vars  == <<flags, watch, kicks, bt, wpc, xpc, kpc, bpc, bound>>

Payloads == {"adv", "scan"}
Requests == Payloads \cup {"start", "stop"}
GapEvents == Payloads \cup {"failed", "started", "start_failed", "stopped",
                            "connect", "disconnect"}

Init ==
  /\ enabled = FALSE /\ deferred = FALSE /\ ready = FALSE
  /\ running = FALSE /\ connected = FALSE /\ stack = FALSE
  /\ cfgDone = {} /\ watch = "none" /\ kicks = 0
  /\ reqs = <<>> /\ evs = <<>> /\ air = FALSE /\ central = FALSE
  /\ wpc = "idle" /\ xpc = "idle" /\ kpc = "idle" /\ bpc = "idle"
  /\ ons = 0 /\ offs = 0 /\ fails = 0

\* Variant: a full queue is not looked at.
KickUnbounded == kicks' = kicks + 1

\* ble_post: no waiting, a full queue drops the kick.
Kick == kicks' = IF kicks < KickDepth THEN kicks + 1 ELSE kicks

\* A GAP call: the caller waits for room in the Bluetooth task's queue.
Request(r) == Len(reqs) < BtcDepth /\ reqs' = Append(reqs, r)

MayKick == ~connected /\ ready /\ stack

-----------------------------------------------------------------------------
(***************************************************************************)
(* W.  A second RECOVERY finds the stack active and skips the whole init,  *)
(* the start of the watchdog included.                                     *)
(***************************************************************************)
WGoto(from, to) == wpc = from /\ wpc' = to
wFrame == <<watch, evs, air, central, xpc, kpc, bpc, offs, fails>>

\* Variant: the early return of ble_fallback_init is missing.
WEnterAlwaysInits ==
  /\ ons < MaxOns /\ ons' = ons + 1
  /\ WGoto("idle", "stack")
  /\ UNCHANGED <<flags, kicks, reqs, wFrame>>

WEnter ==
  /\ ons < MaxOns /\ ons' = ons + 1
  /\ WGoto("idle", IF stack THEN "enable" ELSE "stack")
  /\ UNCHANGED <<flags, kicks, reqs, wFrame>>

WStack ==
  /\ WGoto("stack", "reset")
  /\ stack' = TRUE
  /\ UNCHANGED <<enabled, deferred, ready, running, connected, cfgDone, kicks, reqs, ons, wFrame>>

WReset ==
  /\ WGoto("reset", "adv")
  /\ ready' = FALSE /\ deferred' = FALSE /\ connected' = FALSE /\ running' = FALSE
  /\ cfgDone' = {}
  /\ UNCHANGED <<enabled, stack, kicks, reqs, ons, wFrame>>

WConfig ==
  /\ \/ WGoto("adv", "scan") /\ Request("adv")
     \/ WGoto("scan", "watch") /\ Request("scan")
  /\ UNCHANGED <<flags, kicks, ons, wFrame>>

\* fb_watchdog_start_if_needed.
WWatch ==
  /\ WGoto("watch", "enable")
  /\ watch' = IF watch = "none" THEN "on" ELSE watch
  /\ UNCHANGED <<flags, kicks, bt, xpc, kpc, bpc, bound>>

\* ble_lifeboat_set(true): store, test, then kick or leave it to the GAP callback.
WEnable ==
  /\ WGoto("enable", "test")
  /\ enabled' = TRUE
  /\ UNCHANGED <<deferred, ready, running, connected, stack, cfgDone, kicks, reqs, ons, wFrame>>

WTest ==
  /\ IF MayKick THEN WGoto("test", "idle") /\ Kick
                ELSE WGoto("test", "defer") /\ UNCHANGED kicks
  /\ UNCHANGED <<flags, reqs, ons, wFrame>>

WDefer ==
  /\ WGoto("defer", "idle")
  /\ deferred' = TRUE
  /\ UNCHANGED <<enabled, ready, running, connected, stack, cfgDone, kicks, reqs, ons, wFrame>>

W == WStack \/ WReset \/ WConfig \/ WWatch \/ WEnable \/ WTest \/ WDefer

-----------------------------------------------------------------------------
(***************************************************************************)
(* X: one store per step.                                                  *)
(***************************************************************************)
XGoto(from, to) == xpc = from /\ xpc' = to
xFrame == <<ready, stack, cfgDone, kicks, evs, air, central, wpc, kpc, bpc, ons, fails>>

XEnter ==
  /\ offs < MaxOffs /\ offs' = offs + 1
  /\ XGoto("idle", "disable")
  /\ UNCHANGED <<enabled, deferred, running, connected, watch, reqs, xFrame>>

XDisable ==
  /\ XGoto("disable", "undefer")
  /\ enabled' = FALSE
  /\ UNCHANGED <<deferred, running, connected, watch, reqs, offs, xFrame>>

XUndefer ==
  /\ \/ XGoto("undefer", "stop") \/ XGoto("clear_deferred", "idle")
  /\ deferred' = FALSE
  /\ UNCHANGED <<enabled, running, connected, watch, reqs, offs, xFrame>>

\* fb_adv_stop, from ble_lifeboat_set and again from ble_fallback_stop.
XStop ==
  /\ \/ XGoto("stop", "stop_again") \/ XGoto("stop_again", "unwatch")
  /\ IF running THEN Request("stop") ELSE UNCHANGED reqs
  /\ UNCHANGED <<enabled, deferred, running, connected, watch, offs, xFrame>>

XUnwatch ==
  /\ XGoto("unwatch", "clear_connected")
  /\ watch' = IF watch = "on" THEN "off" ELSE watch
  /\ UNCHANGED <<enabled, deferred, running, connected, reqs, offs, xFrame>>

XClearConnected ==
  /\ XGoto("clear_connected", "clear_running")
  /\ connected' = FALSE
  /\ UNCHANGED <<enabled, deferred, running, watch, reqs, offs, xFrame>>

XClearRunning ==
  /\ XGoto("clear_running", "clear_deferred")
  /\ running' = FALSE
  /\ UNCHANGED <<enabled, deferred, connected, watch, reqs, offs, xFrame>>

X == XDisable \/ XUndefer \/ XStop \/ XUnwatch \/ XClearConnected \/ XClearRunning

-----------------------------------------------------------------------------
(***************************************************************************)
(* K and T.                                                                *)
(***************************************************************************)
KGoto(from, to) == kpc = from /\ kpc' = to
kFrame == <<enabled, ready, running, connected, stack, cfgDone, watch, evs, air, central,
            wpc, xpc, bpc, bound>>

KReceive ==
  /\ kicks > 0 /\ kicks' = kicks - 1
  /\ KGoto("idle", "test")
  /\ UNCHANGED <<deferred, reqs, kFrame>>

\* fb_adv_kick decides.  No kick is posted before ready is seen and nothing
\* takes ready back afterwards, so its deferral is a guard that never bites;
\* the kicks that are really deferred are W's and ble_start_advertising's.
KTest ==
  /\ KGoto("test", IF enabled /\ stack /\ ready /\ ~connected THEN "start" ELSE "idle")
  /\ deferred' = (deferred \/ (enabled /\ ~(stack /\ ready)))
  /\ UNCHANGED <<kicks, reqs, kFrame>>

\* Then it asks for the start.
KStart ==
  /\ KGoto("start", "idle")
  /\ Request("start")
  /\ UNCHANGED <<deferred, kicks, kFrame>>

K == KReceive \/ KTest \/ KStart

\* Every 2 s while the timer runs.
WatchFires ==
  /\ watch = "on" /\ enabled /\ MayKick /\ ~running
  /\ Kick
  /\ UNCHANGED <<flags, watch, bt, wpc, xpc, kpc, bpc, bound>>

-----------------------------------------------------------------------------
(***************************************************************************)
(* The Bluetooth stack and controller (external), and B, its task, which   *)
(* runs the callbacks.                                                     *)
(***************************************************************************)
airFrame == <<flags, watch, kicks, wpc, xpc, kpc, bpc, ons, offs>>

Serve(r, e) ==
  /\ reqs # <<>> /\ Head(reqs) = r /\ reqs' = Tail(reqs)
  /\ Len(evs) < BtcDepth /\ evs' = Append(evs, e)

BtConfig ==
  /\ \E p \in Payloads : Serve(p, p)
  /\ UNCHANGED <<air, central, fails, airFrame>>

BtStart ==
  /\ Serve("start", "started")
  /\ air' = TRUE
  /\ UNCHANGED <<central, fails, airFrame>>

BtStop ==
  /\ Serve("stop", "stopped")
  /\ air' = FALSE
  /\ UNCHANGED <<central, fails, airFrame>>

BtFails ==
  /\ fails < MaxFails /\ fails' = fails + 1
  /\ \/ \E p \in Payloads : Serve(p, "failed")
     \/ Serve("start", "start_failed")
  /\ UNCHANGED <<air, central, airFrame>>

\* A connection ends the advertisement without a STOP_COMPLETE.
Connect ==
  /\ air /\ ~central
  /\ air' = FALSE /\ central' = TRUE
  /\ Len(evs) < BtcDepth /\ evs' = Append(evs, "connect")
  /\ UNCHANGED <<reqs, fails, airFrame>>

Disconnect ==
  /\ central /\ central' = FALSE
  /\ Len(evs) < BtcDepth /\ evs' = Append(evs, "disconnect")
  /\ UNCHANGED <<reqs, air, fails, airFrame>>

BFrom(e) == bpc = "idle" /\ evs # <<>> /\ Head(evs) = e /\ evs' = Tail(evs)
bFrame == <<enabled, stack, watch, reqs, air, central, wpc, xpc, kpc, bound>>

\* ADV_DATA / SCAN_RSP_DATA_SET_COMPLETE.
BPayload ==
  /\ \E e \in Payloads \cup {"failed"} :
       /\ BFrom(e)
       /\ cfgDone' = cfgDone \cup ({e} \cap Payloads)
  /\ bpc' = "ready"
  /\ UNCHANGED <<deferred, ready, running, connected, kicks, bFrame>>

BStarted ==
  /\ \/ BFrom("started") /\ running' = TRUE
     \/ BFrom("start_failed") /\ running' = FALSE
  /\ bpc' = "ready"
  /\ UNCHANGED <<deferred, ready, connected, cfgDone, kicks, bFrame>>

BStopped ==
  /\ BFrom("stopped")
  /\ running' = FALSE
  /\ bpc' = "restart"
  /\ UNCHANGED <<deferred, ready, connected, cfgDone, kicks, bFrame>>

BRestart ==
  /\ bpc = "restart" /\ bpc' = "ready"
  /\ IF enabled /\ MayKick THEN Kick ELSE UNCHANGED kicks
  /\ UNCHANGED <<deferred, ready, running, connected, cfgDone, evs, bFrame>>

\* The end of fb_gap_evt, after every event: both payloads are in for the first time.
BReady ==
  /\ bpc = "ready"
  /\ IF cfgDone = Payloads /\ ~ready THEN ready' = TRUE /\ bpc' = "deferred"
                                     ELSE UNCHANGED ready /\ bpc' = "idle"
  /\ UNCHANGED <<deferred, running, connected, cfgDone, kicks, evs, bFrame>>

BDeferred ==
  /\ bpc = "deferred" /\ bpc' = "idle"
  /\ IF deferred THEN Kick ELSE UNCHANGED kicks
  /\ deferred' = FALSE
  /\ UNCHANGED <<ready, running, connected, cfgDone, evs, bFrame>>

\* ble_set_connected.
BConnected ==
  /\ \/ BFrom("connect") /\ connected' = TRUE /\ bpc' = "idle"
     \/ BFrom("disconnect") /\ connected' = FALSE /\ bpc' = "reopen"
  /\ UNCHANGED <<deferred, ready, running, cfgDone, kicks, bFrame>>

\* Variant: nothing follows a disconnect.
BReopenForgets ==
  /\ bpc = "reopen" /\ bpc' = "idle"
  /\ UNCHANGED <<deferred, ready, running, connected, cfgDone, kicks, evs, bFrame>>

BReopen ==
  /\ bpc = "reopen" /\ bpc' = "idle"
  /\ IF enabled /\ ready /\ stack THEN Kick ELSE UNCHANGED kicks
  /\ deferred' = (deferred \/ (enabled /\ ~(ready /\ stack)))
  /\ UNCHANGED <<ready, running, connected, cfgDone, evs, bFrame>>

B == BPayload \/ BStarted \/ BStopped \/ BRestart \/ BReady \/ BDeferred
     \/ BConnected \/ BReopen

Bt == BtConfig \/ BtStart \/ BtStop \/ BtFails

-----------------------------------------------------------------------------
Next == WEnter \/ W \/ XEnter \/ X \/ K \/ WatchFires \/ Connect \/ Disconnect \/ Bt \/ B

Spec == Init /\ [][Next]_vars

(***************************************************************************)
(* The tasks run, the timer fires and the stack answers; connecting,       *)
(* leaving and the coordinator's decisions are free.                       *)
(***************************************************************************)
FairSpec == Spec /\ WF_vars(W) /\ WF_vars(X) /\ WF_vars(K) /\ WF_vars(B) /\ WF_vars(Bt)
                 /\ WF_vars(WatchFires)

-----------------------------------------------------------------------------
\* Types, and the capacity of the kick queue.
TypeOK ==
  /\ \A b \in {enabled, deferred, ready, running, connected, stack, air, central} : b \in BOOLEAN
  /\ cfgDone \subseteq Payloads /\ watch \in {"none", "on", "off"}
  /\ kicks \in 0..KickDepth /\ reqs \in Seq(Requests) /\ evs \in Seq(GapEvents)
  /\ wpc \in {"idle", "stack", "reset", "adv", "scan", "watch", "enable", "test", "defer"}
  /\ xpc \in {"idle", "disable", "undefer", "stop", "stop_again", "unwatch",
              "clear_connected", "clear_running", "clear_deferred"}
  /\ kpc \in {"idle", "test", "start"}
  /\ bpc \in {"idle", "restart", "ready", "deferred", "reopen"}

Quiet == wpc = "idle" /\ xpc = "idle" /\ kpc = "idle" /\ bpc = "idle"
         /\ kicks = 0 /\ reqs = <<>> /\ evs = <<>>

\* An enabled lifeboat is on the air again and again while nobody is connected, as
\* long as its watchdog lives: a wakeup lost between lifeboat_set and the GAP
\* callback, a failed start or a disconnect that raced is made good.
LifeboatAdvertises ==
  <>[](enabled /\ ready /\ ~central /\ watch = "on") => []<>air

\* ble_fallback_init runs once: whatever is advertised, or about to be, carries
\* both payloads, also after any number of RECOVERY entries.
StartsOnlyConfigured ==
  air \/ kpc = "start" \/ (\E i \in DOMAIN reqs : reqs[i] = "start") => cfgDone = Payloads

\* sys_core.c:38 and :46: in WAIT_CONTROL and NORMAL the lifeboat is hidden.
HiddenWhenDisabled == Quiet /\ ~enabled => ~air
=============================================================================
