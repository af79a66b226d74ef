------------------------------ MODULE SysCoord ------------------------------
(***************************************************************************)
(* The system coordinator (components/syscoord) together with the health   *)
(* monitor (components/monitor), the post-rollback flag                    *)
(* (components/bootflag) and the four threads that call into them:         *)
(*                                                                         *)
(*   E     the ESP event-loop task: wifi_evt, got_ip, got_ip_lost          *)
(*   C[c]  one TCP connection task per client: the AUTH command            *)
(*   W     syscoord.wkr, the worker that enters RECOVERY                   *)
(*   B     the Bluetooth task: the BL_OTA START command                    *)
(*                                                                         *)
(* Nothing in the code locks; every access to a variable two threads share *)
(* is a step of its own, and a thread's program counter names the next     *)
(* one.  Flash (the OTA state of the running image and the NVS flag)       *)
(* survives a restart, everything else is set again by Boot.               *)
(***************************************************************************)
EXTENDS Naturals, Sequences

CONSTANTS
  Clients,        \* TCP connection tasks
  HasFallback,    \* the partition table offers a manual fallback target
  BleOta,         \* ble_ota.c is built in (else ota_bridge.c's hooks do nothing)
  FlashMayFail,   \* marking the image VALID may fail (the error is only logged)
  InitCreds,      \* the SSIDs-in-NVS cases to start from, a subset of BOOLEAN
  StreakCap,      \* saturation of s_fail_streak, 0x7fff in the code
  QueueDepth,     \* capacity of the coordinator queue, 4 in the code
  MaxEvq,         \* bound: Wi-Fi/IP events waiting for E
  MaxResets       \* bound: power cycles in a behaviour

ASSUME SysCoordAssumption ==
  /\ HasFallback \in BOOLEAN
  /\ BleOta \in BOOLEAN
  /\ FlashMayFail \in BOOLEAN
  /\ InitCreds \subseteq BOOLEAN
  /\ StreakCap \in Nat \ {0, 1}
  /\ QueueDepth \in Nat \ {0}
  /\ MaxEvq \in Nat \ {0}
  /\ MaxResets \in Nat

VARIABLES
  mode,       \* g_mode
  tcpAuthed,  \* g_tcp_authed
  latch,      \* s_done and who set it: s_done is latch # "open"
  streak,     \* s_fail_streak
  sysq,       \* messages in s_sys_q (all are ENTER_RECOVERY)
  stack,      \* s_stack_ready: Bluetooth is up
  lifeboat,   \* s_lifeboat_enabled
  img,        \* OTA state of the running image ("valid" stands for UNDEFINED too)
  postRb,     \* the NVS flag post_rb
  creds,      \* an SSID is configured
  up,         \* the station is associated and has an IP
  evq,        \* Wi-Fi/IP events posted and not yet taken by E
  epc, ev, tmp, elig,  \* E: program counter, event, s_fail_streak++ and can_rollback
  cpc,        \* C[c]'s program counter inside cmd_auth
  wpc,        \* W's program counter
  bpc, bleOta, \* B's program counter inside BL_OTA START; s_bo.active
  resets      \* power cycles so far

core == <<mode, tcpAuthed, sysq>>
mon  == <<latch, streak>>
ble  == <<stack, lifeboat>>
nv   == <<img, postRb>>
wifi == <<creds, up>>
eloc == <<ev, tmp, elig>>
vars == <<core, mon, ble, nv, wifi, evq, epc, eloc, cpc, wpc, bpc, bleOta, resets>>

Modes   == {"WAIT_CONTROL", "NORMAL", "RECOVERY"}
Images  == {"factory", "pending", "valid"}
Latches == {"open", "control", "escalated", "ble_ota"}

Downs   == {"DISCONNECTED", "IP_LOST"}
Events  == Downs \cup {"STA_START", "GOT_IP"}

EPcs == {"idle", "auth_clear", "mode_read", "wc_xchg", "wc_hide", "wc_arm", "report",
         "m_clear", "m_check", "m_load", "m_store", "m_elig", "m_decide", "rollback",
         "manual_flag", "manual_boot", "m_latch", "m_enqueue"}
\* "new" and "session" are between commands, without and with ctx.authed.
CPcs == {"new", "session", "mark", "gate", "valid", "check", "latch", "reset",
         "xchg", "hide", "flag"}
WPcs == {"idle", "xchg", "init", "boat"}
BPcs == {"idle", "begin", "check", "latch", "reset"}

-----------------------------------------------------------------------------
(***************************************************************************)
(* Boot.  app_main runs alone until wifi_start: a factory image clears the *)
(* post-rollback flag, syscoord_init leaves STARTUP for WAIT_CONTROL and   *)
(* so arms the monitor, and wifi_start ends with STA_START posted.         *)
(***************************************************************************)
\* The coordinator's start: its state, its queue and worker, and the monitor armed.
SyscoordInit ==
  /\ mode' = "WAIT_CONTROL" /\ tcpAuthed' = FALSE /\ sysq' = 0
  /\ latch' = "open" /\ streak' = 0
  /\ wpc' = "idle"

WifiStart == up' = FALSE /\ evq' = <<"STA_START">>

Boot(i, rb) ==
  /\ SyscoordInit /\ WifiStart
  /\ stack' = FALSE /\ lifeboat' = FALSE
  /\ img' = i /\ postRb' = (rb /\ i # "factory")
  /\ epc' = "idle" /\ ev' = "none" /\ tmp' = 0 /\ elig' = FALSE
  /\ cpc' = [c \in Clients |-> "new"]
  /\ bpc' = "idle" /\ bleOta' = FALSE

Init ==
  /\ mode = "WAIT_CONTROL" /\ tcpAuthed = FALSE /\ sysq = 0
  /\ latch = "open" /\ streak = 0
  /\ stack = FALSE /\ lifeboat = FALSE
  /\ img \in Images
  /\ postRb \in BOOLEAN /\ (img = "factory" => ~postRb)
  /\ creds \in InitCreds /\ up = FALSE
  /\ evq = <<"STA_START">>
  /\ epc = "idle" /\ ev = "none" /\ tmp = 0 /\ elig = FALSE
  /\ cpc = [c \in Clients |-> "new"]
  /\ wpc = "idle" /\ bpc = "idle" /\ bleOta = FALSE
  /\ resets = 0

\* What the bootloader starts after a reset it did not ask for: an image that
\* was still PENDING_VERIFY is marked ABORTED and another one is chosen.
BootImages == IF img = "pending" THEN {"factory", "valid"} ELSE {img}

PowerCycle ==
  /\ resets < MaxResets
  /\ resets' = resets + 1
  /\ \E i \in BootImages : Boot(i, postRb)
  /\ UNCHANGED creds

-----------------------------------------------------------------------------
(***************************************************************************)
(* The station as E sees it.  While it has no IP and an SSID is set, the   *)
(* reconnect timer keeps starting attempts that end in LinkUp or LinkFails *)
(***************************************************************************)
Post(e) == Len(evq) < MaxEvq /\ evq' = Append(evq, e)

wifiFrame == <<core, mon, ble, nv, creds, epc, eloc, cpc, wpc, bpc, bleOta, resets>>

LinkUp ==
  /\ ~up /\ creds
  /\ up' = TRUE
  /\ Post("GOT_IP")
  /\ UNCHANGED wifiFrame

LinkFails ==
  /\ ~up /\ creds
  /\ Post("DISCONNECTED")
  /\ UNCHANGED <<wifiFrame, up>>

\* The association drops, or only the lease does.
LinkDrops ==
  /\ up
  /\ up' = FALSE
  /\ \E e \in Downs : Post(e)
  /\ UNCHANGED wifiFrame

-----------------------------------------------------------------------------
(***************************************************************************)
(* E: the event-loop task.                                                 *)
(***************************************************************************)
EGoto(from, to) == epc = from /\ epc' = to

eFrame == <<wifi, cpc, wpc, bpc, bleOta, resets>>

\* wifi_evt(STA_START): nothing to report unless there is no SSID.
ETakeStart ==
  /\ evq # <<>> /\ Head(evq) = "STA_START"
  /\ EGoto("idle", IF creds THEN "idle" ELSE "m_check")
  /\ evq' = Tail(evq)
  /\ UNCHANGED <<core, mon, ble, nv, eloc, eFrame>>

\* got_ip: syscoord_on_wifi_state(true) only logs, then ES_NONE goes to the monitor.
ETakeGotIp ==
  /\ evq # <<>> /\ Head(evq) = "GOT_IP"
  /\ EGoto("idle", "m_clear")
  /\ evq' = Tail(evq)
  /\ UNCHANGED <<core, mon, ble, nv, eloc, eFrame>>

\* wifi_evt(STA_DISCONNECTED) and got_ip_lost begin with syscoord_on_wifi_state(false).
ETakeDown ==
  /\ evq # <<>> /\ Head(evq) \in Downs
  /\ EGoto("idle", "auth_clear")
  /\ evq' = Tail(evq) /\ ev' = Head(evq)
  /\ UNCHANGED <<core, mon, ble, nv, tmp, elig, eFrame>>

EAuthClear ==
  /\ EGoto("auth_clear", "mode_read")
  /\ tcpAuthed' = FALSE
  /\ UNCHANGED <<mode, sysq, mon, ble, nv, evq, eloc, eFrame>>

\* Variant: a disconnect leaves the mode alone.
EModeReadKeepsNormal ==
  /\ EGoto("mode_read", "report")
  /\ UNCHANGED <<core, mon, ble, nv, evq, eloc, eFrame>>

EModeRead ==
  /\ EGoto("mode_read", IF mode = "NORMAL" THEN "wc_xchg" ELSE "report")
  /\ UNCHANGED <<core, mon, ble, nv, evq, eloc, eFrame>>

\* set_mode(WAIT_CONTROL): exchange, then hide Bluetooth and arm the monitor.
EWaitXchg ==
  /\ EGoto("wc_xchg", IF mode = "WAIT_CONTROL" THEN "report" ELSE "wc_hide")
  /\ mode' = "WAIT_CONTROL"
  /\ UNCHANGED <<tcpAuthed, sysq, mon, ble, nv, evq, eloc, eFrame>>

\* Variant: WAIT_CONTROL is entered without health_monitor_start.
EWaitHideForgetsArm ==
  /\ EGoto("wc_hide", "report")
  /\ lifeboat' = FALSE
  /\ UNCHANGED <<core, mon, stack, nv, evq, eloc, eFrame>>

EWaitHide ==
  /\ EGoto("wc_hide", "wc_arm")
  /\ lifeboat' = FALSE
  /\ UNCHANGED <<core, mon, stack, nv, evq, eloc, eFrame>>

EWaitArm ==
  /\ EGoto("wc_arm", "report")
  /\ latch' = "open" /\ streak' = 0
  /\ UNCHANGED <<core, ble, nv, evq, eloc, eFrame>>

\* A disconnect is always reported.  got_ip_lost keeps quiet when errsrc holds one
\* of five specific Wi-Fi failures: which one it holds is a choice here.
EReport ==
  /\ \/ EGoto("report", "m_check")
     \/ EGoto("report", "idle") /\ ev = "IP_LOST"
  /\ ev' = "none"
  /\ UNCHANGED <<core, mon, ble, nv, evq, tmp, elig, eFrame>>

\* monitor_on_wifi_error(ES_NONE).
EMonClear ==
  /\ EGoto("m_clear", "idle")
  /\ streak' = IF latch = "open" THEN 0 ELSE streak
  /\ UNCHANGED <<core, latch, ble, nv, evq, eloc, eFrame>>

\* monitor_on_wifi_error(an error), from its check of the latch on.
EMonCheck ==
  /\ EGoto("m_check", IF latch = "open" THEN "m_load" ELSE "idle")
  /\ UNCHANGED <<core, mon, ble, nv, evq, eloc, eFrame>>

\* s_fail_streak++ is a load and a store; control_ok may reset it in between.
EMonLoad ==
  /\ EGoto("m_load", "m_store")
  /\ tmp' = streak
  /\ UNCHANGED <<core, mon, ble, nv, evq, ev, elig, eFrame>>

EMonStore ==
  /\ EGoto("m_store", "m_elig")
  /\ streak' = IF tmp < StreakCap THEN tmp + 1 ELSE tmp
  /\ tmp' = 0
  /\ UNCHANGED <<core, latch, ble, nv, evq, ev, elig, eFrame>>

\* monitor_is_rollback_eligible: an OTA slot still NEW or PENDING_VERIFY.
EMonElig ==
  /\ EGoto("m_elig", "m_decide")
  /\ elig' = (img = "pending")
  /\ UNCHANGED <<core, mon, ble, nv, evq, ev, tmp, eFrame>>

\* Variant: whether a rollback was already made is not looked at.
EMonDecideAgain ==
  /\ EGoto("m_decide",
           IF streak = 1 /\ elig THEN "rollback"
           ELSE IF streak >= 2 THEN "m_latch" ELSE "idle")
  /\ elig' = FALSE
  /\ UNCHANGED <<core, mon, ble, nv, evq, ev, tmp, eFrame>>

\* First failure: roll back if eligible and not yet done.  Later ones: escalate.
EMonDecide ==
  /\ EGoto("m_decide",
           IF streak = 1 /\ elig /\ ~postRb THEN "rollback"
           ELSE IF streak >= 2 THEN "m_latch" ELSE "idle")
  /\ elig' = FALSE
  /\ UNCHANGED <<core, mon, ble, nv, evq, ev, tmp, eFrame>>

\* The IDF rollback marks the running image INVALID and restarts into another.
ERollback ==
  /\ epc = "rollback"
  /\ \E i \in {"factory", "valid"} : Boot(i, postRb)
  /\ UNCHANGED <<creds, resets>>

\* Variant: the manual target is not tried.
ERollbackRefusedGivesUp ==
  /\ EGoto("rollback", "idle")
  /\ UNCHANGED <<core, mon, ble, nv, evq, eloc, eFrame>>

\* The IDF refuses; without a manual target the monitor keeps running.
ERollbackRefused ==
  /\ EGoto("rollback", IF HasFallback THEN "manual_flag" ELSE "idle")
  /\ UNCHANGED <<core, mon, ble, nv, evq, eloc, eFrame>>

EManualFlag ==
  /\ EGoto("manual_flag", "manual_boot")
  /\ postRb' = TRUE
  /\ UNCHANGED <<core, mon, ble, img, evq, eloc, eFrame>>

\* 250 ms later: set the boot partition and restart.  An OTA slot chosen this
\* way starts as NEW; if the choice fails the bootloader picks another image.
EManualBoot ==
  /\ epc = "manual_boot"
  /\ \E i \in Images : Boot(i, postRb)
  /\ UNCHANGED <<creds, resets>>

\* Variant: the escalation does not latch the monitor.
EMonLatchForgets ==
  /\ EGoto("m_latch", "m_enqueue")
  /\ UNCHANGED <<core, mon, ble, nv, evq, eloc, eFrame>>

EMonLatch ==
  /\ EGoto("m_latch", "m_enqueue")
  /\ latch' = "escalated"
  /\ UNCHANGED <<core, streak, ble, nv, evq, eloc, eFrame>>

\* Variant: a full queue is not looked at.
EEnqueueUnbounded ==
  /\ EGoto("m_enqueue", "idle")
  /\ sysq' = sysq + 1
  /\ UNCHANGED <<mode, tcpAuthed, mon, ble, nv, evq, eloc, eFrame>>

\* enqueue_recovery: no waiting, a full queue drops the request.
EEnqueue ==
  /\ EGoto("m_enqueue", "idle")
  /\ sysq' = IF sysq < QueueDepth THEN sysq + 1 ELSE sysq
  /\ UNCHANGED <<mode, tcpAuthed, mon, ble, nv, evq, eloc, eFrame>>

E == \/ ETakeStart \/ ETakeGotIp \/ ETakeDown \/ EAuthClear \/ EModeRead
     \/ EWaitXchg \/ EWaitHide \/ EWaitArm \/ EReport
     \/ EMonClear \/ EMonCheck \/ EMonLoad \/ EMonStore \/ EMonElig \/ EMonDecide
     \/ ERollback \/ ERollbackRefused \/ EManualFlag \/ EManualBoot
     \/ EMonLatch \/ EEnqueue

-----------------------------------------------------------------------------
(***************************************************************************)
(* C[c]: one TCP connection, the AUTH command with the right token.        *)
(***************************************************************************)
CGoto(c, from, to) == cpc[c] = from /\ cpc' = [cpc EXCEPT ![c] = to]

cFrame == <<stack, wifi, evq, epc, eloc, wpc, bpc, bleOta, resets>>

\* The line has arrived and sets the connection's own ctx.authed.
CAuth(c) ==
  /\ up /\ cpc[c] \in {"new", "session"}
  /\ CGoto(c, cpc[c], "mark")
  /\ UNCHANGED <<core, mon, lifeboat, nv, cFrame>>

CMark(c) ==
  /\ CGoto(c, "mark", "gate")
  /\ tcpAuthed' = TRUE
  /\ UNCHANGED <<mode, sysq, mon, lifeboat, nv, cFrame>>

\* Variant: the image is not marked VALID.
CGateSkipsValid(c) ==
  /\ CGoto(c, "gate", IF tcpAuthed THEN "check" ELSE "session")
  /\ UNCHANGED <<core, mon, lifeboat, nv, cFrame>>

\* syscoord_control_path_ok("TCP") reads the flag again.
CGate(c) ==
  /\ CGoto(c, "gate", IF tcpAuthed THEN "valid" ELSE "session")
  /\ UNCHANGED <<core, mon, lifeboat, nv, cFrame>>

\* Cancel the pending rollback; a failure to do so is only logged.
CValid(c) ==
  /\ CGoto(c, "valid", "check")
  /\ \/ img' = IF img = "pending" THEN "valid" ELSE img
     \/ FlashMayFail /\ img' = img
  /\ UNCHANGED <<core, mon, lifeboat, postRb, cFrame>>

\* health_monitor_control_ok: check, latch, clear the streak.
CCheck(c) ==
  /\ CGoto(c, "check", IF latch = "open" THEN "latch" ELSE "xchg")
  /\ UNCHANGED <<core, mon, lifeboat, nv, cFrame>>

CLatch(c) ==
  /\ CGoto(c, "latch", "reset")
  /\ latch' = "control"
  /\ UNCHANGED <<core, streak, lifeboat, nv, cFrame>>

CReset(c) ==
  /\ CGoto(c, "reset", "xchg")
  /\ streak' = 0
  /\ UNCHANGED <<core, latch, lifeboat, nv, cFrame>>

\* set_mode(NORMAL): exchange, hide Bluetooth, clear the post-rollback flag.
CNormalXchg(c) ==
  /\ CGoto(c, "xchg", IF mode = "NORMAL" THEN "session" ELSE "hide")
  /\ mode' = "NORMAL"
  /\ UNCHANGED <<tcpAuthed, sysq, mon, lifeboat, nv, cFrame>>

CNormalHide(c) ==
  /\ CGoto(c, "hide", "flag")
  /\ lifeboat' = FALSE
  /\ UNCHANGED <<core, mon, nv, cFrame>>

CNormalFlag(c) ==
  /\ CGoto(c, "flag", "session")
  /\ postRb' = FALSE
  /\ UNCHANGED <<core, mon, lifeboat, img, cFrame>>

\* The connection ends; its context goes with the task.
CClose(c) ==
  /\ CGoto(c, "session", "new")
  /\ UNCHANGED <<core, mon, lifeboat, nv, cFrame>>

\* The OTA command ended well; esp_ota_begin refuses while PENDING_VERIFY.
COtaDone(c) ==
  /\ up /\ cpc[c] = "session"
  /\ img # "pending"
  /\ Boot("pending", postRb)
  /\ UNCHANGED <<creds, resets>>

C(c) == \/ CMark(c) \/ CGate(c) \/ CValid(c) \/ CCheck(c) \/ CLatch(c)
        \/ CReset(c) \/ CNormalXchg(c) \/ CNormalHide(c) \/ CNormalFlag(c)

-----------------------------------------------------------------------------
(***************************************************************************)
(* W: the worker.  set_mode(RECOVERY) only exchanges; the worker then      *)
(* brings Bluetooth up and turns the lifeboat on.                          *)
(***************************************************************************)
wFrame == <<tcpAuthed, mon, nv, wifi, evq, epc, eloc, cpc,
            bpc, bleOta, resets>>

WReceive ==
  /\ wpc = "idle" /\ sysq > 0
  /\ wpc' = "xchg" /\ sysq' = sysq - 1
  /\ UNCHANGED <<mode, ble, wFrame>>

WRecoveryXchg ==
  /\ wpc = "xchg" /\ wpc' = "init"
  /\ mode' = "RECOVERY"
  /\ UNCHANGED <<sysq, ble, wFrame>>

WBleInit ==
  /\ wpc = "init" /\ wpc' = "boat"
  /\ stack' = TRUE
  /\ UNCHANGED <<mode, sysq, lifeboat, wFrame>>

WLifeboat ==
  /\ wpc = "boat" /\ wpc' = "idle"
  /\ lifeboat' = TRUE
  /\ UNCHANGED <<mode, sysq, stack, wFrame>>

W == WReceive \/ WRecoveryXchg \/ WBleInit \/ WLifeboat

-----------------------------------------------------------------------------
(***************************************************************************)
(* B: BL_OTA START, as far as it touches the coordinator and the monitor.  *)
(***************************************************************************)
bFrame == <<core, ble, nv, wifi, evq, epc, eloc, cpc, wpc, resets>>

\* The mode gate; the long erase of esp_ota_begin follows it.
BStart ==
  /\ BleOta /\ bpc = "idle" /\ ~bleOta /\ stack
  /\ mode = "RECOVERY"
  /\ bpc' = "begin"
  /\ UNCHANGED <<mon, bleOta, bFrame>>

BBegin ==
  /\ bpc = "begin"
  /\ \/ bpc' = "idle" /\ UNCHANGED bleOta
     \/ img # "pending" /\ bpc' = "check" /\ bleOta' = TRUE
  /\ UNCHANGED <<mon, bFrame>>

\* "Latch health monitor so the device doesn't try to rollback mid-flash."
BCheck ==
  /\ bpc = "check" /\ bpc' = IF latch = "open" THEN "latch" ELSE "idle"
  /\ UNCHANGED <<mon, bleOta, bFrame>>

BLatch ==
  /\ bpc = "latch" /\ bpc' = "reset"
  /\ latch' = "ble_ota"
  /\ UNCHANGED <<streak, bleOta, bFrame>>

BReset ==
  /\ bpc = "reset" /\ bpc' = "idle"
  /\ streak' = 0
  /\ UNCHANGED <<latch, bleOta, bFrame>>

\* BL_OTA ABORT, a write error, a failed finish or the link dropping.
BAbort ==
  /\ bpc = "idle" /\ bleOta
  /\ bleOta' = FALSE
  /\ UNCHANGED <<mon, bpc, bFrame>>

BOtaDone ==
  /\ bpc = "idle" /\ bleOta
  /\ Boot("pending", postRb)
  /\ UNCHANGED <<creds, resets>>

B == BStart \/ BBegin \/ BCheck \/ BLatch \/ BReset

\* setwifi over an authenticated TCP connection or the lifeboat: store the
\* credentials, drop the link and start connecting with them.
SetWifi ==
  /\ (up /\ \E c \in Clients : cpc[c] = "session") \/ (stack /\ lifeboat)
  /\ creds' = TRUE /\ up' = FALSE
  /\ IF up THEN Post("DISCONNECTED") ELSE UNCHANGED evq
  /\ UNCHANGED <<core, mon, ble, nv, epc, eloc, cpc, wpc, bpc, bleOta, resets>>

-----------------------------------------------------------------------------
Environment ==
  \/ PowerCycle \/ LinkUp \/ LinkFails \/ LinkDrops \/ SetWifi \/ BAbort \/ BOtaDone
  \/ \E c \in Clients : CAuth(c) \/ CClose(c) \/ COtaDone(c)

Next == Environment \/ E \/ W \/ B \/ \E c \in Clients : C(c)

Spec == Init /\ [][Next]_vars

(***************************************************************************)
(* Every task runs whenever it can: it blocks only on its own queue or     *)
(* socket.  With an SSID, a disconnect arms the reconnect timer and every  *)
(* attempt ends.  Operators, clients, drops and power are not fair.        *)
(***************************************************************************)
Fairness ==
  /\ WF_vars(E) /\ WF_vars(W) /\ WF_vars(B)
  /\ \A c \in Clients : WF_vars(C(c))
  /\ WF_vars(LinkUp \/ LinkFails)

FairSpec == Spec /\ Fairness

-----------------------------------------------------------------------------
\* Types, and the bound the queue and the saturating counter keep.
TypeOK ==
  /\ mode \in Modes /\ tcpAuthed \in BOOLEAN /\ sysq \in 0..QueueDepth
  /\ latch \in Latches /\ streak \in 0..StreakCap
  /\ stack \in BOOLEAN /\ lifeboat \in BOOLEAN
  /\ img \in Images /\ postRb \in BOOLEAN
  /\ creds \in BOOLEAN /\ up \in BOOLEAN
  /\ evq \in Seq(Events)
  /\ epc \in EPcs /\ ev \in Downs \cup {"none"} /\ tmp \in 0..StreakCap /\ elig \in BOOLEAN
  /\ cpc \in [Clients -> CPcs] /\ wpc \in WPcs /\ bpc \in BPcs /\ bleOta \in BOOLEAN
  /\ resets \in Nat

\* The coordinator promotes only a proven image: in NORMAL the bootloader will not
\* throw the running image away at the next reset (sys_policy.c, control_path_ok).
NormalImpliesProven == mode = "NORMAL" => img # "pending"

\* Waiting for control is never given up: while the monitor is latched in
\* WAIT_CONTROL, what latched it is still about to change the mode, or E is about
\* to arm it again.  (BL_OTA START latches for its own reasons, see the README.)
WatchedWhileWaiting ==
  mode = "WAIT_CONTROL" =>
    /\ latch = "escalated" => \/ sysq > 0 \/ wpc = "xchg"
                              \/ epc \in {"m_enqueue", "wc_hide", "wc_arm"}
    /\ latch = "control"   => \/ \E c \in Clients : cpc[c] \in {"reset", "xchg"}
                              \/ epc \in {"wc_hide", "wc_arm"}

RollbackPcs == {"rollback", "manual_flag", "manual_boot"}

\* Once recovery is open to an operator, and while an image is being flashed over
\* Bluetooth, the monitor never rolls back (and so never restarts) the device.
NoRollbackMidFlash ==
  epc \in RollbackPcs => mode # "RECOVERY" /\ bpc = "idle" /\ ~bleOta

\* With a rollback target, an unproven image does not linger into RECOVERY unless
\* it is itself what a rollback booted (monitor.c: the first failure decides).
UnprovenRollsBackFirst ==
  mode = "RECOVERY" /\ img = "pending" /\ HasFallback => postRb

\* Losing Wi-Fi for good always ends in RECOVERY again, whatever the races before.
\* (README: BLE lifeboat when TCP over Wi-Fi is not up.)
LostControlEscalates ==
  <>[](~up /\ creds /\ ~bleOta) => []<>(mode = "RECOVERY")

\* A promotion that raced with a disconnect is undone, or the link comes back.
StaleNormalHeals == (mode = "NORMAL" /\ ~up) ~> (mode # "NORMAL" \/ up)

\* The threads, the latch, the streak and the queue together keep the promises of
\* ControlMode: a promotion follows a proof, recovery is asked for only when nothing
\* is left to roll back, no restart interrupts it (sys_policy.c, monitor.c).
Control == INSTANCE ControlMode
             WITH fellBack <- postRb, falling <- (epc = "manual_boot"),
                  due <- sysq + (IF wpc = "xchg" THEN 1 ELSE 0)

ImplementsControl == Control!Spec

-----------------------------------------------------------------------------
(***************************************************************************)
(* What comments and the README say and the code does not keep.            *)
(***************************************************************************)
Settled ==
  /\ epc = "idle" /\ evq = <<>> /\ wpc = "idle" /\ sysq = 0 /\ bpc = "idle"
  /\ \A c \in Clients : cpc[c] \in {"new", "session"}

\* README.md:30: RECOVERY brings up the BLE lifeboat until Wi-Fi is fixed.
RecoveryHasLifeboat == Settled /\ mode = "RECOVERY" => lifeboat
=============================================================================
