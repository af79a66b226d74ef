-------------------------------- MODULE Gatt --------------------------------
(***************************************************************************)
(* What a BLE central is told: the error source (components/errsrc), the   *)
(* alerts (components/alerts) and the GATT server that mirrors both into   *)
(* characteristics and notifications (ble/gatt/gatt_server, gatt_notify).  *)
(*                                                                         *)
(*   E   the event-loop task: errsrc_set, and alert_raise in the monitor   *)
(*   C   a TCP connection task: setwifi sets the error source to TRYING    *)
(*   W   syscoord.wkr: gatt_server_init the first time, then alert_raise   *)
(*   B   the Bluetooth task: gatts_event_handler                           *)
(*                                                                         *)
(* Nothing locks.  errsrc_set hands its callback a pointer to the shared   *)
(* s_err, alert_raise one to the shared record: both are read again at     *)
(* every use.  The copy of a string is one step (see the README).          *)
(***************************************************************************)
EXTENDS Naturals, Sequences

CONSTANTS
  Errors,     \* error strings other than "NONE", "TRYING" among them
  QueueDepth, \* capacity of the coordinator queue, 4 in the code
  MaxSets,    \* bound: calls of errsrc_set
  MaxAlerts,  \* bound: alerts E raises
  MaxLinks    \* bound: connections of a central

ASSUME GattAssumption ==
  /\ "NONE" \notin Errors /\ "TRYING" \in Errors
  /\ QueueDepth \in Nat \ {0}
  /\ MaxSets \in Nat /\ MaxAlerts \in Nat /\ MaxLinks \in Nat

VARIABLES
  err,              \* s_err
  subscribed,       \* s_cb of errsrc is set
  gatts,            \* how far the server is: g_gatts_if, gatt_handle_table, the service
  attr,             \* the value of the ERRSRC characteristic, in the Bluetooth stack
  lastSent,         \* s_last_errsrc_sent
  connId, alertOn,  \* g_conn_id is set, alert_notify_enabled
  central,          \* the central: "off", "new" (B does not know yet), "up", "left"
  pc,               \* program counter of each thread
  arg,              \* errsrc_set's argument
  line,             \* the alert a thread has formatted: "none", "latest" or an "older" one
  asks,             \* RECOVERY requests waiting for W
  initial, told,    \* history: attr is still what the table was created with; this
                    \* central was told the latest alert
  sets, alerts, links   \* bounds used up

errsrc == <<err, subscribed>>
value  == <<attr, initial, lastSent>>
link   == <<connId, alertOn, central, links>>
bound  == <<sets, alerts>>
alert  == <<line, told>>
vars   == <<errsrc, gatts, value, link, pc, arg, alert, asks, bound>>

Threads == {"E", "C", "W", "B"}
Setters == {"E", "C"}
Raisers == {"E", "W"}
Strings == Errors \cup {"NONE"}
Phases  == {"none", "asked", "registered", "handles", "ready"}

Init ==
  /\ err = "NONE" /\ subscribed = FALSE
  /\ gatts = "none" /\ attr = "NONE" /\ initial = TRUE /\ lastSent = ""
  /\ connId = FALSE /\ alertOn = FALSE /\ central = "off" /\ links = 0
  /\ pc = [t \in Threads |-> "idle"]
  /\ arg = [t \in Setters |-> "NONE"]
  /\ line = [t \in Threads |-> "none"] /\ told = FALSE
  /\ asks = 0 /\ sets = 0 /\ alerts = 0

GattsIf == gatts \in {"registered", "handles", "ready"}
Handles == gatts \in {"handles", "ready"}

Goto(t, from, to) == pc[t] = from /\ pc' = [pc EXCEPT ![t] = to]

-----------------------------------------------------------------------------
(***************************************************************************)
(* errsrc_set: compare, copy, call back.                                   *)
(***************************************************************************)
setFrame == <<gatts, value, link, alert, asks, alerts>>

SetErr(t) ==
  /\ sets < MaxSets /\ sets' = sets + 1
  /\ Goto(t, "idle", "compare")
  /\ \E s \in (IF t = "C" THEN {"TRYING"} ELSE Strings) : arg' = [arg EXCEPT ![t] = s]
  /\ UNCHANGED <<errsrc, setFrame>>

Compare(t) ==
  /\ Goto(t, "compare", IF err = arg[t] THEN "idle" ELSE "copy")
  /\ UNCHANGED <<errsrc, arg, sets, setFrame>>

Copy(t) ==
  /\ Goto(t, "copy", "callback")
  /\ err' = arg[t]
  /\ UNCHANGED <<subscribed, arg, sets, setFrame>>

Callback(t) ==
  /\ Goto(t, "callback", IF subscribed THEN "n_attr" ELSE "idle")
  /\ UNCHANGED <<errsrc, arg, sets, setFrame>>

-----------------------------------------------------------------------------
(***************************************************************************)
(* errsrc_notify_if_changed, for any caller.                               *)
(***************************************************************************)
nFrame == <<errsrc, gatts, link, arg, alert, asks, bound>>

\* W goes on to its alert.
Notified(t) == IF t = "W" THEN "a_seq" ELSE "idle"

\* Variant: the attribute, too, is updated only on a change.
NAttrIfChanged(t) ==
  /\ Goto(t, "n_attr", "n_compare")
  /\ IF Handles THEN attr' = (IF err = lastSent THEN attr ELSE err) /\ initial' = FALSE
                ELSE UNCHANGED <<attr, initial>>
  /\ UNCHANGED <<lastSent, nFrame>>

NAttr(t) ==
  /\ Goto(t, "n_attr", "n_compare")
  /\ IF Handles THEN attr' = err /\ initial' = FALSE ELSE UNCHANGED <<attr, initial>>
  /\ UNCHANGED <<lastSent, nFrame>>

\* A change is notified to a subscribed central (not kept here, see the README) ...
NCompare(t) ==
  /\ Goto(t, "n_compare", IF err = lastSent THEN Notified(t) ELSE "n_sent")
  /\ UNCHANGED <<value, nFrame>>

\* Variant: what is remembered is the string the caller set.
NSentArg(t) ==
  /\ Goto(t, "n_sent", Notified(t))
  /\ lastSent' = IF t \in Setters THEN arg[t] ELSE err
  /\ UNCHANGED <<attr, initial, nFrame>>

\* ... and remembered as sent, whether or not there was anybody to send it to.
NSent(t) ==
  /\ Goto(t, "n_sent", Notified(t))
  /\ lastSent' = err
  /\ UNCHANGED <<attr, initial, nFrame>>

Notify(t) == NAttr(t) \/ NCompare(t) \/ NSent(t)

-----------------------------------------------------------------------------
(***************************************************************************)
(* alert_raise, by E (a rollback, or an escalation that then asks W for    *)
(* RECOVERY) and by W (RECOVERY entered).                                  *)
(***************************************************************************)
aFrame == <<errsrc, gatts, value, link, arg, asks>>

ERaise ==
  /\ alerts < MaxAlerts /\ alerts' = alerts + 1
  /\ Goto("E", "idle", "a_seq")
  /\ UNCHANGED <<alert, sets, aFrame>>

\* s_latest is written, in two goes: what was formatted or told before is older.
Write(t) ==
  /\ Goto(t, "a_seq", "a_code") \/ Goto(t, "a_code", "a_line")
  /\ told' = FALSE
  /\ line' = [u \in Threads |-> IF line[u] = "none" THEN "none" ELSE "older"]
  /\ UNCHANGED <<bound, aFrame>>

\* gatt_alert_notify: format the record and set the ALERT attribute (left out) ...
Format(t) ==
  /\ Goto(t, "a_line", "a_check")
  /\ line' = [line EXCEPT ![t] = "latest"]
  /\ UNCHANGED <<told, bound, aFrame>>

Raised(t) == IF t = "E" THEN "a_ask" ELSE "idle"
Dropped(t) == line' = [line EXCEPT ![t] = "none"]

\* ... and, if the central has subscribed, notify it.
Check(t) ==
  /\ IF alertOn /\ connId /\ GattsIf
       THEN Goto(t, "a_check", "a_send") /\ UNCHANGED line
       ELSE Goto(t, "a_check", Raised(t)) /\ Dropped(t)
  /\ UNCHANGED <<told, bound, aFrame>>

Send(t) ==
  /\ Goto(t, "a_send", Raised(t))
  /\ told' = (told \/ (central \in {"new", "up"} /\ line[t] = "latest"))
  /\ Dropped(t)
  /\ UNCHANGED <<bound, aFrame>>

Forward(t) == Format(t) \/ Check(t) \/ Send(t)

\* Variant: a full queue is not looked at.
EAskUnbounded ==
  /\ Goto("E", "a_ask", "idle")
  /\ asks' \in {asks, asks + 1}
  /\ UNCHANGED <<errsrc, gatts, value, link, arg, alert, bound>>

\* The monitor's escalation posts the request for RECOVERY after its alert, if the
\* queue has room; its rollback does not.
EAsk ==
  /\ Goto("E", "a_ask", "idle")
  /\ asks' \in {asks, IF asks < QueueDepth THEN asks + 1 ELSE asks}
  /\ UNCHANGED <<errsrc, gatts, value, link, arg, alert, bound>>

-----------------------------------------------------------------------------
(***************************************************************************)
(* W: ble_fallback_init's gatt_server_init, the first time only.           *)
(***************************************************************************)
wFrame == <<err, value, link, arg, alert, bound>>

WEnter ==
  /\ asks > 0 /\ asks' = asks - 1
  /\ Goto("W", "idle", IF subscribed THEN "a_seq" ELSE "register")
  /\ UNCHANGED <<subscribed, gatts, wFrame>>

WRegister ==
  /\ Goto("W", "register", "subscribe")
  /\ gatts' = "asked"
  /\ UNCHANGED <<subscribed, asks, wFrame>>

\* errsrc_subscribe: store the callback, push the current error through it.
WSubscribe ==
  /\ Goto("W", "subscribe", "n_attr")
  /\ subscribed' = TRUE
  /\ UNCHANGED <<gatts, asks, wFrame>>

-----------------------------------------------------------------------------
(***************************************************************************)
(* B: the events of the GATT server, and the central they come from.       *)
(***************************************************************************)
bFrame == <<errsrc, arg, asks, bound>>

\* REG_EVT, and CREAT_ATTR_TAB_EVT: the handles, then the initial values.
BRegistered ==
  /\ pc["B"] = "idle" /\ gatts = "asked" /\ gatts' = "registered"
  /\ UNCHANGED <<value, link, pc, line, told, bFrame>>

BTable ==
  /\ Goto("B", "idle", "init")
  /\ gatts = "registered" /\ gatts' = "handles"
  /\ UNCHANGED <<value, link, line, told, bFrame>>

BInitial ==
  /\ Goto("B", "init", "idle")
  /\ gatts' = "ready" /\ attr' = "NONE" /\ initial' = TRUE
  /\ UNCHANGED <<lastSent, link, line, told, bFrame>>

\* A central (external).  It is not advertised to while another is connected.
CentralComes ==
  /\ central = "off" /\ gatts = "ready" /\ links < MaxLinks
  /\ central' = "new" /\ links' = links + 1 /\ told' = FALSE
  /\ UNCHANGED <<connId, alertOn, gatts, value, pc, line, bFrame>>

CentralLeaves ==
  /\ central = "up" /\ central' = "left"
  /\ UNCHANGED <<connId, alertOn, links, told, gatts, value, pc, line, bFrame>>

\* CONNECT_EVT and DISCONNECT_EVT: the id and the subscriptions, in the code's order.
BConnect ==
  /\ central = "new" /\ Goto("B", "idle", "unsubscribe") /\ connId' = TRUE
  /\ UNCHANGED <<alertOn, central, links, told, gatts, value, line, bFrame>>

BDisconnect ==
  /\ central = "left" /\ Goto("B", "idle", "unsubscribe") /\ connId' = FALSE
  /\ UNCHANGED <<alertOn, central, links, told, gatts, value, line, bFrame>>

BUnsubscribe ==
  /\ Goto("B", "unsubscribe", "idle")
  /\ alertOn' = FALSE
  /\ central' = IF connId THEN "up" ELSE "off"
  /\ UNCHANGED <<connId, links, told, gatts, value, line, bFrame>>

\* READ_EVT of ERRSRC: the attribute is refreshed (for the next read: AUTO_RSP).
BRead ==
  /\ central \in {"up", "left"} /\ pc["B"] = "idle"
  /\ attr' = err /\ initial' = FALSE
  /\ UNCHANGED <<lastSent, link, told, gatts, pc, line, bFrame>>

\* The ERRSRC CCC: subscribing notifies the current error.
BErrorCcc ==
  /\ central \in {"up", "left"}
  /\ Goto("B", "idle", "n_attr")
  /\ UNCHANGED <<value, link, told, gatts, line, bFrame>>

\* Variant: a new subscriber is not sent the latest alert.
BAlertCccSilent ==
  /\ central \in {"up", "left"}
  /\ Goto("B", "idle", "idle") /\ alertOn' \in BOOLEAN
  /\ UNCHANGED <<connId, central, links, told, gatts, value, line, bFrame>>

\* The ALERT CCC: subscribe, then take the latest alert and notify it.
BAlertCcc ==
  /\ central \in {"up", "left"}
  /\ \/ Goto("B", "idle", "a_line") /\ alertOn' = TRUE
     \/ Goto("B", "idle", "idle") /\ alertOn' = FALSE
  /\ UNCHANGED <<connId, central, links, told, gatts, value, line, bFrame>>

B == BRegistered \/ BTable \/ BInitial \/ BConnect \/ BDisconnect \/ BUnsubscribe
     \/ BRead \/ BErrorCcc \/ BAlertCcc

-----------------------------------------------------------------------------
Next ==
  \/ \E t \in Setters : SetErr(t) \/ Compare(t) \/ Copy(t) \/ Callback(t)
  \/ \E t \in Threads : Notify(t) \/ Forward(t)
  \/ \E t \in Raisers : Write(t)
  \/ ERaise \/ EAsk \/ WEnter \/ WRegister \/ WSubscribe
  \/ B \/ CentralComes \/ CentralLeaves

Spec == Init /\ [][Next]_vars

-----------------------------------------------------------------------------
Pcs == {"idle", "compare", "copy", "callback", "n_attr", "n_compare", "n_sent",
        "a_seq", "a_code", "a_line", "a_check", "a_send", "a_ask",
        "register", "subscribe", "init", "unsubscribe"}

TypeOK ==
  /\ err \in Strings /\ attr \in Strings /\ lastSent \in Strings \cup {""}
  /\ subscribed \in BOOLEAN /\ initial \in BOOLEAN /\ told \in BOOLEAN
  /\ connId \in BOOLEAN /\ alertOn \in BOOLEAN
  /\ gatts \in Phases
  /\ central \in {"off", "new", "up", "left"}
  /\ pc \in [Threads -> Pcs]
  /\ arg \in [Setters -> Strings] /\ line \in [Threads -> {"none", "latest", "older"}]
  /\ asks \in 0..QueueDepth /\ sets \in Nat /\ alerts \in Nat /\ links \in Nat

Settled == \A t \in Threads : pc[t] = "idle"

\* Once the writers are done, the ERRSRC characteristic shows the error that is in
\* force, whoever wrote last: but for the table's first value, which stands until the
\* next change, read or subscription (gatt_notify.c: "Update characteristic value
\* always").
AttrFollows == Settled /\ subscribed /\ gatts = "ready" /\ ~initial => attr = err

\* What is remembered as sent is the error in force, also after two threads went
\* through the notification at once: the next change differs from it and is notified.
LastSentInStep == Settled /\ subscribed => lastSent = err

\* A central that has subscribed to alerts is told the latest one: no alert falls
\* between its subscription and the snapshot it is sent.
AlertNeverMissed ==
  Settled /\ central = "up" /\ alertOn => told
=============================================================================
