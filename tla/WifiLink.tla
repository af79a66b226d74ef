------------------------------ MODULE WifiLink ------------------------------
(***************************************************************************)
(* The Wi-Fi station's upkeep (components/net/wifi) and the start of the   *)
(* TCP server (tcp_listener.c): two one-shot timers that four kinds of     *)
(* thread arm, stop and wait for.                                          *)
(*                                                                         *)
(*   E     the event-loop task: wifi_evt and got_ip                        *)
(*   R     the FreeRTOS timer task: the reconnect timer's callback         *)
(*   T     the esp_timer task: the callback that starts the TCP server     *)
(*   C[c]  a task that runs setwifi: a TCP connection or the BLE console   *)
(*                                                                         *)
(* What E tells the coordinator and the monitor is SysCoord's.  A failed   *)
(* ESP_ERROR_CHECK aborts, and the device boots again.                     *)
(***************************************************************************)
EXTENDS Naturals, Sequences

CONSTANTS
  Callers,     \* tasks that may run setwifi
  MaxEvq,      \* bound: events waiting for E
  MaxStarting  \* bound: server tasks created and not yet listening

ASSUME WifiLinkAssumption == MaxEvq \in Nat \ {0} /\ MaxStarting \in Nat \ {0}

VARIABLES
  sta,       \* the driver's station: idle, connecting, assoc (no IP yet), ip
  saved,     \* an SSID is in NVS
  ssid,      \* an SSID is in the driver's configuration
  evq,       \* events posted and not yet taken by E
  rtmr,      \* s_reconn_tmr is running
  ttmr,      \* s_tcp_start_timer is active
  epc,       \* E's next step
  tpc,       \* T is inside tcp_start_timer_cb
  cpc,       \* C[c]'s next step in wifi_set_credentials
  starting,  \* server tasks on their way to listen()
  servers    \* server tasks in the accept loop

air  == <<sta, saved, ssid>>
srv  == <<starting, servers>>
vars == <<air, evq, rtmr, ttmr, epc, tpc, cpc, srv>>

Stations == {"idle", "connecting", "assoc", "ip"}
Events   == {"START", "DISC", "GOT_IP", "LOST_IP"}
EPcs     == {"idle", "ip_stop", "ip_check", "ip_start",
             "check", "recheck", "stop", "schedule"}
CPcs     == {"idle", "config", "stop", "schedule"}

Init ==
  /\ sta = "idle" /\ saved \in BOOLEAN /\ ssid = saved
  /\ evq = <<"START">> /\ rtmr = FALSE /\ ttmr = FALSE
  /\ epc = "idle" /\ tpc = "idle" /\ cpc = [c \in Callers |-> "idle"]
  /\ starting = 0 /\ servers = 0

\* abort(): the device restarts and wifi_start loads what NVS holds.
Abort ==
  /\ sta' = "idle" /\ ssid' = saved /\ UNCHANGED saved
  /\ evq' = <<"START">> /\ rtmr' = FALSE /\ ttmr' = FALSE
  /\ epc' = "idle" /\ tpc' = "idle" /\ cpc' = [c \in Callers |-> "idle"]
  /\ starting' = 0 /\ servers' = 0

-----------------------------------------------------------------------------
(***************************************************************************)
(* The driver and DHCP.                                                    *)
(***************************************************************************)
Post(e) == Len(evq) < MaxEvq /\ evq' = Append(evq, e)

driverFrame == <<saved, ssid, rtmr, ttmr, epc, tpc, cpc, srv>>

Associates ==
  /\ sta = "connecting" /\ sta' = "assoc"
  /\ UNCHANGED <<evq, driverFrame>>

GetsIp ==
  /\ sta = "assoc" /\ sta' = "ip" /\ Post("GOT_IP")
  /\ UNCHANGED driverFrame

LosesIp ==
  /\ sta = "ip" /\ sta' = "assoc" /\ Post("LOST_IP")
  /\ UNCHANGED driverFrame

Disconnects ==
  /\ sta # "idle" /\ sta' = "idle" /\ Post("DISC")
  /\ UNCHANGED driverFrame

-----------------------------------------------------------------------------
(***************************************************************************)
(* E: one event at a time.                                                 *)
(***************************************************************************)
Goto(from, to) == epc = from /\ epc' = to

Take(e, to) ==
  /\ evq # <<>> /\ Head(evq) = e
  /\ evq' = Tail(evq)
  /\ Goto("idle", to)

eFrame == <<air, tpc, cpc, srv>>

ETake ==
  /\ \/ Take("START", IF ssid THEN "schedule" ELSE "idle")
     \/ Take("GOT_IP", "ip_stop")
     \/ Take("LOST_IP", "idle")
     \/ Take("DISC", "check")
  /\ UNCHANGED <<rtmr, ttmr, eFrame>>

\* got_ip: the reconnect timer is stopped.
EIpStop ==
  /\ Goto("ip_stop", "ip_check")
  /\ rtmr' = FALSE
  /\ UNCHANGED <<evq, ttmr, eFrame>>

\* Variant: the TCP start is scheduled without asking whether it already is.
EIpCheckSkipped ==
  /\ Goto("ip_check", "ip_start")
  /\ UNCHANGED <<evq, rtmr, ttmr, eFrame>>

EIpCheck ==
  /\ Goto("ip_check", IF ttmr THEN "idle" ELSE "ip_start")
  /\ UNCHANGED <<evq, rtmr, ttmr, eFrame>>

\* Variant: the TCP start is not scheduled.
EIpStartForgets ==
  /\ Goto("ip_start", "idle")
  /\ UNCHANGED <<evq, rtmr, ttmr, eFrame>>

\* esp_timer_start_once refuses an active timer, and the refusal aborts.
EIpStart ==
  /\ epc = "ip_start"
  /\ IF ttmr THEN Abort
     ELSE /\ epc' = "idle" /\ ttmr' = TRUE
          /\ UNCHANGED <<evq, rtmr, eFrame>>

\* STA_DISCONNECTED: the handler asks whether the timer is active, and so does
\* wifi_tcp_timer_stop_if_active.
ECheck ==
  /\ \/ Goto("check", IF ttmr THEN "recheck" ELSE "schedule")
     \/ Goto("recheck", IF ttmr THEN "stop" ELSE "schedule")
  /\ UNCHANGED <<evq, rtmr, ttmr, eFrame>>

\* esp_timer_stop refuses a timer that fired since, and the refusal aborts.
EStop ==
  \/ /\ Goto("stop", "schedule")
     /\ ttmr /\ ttmr' = FALSE
     /\ UNCHANGED <<evq, rtmr, eFrame>>
  \/ epc = "stop" /\ ~ttmr /\ Abort

\* Variant: a disconnect leaves the next attempt to somebody else.
EScheduleForgets ==
  /\ Goto("schedule", "idle")
  /\ UNCHANGED <<evq, rtmr, ttmr, eFrame>>

\* wifi_backoff_schedule stops the timer, sets the delay and starts it.
ESchedule ==
  /\ Goto("schedule", "idle")
  /\ rtmr' = TRUE
  /\ UNCHANGED <<evq, ttmr, eFrame>>

E == ETake \/ EIpStop \/ EIpCheck \/ EIpStart \/ ECheck \/ EStop \/ ESchedule

-----------------------------------------------------------------------------
(***************************************************************************)
(* The timers and the server task.                                         *)
(***************************************************************************)
\* esp_wifi_connect does nothing (ESP_ERR_WIFI_CONN) unless the station is idle.
ReconnectFires ==
  /\ rtmr /\ rtmr' = FALSE
  /\ sta' = IF sta = "idle" THEN "connecting" ELSE sta
  /\ UNCHANGED <<saved, ssid, evq, ttmr, epc, tpc, cpc, srv>>

\* An esp_timer is no longer active when its callback begins.
TFires ==
  /\ ttmr /\ tpc = "idle"
  /\ ttmr' = FALSE /\ tpc' = "launch"
  /\ UNCHANGED <<air, evq, rtmr, epc, cpc, srv>>

\* launch_tcp_server makes a new server task each time.
TLaunch ==
  /\ tpc = "launch" /\ starting < MaxStarting
  /\ tpc' = "idle" /\ starting' = starting + 1
  /\ UNCHANGED <<air, evq, rtmr, ttmr, epc, cpc, servers>>

\* Variant: what listen() returns is not looked at.
SListenUnchecked ==
  /\ starting > 0
  /\ starting' = starting - 1 /\ servers' = servers + 1
  /\ UNCHANGED <<air, evq, rtmr, ttmr, epc, tpc, cpc>>

\* listen() is refused while the port is listened on, and the task deletes itself.
SListen ==
  /\ starting > 0 /\ starting' = starting - 1
  /\ servers' = IF servers = 0 THEN 1 ELSE servers
  /\ UNCHANGED <<air, evq, rtmr, ttmr, epc, tpc, cpc>>

-----------------------------------------------------------------------------
(***************************************************************************)
(* C[c]: wifi_set_credentials.                                             *)
(***************************************************************************)
CGoto(c, from, to) == cpc[c] = from /\ cpc' = [cpc EXCEPT ![c] = to]

cFrame == <<ttmr, epc, tpc, srv>>

\* The credentials are in NVS; esp_wifi_disconnect drops whatever there is.
CDisconnect(c) ==
  /\ CGoto(c, "idle", "config")
  /\ saved' = TRUE
  /\ sta' = "idle"
  /\ IF sta = "idle" THEN UNCHANGED evq ELSE Post("DISC")
  /\ UNCHANGED <<ssid, rtmr, cFrame>>

\* esp_wifi_set_config refuses a station that is connecting, and that aborts.
CConfig(c) ==
  \/ /\ CGoto(c, "config", "stop")
     /\ sta # "connecting"
     /\ ssid' = TRUE
     /\ UNCHANGED <<sta, saved, evq, rtmr, cFrame>>
  \/ cpc[c] = "config" /\ sta = "connecting" /\ Abort

CStop(c) ==
  /\ CGoto(c, "stop", "schedule")
  /\ rtmr' = FALSE
  /\ UNCHANGED <<air, evq, cFrame>>

CSchedule(c) ==
  /\ CGoto(c, "schedule", "idle")
  /\ rtmr' = TRUE
  /\ UNCHANGED <<air, evq, cFrame>>

C(c) == CDisconnect(c) \/ CConfig(c) \/ CStop(c) \/ CSchedule(c)

-----------------------------------------------------------------------------
Next ==
  \/ Associates \/ GetsIp \/ LosesIp \/ Disconnects
  \/ E \/ ReconnectFires \/ TFires \/ TLaunch \/ SListen
  \/ \E c \in Callers : C(c)

Spec == Init /\ [][Next]_vars

\* Tasks run and timers expire; the radio, the lease and the operators are not fair.
FairSpec ==
  /\ Spec
  /\ WF_vars(E) /\ WF_vars(TFires) /\ WF_vars(TLaunch) /\ WF_vars(SListen)

-----------------------------------------------------------------------------
\* Types, and that no two server tasks accept on the port.
TypeOK ==
  /\ sta \in Stations /\ saved \in BOOLEAN /\ ssid \in BOOLEAN
  /\ evq \in Seq(Events) /\ rtmr \in BOOLEAN /\ ttmr \in BOOLEAN
  /\ epc \in EPcs /\ tpc \in {"idle", "launch"} /\ cpc \in [Callers -> CPcs]
  /\ starting \in 0..MaxStarting /\ servers \in 0..1

\* A configured station is never left without somebody to reconnect it: the timer
\* runs, or an event or a task that will start it is on its way.  E and the tasks
\* that run setwifi stop each other's timer (wifi_backoff.c, wifi_api.c:91-94).
NeverStranded ==
  sta = "idle" /\ ssid =>
    \/ rtmr
    \/ \E i \in 1..Len(evq) : evq[i] \in {"START", "DISC"}
    \/ epc \in {"check", "recheck", "stop", "schedule"}
    \/ \E c \in Callers : cpc[c] \in {"stop", "schedule"}

\* The start in got_ip never meets an active timer and so never aborts: between its
\* check and the start nobody else may arm the timer (wifi_event.c:51-53).
StartNeverAborts == epc = "ip_start" => ~ttmr

\* With an address for good the device ends up listening for TCP, whatever drops,
\* cancelled starts and second servers came before (got_ip, launch_tcp_server).
ServerComes == <>[](sta = "ip") => <>[](servers = 1)
=============================================================================
