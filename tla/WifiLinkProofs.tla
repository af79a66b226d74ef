--------------------------- MODULE WifiLinkProofs ---------------------------
(***************************************************************************)
(* The safety of WifiLink for every set of tasks that run setwifi and      *)
(* every bound.  NeverStranded is not inductive: got_ip stops the          *)
(* reconnect timer, and only the order of the event queue makes that safe. *)
(***************************************************************************)
EXTENDS WifiLink, TLAPS

Down == sta \in {"idle", "connecting"}

\* A GOT_IP that E has still to act on, and that the link has outlived, is
\* followed by the DISC that brings the reconnect timer back.
StaleIpIsFollowed ==
  /\ \A i \in 1..Len(evq) :
       evq[i] = "GOT_IP" /\ Down => \E j \in (i + 1)..Len(evq) : evq[j] = "DISC"
  /\ epc = "ip_stop" /\ Down => \E j \in 1..Len(evq) : evq[j] = "DISC"

IInv == TypeOK /\ StaleIpIsFollowed /\ NeverStranded

-----------------------------------------------------------------------------
(***************************************************************************)
(* The event queue.                                                        *)
(***************************************************************************)
LEMMA StartQueue ==
  /\ <<"START">> \in Seq(Events) /\ Len(<<"START">>) = 1 /\ <<"START">>[1] = "START"
BY DEF Events

LEMMA Appending ==
  ASSUME NEW q \in Seq(Events), NEW e \in Events
  PROVE  /\ Append(q, e) \in Seq(Events)
         /\ Len(Append(q, e)) = Len(q) + 1 /\ Len(q) \in Nat
         /\ Append(q, e)[Len(q) + 1] = e
         /\ \A i \in 1..Len(q) : Append(q, e)[i] = q[i]
OBVIOUS

LEMMA Taking ==
  ASSUME NEW q \in Seq(Events), q # <<>>
  PROVE  /\ Tail(q) \in Seq(Events) /\ Head(q) \in Events /\ Head(q) = q[1]
         /\ Len(q) \in Nat /\ Len(q) >= 1 /\ Len(Tail(q)) = Len(q) - 1
         /\ \A i \in 1..(Len(q) - 1) : Tail(q)[i] = q[i + 1]
OBVIOUS

-----------------------------------------------------------------------------
(***************************************************************************)
(* Types.                                                                  *)
(***************************************************************************)
LEMMA InitTyped == Init => TypeOK
<1> SUFFICES ASSUME Init PROVE TypeOK
  OBVIOUS
<1>1. starting \in 0..MaxStarting /\ servers \in 0..1
  BY WifiLinkAssumption DEF Init, WifiLinkAssumption
<1>2. cpc \in [Callers -> CPcs]
  BY DEF Init, CPcs
<1>3. evq \in Seq(Events)
  BY StartQueue DEF Init
<1> QED
  BY <1>1, <1>2, <1>3, Zenon DEF Init, TypeOK, Stations, EPcs

LEMMA AbortTyped == TypeOK /\ Abort => TypeOK'
<1> SUFFICES ASSUME TypeOK, Abort PROVE TypeOK'
  OBVIOUS
<1>1. starting' \in 0..MaxStarting /\ servers' \in 0..1
  BY WifiLinkAssumption DEF Abort, WifiLinkAssumption
<1>2. cpc' \in [Callers -> CPcs]
  BY DEF Abort, CPcs
<1>3. evq' \in Seq(Events)
  BY StartQueue DEF Abort
<1> QED
  BY <1>1, <1>2, <1>3, Zenon DEF Abort, TypeOK, Stations, EPcs

LEMMA DriverTyped ==
  TypeOK /\ (Associates \/ GetsIp \/ LosesIp \/ Disconnects) => TypeOK'
BY Appending
DEF TypeOK, Associates, GetsIp, LosesIp, Disconnects, Post, driverFrame, srv,
    Stations, Events

LEMMA ETyped == TypeOK /\ E => TypeOK'
<1> SUFFICES ASSUME TypeOK, E PROVE TypeOK'
  OBVIOUS
<1> USE DEF TypeOK, Goto, eFrame, air, srv, EPcs
<1>1. CASE ETake
  BY <1>1, Taking DEF ETake, Take
<1>2. CASE EIpStop
  BY <1>2 DEF EIpStop
<1>3. CASE EIpCheck
  BY <1>3 DEF EIpCheck
<1>4. CASE EIpStart
  BY <1>4, AbortTyped DEF EIpStart
<1>5. CASE ECheck
  BY <1>5 DEF ECheck
<1>6. CASE EStop
  BY <1>6, AbortTyped DEF EStop
<1>7. CASE ESchedule
  BY <1>7 DEF ESchedule
<1> QED
  BY <1>1, <1>2, <1>3, <1>4, <1>5, <1>6, <1>7 DEF E

LEMMA TimersTyped ==
  TypeOK /\ (ReconnectFires \/ TFires \/ TLaunch \/ SListen) => TypeOK'
<1> SUFFICES ASSUME TypeOK, ReconnectFires \/ TFires \/ TLaunch \/ SListen PROVE TypeOK'
  OBVIOUS
<1> USE WifiLinkAssumption DEF WifiLinkAssumption, TypeOK, air, srv, Stations
<1>1. CASE ReconnectFires
  BY <1>1 DEF ReconnectFires
<1>2. CASE TFires
  BY <1>2 DEF TFires
<1>3. CASE TLaunch
  BY <1>3 DEF TLaunch
<1>4. CASE SListen
  BY <1>4 DEF SListen
<1> QED
  BY <1>1, <1>2, <1>3, <1>4

LEMMA CTyped ==
  ASSUME NEW c \in Callers, TypeOK, C(c)
  PROVE  TypeOK'
<1> USE DEF TypeOK, CGoto, cFrame, air, srv, CPcs
<1>1. CASE CDisconnect(c)
  BY <1>1, Appending DEF CDisconnect, Post, Stations, Events
<1>2. CASE CConfig(c)
  BY <1>2, AbortTyped DEF CConfig
<1>3. CASE CStop(c)
  BY <1>3 DEF CStop
<1>4. CASE CSchedule(c)
  BY <1>4 DEF CSchedule
<1> QED
  BY <1>1, <1>2, <1>3, <1>4 DEF C

LEMMA StutterTyped == TypeOK /\ UNCHANGED vars => TypeOK'
BY DEF TypeOK, vars, air, srv

LEMMA StepTyped == TypeOK /\ [Next]_vars => TypeOK'
BY DriverTyped, ETyped, TimersTyped, CTyped, StutterTyped DEF Next

-----------------------------------------------------------------------------
(***************************************************************************)
(* got_ip's start.                                                         *)
(***************************************************************************)
LEMMA StepStart == TypeOK /\ StartNeverAborts /\ [Next]_vars => StartNeverAborts'
<1> SUFFICES ASSUME TypeOK, StartNeverAborts, [Next]_vars PROVE StartNeverAborts'
  OBVIOUS
<1> USE DEF StartNeverAborts, air, srv, Abort
<1>1. CASE Associates \/ GetsIp \/ LosesIp \/ Disconnects
  BY <1>1 DEF Associates, GetsIp, LosesIp, Disconnects, driverFrame
<1>2. CASE E
  BY <1>2 DEF E, ETake, Take, EIpStop, EIpCheck, EIpStart, ECheck, EStop, ESchedule,
              Goto, eFrame
<1>3. CASE ReconnectFires \/ TFires \/ TLaunch \/ SListen
  BY <1>3 DEF ReconnectFires, TFires, TLaunch, SListen
<1>4. CASE \E c \in Callers : C(c)
  BY <1>4 DEF C, CDisconnect, CConfig, CStop, CSchedule, cFrame
<1>5. CASE UNCHANGED vars
  BY <1>5 DEF vars
<1> QED
  BY <1>1, <1>2, <1>3, <1>4, <1>5 DEF Next

-----------------------------------------------------------------------------
(***************************************************************************)
(* Who reconnects the station.                                             *)
(***************************************************************************)
Support == StaleIpIsFollowed /\ NeverStranded

LEMMA InitSupport == Init => Support
<1> SUFFICES ASSUME Init PROVE Support
  OBVIOUS
<1>1. StaleIpIsFollowed
  BY StartQueue DEF Init, StaleIpIsFollowed
<1>2. NeverStranded
  BY StartQueue DEF Init, NeverStranded
<1> QED
  BY <1>1, <1>2 DEF Support

LEMMA AbortSupport == Abort => Support'
<1> SUFFICES ASSUME Abort PROVE Support'
  OBVIOUS
<1>1. StaleIpIsFollowed'
  BY StartQueue DEF Abort, StaleIpIsFollowed
<1>2. NeverStranded'
  BY StartQueue DEF Abort, NeverStranded
<1> QED
  BY <1>1, <1>2 DEF Support

\* Posting leaves the queue's entries where they are and adds one at its end.
LEMMA PostSupport ==
  ASSUME TypeOK, Support, NEW e \in Events, Post(e),
         e = "GOT_IP" => ~Down',
         Down' => Down \/ e = "DISC",
         sta' = "idle" => e = "DISC" \/ sta = "idle",
         UNCHANGED <<ssid, rtmr, epc>>,
         \A c \in Callers : cpc[c] \in {"stop", "schedule"} => cpc'[c] = cpc[c]
  PROVE  Support'
<1>1. evq \in Seq(Events) /\ evq' = Append(evq, e)
  BY DEF TypeOK, Post
<1>2. /\ Len(evq') = Len(evq) + 1 /\ Len(evq) \in Nat
      /\ evq'[Len(evq) + 1] = e
      /\ \A i \in 1..Len(evq) : evq'[i] = evq[i]
  BY <1>1, Appending
<1>3. StaleIpIsFollowed'
  <2>1. CASE ~Down'
    BY <2>1 DEF StaleIpIsFollowed
  <2>2. CASE Down' /\ e = "DISC"
    BY <1>2, <2>2 DEF StaleIpIsFollowed
  <2>3. CASE Down' /\ e # "DISC"
    <3>1. Down /\ e # "GOT_IP"
      BY <2>3
    <3>2. ASSUME NEW i \in 1..Len(evq'), evq'[i] = "GOT_IP"
          PROVE  \E j \in (i + 1)..Len(evq') : evq'[j] = "DISC"
      <4>1. i \in 1..Len(evq) /\ evq[i] = "GOT_IP"
        BY <1>2, <3>1, <3>2
      <4>2. PICK j \in (i + 1)..Len(evq) : evq[j] = "DISC"
        BY <4>1, <3>1 DEF Support, StaleIpIsFollowed
      <4> QED
        BY <1>2, <4>1, <4>2
    <3>3. ASSUME epc' = "ip_stop"
          PROVE  \E j \in 1..Len(evq') : evq'[j] = "DISC"
      <4>1. PICK j \in 1..Len(evq) : evq[j] = "DISC"
        BY <3>1, <3>3 DEF Support, StaleIpIsFollowed
      <4> QED
        BY <1>2, <4>1
    <3> QED
      BY <3>2, <3>3 DEF StaleIpIsFollowed
  <2> QED
    BY <2>1, <2>2, <2>3
<1>4. NeverStranded'
  <2> SUFFICES ASSUME sta' = "idle", ssid', rtmr' = FALSE,
                      epc' \notin {"check", "recheck", "stop", "schedule"},
                      \A c \in Callers : cpc'[c] \notin {"stop", "schedule"}
               PROVE  \E i \in 1..Len(evq') : evq'[i] \in {"START", "DISC"}
    BY DEF NeverStranded, TypeOK
  <2>1. CASE e = "DISC"
    BY <1>2, <2>1
  <2>2. CASE e # "DISC"
    <3>1. PICK i \in 1..Len(evq) : evq[i] \in {"START", "DISC"}
      BY <2>2 DEF Support, NeverStranded
    <3> QED
      BY <1>2, <3>1
  <2> QED
    BY <2>1, <2>2
<1> QED
  BY <1>3, <1>4 DEF Support

\* The same, for a step that leaves the queue alone.
LEMMA QuietSupport ==
  ASSUME Support, UNCHANGED <<evq, ssid>>,
         Down' => Down,
         epc' = "ip_stop" => epc = "ip_stop",
         NeverStranded'
  PROVE  Support'
BY DEF Support, StaleIpIsFollowed

LEMMA DriverSupport ==
  TypeOK /\ Support /\ (Associates \/ GetsIp \/ LosesIp \/ Disconnects) => Support'
<1> SUFFICES ASSUME TypeOK, Support, Associates \/ GetsIp \/ LosesIp \/ Disconnects
             PROVE  Support'
  OBVIOUS
<1> USE DEF driverFrame, Events, Down
<1>1. CASE Associates
  BY <1>1, QuietSupport DEF Associates, NeverStranded
<1>2. CASE GetsIp
  BY <1>2, PostSupport DEF GetsIp
<1>3. CASE LosesIp
  BY <1>3, PostSupport DEF LosesIp
<1>4. CASE Disconnects
  BY <1>4, PostSupport DEF Disconnects
<1> QED
  BY <1>1, <1>2, <1>3, <1>4

\* Taking an event shifts the others; what followed one still follows it.
LEMMA TakeSupport == TypeOK /\ Support /\ ETake => Support'
<1> SUFFICES ASSUME TypeOK, Support, ETake PROVE Support'
  OBVIOUS
<1>1. /\ evq \in Seq(Events) /\ evq # <<>> /\ evq' = Tail(evq)
      /\ UNCHANGED <<sta, ssid, rtmr, cpc>> /\ epc = "idle"
  BY DEF TypeOK, ETake, Take, Goto, eFrame, air
<1>2. /\ Head(evq) = evq[1] /\ Len(evq) \in Nat /\ Len(evq) >= 1
      /\ Len(evq') = Len(evq) - 1
      /\ \A i \in 1..(Len(evq) - 1) : evq'[i] = evq[i + 1]
  BY <1>1, Taking
<1>3. StaleIpIsFollowed'
  <2>1. ASSUME NEW i \in 1..Len(evq'), evq'[i] = "GOT_IP", Down
        PROVE  \E j \in (i + 1)..Len(evq') : evq'[j] = "DISC"
    <3>1. evq[i + 1] = "GOT_IP" /\ i + 1 \in 1..Len(evq)
      BY <1>2, <2>1
    <3>2. PICK j \in (i + 2)..Len(evq) : evq[j] = "DISC"
      BY <2>1, <3>1 DEF Support, StaleIpIsFollowed
    <3>3. j - 1 \in (i + 1)..Len(evq') /\ evq'[j - 1] = "DISC"
      BY <1>2, <3>2
    <3> QED
      BY <3>3
  <2>2. ASSUME epc' = "ip_stop", Down
        PROVE  \E j \in 1..Len(evq') : evq'[j] = "DISC"
    <3>1. evq[1] = "GOT_IP"
      BY <1>1, <1>2, <2>2 DEF ETake, Take, Goto
    <3>2. PICK j \in 2..Len(evq) : evq[j] = "DISC"
      BY <1>2, <2>2, <3>1 DEF Support, StaleIpIsFollowed
    <3>3. j - 1 \in 1..Len(evq') /\ evq'[j - 1] = "DISC"
      BY <1>2, <3>2
    <3> QED
      BY <3>3
  <2>3. Down' <=> Down
    BY <1>1 DEF Down
  <2> QED
    BY <2>1, <2>2, <2>3 DEF StaleIpIsFollowed
<1>4. NeverStranded'
  <2> SUFFICES ASSUME sta = "idle", ssid, ~rtmr, epc' \notin {"check", "schedule"},
                      \A c \in Callers : cpc[c] \notin {"stop", "schedule"}
               PROVE  \E i \in 1..Len(evq') : evq'[i] \in {"START", "DISC"}
    BY <1>1 DEF NeverStranded
  <2>1. evq[1] \notin {"START", "DISC"}
    BY <1>1, <1>2 DEF ETake, Take, Goto
  <2>2. PICK i \in 1..Len(evq) : evq[i] \in {"START", "DISC"}
    BY <1>1 DEF Support, NeverStranded
  <2>3. i - 1 \in 1..Len(evq') /\ evq'[i - 1] = evq[i]
    BY <1>2, <2>1, <2>2
  <2> QED
    BY <2>2, <2>3
<1> QED
  BY <1>3, <1>4 DEF Support

LEMMA ESupport == TypeOK /\ Support /\ E => Support'
<1> SUFFICES ASSUME TypeOK, Support, E PROVE Support'
  OBVIOUS
<1> USE DEF Goto, eFrame, air, srv, Down
<1>1. CASE ETake
  BY <1>1, TakeSupport
<1>2. CASE EIpStop
  BY <1>2, QuietSupport DEF EIpStop, NeverStranded, Support, StaleIpIsFollowed
<1>3. CASE EIpCheck
  BY <1>3, QuietSupport DEF EIpCheck, NeverStranded, Support
<1>4. CASE EIpStart
  BY <1>4, QuietSupport, AbortSupport DEF EIpStart, NeverStranded, Support
<1>5. CASE ECheck
  BY <1>5, QuietSupport DEF ECheck, NeverStranded, Support
<1>6. CASE EStop
  BY <1>6, QuietSupport, AbortSupport DEF EStop, NeverStranded, Support
<1>7. CASE ESchedule
  BY <1>7, QuietSupport DEF ESchedule, NeverStranded
<1> QED
  BY <1>1, <1>2, <1>3, <1>4, <1>5, <1>6, <1>7 DEF E

LEMMA TimersSupport ==
  TypeOK /\ Support /\ (ReconnectFires \/ TFires \/ TLaunch \/ SListen) => Support'
<1> SUFFICES ASSUME TypeOK, Support, ReconnectFires \/ TFires \/ TLaunch \/ SListen
             PROVE  Support'
  OBVIOUS
<1> USE DEF air, srv, Down
<1>1. CASE ReconnectFires
  BY <1>1, QuietSupport DEF ReconnectFires, NeverStranded
<1>2. CASE TFires \/ TLaunch \/ SListen
  BY <1>2, QuietSupport DEF TFires, TLaunch, SListen, NeverStranded, Support
<1> QED
  BY <1>1, <1>2

LEMMA CSupport ==
  ASSUME NEW c \in Callers, TypeOK, Support, C(c)
  PROVE  Support'
<1> USE DEF CGoto, cFrame, air, srv, Down
<1>1. CASE CDisconnect(c) /\ sta = "idle"
  BY <1>1, QuietSupport DEF CDisconnect, NeverStranded, Support, TypeOK
<1>2. CASE CDisconnect(c) /\ sta # "idle"
  BY <1>2, PostSupport DEF CDisconnect, Events, TypeOK
<1>3. CASE CConfig(c)
  BY <1>3, AbortSupport DEF CConfig, NeverStranded, Support, StaleIpIsFollowed, TypeOK
<1>4. CASE CStop(c)
  BY <1>4, QuietSupport DEF CStop, NeverStranded, TypeOK
<1>5. CASE CSchedule(c)
  BY <1>5, QuietSupport DEF CSchedule, NeverStranded
<1> QED
  BY <1>1, <1>2, <1>3, <1>4, <1>5 DEF C

LEMMA StepSupport == TypeOK /\ Support /\ [Next]_vars => Support'
<1> SUFFICES ASSUME TypeOK, Support, UNCHANGED vars PROVE Support'
  BY DriverSupport, ESupport, TimersSupport, CSupport DEF Next
<1> QED
  BY QuietSupport DEF vars, air, srv, Down, NeverStranded, Support

-----------------------------------------------------------------------------
\* Types, and at most one server task on the port, for every bound.
THEOREM LinkTyped == Spec => []TypeOK
<1>1. Init => TypeOK
  BY InitTyped
<1>2. TypeOK /\ [Next]_vars => TypeOK'
  BY StepTyped
<1> QED
  BY <1>1, <1>2, PTL DEF Spec

\* got_ip never starts an active timer: the start cannot abort the device.
THEOREM StartIsSafe == Spec => []StartNeverAborts
<1>1. Init => StartNeverAborts
  BY DEF Init, StartNeverAborts
<1>2. TypeOK /\ StartNeverAborts /\ [Next]_vars => StartNeverAborts'
  BY StepStart
<1> QED
  BY <1>1, <1>2, LinkTyped, PTL DEF Spec

\* A configured station always has somebody who will reconnect it, however many
\* tasks run setwifi at once.
THEOREM AlwaysReconnects == Spec => []NeverStranded
<1>1. Init => IInv
  BY InitTyped, InitSupport DEF IInv, Support
<1>2. IInv /\ [Next]_vars => IInv'
  BY StepTyped, StepSupport DEF IInv, Support
<1>3. IInv => NeverStranded
  BY DEF IInv
<1> QED
  BY <1>1, <1>2, <1>3, PTL DEF Spec
=============================================================================
