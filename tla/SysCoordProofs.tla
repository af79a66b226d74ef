--------------------------- MODULE SysCoordProofs ---------------------------
(***************************************************************************)
(* The safety of SysCoord for every number of clients, queue depth, streak *)
(* cap and bound.  Typing first, then Watched (inductive as it stands      *)
(* beside the types), then, for flash that can be written, the invariant   *)
(* that carries the three promises about an unproven image, and last, from *)
(* the same invariant, that SysCoord implements ControlMode.               *)
(***************************************************************************)
EXTENDS SysCoord, TLAPS

\* Recovery is under way or open: asked for, being entered, or being used.
Escalating == sysq > 0 \/ wpc # "idle" \/ mode = "RECOVERY" \/ epc = "m_enqueue" \/ bpc # "idle"

\* Whoever is past a gate that only a proven image passes still runs one.
ProvenPastGates ==
  /\ mode = "NORMAL" => img # "pending"
  /\ epc \in {"wc_xchg", "wc_hide", "wc_arm"} => img # "pending"
  /\ \A c \in Clients : cpc[c] \in {"check", "latch", "reset", "xchg", "hide", "flag"}
                          => img # "pending"
  /\ bpc \in {"check", "latch", "reset"} => img # "pending"
  /\ bleOta => img # "pending"

\* E's decision to roll back was taken while nothing was escalating, and the
\* latch keeps it from being taken afterwards.
DecisionIsFresh ==
  /\ img = "pending" /\ Escalating => latch # "open"
  /\ img = "pending" /\ epc \in {"m_load", "m_store", "m_elig"} => ~Escalating
  /\ elig => epc = "m_decide" /\ ~Escalating /\ ~bleOta
  /\ epc \in RollbackPcs => ~Escalating /\ ~bleOta

\* An unproven image with a rollback left to do never sees a second failure.
FirstFailureDecides ==
  img = "pending" /\ HasFallback /\ ~postRb =>
    /\ streak \in {0, 1} /\ tmp = 0
    /\ streak = 1 => epc \in {"m_elig", "m_decide", "rollback", "manual_flag"}
    /\ epc = "m_decide" => elig
    /\ epc # "m_latch" /\ ~Escalating

IInv == TypeOK /\ ProvenPastGates /\ DecisionIsFresh /\ FirstFailureDecides

-----------------------------------------------------------------------------
(***************************************************************************)
(* Types.                                                                  *)
(***************************************************************************)
LEMMA EventQueue ==
  /\ <<"STA_START">> \in Seq(Events)
  /\ \A q \in Seq(Events) : q # <<>> => Tail(q) \in Seq(Events) /\ Head(q) \in Events
  /\ \A q \in Seq(Events), e \in Events : Append(q, e) \in Seq(Events)
<1>1. <<"STA_START">> \in Seq(Events)
  BY DEF Events
<1> QED
  BY <1>1

LEMMA InitTyped == Init => TypeOK
<1> SUFFICES ASSUME Init PROVE TypeOK
  OBVIOUS
<1> USE DEF Init
<1>1. sysq \in 0..QueueDepth /\ streak \in 0..StreakCap /\ tmp \in 0..StreakCap /\ resets \in Nat
  BY SysCoordAssumption DEF SysCoordAssumption
<1>2. cpc \in [Clients -> CPcs]
  BY DEF CPcs
<1>3. evq \in Seq(Events)
  BY EventQueue
<1> QED
  BY <1>1, <1>2, <1>3, SysCoordAssumption, Zenon
  DEF TypeOK, SysCoordAssumption, Modes, Latches, Images, EPcs, WPcs, BPcs

\* A restart, whatever asked for it, leaves every variable it sets well typed.
LEMMA BootTyped ==
  ASSUME NEW i \in Images, NEW rb \in BOOLEAN, Boot(i, rb),
         creds' \in BOOLEAN, resets' \in Nat
  PROVE  TypeOK'
<1> USE DEF Boot, SyscoordInit, WifiStart
<1>1. sysq' \in 0..QueueDepth /\ streak' \in 0..StreakCap /\ tmp' \in 0..StreakCap
  BY SysCoordAssumption DEF SysCoordAssumption
<1>2. cpc' \in [Clients -> CPcs]
  BY DEF CPcs
<1>3. evq' \in Seq(Events)
  BY EventQueue
<1>4. postRb' \in BOOLEAN
  OBVIOUS
<1> QED
  BY <1>1, <1>2, <1>3, <1>4, Zenon DEF TypeOK, Modes, Latches, EPcs, WPcs, BPcs

DeviceEnv ==
  PowerCycle \/ LinkUp \/ LinkFails \/ LinkDrops \/ SetWifi \/ BAbort \/ BOtaDone

LEMMA EnvironmentTyped == TypeOK /\ DeviceEnv => TypeOK'
<1> SUFFICES ASSUME TypeOK, DeviceEnv PROVE TypeOK'
  OBVIOUS
<1> USE SysCoordAssumption DEF SysCoordAssumption, TypeOK, core, mon, ble, nv, wifi, eloc
<1>1. CASE PowerCycle
  BY <1>1, BootTyped DEF PowerCycle, Images, BootImages
<1>2. CASE LinkUp
  BY <1>2, EventQueue DEF LinkUp, wifiFrame, Post, Events, Downs
<1>3. CASE LinkFails
  BY <1>3, EventQueue DEF LinkFails, wifiFrame, Post, Events, Downs
<1>4. CASE LinkDrops
  BY <1>4, EventQueue DEF LinkDrops, wifiFrame, Post, Events, Downs
<1>5. CASE SetWifi
  BY <1>5, EventQueue DEF SetWifi, Post, Events, Downs
<1>6. CASE BAbort
  BY <1>6 DEF BAbort, bFrame
<1>7. CASE BOtaDone
  BY <1>7, BootTyped DEF BOtaDone, Images
<1> QED
  BY <1>1, <1>2, <1>3, <1>4, <1>5, <1>6, <1>7 DEF DeviceEnv

LEMMA ETyped == TypeOK /\ E => TypeOK'
<1> SUFFICES ASSUME TypeOK, E PROVE TypeOK'
  OBVIOUS
<1> USE SysCoordAssumption DEF SysCoordAssumption, TypeOK, core, mon, ble, nv, wifi, eloc
<1>1. CASE ETakeStart
  BY <1>1, EventQueue DEF ETakeStart, EGoto, eFrame, EPcs, Modes, Latches, Downs
<1>2. CASE ETakeGotIp
  BY <1>2, EventQueue DEF ETakeGotIp, EGoto, eFrame, EPcs, Modes, Latches, Downs
<1>3. CASE ETakeDown
  BY <1>3, EventQueue DEF ETakeDown, EGoto, eFrame, EPcs, Modes, Latches, Downs
<1>4. CASE EAuthClear
  BY <1>4, ZenonT(60) DEF EAuthClear, EGoto, eFrame, EPcs, Modes, Latches
<1>5. CASE EModeRead
  BY <1>5, SMTT(30) DEF EModeRead, EGoto, eFrame, EPcs, Modes, Latches
<1>6. CASE EWaitXchg
  BY <1>6, SMTT(30) DEF EWaitXchg, EGoto, eFrame, EPcs, Modes, Latches
<1>7. CASE EWaitHide
  BY <1>7, ZenonT(60) DEF EWaitHide, EGoto, eFrame, EPcs, Modes, Latches
<1>8. CASE EWaitArm
  BY <1>8, SMTT(30) DEF EWaitArm, EGoto, eFrame, EPcs, Modes, Latches
<1>9. CASE EReport
  BY <1>9 DEF EReport, EGoto, eFrame, EPcs, Modes, Latches
<1>10. CASE EMonClear
  BY <1>10 DEF EMonClear, EGoto, eFrame, EPcs, Modes, Latches
<1>11. CASE EMonCheck
  BY <1>11 DEF EMonCheck, EGoto, eFrame, EPcs, Modes, Latches
<1>12. CASE EMonLoad
  BY <1>12 DEF EMonLoad, EGoto, eFrame, EPcs, Modes, Latches
<1>13. CASE EMonStore
  BY <1>13 DEF EMonStore, EGoto, eFrame, EPcs, Modes, Latches
<1>14. CASE EMonElig
  BY <1>14 DEF EMonElig, EGoto, eFrame, EPcs, Modes, Latches
<1>15. CASE EMonDecide
  <2>1. epc' \in EPcs
    BY <1>15 DEF EMonDecide, EGoto, EPcs
  <2> QED
    BY <1>15, <2>1, Zenon DEF EMonDecide, eFrame
<1>16. CASE ERollback
  BY <1>16, BootTyped DEF ERollback, Images
<1>17. CASE ERollbackRefused
  BY <1>17 DEF ERollbackRefused, EGoto, eFrame, EPcs, Modes, Latches
<1>18. CASE EManualFlag
  BY <1>18 DEF EManualFlag, EGoto, eFrame, EPcs, Modes, Latches
<1>19. CASE EManualBoot
  BY <1>19, BootTyped DEF EManualBoot, Images
<1>20. CASE EMonLatch
  BY <1>20 DEF EMonLatch, EGoto, eFrame, EPcs, Modes, Latches
<1>21. CASE EEnqueue
  BY <1>21 DEF EEnqueue, EGoto, eFrame, EPcs, Modes, Latches
<1> QED
  BY <1>1, <1>2, <1>3, <1>4, <1>5, <1>6, <1>7, <1>8, <1>9, <1>10, <1>11, <1>12, <1>13, <1>14, <1>15, <1>16, <1>17, <1>18, <1>19, <1>20, <1>21 DEF E

LEMMA WTyped == TypeOK /\ W => TypeOK'
<1> SUFFICES ASSUME TypeOK, W PROVE TypeOK'
  OBVIOUS
<1> USE SysCoordAssumption DEF SysCoordAssumption, TypeOK, core, mon, ble, nv, wifi, eloc
<1>1. CASE WReceive
  BY <1>1 DEF WReceive, wFrame, WPcs, Modes
<1>2. CASE WRecoveryXchg
  BY <1>2 DEF WRecoveryXchg, wFrame, WPcs, Modes
<1>3. CASE WBleInit
  BY <1>3 DEF WBleInit, wFrame, WPcs, Modes
<1>4. CASE WLifeboat
  BY <1>4 DEF WLifeboat, wFrame, WPcs, Modes
<1> QED
  BY <1>1, <1>2, <1>3, <1>4 DEF W

LEMMA BTyped == TypeOK /\ B => TypeOK'
<1> SUFFICES ASSUME TypeOK, B PROVE TypeOK'
  OBVIOUS
<1> USE SysCoordAssumption DEF SysCoordAssumption, TypeOK, core, mon, ble, nv, wifi, eloc
<1>1. CASE BStart
  BY <1>1 DEF BStart, bFrame, BPcs, Latches
<1>2. CASE BBegin
  BY <1>2, ZenonT(60) DEF BBegin, bFrame, BPcs, Latches
<1>3. CASE BCheck
  BY <1>3, SMTT(30) DEF BCheck, bFrame, BPcs, Latches
<1>4. CASE BLatch
  BY <1>4 DEF BLatch, bFrame, BPcs, Latches
<1>5. CASE BReset
  BY <1>5 DEF BReset, bFrame, BPcs, Latches
<1> QED
  BY <1>1, <1>2, <1>3, <1>4, <1>5 DEF B

LEMMA CTyped == TypeOK /\ (\E c \in Clients : C(c)) => TypeOK'
<1> SUFFICES ASSUME TypeOK, NEW c \in Clients, C(c) PROVE TypeOK'
  OBVIOUS
<1> USE SysCoordAssumption DEF SysCoordAssumption, TypeOK, core, mon, ble, nv, wifi, eloc
<1>1. CASE CMark(c)
  BY <1>1 DEF CMark, CGoto, cFrame, CPcs, Modes, Latches, Images
<1>2. CASE CGate(c)
  BY <1>2 DEF CGate, CGoto, cFrame, CPcs, Modes, Latches, Images
<1>3. CASE CValid(c)
  BY <1>3 DEF CValid, CGoto, cFrame, CPcs, Modes, Latches, Images
<1>4. CASE CCheck(c)
  BY <1>4 DEF CCheck, CGoto, cFrame, CPcs, Modes, Latches, Images
<1>5. CASE CLatch(c)
  BY <1>5 DEF CLatch, CGoto, cFrame, CPcs, Modes, Latches, Images
<1>6. CASE CReset(c)
  BY <1>6 DEF CReset, CGoto, cFrame, CPcs, Modes, Latches, Images
<1>7. CASE CNormalXchg(c)
  BY <1>7 DEF CNormalXchg, CGoto, cFrame, CPcs, Modes, Latches, Images
<1>8. CASE CNormalHide(c)
  <2>1. cpc' \in [Clients -> CPcs]
    BY <1>8 DEF CNormalHide, CGoto, CPcs
  <2> QED
    BY <1>8, <2>1, Zenon DEF CNormalHide, cFrame
<1>9. CASE CNormalFlag(c)
  <2>1. cpc' \in [Clients -> CPcs]
    BY <1>9 DEF CNormalFlag, CGoto, CPcs
  <2> QED
    BY <1>9, <2>1 DEF CNormalFlag, cFrame
<1> QED
  BY <1>1, <1>2, <1>3, <1>4, <1>5, <1>6, <1>7, <1>8, <1>9 DEF C

LEMMA ClientTyped == TypeOK /\ (\E c \in Clients : CAuth(c) \/ CClose(c) \/ COtaDone(c)) => TypeOK'
<1> SUFFICES ASSUME TypeOK, NEW c \in Clients, CAuth(c) \/ CClose(c) \/ COtaDone(c) PROVE TypeOK'
  OBVIOUS
<1> USE SysCoordAssumption DEF SysCoordAssumption, TypeOK, core, mon, ble, nv, wifi, eloc
<1>1. CASE CAuth(c)
  BY <1>1 DEF CAuth, CGoto, cFrame, CPcs
<1>2. CASE CClose(c)
  BY <1>2 DEF CClose, CGoto, cFrame, CPcs
<1>3. CASE COtaDone(c)
  BY <1>3, BootTyped DEF COtaDone, Images
<1> QED
  BY <1>1, <1>2, <1>3

\* The types hold in every state, for any number of clients and any capacity.
THEOREM TypeCorrect == Spec => []TypeOK
<1>1. Init => TypeOK
  BY InitTyped
<1>2. TypeOK /\ [Next]_vars => TypeOK'
  <2> SUFFICES ASSUME TypeOK, [Next]_vars PROVE TypeOK'
    OBVIOUS
  <2>1. CASE UNCHANGED vars
    BY <2>1 DEF vars, core, mon, ble, nv, wifi, eloc, TypeOK
  <2>2. CASE Next
    BY <2>2, EnvironmentTyped, ETyped, WTyped, BTyped, CTyped, ClientTyped DEF Next, Environment, DeviceEnv
  <2> QED
    BY <2>1, <2>2
<1> QED
  BY <1>1, <1>2, PTL DEF Spec

-----------------------------------------------------------------------------
(***************************************************************************)
(* Watching: the latch is never left closed in WAIT_CONTROL by an actor    *)
(* that is done.  Needs nothing but the types.                             *)
(***************************************************************************)
LEMMA WatchedBoot ==
  ASSUME NEW i, NEW rb, Boot(i, rb)
  PROVE  WatchedWhileWaiting'
  BY DEF Boot, SyscoordInit, WifiStart, WatchedWhileWaiting

LEMMA WatchedStep == TypeOK /\ WatchedWhileWaiting /\ [Next]_vars => WatchedWhileWaiting'
<1> SUFFICES ASSUME TypeOK, WatchedWhileWaiting, [Next]_vars PROVE WatchedWhileWaiting'
  OBVIOUS
<1> USE SysCoordAssumption DEF SysCoordAssumption, TypeOK, WatchedWhileWaiting, CPcs, core, mon, ble, nv, wifi, eloc
\* The environment
<1>1. CASE PowerCycle
  BY <1>1, WatchedBoot DEF PowerCycle
<1>2. CASE LinkUp
  BY <1>2 DEF LinkUp, wifiFrame, Post
<1>3. CASE LinkFails
  BY <1>3 DEF LinkFails, wifiFrame, Post
<1>4. CASE LinkDrops
  BY <1>4 DEF LinkDrops, wifiFrame, Post
<1>5. CASE SetWifi
  BY <1>5 DEF SetWifi, Post
<1>6. CASE BAbort
  BY <1>6 DEF BAbort, bFrame
<1>7. CASE BOtaDone
  BY <1>7, WatchedBoot DEF BOtaDone
\* E
<1>8. CASE ETakeStart
  BY <1>8 DEF ETakeStart, EGoto, eFrame
<1>9. CASE ETakeGotIp
  BY <1>9 DEF ETakeGotIp, EGoto, eFrame
<1>10. CASE ETakeDown
  BY <1>10 DEF ETakeDown, EGoto, eFrame
<1>11. CASE EAuthClear
  BY <1>11 DEF EAuthClear, EGoto, eFrame
<1>12. CASE EModeRead
  BY <1>12 DEF EModeRead, EGoto, eFrame
<1>13. CASE EWaitXchg
  BY <1>13 DEF EWaitXchg, EGoto, eFrame
<1>14. CASE EWaitHide
  BY <1>14 DEF EWaitHide, EGoto, eFrame
<1>15. CASE EWaitArm
  BY <1>15 DEF EWaitArm, EGoto, eFrame
<1>16. CASE EReport
  BY <1>16 DEF EReport, EGoto, eFrame
<1>17. CASE EMonClear
  BY <1>17 DEF EMonClear, EGoto, eFrame
<1>18. CASE EMonCheck
  BY <1>18 DEF EMonCheck, EGoto, eFrame
<1>19. CASE EMonLoad
  BY <1>19 DEF EMonLoad, EGoto, eFrame
<1>20. CASE EMonStore
  BY <1>20 DEF EMonStore, EGoto, eFrame
<1>21. CASE EMonElig
  BY <1>21 DEF EMonElig, EGoto, eFrame
<1>22. CASE EMonDecide
  BY <1>22 DEF EMonDecide, EGoto, eFrame
<1>23. CASE ERollback
  BY <1>23, WatchedBoot DEF ERollback
<1>24. CASE ERollbackRefused
  BY <1>24 DEF ERollbackRefused, EGoto, eFrame
<1>25. CASE EManualFlag
  BY <1>25 DEF EManualFlag, EGoto, eFrame
<1>26. CASE EManualBoot
  BY <1>26, WatchedBoot DEF EManualBoot
<1>27. CASE EMonLatch
  BY <1>27 DEF EMonLatch, EGoto, eFrame
<1>28. CASE EEnqueue
  BY <1>28 DEF EEnqueue, EGoto, eFrame
\* W and B
<1>29. CASE WReceive
  BY <1>29 DEF WReceive, wFrame
<1>30. CASE WRecoveryXchg
  BY <1>30 DEF WRecoveryXchg, wFrame
<1>31. CASE WBleInit
  BY <1>31 DEF WBleInit, wFrame
<1>32. CASE WLifeboat
  BY <1>32 DEF WLifeboat, wFrame
<1>33. CASE BStart
  BY <1>33 DEF BStart, bFrame
<1>34. CASE BBegin
  BY <1>34 DEF BBegin, bFrame
<1>35. CASE BCheck
  BY <1>35 DEF BCheck, bFrame
<1>36. CASE BLatch
  BY <1>36 DEF BLatch, bFrame
<1>37. CASE BReset
  BY <1>37 DEF BReset, bFrame
\* C[c]
<1>38. ASSUME NEW c \in Clients, CAuth(c) PROVE WatchedWhileWaiting'
  BY <1>38 DEF CAuth, CGoto, cFrame
<1>39. ASSUME NEW c \in Clients, CClose(c) PROVE WatchedWhileWaiting'
  BY <1>39 DEF CClose, CGoto, cFrame
<1>40. ASSUME NEW c \in Clients, COtaDone(c) PROVE WatchedWhileWaiting'
  BY <1>40, WatchedBoot DEF COtaDone
<1>41. ASSUME NEW c \in Clients, CMark(c) PROVE WatchedWhileWaiting'
  BY <1>41 DEF CMark, CGoto, cFrame
<1>42. ASSUME NEW c \in Clients, CGate(c) PROVE WatchedWhileWaiting'
  BY <1>42 DEF CGate, CGoto, cFrame
<1>43. ASSUME NEW c \in Clients, CValid(c) PROVE WatchedWhileWaiting'
  BY <1>43 DEF CValid, CGoto, cFrame
<1>44. ASSUME NEW c \in Clients, CCheck(c) PROVE WatchedWhileWaiting'
  BY <1>44 DEF CCheck, CGoto, cFrame
<1>45. ASSUME NEW c \in Clients, CLatch(c) PROVE WatchedWhileWaiting'
  BY <1>45 DEF CLatch, CGoto, cFrame
<1>46. ASSUME NEW c \in Clients, CReset(c) PROVE WatchedWhileWaiting'
  BY <1>46 DEF CReset, CGoto, cFrame
<1>47. ASSUME NEW c \in Clients, CNormalXchg(c) PROVE WatchedWhileWaiting'
  BY <1>47 DEF CNormalXchg, CGoto, cFrame
<1>48. ASSUME NEW c \in Clients, CNormalHide(c) PROVE WatchedWhileWaiting'
  BY <1>48 DEF CNormalHide, CGoto, cFrame
<1>49. ASSUME NEW c \in Clients, CNormalFlag(c) PROVE WatchedWhileWaiting'
  BY <1>49 DEF CNormalFlag, CGoto, cFrame
<1>50. CASE UNCHANGED vars
  BY <1>50 DEF vars
<1> QED
  BY <1>1, <1>2, <1>3, <1>4, <1>5, <1>6, <1>7, <1>8, <1>9, <1>10, <1>11, <1>12, <1>13, <1>14, <1>15, <1>16, <1>17, <1>18, <1>19, <1>20, <1>21, <1>22, <1>23, <1>24, <1>25, <1>26, <1>27, <1>28, <1>29, <1>30, <1>31, <1>32, <1>33, <1>34, <1>35, <1>36, <1>37, <1>38, <1>39, <1>40, <1>41, <1>42, <1>43, <1>44, <1>45, <1>46, <1>47, <1>48, <1>49, <1>50 DEF Next, Environment, E, W, B, C

\* health_monitor stays armed while the device waits for control, whatever the
\* threads do between each other's steps (sys_core.c, monitor.c).
THEOREM WatchedCorrect == Spec => []WatchedWhileWaiting
<1>1. Init => WatchedWhileWaiting
  BY DEF Init, WatchedWhileWaiting
<1>2. TypeOK /\ WatchedWhileWaiting /\ [Next]_vars => WatchedWhileWaiting'
  BY WatchedStep
<1> QED
  BY <1>1, <1>2, TypeCorrect, PTL DEF Spec

-----------------------------------------------------------------------------
(***************************************************************************)
(* The unproven image.  FlashMayFail is excluded: with a failed write the  *)
(* code promotes an image that is still pending (sys_policy.c only logs).  *)
(***************************************************************************)
LEMMA ProvenBoot ==
  ASSUME NEW i, NEW rb, Boot(i, rb)
  PROVE  ProvenPastGates'
  BY DEF Boot, SyscoordInit, WifiStart, ProvenPastGates

LEMMA ProvenStep == ~FlashMayFail /\ TypeOK /\ ProvenPastGates /\ [Next]_vars => ProvenPastGates'
<1> SUFFICES ASSUME ~FlashMayFail, TypeOK, ProvenPastGates, [Next]_vars PROVE ProvenPastGates'
  OBVIOUS
<1> USE SysCoordAssumption DEF SysCoordAssumption, TypeOK, ProvenPastGates, CPcs, core, mon, ble, nv, wifi, eloc
\* The environment
<1>1. CASE PowerCycle
  BY <1>1, ProvenBoot DEF PowerCycle
<1>2. CASE LinkUp
  BY <1>2 DEF LinkUp, wifiFrame, Post
<1>3. CASE LinkFails
  BY <1>3 DEF LinkFails, wifiFrame, Post
<1>4. CASE LinkDrops
  BY <1>4 DEF LinkDrops, wifiFrame, Post
<1>5. CASE SetWifi
  BY <1>5 DEF SetWifi, Post
<1>6. CASE BAbort
  BY <1>6 DEF BAbort, bFrame
<1>7. CASE BOtaDone
  BY <1>7, ProvenBoot DEF BOtaDone
\* E
<1>8. CASE ETakeStart
  BY <1>8 DEF ETakeStart, EGoto, eFrame
<1>9. CASE ETakeGotIp
  BY <1>9 DEF ETakeGotIp, EGoto, eFrame
<1>10. CASE ETakeDown
  BY <1>10 DEF ETakeDown, EGoto, eFrame
<1>11. CASE EAuthClear
  BY <1>11 DEF EAuthClear, EGoto, eFrame
<1>12. CASE EModeRead
  BY <1>12 DEF EModeRead, EGoto, eFrame
<1>13. CASE EWaitXchg
  BY <1>13 DEF EWaitXchg, EGoto, eFrame
<1>14. CASE EWaitHide
  BY <1>14 DEF EWaitHide, EGoto, eFrame
<1>15. CASE EWaitArm
  BY <1>15 DEF EWaitArm, EGoto, eFrame
<1>16. CASE EReport
  BY <1>16 DEF EReport, EGoto, eFrame
<1>17. CASE EMonClear
  BY <1>17 DEF EMonClear, EGoto, eFrame
<1>18. CASE EMonCheck
  BY <1>18 DEF EMonCheck, EGoto, eFrame
<1>19. CASE EMonLoad
  BY <1>19 DEF EMonLoad, EGoto, eFrame
<1>20. CASE EMonStore
  BY <1>20 DEF EMonStore, EGoto, eFrame
<1>21. CASE EMonElig
  BY <1>21 DEF EMonElig, EGoto, eFrame
<1>22. CASE EMonDecide
  BY <1>22 DEF EMonDecide, EGoto, eFrame
<1>23. CASE ERollback
  BY <1>23, ProvenBoot DEF ERollback
<1>24. CASE ERollbackRefused
  BY <1>24 DEF ERollbackRefused, EGoto, eFrame
<1>25. CASE EManualFlag
  BY <1>25 DEF EManualFlag, EGoto, eFrame
<1>26. CASE EManualBoot
  BY <1>26, ProvenBoot DEF EManualBoot
<1>27. CASE EMonLatch
  BY <1>27 DEF EMonLatch, EGoto, eFrame
<1>28. CASE EEnqueue
  BY <1>28 DEF EEnqueue, EGoto, eFrame
\* W and B
<1>29. CASE WReceive
  BY <1>29 DEF WReceive, wFrame
<1>30. CASE WRecoveryXchg
  BY <1>30 DEF WRecoveryXchg, wFrame
<1>31. CASE WBleInit
  BY <1>31 DEF WBleInit, wFrame
<1>32. CASE WLifeboat
  BY <1>32 DEF WLifeboat, wFrame
<1>33. CASE BStart
  BY <1>33 DEF BStart, bFrame
<1>34. CASE BBegin
  BY <1>34 DEF BBegin, bFrame
<1>35. CASE BCheck
  BY <1>35 DEF BCheck, bFrame
<1>36. CASE BLatch
  BY <1>36 DEF BLatch, bFrame
<1>37. CASE BReset
  BY <1>37 DEF BReset, bFrame
\* C[c]
<1>38. ASSUME NEW c \in Clients, CAuth(c) PROVE ProvenPastGates'
  BY <1>38 DEF CAuth, CGoto, cFrame
<1>39. ASSUME NEW c \in Clients, CClose(c) PROVE ProvenPastGates'
  BY <1>39 DEF CClose, CGoto, cFrame
<1>40. ASSUME NEW c \in Clients, COtaDone(c) PROVE ProvenPastGates'
  BY <1>40, ProvenBoot DEF COtaDone
<1>41. ASSUME NEW c \in Clients, CMark(c) PROVE ProvenPastGates'
  BY <1>41 DEF CMark, CGoto, cFrame
<1>42. ASSUME NEW c \in Clients, CGate(c) PROVE ProvenPastGates'
  BY <1>42 DEF CGate, CGoto, cFrame
<1>43. ASSUME NEW c \in Clients, CValid(c) PROVE ProvenPastGates'
  BY <1>43 DEF CValid, CGoto, cFrame
<1>44. ASSUME NEW c \in Clients, CCheck(c) PROVE ProvenPastGates'
  BY <1>44 DEF CCheck, CGoto, cFrame
<1>45. ASSUME NEW c \in Clients, CLatch(c) PROVE ProvenPastGates'
  BY <1>45 DEF CLatch, CGoto, cFrame
<1>46. ASSUME NEW c \in Clients, CReset(c) PROVE ProvenPastGates'
  BY <1>46 DEF CReset, CGoto, cFrame
<1>47. ASSUME NEW c \in Clients, CNormalXchg(c) PROVE ProvenPastGates'
  BY <1>47 DEF CNormalXchg, CGoto, cFrame
<1>48. ASSUME NEW c \in Clients, CNormalHide(c) PROVE ProvenPastGates'
  BY <1>48 DEF CNormalHide, CGoto, cFrame
<1>49. ASSUME NEW c \in Clients, CNormalFlag(c) PROVE ProvenPastGates'
  BY <1>49 DEF CNormalFlag, CGoto, cFrame
<1>50. CASE UNCHANGED vars
  BY <1>50 DEF vars
<1> QED
  BY <1>1, <1>2, <1>3, <1>4, <1>5, <1>6, <1>7, <1>8, <1>9, <1>10, <1>11, <1>12, <1>13, <1>14, <1>15, <1>16, <1>17, <1>18, <1>19, <1>20, <1>21, <1>22, <1>23, <1>24, <1>25, <1>26, <1>27, <1>28, <1>29, <1>30, <1>31, <1>32, <1>33, <1>34, <1>35, <1>36, <1>37, <1>38, <1>39, <1>40, <1>41, <1>42, <1>43, <1>44, <1>45, <1>46, <1>47, <1>48, <1>49, <1>50 DEF Next, Environment, E, W, B, C

LEMMA FreshBoot ==
  ASSUME NEW i, NEW rb, Boot(i, rb)
  PROVE  DecisionIsFresh'
  BY DEF Boot, SyscoordInit, WifiStart, DecisionIsFresh, Escalating, RollbackPcs

LEMMA FreshStep == TypeOK /\ ProvenPastGates /\ DecisionIsFresh /\ [Next]_vars => DecisionIsFresh'
<1> SUFFICES ASSUME TypeOK, ProvenPastGates, DecisionIsFresh, [Next]_vars PROVE DecisionIsFresh'
  OBVIOUS
<1> USE SysCoordAssumption DEF SysCoordAssumption, TypeOK, ProvenPastGates, DecisionIsFresh, Escalating, RollbackPcs, core, mon, ble, nv, wifi, eloc
\* The environment
<1>1. CASE PowerCycle
  BY <1>1, FreshBoot DEF PowerCycle
<1>2. CASE LinkUp
  BY <1>2 DEF LinkUp, wifiFrame, Post
<1>3. CASE LinkFails
  BY <1>3 DEF LinkFails, wifiFrame, Post
<1>4. CASE LinkDrops
  BY <1>4 DEF LinkDrops, wifiFrame, Post
<1>5. CASE SetWifi
  BY <1>5 DEF SetWifi, Post
<1>6. CASE BAbort
  BY <1>6 DEF BAbort, bFrame
<1>7. CASE BOtaDone
  BY <1>7, FreshBoot DEF BOtaDone
\* E
<1>8. CASE ETakeStart
  BY <1>8 DEF ETakeStart, EGoto, eFrame
<1>9. CASE ETakeGotIp
  BY <1>9 DEF ETakeGotIp, EGoto, eFrame
<1>10. CASE ETakeDown
  BY <1>10 DEF ETakeDown, EGoto, eFrame
<1>11. CASE EAuthClear
  BY <1>11 DEF EAuthClear, EGoto, eFrame
<1>12. CASE EModeRead
  BY <1>12 DEF EModeRead, EGoto, eFrame
<1>13. CASE EWaitXchg
  BY <1>13 DEF EWaitXchg, EGoto, eFrame
<1>14. CASE EWaitHide
  BY <1>14 DEF EWaitHide, EGoto, eFrame
<1>15. CASE EWaitArm
  BY <1>15 DEF EWaitArm, EGoto, eFrame
<1>16. CASE EReport
  BY <1>16 DEF EReport, EGoto, eFrame
<1>17. CASE EMonClear
  BY <1>17 DEF EMonClear, EGoto, eFrame
<1>18. CASE EMonCheck
  BY <1>18 DEF EMonCheck, EGoto, eFrame
<1>19. CASE EMonLoad
  BY <1>19 DEF EMonLoad, EGoto, eFrame
<1>20. CASE EMonStore
  BY <1>20 DEF EMonStore, EGoto, eFrame
<1>21. CASE EMonElig
  BY <1>21 DEF EMonElig, EGoto, eFrame
<1>22. CASE EMonDecide
  BY <1>22 DEF EMonDecide, EGoto, eFrame
<1>23. CASE ERollback
  BY <1>23, FreshBoot DEF ERollback
<1>24. CASE ERollbackRefused
  BY <1>24 DEF ERollbackRefused, EGoto, eFrame
<1>25. CASE EManualFlag
  BY <1>25 DEF EManualFlag, EGoto, eFrame
<1>26. CASE EManualBoot
  BY <1>26, FreshBoot DEF EManualBoot
<1>27. CASE EMonLatch
  BY <1>27 DEF EMonLatch, EGoto, eFrame
<1>28. CASE EEnqueue
  BY <1>28 DEF EEnqueue, EGoto, eFrame
\* W and B
<1>29. CASE WReceive
  BY <1>29 DEF WReceive, wFrame
<1>30. CASE WRecoveryXchg
  BY <1>30 DEF WRecoveryXchg, wFrame
<1>31. CASE WBleInit
  BY <1>31 DEF WBleInit, wFrame
<1>32. CASE WLifeboat
  BY <1>32 DEF WLifeboat, wFrame
<1>33. CASE BStart
  BY <1>33 DEF BStart, bFrame
<1>34. CASE BBegin
  BY <1>34 DEF BBegin, bFrame
<1>35. CASE BCheck
  BY <1>35 DEF BCheck, bFrame
<1>36. CASE BLatch
  BY <1>36 DEF BLatch, bFrame
<1>37. CASE BReset
  BY <1>37 DEF BReset, bFrame
\* C[c]
<1>38. ASSUME NEW c \in Clients, CAuth(c) PROVE DecisionIsFresh'
  BY <1>38 DEF CAuth, CGoto, cFrame
<1>39. ASSUME NEW c \in Clients, CClose(c) PROVE DecisionIsFresh'
  BY <1>39 DEF CClose, CGoto, cFrame
<1>40. ASSUME NEW c \in Clients, COtaDone(c) PROVE DecisionIsFresh'
  BY <1>40, FreshBoot DEF COtaDone
<1>41. ASSUME NEW c \in Clients, CMark(c) PROVE DecisionIsFresh'
  BY <1>41 DEF CMark, CGoto, cFrame
<1>42. ASSUME NEW c \in Clients, CGate(c) PROVE DecisionIsFresh'
  BY <1>42 DEF CGate, CGoto, cFrame
<1>43. ASSUME NEW c \in Clients, CValid(c) PROVE DecisionIsFresh'
  BY <1>43 DEF CValid, CGoto, cFrame
<1>44. ASSUME NEW c \in Clients, CCheck(c) PROVE DecisionIsFresh'
  BY <1>44 DEF CCheck, CGoto, cFrame
<1>45. ASSUME NEW c \in Clients, CLatch(c) PROVE DecisionIsFresh'
  BY <1>45 DEF CLatch, CGoto, cFrame
<1>46. ASSUME NEW c \in Clients, CReset(c) PROVE DecisionIsFresh'
  BY <1>46 DEF CReset, CGoto, cFrame
<1>47. ASSUME NEW c \in Clients, CNormalXchg(c) PROVE DecisionIsFresh'
  BY <1>47 DEF CNormalXchg, CGoto, cFrame
<1>48. ASSUME NEW c \in Clients, CNormalHide(c) PROVE DecisionIsFresh'
  BY <1>48 DEF CNormalHide, CGoto, cFrame
<1>49. ASSUME NEW c \in Clients, CNormalFlag(c) PROVE DecisionIsFresh'
  BY <1>49 DEF CNormalFlag, CGoto, cFrame
<1>50. CASE UNCHANGED vars
  BY <1>50 DEF vars
<1> QED
  BY <1>1, <1>2, <1>3, <1>4, <1>5, <1>6, <1>7, <1>8, <1>9, <1>10, <1>11, <1>12, <1>13, <1>14, <1>15, <1>16, <1>17, <1>18, <1>19, <1>20, <1>21, <1>22, <1>23, <1>24, <1>25, <1>26, <1>27, <1>28, <1>29, <1>30, <1>31, <1>32, <1>33, <1>34, <1>35, <1>36, <1>37, <1>38, <1>39, <1>40, <1>41, <1>42, <1>43, <1>44, <1>45, <1>46, <1>47, <1>48, <1>49, <1>50 DEF Next, Environment, E, W, B, C

LEMMA FirstBoot ==
  ASSUME NEW i, NEW rb, Boot(i, rb)
  PROVE  FirstFailureDecides'
  BY DEF Boot, SyscoordInit, WifiStart, FirstFailureDecides, Escalating

LEMMA FirstStep == TypeOK /\ ProvenPastGates /\ DecisionIsFresh /\ FirstFailureDecides /\ [Next]_vars => FirstFailureDecides'
<1> SUFFICES ASSUME TypeOK, ProvenPastGates, DecisionIsFresh, FirstFailureDecides, [Next]_vars PROVE FirstFailureDecides'
  OBVIOUS
<1> USE SysCoordAssumption DEF SysCoordAssumption, TypeOK, ProvenPastGates, DecisionIsFresh, FirstFailureDecides, Escalating, RollbackPcs, core, mon, ble, nv, wifi, eloc
\* The environment
<1>1. CASE PowerCycle
  BY <1>1, FirstBoot DEF PowerCycle
<1>2. CASE LinkUp
  BY <1>2 DEF LinkUp, wifiFrame, Post
<1>3. CASE LinkFails
  BY <1>3 DEF LinkFails, wifiFrame, Post
<1>4. CASE LinkDrops
  BY <1>4 DEF LinkDrops, wifiFrame, Post
<1>5. CASE SetWifi
  BY <1>5 DEF SetWifi, Post
<1>6. CASE BAbort
  BY <1>6 DEF BAbort, bFrame
<1>7. CASE BOtaDone
  BY <1>7, FirstBoot DEF BOtaDone
\* E
<1>8. CASE ETakeStart
  BY <1>8 DEF ETakeStart, EGoto, eFrame
<1>9. CASE ETakeGotIp
  BY <1>9 DEF ETakeGotIp, EGoto, eFrame
<1>10. CASE ETakeDown
  BY <1>10 DEF ETakeDown, EGoto, eFrame
<1>11. CASE EAuthClear
  BY <1>11 DEF EAuthClear, EGoto, eFrame
<1>12. CASE EModeRead
  BY <1>12 DEF EModeRead, EGoto, eFrame
<1>13. CASE EWaitXchg
  BY <1>13 DEF EWaitXchg, EGoto, eFrame
<1>14. CASE EWaitHide
  BY <1>14 DEF EWaitHide, EGoto, eFrame
<1>15. CASE EWaitArm
  BY <1>15 DEF EWaitArm, EGoto, eFrame
<1>16. CASE EReport
  BY <1>16 DEF EReport, EGoto, eFrame
<1>17. CASE EMonClear
  BY <1>17 DEF EMonClear, EGoto, eFrame
<1>18. CASE EMonCheck
  BY <1>18 DEF EMonCheck, EGoto, eFrame
<1>19. CASE EMonLoad
  BY <1>19 DEF EMonLoad, EGoto, eFrame
<1>20. CASE EMonStore
  BY <1>20 DEF EMonStore, EGoto, eFrame
<1>21. CASE EMonElig
  BY <1>21 DEF EMonElig, EGoto, eFrame
<1>22. CASE EMonDecide
  BY <1>22 DEF EMonDecide, EGoto, eFrame
<1>23. CASE ERollback
  BY <1>23, FirstBoot DEF ERollback
<1>24. CASE ERollbackRefused
  BY <1>24 DEF ERollbackRefused, EGoto, eFrame
<1>25. CASE EManualFlag
  BY <1>25 DEF EManualFlag, EGoto, eFrame
<1>26. CASE EManualBoot
  BY <1>26, FirstBoot DEF EManualBoot
<1>27. CASE EMonLatch
  BY <1>27 DEF EMonLatch, EGoto, eFrame
<1>28. CASE EEnqueue
  BY <1>28 DEF EEnqueue, EGoto, eFrame
\* W and B
<1>29. CASE WReceive
  BY <1>29 DEF WReceive, wFrame
<1>30. CASE WRecoveryXchg
  BY <1>30 DEF WRecoveryXchg, wFrame
<1>31. CASE WBleInit
  BY <1>31 DEF WBleInit, wFrame
<1>32. CASE WLifeboat
  BY <1>32 DEF WLifeboat, wFrame
<1>33. CASE BStart
  BY <1>33 DEF BStart, bFrame
<1>34. CASE BBegin
  BY <1>34 DEF BBegin, bFrame
<1>35. CASE BCheck
  BY <1>35 DEF BCheck, bFrame
<1>36. CASE BLatch
  BY <1>36 DEF BLatch, bFrame
<1>37. CASE BReset
  BY <1>37 DEF BReset, bFrame
\* C[c]
<1>38. ASSUME NEW c \in Clients, CAuth(c) PROVE FirstFailureDecides'
  BY <1>38 DEF CAuth, CGoto, cFrame
<1>39. ASSUME NEW c \in Clients, CClose(c) PROVE FirstFailureDecides'
  BY <1>39 DEF CClose, CGoto, cFrame
<1>40. ASSUME NEW c \in Clients, COtaDone(c) PROVE FirstFailureDecides'
  BY <1>40, FirstBoot DEF COtaDone
<1>41. ASSUME NEW c \in Clients, CMark(c) PROVE FirstFailureDecides'
  BY <1>41 DEF CMark, CGoto, cFrame
<1>42. ASSUME NEW c \in Clients, CGate(c) PROVE FirstFailureDecides'
  BY <1>42 DEF CGate, CGoto, cFrame
<1>43. ASSUME NEW c \in Clients, CValid(c) PROVE FirstFailureDecides'
  BY <1>43 DEF CValid, CGoto, cFrame
<1>44. ASSUME NEW c \in Clients, CCheck(c) PROVE FirstFailureDecides'
  BY <1>44 DEF CCheck, CGoto, cFrame
<1>45. ASSUME NEW c \in Clients, CLatch(c) PROVE FirstFailureDecides'
  BY <1>45 DEF CLatch, CGoto, cFrame
<1>46. ASSUME NEW c \in Clients, CReset(c) PROVE FirstFailureDecides'
  BY <1>46 DEF CReset, CGoto, cFrame
<1>47. ASSUME NEW c \in Clients, CNormalXchg(c) PROVE FirstFailureDecides'
  BY <1>47 DEF CNormalXchg, CGoto, cFrame
<1>48. ASSUME NEW c \in Clients, CNormalHide(c) PROVE FirstFailureDecides'
  BY <1>48 DEF CNormalHide, CGoto, cFrame
<1>49. ASSUME NEW c \in Clients, CNormalFlag(c) PROVE FirstFailureDecides'
  BY <1>49 DEF CNormalFlag, CGoto, cFrame
<1>50. CASE UNCHANGED vars
  BY <1>50 DEF vars
<1> QED
  BY <1>1, <1>2, <1>3, <1>4, <1>5, <1>6, <1>7, <1>8, <1>9, <1>10, <1>11, <1>12, <1>13, <1>14, <1>15, <1>16, <1>17, <1>18, <1>19, <1>20, <1>21, <1>22, <1>23, <1>24, <1>25, <1>26, <1>27, <1>28, <1>29, <1>30, <1>31, <1>32, <1>33, <1>34, <1>35, <1>36, <1>37, <1>38, <1>39, <1>40, <1>41, <1>42, <1>43, <1>44, <1>45, <1>46, <1>47, <1>48, <1>49, <1>50 DEF Next, Environment, E, W, B, C

LEMMA IInvCorrect == ASSUME ~FlashMayFail PROVE Spec => []IInv
<1>1. Init => IInv
  <2>1. Init => ProvenPastGates /\ DecisionIsFresh /\ FirstFailureDecides
    BY DEF Init, ProvenPastGates, DecisionIsFresh, FirstFailureDecides, Escalating, RollbackPcs
  <2> QED
    BY <2>1, InitTyped DEF IInv
<1>2. TypeOK' /\ IInv /\ [Next]_vars => IInv'
  BY ProvenStep, FreshStep, FirstStep DEF IInv
<1> QED
  BY <1>1, <1>2, TypeCorrect, PTL DEF Spec

\* In NORMAL the running image is proven: the gate of control_path_ok holds for
\* every interleaving of promotions with E's fall back to WAIT_CONTROL.
THEOREM NormalIsProven == ASSUME ~FlashMayFail PROVE Spec => []NormalImpliesProven
<1>1. IInv => NormalImpliesProven
  BY DEF IInv, ProvenPastGates, NormalImpliesProven
<1> QED
  BY <1>1, IInvCorrect, PTL

\* A rollback is never decided or carried out once RECOVERY has been asked for,
\* nor while BL_OTA is writing the other slot.
THEOREM FlashIsSafe == ASSUME ~FlashMayFail PROVE Spec => []NoRollbackMidFlash
<1>1. IInv => NoRollbackMidFlash
  BY DEF IInv, DecisionIsFresh, Escalating, NoRollbackMidFlash
<1> QED
  BY <1>1, IInvCorrect, PTL

\* With a fallback target, RECOVERY on an unproven image means that a rollback
\* has been made already.
THEOREM RollbackComesFirst == ASSUME ~FlashMayFail PROVE Spec => []UnprovenRollsBackFirst
<1>1. IInv => UnprovenRollsBackFirst
  BY DEF IInv, FirstFailureDecides, Escalating, UnprovenRollsBackFirst
<1> QED
  BY <1>1, IInvCorrect, PTL

-----------------------------------------------------------------------------
(***************************************************************************)
(* SysCoord implements ControlMode.  The invariant above gives the guards  *)
(* of the abstract steps; what it does not say is that a rollback under    *)
(* way has not been marked before.                                         *)
(***************************************************************************)
\* A rollback begins unmarked, and the manual one only where there is a target.
Unmarked ==
  /\ epc \in {"rollback", "manual_flag"} => ~postRb
  /\ epc = "manual_flag" => HasFallback

\* What the abstract state is computed from does not change.
Still ==
  /\ UNCHANGED <<mode, img, postRb, sysq, wpc>>
  /\ (epc' = "manual_boot") <=> (epc = "manual_boot")

LEMMA StillStutters == ASSUME Still PROVE UNCHANGED Control!vars
  BY DEF Still, Control!vars

\* A restart into i is the abstract one.
LEMMA BootRestarts ==
  ASSUME NEW i, Boot(i, postRb)
  PROVE  Control!Restart(i) /\ Unmarked'
  BY DEF Boot, SyscoordInit, WifiStart, Control!Restart, Unmarked

-----------------------------------------------------------------------------
(***************************************************************************)
(* The steps of E that the abstract state shows.                           *)
(***************************************************************************)
LEMMA ESimulates ==
  ASSUME IInv, Unmarked, E
  PROVE  Unmarked' /\ (Control!Next \/ UNCHANGED Control!vars)
<1>a. /\ TypeOK /\ ProvenPastGates /\ DecisionIsFresh /\ FirstFailureDecides
  BY DEF IInv
<1> USE DEF EGoto, core, mon, ble, nv, wifi, eloc, eFrame
<1>1. CASE EWaitXchg
  <2>1. Control!LoseControl
    BY <1>1 DEF EWaitXchg, Control!LoseControl
  <2> QED
    BY <1>1, <2>1 DEF EWaitXchg, Unmarked, Control!Next
<1>2. CASE ERollback
  <2>1. mode # "RECOVERY" /\ ~postRb
    BY <1>a, <1>2 DEF ERollback, Unmarked, DecisionIsFresh, RollbackPcs, Escalating
  <2>2. PICK i \in {"factory", "valid"} : Boot(i, postRb)
    BY <1>2 DEF ERollback
  <2>3. Control!Restart(i) /\ Unmarked'
    BY <2>2, BootRestarts
  <2>4. Control!RollBack
    BY <2>1, <2>3 DEF Control!RollBack
  <2> QED
    BY <2>3, <2>4 DEF Control!Next
<1>3. CASE EManualFlag
  <2>1. mode # "RECOVERY" /\ ~postRb /\ HasFallback
    BY <1>a, <1>3 DEF EManualFlag, Unmarked, DecisionIsFresh, RollbackPcs, Escalating
  <2>2. Control!MarkFallBack
    BY <1>3, <2>1 DEF EManualFlag, Control!MarkFallBack
  <2> QED
    BY <1>3, <2>2 DEF EManualFlag, Unmarked, Control!Next
<1>4. CASE EManualBoot
  <2>1. mode # "RECOVERY" /\ epc = "manual_boot"
    BY <1>a, <1>4 DEF EManualBoot, DecisionIsFresh, RollbackPcs, Escalating
  <2>2. PICK i \in Images : Boot(i, postRb)
    BY <1>4 DEF EManualBoot
  <2>3. Control!Restart(i) /\ Unmarked'
    BY <2>2, BootRestarts
  <2>4. Control!FallBack
    BY <2>1, <2>3 DEF Control!FallBack, Control!Images, Images
  <2> QED
    BY <2>3, <2>4 DEF Control!Next
<1>5. CASE EEnqueue
  <2>1. Unmarked'
    BY <1>5 DEF EEnqueue, Unmarked
  <2>2. Control!MayAsk
    BY <1>a, <1>5 DEF EEnqueue, FirstFailureDecides, Escalating, Control!MayAsk
  <2>3. CASE sysq < QueueDepth
    <3>1. Control!Ask
      BY <1>a, <1>5, <2>2, <2>3, SysCoordAssumption
      DEF EEnqueue, TypeOK, SysCoordAssumption, Control!Ask
    <3> QED
      BY <2>1, <3>1 DEF Control!Next
  <2>4. CASE ~(sysq < QueueDepth)
    BY <1>5, <2>1, <2>4, StillStutters DEF EEnqueue, Still
  <2> QED
    BY <2>3, <2>4
<1>6. CASE ETakeStart \/ ETakeGotIp \/ ETakeDown \/ EAuthClear \/ EModeRead
  <2>1. Still /\ Unmarked'
    BY <1>6 DEF ETakeStart, ETakeGotIp, ETakeDown, EAuthClear, EModeRead, Still, Unmarked
  <2> QED
    BY <2>1, StillStutters
<1>7. CASE EWaitHide \/ EWaitArm \/ EReport \/ EMonClear \/ EMonCheck \/ EMonLoad
           \/ EMonStore \/ EMonElig \/ EMonLatch
  <2>1. Still /\ Unmarked'
    BY <1>7 DEF EWaitHide, EWaitArm, EReport, EMonClear, EMonCheck, EMonLoad, EMonStore,
                EMonElig, EMonLatch, Still, Unmarked
  <2> QED
    BY <2>1, StillStutters
<1>8. CASE EMonDecide \/ ERollbackRefused
  <2>1. Still /\ Unmarked'
    BY <1>8 DEF EMonDecide, ERollbackRefused, Still, Unmarked
  <2> QED
    BY <2>1, StillStutters
<1> QED
  BY <1>1, <1>2, <1>3, <1>4, <1>5, <1>6, <1>7, <1>8 DEF E

(***************************************************************************)
(* A client proves the image, then promotes, then clears the mark.         *)
(***************************************************************************)
LEMMA CSimulates ==
  ASSUME ~FlashMayFail, IInv, Unmarked, NEW c \in Clients,
         C(c) \/ CAuth(c) \/ CClose(c) \/ COtaDone(c)
  PROVE  Unmarked' /\ (Control!Next \/ UNCHANGED Control!vars)
<1>a. TypeOK /\ ProvenPastGates
  BY DEF IInv
<1> USE DEF CGoto, core, mon, ble, nv, wifi, eloc, cFrame
<1>1. CASE CValid(c)
  <2>1. Unmarked'
    BY <1>1 DEF CValid, Unmarked
  <2>2. CASE img = "pending"
    <3>1. Control!Prove
      BY <1>1, <2>2 DEF CValid, Control!Prove
    <3> QED
      BY <2>1, <3>1 DEF Control!Next
  <2>3. CASE img # "pending"
    BY <1>1, <2>1, <2>3, StillStutters DEF CValid, Still
  <2> QED
    BY <2>2, <2>3
<1>2. CASE CNormalXchg(c)
  <2>1. Control!Promote
    BY <1>a, <1>2 DEF CNormalXchg, ProvenPastGates, Control!Promote
  <2> QED
    BY <1>2, <2>1 DEF CNormalXchg, Unmarked, Control!Next
<1>3. CASE CNormalFlag(c)
  <2>1. Control!ClearMark
    BY <1>a, <1>3 DEF CNormalFlag, ProvenPastGates, Control!ClearMark
  <2> QED
    BY <1>3, <2>1 DEF CNormalFlag, Unmarked, Control!Next
<1>4. CASE COtaDone(c)
  <2>1. img # "pending" /\ Boot("pending", postRb)
    BY <1>4 DEF COtaDone
  <2>2. Control!Install /\ Unmarked'
    BY <2>1, BootRestarts DEF Control!Install
  <2> QED
    BY <2>2 DEF Control!Next
<1>5. CASE CMark(c) \/ CGate(c) \/ CCheck(c) \/ CLatch(c) \/ CReset(c) \/ CNormalHide(c)
           \/ CAuth(c) \/ CClose(c)
  <2>1. Still /\ Unmarked'
    BY <1>5 DEF CMark, CGate, CCheck, CLatch, CReset, CNormalHide, CAuth, CClose,
                Still, Unmarked
  <2> QED
    BY <2>1, StillStutters
<1> QED
  BY <1>1, <1>2, <1>3, <1>4, <1>5 DEF C

(***************************************************************************)
(* The worker carries out what was asked for; Bluetooth installs an image. *)
(***************************************************************************)
LEMMA WSimulates ==
  ASSUME IInv, Unmarked, W \/ B \/ BAbort \/ BOtaDone
  PROVE  Unmarked' /\ (Control!Next \/ UNCHANGED Control!vars)
<1>a. TypeOK /\ ProvenPastGates
  BY DEF IInv
<1> USE DEF core, mon, ble, nv, wifi, eloc, wFrame, bFrame
<1>1. CASE WReceive
  <2>1. sysq' + 1 = sysq
    BY <1>a, <1>1, SysCoordAssumption DEF WReceive, TypeOK, SysCoordAssumption
  <2>2. UNCHANGED Control!vars
    BY <1>a, <1>1, <2>1 DEF WReceive, Control!vars, TypeOK
  <2> QED
    BY <1>1, <2>2 DEF WReceive, Unmarked
<1>2. CASE WRecoveryXchg
  <2>1. Control!Escalate
    BY <1>a, <1>2, SysCoordAssumption DEF WRecoveryXchg, TypeOK, SysCoordAssumption, Control!Escalate
  <2> QED
    BY <1>2, <2>1 DEF WRecoveryXchg, Unmarked, Control!Next
<1>3. CASE WBleInit \/ WLifeboat
  <2>1. UNCHANGED Control!vars
    BY <1>3 DEF WBleInit, WLifeboat, Control!vars
  <2> QED
    BY <1>3, <2>1 DEF WBleInit, WLifeboat, Unmarked
<1>4. CASE B \/ BAbort
  <2>1. Still /\ Unmarked'
    BY <1>4 DEF B, BStart, BBegin, BCheck, BLatch, BReset, BAbort, Still, Unmarked
  <2> QED
    BY <2>1, StillStutters
<1>5. CASE BOtaDone
  <2>1. img # "pending" /\ Boot("pending", postRb)
    BY <1>a, <1>5 DEF BOtaDone, ProvenPastGates
  <2>2. Control!Install /\ Unmarked'
    BY <2>1, BootRestarts DEF Control!Install
  <2> QED
    BY <2>2 DEF Control!Next
<1> QED
  BY <1>1, <1>2, <1>3, <1>4, <1>5 DEF W

LEMMA OutsideSimulates ==
  ASSUME IInv, Unmarked, PowerCycle \/ LinkUp \/ LinkFails \/ LinkDrops \/ SetWifi
  PROVE  Unmarked' /\ (Control!Next \/ UNCHANGED Control!vars)
<1> USE DEF core, mon, ble, nv, wifi, eloc, wifiFrame
<1>1. CASE PowerCycle
  <2>1. PICK i \in BootImages : Boot(i, postRb)
    BY <1>1 DEF PowerCycle
  <2>2. Control!Restart(i) /\ Unmarked'
    BY <2>1, BootRestarts
  <2>3. i \in Images /\ i # "pending" /\ (i = img \/ img = "pending")
    BY <2>1 DEF BootImages, Images, IInv, TypeOK
  <2>4. Control!Reset
    BY <2>2, <2>3 DEF Control!Reset, Control!Images, Images
  <2> QED
    BY <2>2, <2>4 DEF Control!Next
<1>2. CASE LinkUp \/ LinkFails \/ LinkDrops \/ SetWifi
  <2>1. Still /\ Unmarked'
    BY <1>2 DEF LinkUp, LinkFails, LinkDrops, SetWifi, Still, Unmarked
  <2> QED
    BY <2>1, StillStutters
<1> QED
  BY <1>1, <1>2

-----------------------------------------------------------------------------
\* Every step of the four threads, of the power supply and of the host is a step
\* of ControlMode or invisible to it: promotion follows proof, recovery is asked
\* for only with nothing left to roll back, no rollback interrupts it
\* (sys_core.c, sys_policy.c, monitor.c).
THEOREM ControlImplemented == ASSUME ~FlashMayFail PROVE Spec => ImplementsControl
<1>1. Init => Control!Init /\ Unmarked
  BY DEF Init, Control!Init, Control!Images, Images, Unmarked
<1>2. IInv /\ Unmarked /\ [Next]_vars => [Control!Next]_(Control!vars) /\ Unmarked'
  <2> SUFFICES ASSUME IInv, Unmarked, [Next]_vars
               PROVE  Unmarked' /\ (Control!Next \/ UNCHANGED Control!vars)
    OBVIOUS
  <2>1. CASE UNCHANGED vars
    <3>1. Still /\ Unmarked'
      BY <2>1 DEF vars, core, nv, Still, Unmarked
    <3> QED
      BY <3>1, StillStutters
  <2>2. CASE Next
    BY <2>2, ESimulates, CSimulates, WSimulates, OutsideSimulates DEF Next, Environment
  <2> QED
    BY <2>1, <2>2
<1> QED
  BY <1>1, <1>2, IInvCorrect, PTL DEF Spec, ImplementsControl, Control!Spec
=============================================================================
