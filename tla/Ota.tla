--------------------------------- MODULE Ota ---------------------------------
(***************************************************************************)
(* Over-the-air update (components/ota) over its two transports.           *)
(*                                                                         *)
(*   Tcp    connection tasks inside ota_perform, each with a session on    *)
(*          its stack                                                      *)
(*   "ble"  the Bluetooth task inside ble_ota.c, with the one static       *)
(*          session s_ble and a second set of books, s_bo                  *)
(*                                                                         *)
(* Nothing keeps two of them off the one update slot, so a cell of the     *)
(* slot remembers who programmed it.  Sizes count cells; a BLE data frame  *)
(* carries at most one.                                                    *)
(***************************************************************************)
EXTENDS Naturals

CONSTANTS
  Tcp,       \* connection tasks
  SlotSize   \* cells of the update partition

ASSUME OtaAssumption == "ble" \notin Tcp /\ SlotSize \in Nat \ {0}

VARIABLES
  sess,     \* ota_session_t of each transport, with the writer's handle
  bo,       \* s_bo
  pc,       \* where each transport is
  slot,     \* the update partition
  boot,     \* "new" once esp_ota_set_boot_partition chose it
  link,     \* a BLE central is connected
  recovery  \* g_mode is RECOVERY

env  == <<link, recovery>>
vars == <<sess, bo, pc, slot, boot, env>>

Actors == Tcp \cup {"ble"}
Cells  == 1..SlotSize
Sizes  == 1..(SlotSize + 1)   \* what a host may announce
\* crc_expect: 0 skips the check, any other value fits what the host sent or not.
Crcs   == {"skip", "fits", "off"}

NoSession == [active |-> FALSE, handle |-> FALSE, size |-> 0, written |-> 0,
              crc |-> "skip", clean |-> TRUE]
NoBo == [active |-> FALSE, total |-> 0, written |-> 0, seq |-> 0]

Init ==
  /\ sess = [a \in Actors |-> NoSession] /\ bo = NoBo
  /\ pc = [a \in Actors |-> "idle"]
  /\ slot = [i \in Cells |-> "junk"] /\ boot = "old"
  /\ link = FALSE /\ recovery \in BOOLEAN

Goto(a, from, to) == pc[a] = from /\ pc' = [pc EXCEPT ![a] = to]

-----------------------------------------------------------------------------
(***************************************************************************)
(* ota_session.c and ota_writer.c, for the session of a.                   *)
(***************************************************************************)
\* Variant: the size announced is not compared with the partition.
BeginUnchecked(a, n, c) ==
  /\ sess' = [sess EXCEPT ![a] = [NoSession EXCEPT !.active = TRUE, !.handle = TRUE,
                                                   !.size = n, !.crc = c]]
  /\ slot' = [i \in Cells |-> IF i <= n THEN "erased" ELSE slot[i]]

\* The slot is erased for n cells and a handle is open.
Begin(a, n, c) ==
  /\ n \in Cells
  /\ sess' = [sess EXCEPT ![a] = [NoSession EXCEPT !.active = TRUE, !.handle = TRUE,
                                                   !.size = n, !.crc = c]]
  /\ slot' = [i \in Cells |-> IF i <= n THEN "erased" ELSE slot[i]]

\* No partition, too large, or esp_ota_begin refuses: zeroed, and no handle.
BeginFails(a) == sess' = [sess EXCEPT ![a] = NoSession] /\ UNCHANGED slot

\* Variant: the writer's handle stays open.
AbortLeaks(a) == sess' = [sess EXCEPT ![a].active = FALSE]

Abort(a) ==
  sess' = IF sess[a].active THEN [sess EXCEPT ![a].active = FALSE, ![a].handle = FALSE]
                            ELSE sess

\* One cell with the host's k-th: in place or not.  Programming flash only clears
\* bits, so a cell that was not erased turns to junk.
Write(a, k) ==
  LET at == sess[a].written + 1 IN
  /\ sess[a].active /\ at <= sess[a].size
  /\ slot' = [slot EXCEPT ![at] = IF @ = "erased" /\ k = at THEN a ELSE "junk"]
  /\ sess' = [sess EXCEPT ![a].written = at, ![a].clean = @ /\ k = at]

Complete(a) == sess[a].written = sess[a].size

\* Variant: the running CRC is compared with nothing.
CrcUnchecked(a) == TRUE

CrcOk(a) == sess[a].crc = "skip" \/ (sess[a].crc = "fits" /\ sess[a].clean)
Whole(a) == \A i \in 1..sess[a].size : slot[i] = a

\* Length, CRC, then esp_ota_end, which verifies the image in the slot.
Finish(a, failed) ==
  /\ \/ Goto(a, "finish", "set_boot") /\ Complete(a) /\ CrcOk(a) /\ Whole(a)
     \/ Goto(a, "finish", failed)
  /\ sess' = [sess EXCEPT ![a].active = FALSE, ![a].handle = FALSE]
  /\ UNCHANGED <<slot, boot, env>>

\* esp_ota_set_boot_partition verifies once more.
SetBoot(a, failed) ==
  /\ \/ Goto(a, "set_boot", "delay") /\ Whole(a) /\ boot' = "new"
     \/ Goto(a, "set_boot", failed) /\ UNCHANGED boot
  /\ UNCHANGED <<sess, slot, env>>

\* 750 ms after the last byte over TCP, 400 ms over BLE; the slots swap roles.
Restart(a) ==
  /\ pc[a] = "delay"
  /\ sess' = [b \in Actors |-> NoSession] /\ bo' = NoBo
  /\ pc' = [b \in Actors |-> "idle"]
  /\ slot' = [i \in Cells |-> "junk"] /\ boot' = "old"
  /\ link' = FALSE /\ recovery' = FALSE

-----------------------------------------------------------------------------
(***************************************************************************)
(* ota_perform on the connection t.                                        *)
(***************************************************************************)
tFrame == <<bo, boot, env>>

\* A size of 0 is refused before; the ACK has gone out when begin is called.
TStart(t) ==
  /\ Goto(t, "idle", "begin")
  /\ UNCHANGED <<sess, slot, tFrame>>

\* The session is on the stack and uninitialised: session_begin may find it
\* active, or fail for a reason of its own, and the task is back in its command loop.
TBegin(t) ==
  /\ \/ \E n \in Sizes : Begin(t, n, "skip") /\ Goto(t, "begin", "recv")
     \/ BeginFails(t) /\ Goto(t, "begin", "idle")
  /\ UNCHANGED tFrame

TRecv(t) ==
  /\ ~Complete(t) /\ Goto(t, "recv", "recv")
  /\ Write(t, sess[t].written + 1)
  /\ UNCHANGED tFrame

\* The trailing CRC.
TTail(t) ==
  /\ Complete(t) /\ Goto(t, "recv", "finish")
  /\ \E c \in Crcs : sess' = [sess EXCEPT ![t].crc = c]
  /\ UNCHANGED <<slot, tFrame>>

\* Variant: SO_RCVTIMEO is not set, a recv only ends with an error.
TFailsOnError(t) == FALSE

\* No memory, a timeout, the peer gone, or a failed flash write.
TFails(t) ==
  /\ Goto(t, "recv", "idle")
  /\ Abort(t)
  /\ UNCHANGED <<slot, tFrame>>

TFinish(t)  == Finish(t, "idle") /\ UNCHANGED bo
TSetBoot(t) == SetBoot(t, "idle") /\ UNCHANGED bo

\* What needs nothing from the peer: TFails is also its silence, by SO_RCVTIMEO.
TOwn(t) == TBegin(t) \/ TFails(t) \/ TFinish(t) \/ TSetBoot(t) \/ Restart(t)

-----------------------------------------------------------------------------
(***************************************************************************)
(* ble_ota.c.  The Bluetooth task runs one handler at a time; a data frame *)
(* may be lost on the way, or come twice.                                  *)
(***************************************************************************)
bFrame == <<boot, env>>

\* BL_OTA START: ERR BUSY and the mode gate; the erase takes its time.
BStart ==
  /\ link /\ ~bo.active /\ recovery
  /\ Goto("ble", "idle", "begin")
  /\ UNCHANGED <<sess, bo, slot, bFrame>>

BBegin ==
  /\ \/ \E n \in Sizes, c \in Crcs :
          /\ ~sess["ble"].active /\ Begin("ble", n, c)
          /\ bo' = [NoBo EXCEPT !.active = TRUE, !.total = n]
     \/ BeginFails("ble") /\ UNCHANGED bo
  /\ Goto("ble", "begin", "idle")
  /\ UNCHANGED bFrame

\* Variant: a frame from further on is taken.
InSequenceOrAhead(k) == k >= bo.seq

InSequence(k) == k = bo.seq

\* The frame with sequence number k; the last one finishes the image.
BData ==
  /\ bo.active /\ bo.written + 1 <= bo.total
  /\ \E k \in 0..SlotSize : InSequence(k) /\ Write("ble", k + 1)
  /\ bo' = [bo EXCEPT !.seq = @ + 1, !.written = @ + 1]
  /\ Goto("ble", "idle", IF bo.written + 1 = bo.total THEN "finish" ELSE "idle")
  /\ UNCHANGED bFrame

\* An empty frame, which session_write refuses, or a failed flash write.
BDataFails ==
  /\ bo.active /\ Goto("ble", "idle", "idle")
  /\ Abort("ble") /\ bo' = NoBo
  /\ UNCHANGED <<slot, bFrame>>

\* BL_OTA FINISH.
BFinishCmd ==
  /\ bo.active /\ Goto("ble", "idle", "finish")
  /\ UNCHANGED <<sess, bo, slot, bFrame>>

BAbortCmd ==
  /\ bo.active /\ Goto("ble", "idle", "idle")
  /\ Abort("ble") /\ bo' = NoBo
  /\ UNCHANGED <<slot, bFrame>>

\* Variant: a failed finish keeps s_bo.
BFinishKeepsBooks == Finish("ble", "idle") /\ UNCHANGED bo

\* A failed finish forgets s_bo; before the restart nothing reads it any more, so
\* forgetting it there too covers the disconnect handler, which does not.
BFinish  == Finish("ble", "idle") /\ bo' = IF pc'["ble"] = "idle" THEN NoBo ELSE bo
BSetBoot == SetBoot("ble", "idle") /\ bo' = NoBo

B == BBegin \/ BFinish \/ BSetBoot \/ Restart("ble")

\* Variant: a transfer survives the link it came over.
BDisconnectForgets ==
  /\ link /\ link' = FALSE
  /\ Goto("ble", "idle", "idle")
  /\ UNCHANGED <<sess, bo, slot, boot, recovery>>

\* ble_ota_on_disconnect: a complete image is finished, any other is dropped.
BDisconnect ==
  /\ link /\ link' = FALSE
  /\ IF bo.active /\ bo.written = bo.total
       THEN Goto("ble", "idle", "finish") /\ UNCHANGED <<sess, bo>>
       ELSE Goto("ble", "idle", "idle") /\ Abort("ble") /\ bo' = NoBo
  /\ UNCHANGED <<slot, boot, recovery>>

BConnect ==
  /\ ~link /\ link' = TRUE /\ Goto("ble", "idle", "idle")
  /\ UNCHANGED <<sess, bo, slot, boot, recovery>>

Host == BStart \/ BData \/ BDataFails \/ BFinishCmd \/ BAbortCmd

ModeChanges == recovery' = ~recovery /\ UNCHANGED <<sess, bo, pc, slot, boot, link>>

-----------------------------------------------------------------------------
Next ==
  \/ \E t \in Tcp : TStart(t) \/ TRecv(t) \/ TTail(t) \/ TOwn(t)
  \/ B \/ (link /\ Host) \/ BConnect \/ BDisconnect \/ ModeChanges

Spec == Init /\ [][Next]_vars

\* Tasks run and SO_RCVTIMEO ends a recv; what the hosts send is not fair.
FairSpec == Spec /\ WF_vars(B) /\ \A t \in Tcp : WF_vars(TOwn(t))

-----------------------------------------------------------------------------
Sessions == [active : BOOLEAN, handle : BOOLEAN, size : 0..SlotSize,
             written : 0..SlotSize, crc : Crcs, clean : BOOLEAN]

\* Types; nothing is written past the size announced.
TypeOK ==
  /\ sess \in [Actors -> Sessions]
  /\ \A a \in Actors : sess[a].written <= sess[a].size
  /\ bo \in [active : BOOLEAN, total : 0..SlotSize, written : 0..SlotSize, seq : 0..SlotSize]
  /\ pc \in [Actors -> {"idle", "begin", "recv", "finish", "set_boot", "delay"}]
  /\ slot \in [Cells -> Actors \cup {"erased", "junk"}] /\ boot \in {"old", "new"}
  /\ link \in BOOLEAN /\ recovery \in BOOLEAN

\* The two sets of books agree: s_bo and s_ble are active together and have
\* counted the same bytes, through every error path of both (ble_ota.c).
BooksAgree ==
  pc["ble"] = "idle" =>
    /\ bo.active = sess["ble"].active
    /\ bo.active => bo.written = sess["ble"].written /\ bo.total = sess["ble"].size

\* No path leaks an esp_ota handle: the next OTA could otherwise not open the slot.
NoHandleLeak ==
  \A a \in Actors : sess[a].handle => sess[a].active /\ (a \in Tcp => pc[a] # "idle")

\* The slot is only switched to for a transfer that arrived completely, in order
\* and, if the host gave a CRC, with that CRC (ota_session_finish).
EarnedSwitch ==
  \A a \in Actors : pc[a] \in {"set_boot", "delay"} =>
    Complete(a) /\ sess[a].clean /\ sess[a].crc # "off"

\* Frames lost or repeated on the air never shift the image (DATA out-of-order).
NeverShifted == bo.active => sess["ble"].clean /\ bo.seq = bo.written

\* A BLE transfer never outlives its link, so a central that comes back can start.
LinkOwnsTransfer == bo.active /\ pc["ble"] = "idle" => link

\* An OTA over TCP comes to an end, whatever the peer does.
TcpOtaEnds == \A t \in Tcp : pc[t] # "idle" ~> pc[t] = "idle"
=============================================================================
