---------------------------- MODULE ControlMode ----------------------------
(***************************************************************************)
(* What the coordinator promises about the operating mode and the image    *)
(* that runs, with no thread, latch, queue or counter in sight: who may    *)
(* promote, when recovery may be asked for, what a restart may change.     *)
(* SysCoord implements it (SysCoord!ImplementsControl).                    *)
(***************************************************************************)
EXTENDS Naturals

CONSTANT HasFallback    \* whether an image to fall back to is always there

VARIABLES
  mode,     \* the operating mode
  img,      \* whether the running image has proven itself
  fellBack, \* the running image is what a rollback chose
  falling,  \* a rollback has been marked and its restart is on the way
  due       \* requests for recovery not yet carried out

vars == <<mode, img, fellBack, falling, due>>

Modes  == {"WAIT_CONTROL", "NORMAL", "RECOVERY"}
Images == {"factory", "pending", "valid"}

Init ==
  /\ mode = "WAIT_CONTROL" /\ due = 0 /\ falling = FALSE
  /\ img \in Images
  /\ fellBack \in BOOLEAN /\ (img = "factory" => ~fellBack)

\* An operator is in control: the image has proven itself.
Prove == img = "pending" /\ img' = "valid" /\ UNCHANGED <<mode, fellBack, falling, due>>

\* Only a proven image is promoted; the mark of a rollback goes with the promotion.
Promote   == img # "pending" /\ mode' = "NORMAL" /\ UNCHANGED <<img, fellBack, falling, due>>
ClearMark == img # "pending" /\ fellBack' = FALSE /\ UNCHANGED <<mode, img, falling, due>>

LoseControl == mode' = "WAIT_CONTROL" /\ UNCHANGED <<img, fellBack, falling, due>>

\* Recovery is not for an unproven image that could still be rolled back.
MayAsk == HasFallback /\ img = "pending" => fellBack

Ask      == MayAsk /\ due' = due + 1 /\ UNCHANGED <<mode, img, fellBack, falling>>
Escalate == due > 0 /\ due' = due - 1 /\ mode' = "RECOVERY"
            /\ UNCHANGED <<img, fellBack, falling>>

\* The device restarts into image i.
Restart(i) ==
  /\ mode' = "WAIT_CONTROL" /\ due' = 0 /\ falling' = FALSE
  /\ img' = i /\ fellBack' = (fellBack /\ i # "factory")

\* Power: the bootloader does not start an image that was still on probation.
Reset == \E i \in Images : (i = img \/ img = "pending") /\ i # "pending" /\ Restart(i)

\* A rollback never interrupts recovery, and is not made twice in a row ...
RollBack == mode # "RECOVERY" /\ ~fellBack /\ \E i \in {"factory", "valid"} : Restart(i)

\* ... not even in the two steps of the manual one, whose target may be unproven.
MarkFallBack ==
  /\ mode # "RECOVERY" /\ ~fellBack /\ HasFallback
  /\ fellBack' = TRUE /\ falling' = TRUE
  /\ UNCHANGED <<mode, img, due>>

FallBack == mode # "RECOVERY" /\ falling /\ \E i \in Images : Restart(i)

\* A new image is only ever installed by a proven one.
Install == img # "pending" /\ Restart("pending")

Next == \/ Prove \/ Promote \/ ClearMark \/ LoseControl \/ Ask \/ Escalate
        \/ Reset \/ RollBack \/ MarkFallBack \/ FallBack \/ Install

Spec == Init /\ [][Next]_vars
=============================================================================
