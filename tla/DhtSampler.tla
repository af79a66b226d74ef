----------------------------- MODULE DhtSampler -----------------------------
(***************************************************************************)
(* The sensor (components/dht): the sampler task S, which reads it while   *)
(* streaming is on, and the command router R, which switches streaming and *)
(* changes its period through dht_set_stream.  They share two volatile     *)
(* words and a task notification, no lock.                                 *)
(*                                                                         *)
(* Time is counted in units the periods are multiples of.  Between any two *)
(* steps of a task any amount of it may pass: other tasks have the CPU.    *)
(***************************************************************************)
EXTENDS DhtFrame

CONSTANTS
  MinPeriod,   \* DHT_MIN_PERIOD_MS
  CfgPeriod,   \* dht_cfg_t.period_ms, 0 for none
  Intervals,   \* what DHTSTREAM's second argument may be, 0 when it is missing
  Longest,     \* saturation of the history variable gap
  Measured,    \* what the sensor may measure, within the range of its data sheet
  Noise,       \* the pulses that may be disturbed, 0 for none
  MaxCmds      \* bound: DHTSTREAM commands

ASSUME DhtAssumption ==
  /\ MinPeriod \in Nat \ {0} /\ CfgPeriod \in Nat /\ Intervals \subseteq Nat
  /\ Longest \in Nat /\ Longest >= MinPeriod
  /\ Measured \subseteq [rh : 20..90, t : 0..50]
  /\ Noise \subseteq 0..40
  /\ MaxCmds \in Nat

VARIABLES
  on, period,    \* S.stream_on, S.period_ms
  note,          \* S's task notification is pending
  sample,        \* S.last
  spc, rest,     \* S: program counter, time left of the wait it is in
  rpc, arg,      \* R: program counter in dht_set_stream, its arguments
  actual, gap, early, cmds  \* history: what was measured when sample is valid, the time since
                            \* the last transaction, transactions too early, commands

router == <<rpc, arg>>
hist   == <<actual, gap, early, cmds>>
vars   == <<on, period, note, sample, spc, rest, router, hist>>

DefPeriod == IF CfgPeriod # 0 THEN CfgPeriod ELSE MinPeriod

NoSample == [valid |-> FALSE, rh |-> 0, t |-> 0]
NoArg    == [on |-> FALSE, every |-> 0]

\* dht_init, then dht_start.
Init ==
  /\ on = FALSE /\ period = DefPeriod /\ note = FALSE
  /\ sample = NoSample
  /\ spc = "check" /\ rest = 0
  /\ rpc = "idle" /\ arg = NoArg
  /\ actual = NoSample /\ gap = Longest /\ early = 0 /\ cmds = 0

-----------------------------------------------------------------------------
(***************************************************************************)
(* S: dht_sampler_task.                                                    *)
(***************************************************************************)
SGoto(from, to) == spc = from /\ spc' = to

SCheck ==
  /\ SGoto("check", IF on THEN "read" ELSE "park")
  /\ UNCHANGED <<on, period, note, sample, rest, router, hist>>

\* ulTaskNotifyTake(pdTRUE, portMAX_DELAY), and with the period as its timeout.
STake ==
  /\ SGoto("park", "check") \/ SGoto("wait", "check")
  /\ note /\ note' = FALSE
  /\ rest' = 0
  /\ UNCHANGED <<on, period, sample, router, hist>>

STimeout ==
  /\ SGoto("wait", "check")
  /\ rest = 0 /\ ~note
  /\ UNCHANGED <<on, period, note, sample, rest, router, hist>>

SampleOf(raw) ==
  IF raw.ok THEN [valid |-> TRUE, rh |-> Reading(raw.out).rh, t |-> Reading(raw.out).t]
            ELSE NoSample

\* What a transaction may make of what the sensor measured.
Outcomes ==
  { [got  |-> SampleOf(RawBytes(Disturbed(PulsesOf(FrameOf(m)), i))),
     true |-> [valid |-> TRUE, rh |-> m.rh, t |-> m.t]] : m \in Measured, i \in Noise }

\* dht_hw_read and the update of S.last under its lock.  Up to three attempts, each
\* with its own noise, can end as one can: in a reading that passed or in none.
SRead ==
  /\ SGoto("read", "load")
  /\ \E o \in Outcomes :
       /\ sample' = o.got
       /\ actual' = IF o.got.valid THEN o.true ELSE NoSample
  /\ gap' = 0 /\ early' = IF gap < MinPeriod THEN early + 1 ELSE early
  /\ UNCHANGED <<on, period, note, rest, router, cmds>>

\* Variant: a period below the sensor's minimum is taken as it is.
InForceUnclamped(p) == IF p # 0 THEN p ELSE DefPeriod

InForce(p) ==
  LET ms == IF p # 0 THEN p ELSE DefPeriod
  IN  IF ms < MinPeriod THEN MinPeriod ELSE ms

SLoad ==
  /\ SGoto("load", "wait")
  /\ rest' = InForce(period)
  /\ UNCHANGED <<on, period, note, sample, router, hist>>

S == SCheck \/ STake \/ STimeout \/ SRead \/ SLoad

-----------------------------------------------------------------------------
(***************************************************************************)
(* R: dht_set_stream, one store per step; the DHTSTREAM command has passed *)
(* the bus (module Commands).                                              *)
(***************************************************************************)
RGoto(from, to) == rpc = from /\ rpc' = to
rFrame == <<sample, spc, rest, actual, gap, early>>

RCommand ==
  /\ cmds < MaxCmds /\ cmds' = cmds + 1
  /\ RGoto("idle", "switch")
  /\ arg' \in [on : {TRUE}, every : Intervals] \cup {NoArg}
  /\ UNCHANGED <<on, period, note, rFrame>>

RSwitch ==
  /\ RGoto("switch", "period")
  /\ on' = arg.on
  /\ UNCHANGED <<period, note, arg, cmds, rFrame>>

\* Variant: a missing interval is stored like any other.
RPeriodZero ==
  /\ RGoto("period", "notify")
  /\ period' = arg.every
  /\ UNCHANGED <<on, note, arg, cmds, rFrame>>

RPeriod ==
  /\ RGoto("period", "notify")
  /\ period' = IF arg.every # 0 THEN arg.every ELSE period
  /\ UNCHANGED <<on, note, arg, cmds, rFrame>>

\* Variant: a sampler that streams already is not notified.
RNotifyParked ==
  /\ RGoto("notify", "idle")
  /\ note' = (note \/ spc = "park")
  /\ arg' = NoArg
  /\ UNCHANGED <<on, period, cmds, rFrame>>

\* Variant: only a new period is notified.
RNotifyPeriod ==
  /\ RGoto("notify", "idle")
  /\ note' = (note \/ arg.every # 0)
  /\ arg' = NoArg
  /\ UNCHANGED <<on, period, cmds, rFrame>>

RNotify ==
  /\ RGoto("notify", "idle")
  /\ note' = TRUE
  /\ arg' = NoArg
  /\ UNCHANGED <<on, period, cmds, rFrame>>

R == RSwitch \/ RPeriod \/ RNotify

-----------------------------------------------------------------------------
Tick ==
  /\ rest' = IF spc = "wait" /\ rest > 0 THEN rest - 1 ELSE rest
  /\ gap' = IF gap < Longest THEN gap + 1 ELSE gap
  /\ UNCHANGED <<on, period, note, sample, spc, router, actual, early, cmds>>

Next == S \/ RCommand \/ R \/ Tick

Spec == Init /\ [][Next]_vars

\* Both tasks run and time passes; commands come or do not.
FairSpec == Spec /\ WF_vars(S) /\ WF_vars(R) /\ WF_vars(Tick)

-----------------------------------------------------------------------------
Samples == [valid : BOOLEAN, rh : Nat, t : Nat]

TypeOK ==
  /\ on \in BOOLEAN /\ period \in Nat \ {0} /\ note \in BOOLEAN
  /\ sample \in Samples /\ actual \in Samples
  /\ spc \in {"check", "park", "read", "load", "wait"} /\ rest \in Nat
  /\ rpc \in {"idle", "switch", "period", "notify"}
  /\ arg \in [on : BOOLEAN, every : Nat]
  /\ gap \in 0..Longest /\ early \in Nat /\ cmds \in Nat

\* The sensor is read faster than it can stand only where a command woke the sampler,
\* and at most once for each: no period, however short, makes it a habit (dht.c's
\* clamp to DHT_MIN_PERIOD_MS; README: "sensor polled at safe intervals").
Paced == early + (IF note THEN 1 ELSE 0) <= cmds

\* The wait the sampler is in is no longer than the period last asked for: a change of
\* the period never leaves it asleep on the old one (dht_set_stream's order of stores).
PeriodInForce ==
  spc = "wait" /\ rpc = "idle" /\ ~note => rest <= InForce(period)

\* What is offered as valid is what the sensor measured: one disturbed pulse among
\* the forty never gets past the checksum.
SampleIsMeasured == sample.valid => sample = actual

\* A stream that stays on goes on sampling, and one that stays off stops: no switch is
\* lost between the sampler's look at stream_on and its wait.
StreamObeys ==
  /\ <>[]on => []<>(spc = "read")
  /\ <>[]~on => <>[](spc # "read")
=============================================================================
