-------------------------- MODULE DhtSamplerProofs --------------------------
(***************************************************************************)
(* That the sampler paces its transactions and follows the period asked    *)
(* for, whatever the periods, the intervals and the number of commands.    *)
(*                                                                         *)
(* Paced is not inductive.  What pays for a transaction that comes too     *)
(* early is a notification, what pays for a notification is a command that *)
(* is being carried out; and a wait that ends by itself has lasted.        *)
(*                                                                         *)
(* SampleIsMeasured is about the frame alone: one pulse read wrong changes *)
(* one byte by a power of two, so the sum of the first four and the fifth  *)
(* no longer agree modulo 256.                                             *)
(***************************************************************************)
EXTENDS DhtSampler, TLAPS

One(b) == IF b THEN 1 ELSE 0

\* The sampler is about to start a transaction too early.
Hasty == spc \in {"check", "read"} /\ gap < MinPeriod

Budget == early + One(note) + One(rpc # "idle") + One(Hasty) <= cmds

\* What is left of a wait makes up for what the sensor still needs.
Rested == spc = "wait" => gap + rest >= MinPeriod

\* PeriodInForce, also while a command has not yet changed the period.
Follows == spc = "wait" /\ rpc # "notify" /\ ~note => rest <= InForce(period)

IInv == TypeOK /\ Budget /\ Rested /\ Follows

\* A period is never taken below the sensor's minimum.
LEMMA InForceBound ==
  ASSUME NEW p \in Nat \ {0}
  PROVE  InForce(p) \in Nat /\ InForce(p) >= MinPeriod
<1>1. MinPeriod \in Nat
  BY DhtAssumption DEF DhtAssumption
<1> QED
  BY <1>1 DEF InForce

\* Whatever a transaction yields is a sample.
LEMMA OutcomesAreSamples ==
  ASSUME NEW o \in Outcomes
  PROVE  o.got \in Samples /\ o.true \in Samples
<1>1. PICK m \in Measured, i \in Noise :
        o = [got  |-> SampleOf(RawBytes(Disturbed(PulsesOf(FrameOf(m)), i))),
             true |-> [valid |-> TRUE, rh |-> m.rh, t |-> m.t]]
  BY DEF Outcomes
<1>2. m \in [rh : 20..90, t : 0..50]
  BY DhtAssumption DEF DhtAssumption
<1>3. o.true \in Samples
  BY <1>1, <1>2 DEF Samples
<1>4. ASSUME NEW raw PROVE SampleOf(raw) \in Samples
  <2>1. \A x : Within(x, 20, 90) \in Nat /\ Within(x, 0, 50) \in Nat
    BY DEF Within
  <2>2. Reading(raw.out).rh \in Nat /\ Reading(raw.out).t \in Nat
    BY <2>1 DEF Reading
  <2> QED
    BY <2>2 DEF SampleOf, Samples, NoSample
<1>5. o.got \in Samples
  BY <1>1, <1>4
<1> QED
  BY <1>3, <1>5

\* The first state.
LEMMA InitHolds == Init => IInv
<1> SUFFICES ASSUME Init PROVE IInv
  OBVIOUS
<1> USE DhtAssumption DEF DhtAssumption
<1>a. DefPeriod \in Nat \ {0}
  BY DEF DefPeriod
<1>b. NoSample \in Samples /\ NoArg \in [on : BOOLEAN, every : Nat]
  BY DEF NoSample, Samples, NoArg
<1>1. TypeOK
  <2>1. gap \in 0..Longest
    BY DEF Init
  <2>2. sample \in Samples /\ actual \in Samples /\ arg \in [on : BOOLEAN, every : Nat]
    BY <1>b, Zenon DEF Init
  <2>3. period \in Nat \ {0}
    BY <1>a DEF Init
  <2> QED
    BY <2>1, <2>2, <2>3 DEF Init, TypeOK
<1>2. Budget
  BY DEF Init, Budget, One, Hasty
<1>3. Rested /\ Follows
  BY DEF Init, Rested, Follows
<1> QED
  BY <1>1, <1>2, <1>3 DEF IInv

\* A step of the sampler task.
LEMMA SamplerKeeps ==
  ASSUME IInv, S
  PROVE  IInv'
<1> USE DhtAssumption DEF DhtAssumption
<1>t. TypeOK /\ Budget /\ Rested /\ Follows
  BY DEF IInv
<1>1. CASE SCheck
  <2>1. TypeOK'
    BY <1>t, <1>1 DEF TypeOK, SCheck, SGoto, router, hist
  <2>2. Budget' /\ Rested' /\ Follows'
    BY <1>t, <1>1 DEF TypeOK, Budget, Rested, Follows, One, Hasty, SCheck, SGoto, router, hist
  <2> QED
    BY <2>1, <2>2 DEF IInv
<1>2. CASE STake
  <2>1. TypeOK'
    BY <1>t, <1>2 DEF TypeOK, STake, SGoto, router, hist
  <2>2. Budget' /\ Rested' /\ Follows'
    BY <1>t, <1>2 DEF TypeOK, Budget, Rested, Follows, One, Hasty, STake, SGoto, router, hist
  <2> QED
    BY <2>1, <2>2 DEF IInv
<1>3. CASE STimeout
  <2>1. TypeOK'
    BY <1>t, <1>3 DEF TypeOK, STimeout, SGoto, router, hist
  <2>2. gap >= MinPeriod
    BY <1>t, <1>3 DEF TypeOK, Rested, STimeout, SGoto
  <2>3. Budget' /\ Rested' /\ Follows'
    BY <1>t, <1>3, <2>2
    DEF TypeOK, Budget, Rested, Follows, One, Hasty, STimeout, SGoto, router, hist
  <2> QED
    BY <2>1, <2>3 DEF IInv
<1>4. CASE SRead
  <2>1. PICK o \in Outcomes : sample' = o.got /\ actual' = IF o.got.valid THEN o.true ELSE NoSample
    BY <1>4 DEF SRead
  <2>2. sample' \in Samples /\ actual' \in Samples
    BY <2>1, OutcomesAreSamples DEF NoSample, Samples
  <2>3. TypeOK'
    BY <1>t, <1>4, <2>2 DEF TypeOK, SRead, SGoto, router
  <2>4. Budget' /\ Rested' /\ Follows'
    BY <1>t, <1>4 DEF TypeOK, Budget, Rested, Follows, One, Hasty, SRead, SGoto, router
  <2> QED
    BY <2>3, <2>4 DEF IInv
<1>5. CASE SLoad
  <2>1. InForce(period) \in Nat /\ InForce(period) >= MinPeriod
    BY <1>t, InForceBound DEF TypeOK
  <2>2. TypeOK'
    BY <1>t, <1>5, <2>1 DEF TypeOK, SLoad, SGoto, router, hist
  <2>3. Budget'
    BY <1>t, <1>5 DEF TypeOK, Budget, One, Hasty, SLoad, SGoto, router, hist
  <2>4. Rested'
    BY <1>t, <1>5, <2>1 DEF TypeOK, Rested, SLoad, SGoto, router, hist
  <2>5. period' = period /\ rest' = InForce(period)
    BY <1>5 DEF SLoad
  <2>6. InForce(period)' = InForce(period)
    BY <2>5 DEF InForce
  <2>7. Follows'
    BY <2>1, <2>5, <2>6 DEF Follows
  <2> QED
    BY <2>2, <2>3, <2>4, <2>7 DEF IInv
<1> QED
  BY <1>1, <1>2, <1>3, <1>4, <1>5 DEF S

\* A command, and a step of the router that carries it out.
LEMMA RouterKeeps ==
  ASSUME IInv, RCommand \/ R
  PROVE  IInv'
<1> USE DhtAssumption DEF DhtAssumption
<1>t. TypeOK /\ Budget /\ Rested /\ Follows
  BY DEF IInv
<1>1. CASE RCommand
  <2>1. arg' \in [on : BOOLEAN, every : Nat]
    <3>1. CASE arg' = NoArg
      BY <3>1 DEF NoArg
    <3>2. CASE arg' \in [on : {TRUE}, every : Intervals]
      BY <3>2
    <3> QED
      BY <1>1, <3>1, <3>2 DEF RCommand
  <2>2. TypeOK'
    BY <1>t, <1>1, <2>1 DEF TypeOK, RCommand, RGoto, rFrame
  <2>3. Budget' /\ Rested' /\ Follows'
    BY <1>t, <1>1 DEF TypeOK, Budget, Rested, Follows, One, Hasty, InForce, DefPeriod, RCommand, RGoto, rFrame
  <2> QED
    BY <2>2, <2>3 DEF IInv
<1>2. CASE RSwitch
  <2>1. TypeOK'
    BY <1>t, <1>2 DEF TypeOK, RSwitch, RGoto, rFrame
  <2>2. Budget' /\ Rested' /\ Follows'
    BY <1>t, <1>2 DEF TypeOK, Budget, Rested, Follows, One, Hasty, InForce, DefPeriod, RSwitch, RGoto, rFrame
  <2> QED
    BY <2>1, <2>2 DEF IInv
<1>3. CASE RPeriod
  <2>1. TypeOK'
    BY <1>t, <1>3 DEF TypeOK, RPeriod, RGoto, rFrame
  <2>2. Budget' /\ Rested' /\ Follows'
    BY <1>t, <1>3 DEF TypeOK, Budget, Rested, Follows, One, Hasty, RPeriod, RGoto, rFrame
  <2> QED
    BY <2>1, <2>2 DEF IInv
<1>4. CASE RNotify
  <2>1. TypeOK'
    BY <1>t, <1>4 DEF TypeOK, RNotify, RGoto, rFrame, NoArg
  <2>2. Budget' /\ Rested' /\ Follows'
    BY <1>t, <1>4 DEF TypeOK, Budget, Rested, Follows, One, Hasty, RNotify, RGoto, rFrame
  <2> QED
    BY <2>1, <2>2 DEF IInv
<1> QED
  BY <1>1, <1>2, <1>3, <1>4 DEF R

\* Time passes.
LEMMA TickKeeps ==
  ASSUME IInv, Tick
  PROVE  IInv'
<1> USE DhtAssumption DEF DhtAssumption
<1>t. TypeOK /\ Budget /\ Rested /\ Follows
  BY DEF IInv
<1>1. TypeOK'
  BY <1>t DEF TypeOK, Tick, router
<1>2. Budget'
  BY <1>t DEF TypeOK, Budget, One, Hasty, Tick, router
<1>3. Rested'
  BY <1>t DEF TypeOK, Rested, Tick
<1>4. InForce(period)' = InForce(period) /\ InForce(period) \in Nat
  BY <1>t, InForceBound DEF TypeOK, InForce, Tick
<1>5. Follows'
  BY <1>t, <1>4 DEF TypeOK, Follows, Tick, router
<1> QED
  BY <1>1, <1>2, <1>3, <1>5 DEF IInv

\* The invariant, of every behaviour.
LEMMA Inductive == Spec => []IInv
<1>1. Init => IInv
  BY InitHolds
<1>2. IInv /\ [Next]_vars => IInv'
  <2> SUFFICES ASSUME IInv, [Next]_vars PROVE IInv'
    OBVIOUS
  <2>1. CASE UNCHANGED vars
    BY <2>1 DEF IInv, TypeOK, Budget, Rested, Follows, One, Hasty, InForce, DefPeriod, vars, router, hist
  <2> QED
    BY <2>1, SamplerKeeps, RouterKeeps, TickKeeps DEF Next
<1> QED
  BY <1>1, <1>2, PTL DEF Spec

\* The sampler's types, for all periods and intervals and any number of commands.
THEOREM SamplerTyped == Spec => []TypeOK
<1>1. IInv => TypeOK
  BY DEF IInv
<1> QED
  BY <1>1, Inductive, PTL

\* A transaction comes too early at most once for each command, for all periods and
\* intervals and any number of commands.
THEOREM SamplerPaced == Spec => []Paced
<1>1. IInv => Paced
  BY DEF IInv, TypeOK, Budget, Paced, One
<1> QED
  BY <1>1, Inductive, PTL

\* The sampler never sleeps on a period longer than the one asked for last, for all
\* periods and intervals and any number of commands.
THEOREM SamplerFollows == Spec => []PeriodInForce
<1>1. IInv => PeriodInForce
  BY DEF IInv, Follows, PeriodInForce
<1> QED
  BY <1>1, Inductive, PTL
-----------------------------------------------------------------------------
(***************************************************************************)
(* The transaction: what the eight pulses of a byte say, and that the      *)
(* checksum finds out the one byte a disturbed pulse has changed.          *)
(***************************************************************************)
\* A byte out of its bits, the most significant first.
Composed(d) == 128 * d[1] + 64 * d[2] + 32 * d[3] + 16 * d[4]
               + 8 * d[5] + 4 * d[6] + 2 * d[7] + d[8]

\* What a pulse shifts in.
BitOf(width) == IF width > Threshold THEN 1 ELSE 0

LEMMA BitIsBit ==
  ASSUME NEW x \in Int, NEW n \in 1..8
  PROVE  Bit(x, n) \in {0, 1}
<1>1. Weight[n] \in {128, 64, 32, 16, 8, 4, 2, 1}
  BY DEF Weight
<1>2. x \div Weight[n] \in Int
  BY <1>1
<1> QED
  BY <1>2 DEF Bit

BitsOf(b) == [n \in 1..8 |-> Bit(b, n)]

LEMMA BitsComposeByte ==
  ASSUME NEW b \in 0..255
  PROVE  Composed(BitsOf(b)) = b
<1>1. /\ Weight[1] = 128 /\ Weight[2] = 64 /\ Weight[3] = 32 /\ Weight[4] = 16
      /\ Weight[5] = 8 /\ Weight[6] = 4 /\ Weight[7] = 2 /\ Weight[8] = 1
  BY DEF Weight
<1>2. Composed(BitsOf(b)) =
        128 * Bit(b, 1) + 64 * Bit(b, 2) + 32 * Bit(b, 3) + 16 * Bit(b, 4)
        + 8 * Bit(b, 5) + 4 * Bit(b, 6) + 2 * Bit(b, 7) + Bit(b, 8)
  BY DEF Composed, BitsOf
<1>3. /\ Bit(b, 1) = (b \div 128) % 2 /\ Bit(b, 2) = (b \div 64) % 2
      /\ Bit(b, 3) = (b \div 32) % 2 /\ Bit(b, 4) = (b \div 16) % 2
      /\ Bit(b, 5) = (b \div 8) % 2 /\ Bit(b, 6) = (b \div 4) % 2
      /\ Bit(b, 7) = (b \div 2) % 2 /\ Bit(b, 8) = (b \div 1) % 2
  BY <1>1 DEF Bit
<1>4. 128 * ((b \div 128) % 2) + 64 * ((b \div 64) % 2) + 32 * ((b \div 32) % 2)
        + 16 * ((b \div 16) % 2) + 8 * ((b \div 8) % 2) + 4 * ((b \div 4) % 2)
        + 2 * ((b \div 2) % 2) + ((b \div 1) % 2) = b
  OBVIOUS
<1> QED
  BY <1>2, <1>3, <1>4

LEMMA BitShifted ==
  ASSUME NEW x \in 0..127, NEW w
  PROVE  ShiftIn(x, w) = 2 * x + BitOf(w) /\ BitOf(w) \in {0, 1}
  BY DEF ShiftIn, BitOf

\* Eight pulses shifted in, one after the other.
LEMMA EightShifts ==
  ASSUME NEW f, NEW w, f[0] = 0, \A n \in 1..8 : f[n] = ShiftIn(f[n - 1], w[n])
  PROVE  f[8] = Composed([n \in 1..8 |-> BitOf(w[n])])
<1>1. f[1] = BitOf(w[1]) /\ f[1] \in 0..1
  <2>1. f[1] = ShiftIn(0, w[1])
    OBVIOUS
  <2> QED
    BY <2>1, BitShifted
<1>2. f[2] = 2 * f[1] + BitOf(w[2]) /\ f[2] \in 0..3
  BY <1>1, BitShifted
<1>3. f[3] = 2 * f[2] + BitOf(w[3]) /\ f[3] \in 0..7
  BY <1>2, BitShifted
<1>4. f[4] = 2 * f[3] + BitOf(w[4]) /\ f[4] \in 0..15
  BY <1>3, BitShifted
<1>5. f[5] = 2 * f[4] + BitOf(w[5]) /\ f[5] \in 0..31
  BY <1>4, BitShifted
<1>6. f[6] = 2 * f[5] + BitOf(w[6]) /\ f[6] \in 0..63
  BY <1>5, BitShifted
<1>7. f[7] = 2 * f[6] + BitOf(w[7]) /\ f[7] \in 0..127
  BY <1>6, BitShifted
<1>8. f[8] = 2 * f[7] + BitOf(w[8])
  BY <1>7, BitShifted
<1>9. /\ BitOf(w[1]) \in Int /\ BitOf(w[2]) \in Int /\ BitOf(w[3]) \in Int /\ BitOf(w[4]) \in Int
      /\ BitOf(w[5]) \in Int /\ BitOf(w[6]) \in Int /\ BitOf(w[7]) \in Int /\ BitOf(w[8]) \in Int
  BY DEF BitOf
<1>10. f[8] = 128 * BitOf(w[1]) + 64 * BitOf(w[2]) + 32 * BitOf(w[3]) + 16 * BitOf(w[4])
              + 8 * BitOf(w[5]) + 4 * BitOf(w[6]) + 2 * BitOf(w[7]) + BitOf(w[8])
  <2>1. f[4] = 8 * BitOf(w[1]) + 4 * BitOf(w[2]) + 2 * BitOf(w[3]) + BitOf(w[4])
    BY <1>1, <1>2, <1>3, <1>4, <1>9
  <2>2. f[6] = 4 * f[4] + 2 * BitOf(w[5]) + BitOf(w[6])
    BY <1>4, <1>5, <1>6, <1>9
  <2>3. f[8] = 4 * f[6] + 2 * BitOf(w[7]) + BitOf(w[8])
    BY <1>6, <1>7, <1>8, <1>9
  <2>4. f[4] \in Int /\ f[6] \in Int
    BY <1>4, <1>6
  <2> QED
    BY <2>1, <2>2, <2>3, <2>4, <1>9
<1> QED
  BY <1>10 DEF Composed

\* The recursion of ByteOf has a solution.
LEMMA ShiftsExist ==
  ASSUME NEW w
  PROVE  \E f : f = [n \in 0..8 |-> IF n = 0 THEN 0 ELSE ShiftIn(f[n - 1], w[n])]
<1>1. PICK x1 : x1 = ShiftIn(0, w[1])
  OBVIOUS
<1>2. PICK x2 : x2 = ShiftIn(x1, w[2])
  OBVIOUS
<1>3. PICK x3 : x3 = ShiftIn(x2, w[3])
  OBVIOUS
<1>4. PICK x4 : x4 = ShiftIn(x3, w[4])
  OBVIOUS
<1>5. PICK x5 : x5 = ShiftIn(x4, w[5])
  OBVIOUS
<1>6. PICK x6 : x6 = ShiftIn(x5, w[6])
  OBVIOUS
<1>7. PICK x7 : x7 = ShiftIn(x6, w[7])
  OBVIOUS
<1>8. PICK x8 : x8 = ShiftIn(x7, w[8])
  OBVIOUS
<1> DEFINE v == <<x1, x2, x3, x4, x5, x6, x7, x8>>
           g == [n \in 0..8 |-> IF n = 0 THEN 0 ELSE v[n]]
<1>9. /\ g[0] = 0 /\ g[1] = x1 /\ g[2] = x2 /\ g[3] = x3 /\ g[4] = x4
      /\ g[5] = x5 /\ g[6] = x6 /\ g[7] = x7 /\ g[8] = x8
  OBVIOUS
<1>10. g = [n \in 0..8 |-> IF n = 0 THEN 0 ELSE v[n]]
  OBVIOUS
<1> HIDE DEF g
<1>11. ASSUME NEW n \in 1..8
       PROVE  v[n] = ShiftIn(g[n - 1], w[n])
  <2>1. n = 1 \/ n = 2 \/ n = 3 \/ n = 4 \/ n = 5 \/ n = 6 \/ n = 7 \/ n = 8
    OBVIOUS
  <2> QED
    BY <1>1, <1>2, <1>3, <1>4, <1>5, <1>6, <1>7, <1>8, <1>9, <2>1
<1> HIDE DEF v
<1>12. g = [n \in 0..8 |-> IF n = 0 THEN 0 ELSE ShiftIn(g[n - 1], w[n])]
  BY <1>10, <1>11
<1> QED
  BY <1>12

LEMMA ByteRead ==
  ASSUME NEW pulses, NEW k \in 1..5
  PROVE  ByteOf(pulses, k) = Composed([n \in 1..8 |-> BitOf(pulses[8 * (k - 1) + n])])
<1> DEFINE w == [n \in 1..8 |-> pulses[8 * (k - 1) + n]]
           Shifts(f) == f = [n \in 0..8 |-> IF n = 0 THEN 0 ELSE ShiftIn(f[n - 1], pulses[8 * (k - 1) + n])]
           s == CHOOSE f : Shifts(f)
<1>1. \E f : Shifts(f)
  <2>1. PICK f : f = [n \in 0..8 |-> IF n = 0 THEN 0 ELSE ShiftIn(f[n - 1], w[n])]
    BY ShiftsExist
  <2>2. Shifts(f)
    BY <2>1
  <2> QED
    BY <2>2
<1>2. Shifts(s)
  BY <1>1
<1>3. ByteOf(pulses, k) = s[8]
  BY DEF ByteOf
<1> HIDE DEF s
<1>4. s[0] = 0 /\ \A n \in 1..8 : s[n] = ShiftIn(s[n - 1], w[n])
  BY <1>2
<1> HIDE DEF w
<1>5. s[8] = Composed([n \in 1..8 |-> BitOf(w[n])])
  BY <1>4, EightShifts
<1> QED
  BY <1>3, <1>5 DEF w

-----------------------------------------------------------------------------
\* What the sensor sends for bit n of byte k, and what noise makes of it.
LEMMA PulseRead ==
  ASSUME NEW m \in [rh : 20..90, t : 0..50], NEW i \in 0..40, NEW k \in 1..5, NEW n \in 1..8
  PROVE  BitOf(Disturbed(PulsesOf(FrameOf(m)), i)[8 * (k - 1) + n]) =
           IF 8 * (k - 1) + n = i THEN 1 - Bit(FrameOf(m)[k], n) ELSE Bit(FrameOf(m)[k], n)
<1> DEFINE j == 8 * (k - 1) + n
           p == PulsesOf(FrameOf(m))
           b == Bit(FrameOf(m)[k], n)
<1>1. j \in 1..40 /\ 1 + ((j - 1) \div 8) = k /\ 1 + ((j - 1) % 8) = n
  OBVIOUS
<1>2. p[j] = IF b = 1 THEN 70 ELSE 26
  BY <1>1 DEF PulsesOf
<1>3. b \in {0, 1}
  <2>1. FrameOf(m)[k] \in Int
    BY DEF FrameOf
  <2> QED
    BY <2>1, BitIsBit
<1>4. Disturbed(p, i)[j] = IF j = i THEN 96 - p[j] ELSE p[j]
  BY <1>1 DEF Disturbed
<1> HIDE DEF j, p, b
<1>5. BitOf(Disturbed(p, i)[j]) = IF j = i THEN 1 - b ELSE b
  BY <1>2, <1>3, <1>4 DEF BitOf, Threshold
<1> QED
  BY <1>5 DEF j, p, b

LEMMA FrameBytes ==
  ASSUME NEW m \in [rh : 20..90, t : 0..50]
  PROVE  LET f == FrameOf(m)
         IN  /\ \A k \in 1..5 : f[k] \in 0..255
             /\ f[1] = m.rh /\ f[2] = 0 /\ f[3] = m.t /\ f[4] = 0 /\ f[5] = m.rh + m.t
  BY DEF FrameOf

LEMMA FrameBits ==
  ASSUME NEW m \in [rh : 20..90, t : 0..50], NEW k \in 1..5
  PROVE  Composed(BitsOf(FrameOf(m)[k])) = FrameOf(m)[k]
<1>1. FrameOf(m)[k] \in 0..255
  BY FrameBytes
<1> QED
  BY <1>1, BitsComposeByte

\* One bit the other way makes another byte.
LEMMA BitFlipped ==
  ASSUME NEW b, NEW d, NEW c \in 1..8, \A n \in 1..8 : b[n] \in {0, 1},
         \A n \in 1..8 : d[n] = IF n = c THEN 1 - b[n] ELSE b[n]
  PROVE  Composed(d) # Composed(b) /\ Composed(d) \in 0..255
<1>1. /\ b[1] \in {0, 1} /\ b[2] \in {0, 1} /\ b[3] \in {0, 1} /\ b[4] \in {0, 1}
      /\ b[5] \in {0, 1} /\ b[6] \in {0, 1} /\ b[7] \in {0, 1} /\ b[8] \in {0, 1}
  OBVIOUS
<1>2. /\ d[1] = (IF 1 = c THEN 1 - b[1] ELSE b[1]) /\ d[2] = (IF 2 = c THEN 1 - b[2] ELSE b[2])
      /\ d[3] = (IF 3 = c THEN 1 - b[3] ELSE b[3]) /\ d[4] = (IF 4 = c THEN 1 - b[4] ELSE b[4])
      /\ d[5] = (IF 5 = c THEN 1 - b[5] ELSE b[5]) /\ d[6] = (IF 6 = c THEN 1 - b[6] ELSE b[6])
      /\ d[7] = (IF 7 = c THEN 1 - b[7] ELSE b[7]) /\ d[8] = (IF 8 = c THEN 1 - b[8] ELSE b[8])
  OBVIOUS
<1>3. c = 1 \/ c = 2 \/ c = 3 \/ c = 4 \/ c = 5 \/ c = 6 \/ c = 7 \/ c = 8
  OBVIOUS
<1> QED
  BY <1>1, <1>2, <1>3 DEF Composed

\* The bytes that were sent, but for the one the noise hit.
LEMMA BytesRead ==
  ASSUME NEW m \in [rh : 20..90, t : 0..50], NEW i \in 0..40, NEW k \in 1..5
  PROVE  LET out == ByteOf(Disturbed(PulsesOf(FrameOf(m)), i), k)
         IN  IF i \in (8 * (k - 1) + 1)..(8 * k)
             THEN out # FrameOf(m)[k] /\ out \in 0..255
             ELSE out = FrameOf(m)[k]
<1> DEFINE q == Disturbed(PulsesOf(FrameOf(m)), i)
           byte == FrameOf(m)[k]
           b == BitsOf(byte)
           d == [n \in 1..8 |-> BitOf(q[8 * (k - 1) + n])]
<1>1. ByteOf(q, k) = Composed(d) /\ Composed(b) = byte
  <2>1. ByteOf(q, k) = Composed(d)
    BY ByteRead
  <2>2. Composed(b) = byte
    BY FrameBits, Zenon
  <2> QED
    BY <2>1, <2>2
<1>2. \A n \in 1..8 : b[n] \in {0, 1}
  <2>1. byte \in Int
    BY FrameBytes
  <2> QED
    BY <2>1, BitIsBit DEF BitsOf
<1>3. \A n \in 1..8 : d[n] = IF 8 * (k - 1) + n = i THEN 1 - b[n] ELSE b[n]
  <2> TAKE n \in 1..8
  <2>1. b[n] = Bit(byte, n) /\ d[n] = BitOf(q[8 * (k - 1) + n])
    BY DEF BitsOf
  <2>2. BitOf(q[8 * (k - 1) + n]) = IF 8 * (k - 1) + n = i THEN 1 - Bit(byte, n) ELSE Bit(byte, n)
    BY PulseRead, ZenonT(60)
  <2> QED
    BY <2>1, <2>2, Zenon
<1> HIDE DEF q, byte
<1>4. CASE i \in (8 * (k - 1) + 1)..(8 * k)
  <2>1. PICK c \in 1..8 : i = 8 * (k - 1) + c
    <3>1. i - 8 * (k - 1) \in 1..8 /\ i = 8 * (k - 1) + (i - 8 * (k - 1))
      BY <1>4
    <3> QED
      BY <3>1
  <2>2. \A n \in 1..8 : d[n] = IF n = c THEN 1 - b[n] ELSE b[n]
    BY <1>3, <2>1
  <2> HIDE DEF b, d
  <2>3. Composed(d) # Composed(b) /\ Composed(d) \in 0..255
    BY <1>2, <2>2, BitFlipped
  <2> QED
    BY <1>1, <1>4, <2>3 DEF q, byte
<1>5. CASE i \notin (8 * (k - 1) + 1)..(8 * k)
  <2>1. \A n \in 1..8 : d[n] = b[n]
    BY <1>3, <1>5
  <2>2. d = b
    BY <2>1 DEF BitsOf
  <2> HIDE DEF b, d
  <2> QED
    BY <1>1, <1>5, <2>2 DEF q, byte
<1> QED
  BY <1>4, <1>5

\* The sum modulo 256 gives the one unknown byte away.
LEMMA SumTells ==
  ASSUME NEW x \in 0..255, NEW y \in 0..90, NEW r \in 0..90, (x + y) % 256 = r + y
  PROVE  x = r
<1>1. PICK z \in 0..345 : z = x + y
  OBVIOUS
<1>2. z % 256 = r + y
  BY <1>1
<1>3. CASE z < 256
  <2>1. z % 256 = z
    BY <1>3
  <2> QED
    BY <1>1, <1>2, <2>1
<1>4. CASE z >= 256
  <2>1. z % 256 = z - 256
    BY <1>4
  <2> QED
    BY <1>1, <1>2, <2>1
<1> QED
  BY <1>3, <1>4

\* The checksum finds out one byte that is wrong.
LEMMA ChecksumCatches ==
  ASSUME NEW m \in [rh : 20..90, t : 0..50], NEW i \in 0..40
  PROVE  LET raw == RawBytes(Disturbed(PulsesOf(FrameOf(m)), i))
         IN  raw.ok => raw.out[1] = m.rh /\ raw.out[3] = m.t
<1> DEFINE q == Disturbed(PulsesOf(FrameOf(m)), i)
           o(k) == ByteOf(q, k)
           Hit(k) == i \in (8 * (k - 1) + 1)..(8 * k)
           f == FrameOf(m)
<1>1. \A k \in 1..5 : IF Hit(k) THEN o(k) # f[k] /\ o(k) \in 0..255 ELSE o(k) = f[k]
  BY BytesRead
<1>2. /\ f[1] = m.rh /\ f[2] = 0 /\ f[3] = m.t /\ f[4] = 0 /\ f[5] = m.rh + m.t
      /\ m.rh \in 20..90 /\ m.t \in 0..50
  BY FrameBytes
<1>3. \A j, k \in 1..5 : Hit(j) /\ Hit(k) => j = k
  OBVIOUS
<1>4. RawBytes(q).ok <=> (o(1) + o(2) + o(3) + o(4)) % 256 = o(5)
  <2> DEFINE out == [k \in 1..5 |-> ByteOf(q, k)]
  <2>1. RawBytes(q).ok <=> (out[1] + out[2] + out[3] + out[4]) % 256 = out[5]
    BY Zenon DEF RawBytes
  <2>2. out[1] = o(1) /\ out[2] = o(2) /\ out[3] = o(3) /\ out[4] = o(4) /\ out[5] = o(5)
    OBVIOUS
  <2> HIDE DEF out
  <2> QED
    BY <2>1, <2>2
<1>5. RawBytes(q).out[1] = o(1) /\ RawBytes(q).out[3] = o(3)
  BY DEF RawBytes
<1> HIDE DEF q, o, Hit, f
<1>6. ASSUME (o(1) + o(2) + o(3) + o(4)) % 256 = o(5)
      PROVE  o(1) = m.rh /\ o(3) = m.t
  <2>1. CASE Hit(1)
    <3>1. o(1) \in 0..255 /\ o(2) = 0 /\ o(3) = m.t /\ o(4) = 0 /\ o(5) = m.rh + m.t
      BY <1>1, <1>2, <1>3, <2>1
    <3>2. (o(1) + m.t) % 256 = m.rh + m.t
      <4>1. o(1) + o(2) + o(3) + o(4) = o(1) + m.t
        BY <1>2, <3>1, SMTT(30)
      <4> QED
        BY <1>6, <3>1, <4>1
    <3>3. PICK x \in 0..255, y \in 0..90, r \in 0..90 : x = o(1) /\ y = m.t /\ r = m.rh
      <4>1. o(1) \in 0..255
        BY <3>1, Zenon
      <4>2. m.rh \in 0..90 /\ m.t \in 0..90
        BY <1>2
      <4> QED
        BY <4>1, <4>2, Zenon
    <3>4. (x + y) % 256 = r + y
      BY <3>2, <3>3
    <3>5. x = r
      BY <3>4, SumTells, ZenonT(90)
    <3> QED
      BY <3>1, <3>3, <3>5
  <2>2. CASE Hit(3)
    <3>1. o(1) = m.rh /\ o(2) = 0 /\ o(3) \in 0..255 /\ o(4) = 0 /\ o(5) = m.rh + m.t
      BY <1>1, <1>2, <1>3, <2>2
    <3>2. (o(3) + m.rh) % 256 = m.rh + m.t
      <4>1. o(1) + o(2) + o(3) + o(4) = o(3) + m.rh
        BY <1>2, <3>1, SMTT(30)
      <4> QED
        BY <1>6, <3>1, <4>1
    <3>3. PICK x \in 0..255, y \in 0..90, r \in 0..90 : x = o(3) /\ y = m.rh /\ r = m.t
      <4>1. o(3) \in 0..255
        BY <3>1, Zenon
      <4>2. m.rh \in 0..90 /\ m.t \in 0..90
        BY <1>2
      <4> QED
        BY <4>1, <4>2, Zenon
    <3>4. (x + y) % 256 = r + y
      BY <3>2, <3>3
    <3>5. x = r
      BY <3>4, SumTells, ZenonT(90)
    <3> QED
      BY <3>1, <3>3, <3>5
  <2>3. CASE ~Hit(1) /\ ~Hit(3)
    BY <1>1, <1>2, <2>3
  <2> QED
    BY <2>1, <2>2, <2>3
<1> QED
  BY <1>4, <1>5, <1>6 DEF q

-----------------------------------------------------------------------------
\* An outcome that is valid is what was measured.
LEMMA OutcomesAreTrue ==
  ASSUME NEW o \in Outcomes, o.got.valid
  PROVE  o.got = o.true
<1>1. PICK m \in Measured, i \in Noise :
        o = [got  |-> SampleOf(RawBytes(Disturbed(PulsesOf(FrameOf(m)), i))),
             true |-> [valid |-> TRUE, rh |-> m.rh, t |-> m.t]]
  BY DEF Outcomes
<1>2. m \in [rh : 20..90, t : 0..50] /\ i \in 0..40
  BY DhtAssumption DEF DhtAssumption
<1>3. PICK raw : raw = RawBytes(Disturbed(PulsesOf(FrameOf(m)), i))
  OBVIOUS
<1>4. o.got = SampleOf(raw) /\ o.true = [valid |-> TRUE, rh |-> m.rh, t |-> m.t]
  BY <1>1, <1>3
<1>5. raw.ok
  BY <1>4 DEF SampleOf, NoSample
<1>6. raw.out[1] = m.rh /\ raw.out[3] = m.t
  BY <1>2, <1>3, <1>5, ChecksumCatches
<1>7. Reading(raw.out).rh = m.rh /\ Reading(raw.out).t = m.t
  BY <1>2, <1>6 DEF Reading, Within
<1> QED
  BY <1>4, <1>5, <1>7 DEF SampleOf

\* What dht_sampler_task offers as valid is what the sensor measured, whatever it
\* measured and whichever pulse is disturbed.
THEOREM SampleIsTrue == Spec => []SampleIsMeasured
<1>1. Init => SampleIsMeasured
  BY DEF Init, SampleIsMeasured, NoSample
<1>2. SampleIsMeasured /\ [Next]_vars => SampleIsMeasured'
  <2> SUFFICES ASSUME SampleIsMeasured, [Next]_vars PROVE SampleIsMeasured'
    OBVIOUS
  <2>1. CASE SRead
    BY <2>1, OutcomesAreTrue DEF SRead, SampleIsMeasured
  <2>2. CASE UNCHANGED <<sample, actual>>
    BY <2>2 DEF SampleIsMeasured
  <2>3. SRead \/ UNCHANGED <<sample, actual>>
    BY DEF Next, S, SCheck, STake, STimeout, SLoad, R, RCommand, RSwitch, RPeriod, RNotify,
           rFrame, Tick, vars, hist
  <2> QED
    BY <2>1, <2>2, <2>3
<1> QED
  BY <1>1, <1>2, PTL DEF Spec
=============================================================================
