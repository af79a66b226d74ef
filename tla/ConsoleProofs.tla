---------------------------- MODULE ConsoleProofs ----------------------------
(***************************************************************************)
(* Proofs about Console: types and the line buffer's bound, the lines      *)
(* dispatched are the lines sent, what is flashed is the payload.  The     *)
(* invariant says what the bytes between the host and the task mean: while *)
(* lines are read they are the rest of the lines sent (Wire), while a      *)
(* transfer is under way they are the rest of the payload (Taking), and    *)
(* after it there are none (Over).                                         *)
(*                                                                         *)
(* Facts about the operators of sequences come first; what needs induction *)
(* over the length of an input is shown by its least counterexample.       *)
(***************************************************************************)
EXTENDS Console, SequenceTheorems, WellFoundedInduction, TLAPS

(***************************************************************************)
(* Least counterexamples, which stand in for induction.                    *)
(***************************************************************************)
LEMMA LeastNat ==
  ASSUME NEW T, T \subseteq Nat, T # {}
  PROVE  \E x \in T : \A y \in T : x <= y
<1>1. PICK x \in T : \A y \in T : <<y, x>> \notin OpToRel(<, Nat)
  BY NatLessThanWellFounded, WFMin
<1>2. \A y \in T : ~(y < x)
  BY <1>1 DEF OpToRel
<1> QED
  BY <1>2

LEMMA PrefixMeans ==
  ASSUME NEW s \in Seq(Bytes), NEW t \in Seq(Bytes)
  PROVE  IsPrefix(s, t) <=> Len(s) <= Len(t) /\ \A j \in 1..Len(s) : s[j] = t[j]
<1>1. SubSeq(s, 1, Len(s)) = s
  OBVIOUS
<1>2. ASSUME Len(s) <= Len(t)
      PROVE  s = SubSeq(t, 1, Len(s)) <=> \A j \in 1..Len(s) : s[j] = t[j]
  <2> DEFINE u == SubSeq(t, 1, Len(s))
  <2>1. u \in Seq(Bytes) /\ Len(u) = Len(s) /\ \A j \in 1..Len(s) : u[j] = t[j]
    BY <1>2
  <2> HIDE DEF u
  <2>2. s = u <=> \A j \in 1..Len(s) : s[j] = u[j]
    BY <2>1, SeqEqual
  <2> QED
    BY <2>1, <2>2 DEF u
<1> QED
  BY <1>1, <1>2 DEF IsPrefix

LEMMA PrefixOfPrefix ==
  ASSUME NEW s \in Seq(Bytes), NEW t \in Seq(Bytes), NEW u \in Seq(Bytes),
         IsPrefix(s, t), IsPrefix(t, u)
  PROVE  IsPrefix(s, u)
<1>1. Len(s) <= Len(u) /\ \A j \in 1..Len(s) : s[j] = t[j] /\ t[j] = u[j]
  BY PrefixMeans
<1> QED
  BY <1>1, PrefixMeans

LEMMA MinOfTwo ==
  ASSUME NEW x \in Int, NEW y \in Int
  PROVE  /\ x <= y => Min({x, y}) = x
         /\ y <= x => Min({x, y}) = y
  BY DEF Min

-----------------------------------------------------------------------------
(***************************************************************************)
(* The line buffer: Filled copies one byte at a time.                      *)
(***************************************************************************)
Runs(f, l, s, m) == f = [n \in 0..m |-> IF n = 0 THEN l ELSE Put(f[n - 1], s[n])]

Copies(f, l, s) == Runs(f, l, s, Len(s))

LEMMA CopyExists ==
  ASSUME NEW l, NEW s
  PROVE  \A m \in Nat : \E f : Runs(f, l, s, m)
<1> DEFINE T == {m \in Nat : ~\E f : Runs(f, l, s, m)}
<1> SUFFICES ASSUME T # {} PROVE FALSE
  OBVIOUS
<1>1. PICK x \in T : \A y \in T : x <= y
  BY LeastNat
<1>2. CASE x = 0
  <2> DEFINE f == [n \in 0..0 |-> l]
  <2>1. Runs(f, l, s, 0)
    BY DEF Runs
  <2> QED
    BY <1>2, <2>1
<1>3. CASE x > 0
  <2>1. x - 1 \in Nat /\ x - 1 \notin T
    BY <1>1, <1>3
  <2>2. PICK g : Runs(g, l, s, x - 1)
    BY <2>1
  <2> DEFINE f == [n \in 0..x |-> IF n = x THEN Put(g[x - 1], s[x]) ELSE g[n]]
  <2>3. \A n \in 0..(x - 1) : f[n] = g[n]
    BY <1>3
  <2>4. ASSUME NEW n \in 0..x
        PROVE  f[n] = IF n = 0 THEN l ELSE Put(f[n - 1], s[n])
    <3>1. CASE n = x
      BY <1>3, <2>3, <3>1
    <3>2. CASE n < x
      <4>1. f[n] = g[n] /\ (n > 0 => f[n - 1] = g[n - 1])
        BY <2>3, <3>2
      <4>2. g[n] = IF n = 0 THEN l ELSE Put(g[n - 1], s[n])
        BY <2>2, <3>2 DEF Runs
      <4> QED
        BY <4>1, <4>2
    <3> QED
      BY <3>1, <3>2
  <2>5. f = [n \in 0..x |-> f[n]]
    OBVIOUS
  <2> HIDE DEF f
  <2>6. Runs(f, l, s, x)
    BY <2>4, <2>5 DEF Runs
  <2> QED
    BY <2>6
<1> QED
  BY <1>2, <1>3

LEMMA FilledCopies ==
  ASSUME NEW l, NEW s, Len(s) \in Nat
  PROVE  \E f : Copies(f, l, s) /\ Filled(l, s) = f[Len(s)]
<1> DEFINE f == CHOOSE g : Copies(g, l, s)
<1>1. \E g : Copies(g, l, s)
  BY CopyExists DEF Copies
<1>2. Copies(f, l, s)
  BY <1>1
<1>3. Filled(l, s) = f[Len(s)]
  BY DEF Filled, Copies, Runs
<1> QED
  BY <1>2, <1>3

\* Two runs of the copy agree as far as their input does.
LEMMA CopiesAgree ==
  ASSUME NEW l, NEW s, NEW t, NEW f, NEW g, Copies(f, l, s), Copies(g, l, t),
         Len(s) \in Nat, Len(t) \in Nat, NEW m \in Nat, m <= Len(s), m <= Len(t),
         \A n \in 1..m : s[n] = t[n]
  PROVE  f[m] = g[m]
<1> DEFINE T == {n \in 0..m : f[n] # g[n]}
<1> SUFFICES ASSUME T # {} PROVE FALSE
  OBVIOUS
<1>1. PICK x \in T : \A y \in T : x <= y
  <2>1. T \subseteq Nat
    OBVIOUS
  <2> HIDE DEF T
  <2> QED
    BY <2>1, LeastNat
<1>2. CASE x = 0
  BY <1>2 DEF Copies, Runs
<1>3. CASE x > 0
  <2>1. x - 1 \in 0..m /\ f[x - 1] = g[x - 1]
    BY <1>1, <1>3
  <2>2. f[x] = Put(f[x - 1], s[x]) /\ g[x] = Put(g[x - 1], t[x])
    BY <1>3, SMTT(30) DEF Copies, Runs
  <2> QED
    BY <1>3, <2>1, <2>2
<1> QED
  BY <1>2, <1>3

LEMMA FilledNothing ==
  ASSUME NEW l
  PROVE  Filled(l, <<>>) = l
<1>1. PICK f : Copies(f, l, <<>>) /\ Filled(l, <<>>) = f[0]
  BY FilledCopies
<1> QED
  BY <1>1 DEF Copies, Runs

LEMMA FilledAppend ==
  ASSUME NEW l, NEW s \in Seq(Bytes), NEW c \in Bytes
  PROVE  Filled(l, Append(s, c)) = Put(Filled(l, s), c)
<1> DEFINE t == Append(s, c)
<1>1. t \in Seq(Bytes) /\ Len(t) = Len(s) + 1 /\ t[Len(s) + 1] = c
        /\ \A n \in 1..Len(s) : t[n] = s[n]
  OBVIOUS
<1> HIDE DEF t
<1>2. PICK f : Copies(f, l, s) /\ Filled(l, s) = f[Len(s)]
  BY FilledCopies
<1>3. PICK g : Copies(g, l, t) /\ Filled(l, t) = g[Len(t)]
  BY <1>1, FilledCopies
<1>4. g[Len(s)] = f[Len(s)]
  <2>1. Len(s) \in Nat /\ Len(t) \in Nat /\ Len(s) <= Len(t)
    BY <1>1
  <2> QED
    BY <1>1, <1>2, <1>3, <2>1, CopiesAgree
<1>5. g[Len(t)] = Put(g[Len(s)], c)
  BY <1>1, <1>3 DEF Copies, Runs
<1> QED
  BY <1>2, <1>3, <1>4, <1>5 DEF t

LEMMA LastLetter ==
  ASSUME NEW s \in Seq(Bytes), s # <<>>
  PROVE  \E t \in Seq(Bytes), c \in Bytes : s = Append(t, c) /\ Len(t) = Len(s) - 1
<1>1. PICK t \in Seq(Bytes), c \in Bytes : s = Append(t, c)
  BY SequenceEmptyOrAppend
<1> QED
  BY <1>1

\* Cutting the input in two and copying the parts one after the other.
LEMMA FilledConcat ==
  ASSUME NEW l, NEW s \in Seq(Bytes), NEW u \in Seq(Bytes)
  PROVE  Filled(l, s \o u) = Filled(Filled(l, s), u)
<1> DEFINE Bad(n) == \E v \in Seq(Bytes) :
                       Len(v) = n /\ Filled(l, s \o v) # Filled(Filled(l, s), v)
           T == {n \in Nat : Bad(n)}
<1> SUFFICES ASSUME Filled(l, s \o u) # Filled(Filled(l, s), u) PROVE FALSE
  OBVIOUS
<1>1. Len(u) \in T
  OBVIOUS
<1>2. PICK x \in T : \A y \in T : x <= y
  BY <1>1, LeastNat
<1>3. PICK v \in Seq(Bytes) : Len(v) = x /\ Filled(l, s \o v) # Filled(Filled(l, s), v)
  BY <1>2
<1>4. CASE v = <<>>
  <2>1. s \o v = s
    BY <1>4
  <2> QED
    BY <1>3, <1>4, <2>1, FilledNothing
<1>5. CASE v # <<>>
  <2>1. PICK t \in Seq(Bytes), c \in Bytes : v = Append(t, c) /\ Len(t) = Len(v) - 1
    BY <1>5, LastLetter
  <2>2. Len(t) \in Nat /\ Len(t) \notin T
    BY <1>2, <1>3, <2>1
  <2>3. Filled(l, s \o t) = Filled(Filled(l, s), t)
    BY <2>2
  <2>4. s \o v = Append(s \o t, c) /\ s \o t \in Seq(Bytes)
    BY <2>1
  <2>5. Filled(l, s \o v) = Put(Filled(l, s \o t), c)
    BY <2>4, FilledAppend, ZenonT(60)
  <2>6. Filled(Filled(l, s), v) = Put(Filled(Filled(l, s), t), c)
    BY <2>1, FilledAppend
  <2> QED
    BY <1>3, <2>3, <2>5, <2>6
<1> QED
  BY <1>4, <1>5

LEMMA PutLonger ==
  ASSUME NEW l \in Seq(Bytes), Len(l) <= LineMax, NEW c \in Bytes
  PROVE  /\ Put(l, c) \in Seq(Bytes) /\ Len(Put(l, c)) <= LineMax
         /\ IsPrefix(l, Put(l, c))
<1>1. CASE c # "cr" /\ Len(l) < LineMax
  <2> DEFINE m == Append(l, c)
  <2>1. /\ m \in Seq(Bytes) /\ Len(m) = Len(l) + 1
        /\ \A j \in 1..Len(l) : m[j] = l[j]
    OBVIOUS
  <2>2. Put(l, c) = m
    BY <1>1 DEF Put
  <2> HIDE DEF m
  <2>3. IsPrefix(l, m)
    BY <2>1, PrefixMeans
  <2>4. Len(m) <= LineMax
    BY <1>1, <2>1, ConsoleAssumption DEF ConsoleAssumption
  <2> QED
    BY <2>1, <2>2, <2>3, <2>4
<1>2. CASE ~(c # "cr" /\ Len(l) < LineMax)
  <2>1. Put(l, c) = l
    BY <1>2 DEF Put
  <2> QED
    BY <2>1, PrefixMeans
<1> QED
  BY <1>1, <1>2

\* The buffer never overflows, and what is in it stays.
LEMMA FilledLonger ==
  ASSUME NEW l \in Seq(Bytes), Len(l) <= LineMax, NEW u \in Seq(Bytes)
  PROVE  /\ Filled(l, u) \in Seq(Bytes) /\ Len(Filled(l, u)) <= LineMax
         /\ IsPrefix(l, Filled(l, u))
<1> DEFINE Good(v) == /\ Filled(l, v) \in Seq(Bytes) /\ Len(Filled(l, v)) <= LineMax
                      /\ IsPrefix(l, Filled(l, v))
           Bad(n) == \E v \in Seq(Bytes) : Len(v) = n /\ ~Good(v)
           T == {n \in Nat : Bad(n)}
<1> SUFFICES ASSUME ~Good(u) PROVE FALSE
  OBVIOUS
<1>1. Len(u) \in T
  OBVIOUS
<1>2. PICK x \in T : \A y \in T : x <= y
  BY <1>1, LeastNat
<1>3. PICK v \in Seq(Bytes) : Len(v) = x /\ ~Good(v)
  BY <1>2
<1>4. CASE v = <<>>
  <2>1. IsPrefix(l, l)
    BY PrefixMeans
  <2> QED
    BY <1>3, <1>4, <2>1, FilledNothing
<1>5. CASE v # <<>>
  <2>1. PICK t \in Seq(Bytes), c \in Bytes : v = Append(t, c) /\ Len(t) = Len(v) - 1
    BY <1>5, LastLetter
  <2>2. Len(t) \in Nat /\ Len(t) \notin T
    BY <1>2, <1>3, <2>1
  <2>3. Good(t)
    BY <2>2
  <2>4. Filled(l, v) = Put(Filled(l, t), c)
    BY <2>1, FilledAppend
  <2> DEFINE y == Filled(l, t)
             z == Filled(l, v)
  <2>5. /\ z \in Seq(Bytes) /\ Len(z) <= LineMax /\ IsPrefix(y, z)
        /\ y \in Seq(Bytes) /\ IsPrefix(l, y)
    BY <2>3, <2>4, PutLonger
  <2> HIDE DEF y, z
  <2>6. IsPrefix(l, z)
    BY <2>5, PrefixOfPrefix
  <2> QED
    BY <1>3, <2>5, <2>6 DEF z
<1> QED
  BY <1>4, <1>5
-----------------------------------------------------------------------------
(***************************************************************************)
(* The invariant.                                                          *)
(***************************************************************************)
\* The last line dispatched was the OTA command.
Begun == executed # <<>> /\ IsOta(executed[Len(executed)])

\* text begins what the lines after the n-th look like on the wire, and is all of it
\* unless the connection has ended; line k stands behind off[k - 1].
Wire(text, n, a, ended, off) ==
  /\ off[n] = 0
  /\ \A k \in n+1..Len(a) : off[k] = off[k - 1] + Len(a[k]) + 1
  /\ \A k \in n..Len(a) : off[k] <= off[Len(a)]
  /\ Len(text) <= off[Len(a)] /\ (~ended => Len(text) = off[Len(a)])
  /\ \A k \in n+1..Len(a) : \A j \in 1..Len(a[k]) + 1 :
       off[k - 1] + j \in 1..Len(text) => text[off[k - 1] + j] = Append(a[k], "nl")[j]

\* The host: OTA is the last line it sends.
Hosting ==
  /\ gone <=> hpc = "closed"
  /\ \A i \in DOMAIN todo : Stripped(todo[i])
  /\ \A i \in DOMAIN asked : Stripped(asked[i])
  /\ \A i \in 1..Len(asked)-1 : ~IsOta(asked[i])
  /\ asked # <<>> /\ hpc \in {"idle", "reply"} => ~IsOta(asked[Len(asked)])
  /\ hpc \in {"idle", "reply", "ack"} => sent = 0

\* ACK comes from a transfer, and the payload follows ACK.
Acked ==
  /\ \A i \in DOMAIN back : back[i] = "ACK" => Begun
  /\ hpc \in {"payload", "verdict"} => Begun
  /\ Begun => Len(executed) = Len(asked) /\ hpc \notin {"idle", "reply"}

\* What has come of a line has no end of line in it.
Unended(r) == \A i \in 1..Len(r) : r[i] # "nl"

\* No OTA yet.  What has come of the line under way is r.
Reading ==
  \E r \in Seq(Bytes), off \in [Nat -> Int] :
    /\ line = Seen(r) /\ Unended(r)
    /\ Wire(r \o (chunk \o net), Len(executed), asked, gone, off)

Listening ==
  /\ dpc \in {"recv", "parse", "dispatch", "closed"} /\ ~timed
  /\ got = <<>> /\ flashed = <<>>
  /\ dpc # "closed" => \A i \in DOMAIN executed : executed[i] = Seen(asked[i])
  /\ dpc = "recv" => chunk = <<>>
  /\ dpc \in {"recv", "parse"} => ~flushing /\ Reading
  /\ dpc = "dispatch" /\ ~flushing =>
       /\ Len(executed) < Len(asked) /\ line = Seen(asked[Len(executed) + 1])
       /\ \E off \in [Nat -> Int] : Wire(chunk \o net, Len(executed) + 1, asked, gone, off)
  /\ dpc = "dispatch" /\ flushing =>
       /\ gone /\ net = <<>> /\ chunk = <<>>
       /\ line # <<>> => Len(executed) < Len(asked)
                         /\ IsPrefix(line, Seen(asked[Len(executed) + 1]))
  /\ dpc = "closed" => gone

\* The transfer under way: what is flashed, buffered and on its way is the payload.
Payload  == Image \o Tail4
Received == (flashed \o got) \o net

Taking ==
  /\ chunk = <<>> /\ line = <<>>
  /\ Len(got) <= Want /\ Len(flashed) <= Len(Image)
  /\ IsPrefix(Received, Payload)
  /\ hpc = "ack" => Received = <<>>
  /\ hpc = "payload" => Len(Received) = sent
  /\ dpc = "ota_ack" => /\ Received = <<>> /\ hpc \in {"ack", "closed"}
                        /\ \A i \in DOMAIN back : back[i] # "ACK"
  /\ dpc = "ota_begin" => flashed = <<>> /\ got = <<>>

\* After a transfer that was not given up nothing is left to read.
Over ==
  /\ dpc \in {"recv", "parse", "dispatch", "closed", "restart"}
  /\ net = <<>> /\ chunk = <<>> /\ line = <<>> /\ hpc \in {"verdict", "closed"}
  /\ got = <<>> /\ IsPrefix(flashed, Image)

InOrder == Len(executed) <= Len(asked) /\ \A i \in DOMAIN executed : Faithful(i)

Straight ==
  /\ InOrder /\ Acked
  /\ ~Begun => Listening
  /\ Begun /\ dpc \in {"ota_ack", "ota_begin", "ota_recv"} => Taking
  /\ Begun /\ dpc \notin {"ota_ack", "ota_begin", "ota_recv"} => Over

IInv == TypeOK /\ Hosting /\ (~astray => Straight)

\* What the line buffer holds of a whole line.
LEMMA SeenTypes ==
  ASSUME NEW s \in Seq(Bytes)
  PROVE  Seen(s) \in Seq(Bytes) /\ Len(Seen(s)) <= LineMax
<1>1. <<>> \in Seq(Bytes) /\ Len(<<>>) <= LineMax
  BY ConsoleAssumption DEF ConsoleAssumption
<1> QED
  BY <1>1, FilledLonger DEF Seen

\* A line that came in part is a beginning of the line.
LEMMA SeenPart ==
  ASSUME NEW s \in Seq(Bytes), NEW t \in Seq(Bytes), IsPrefix(s, t)
  PROVE  IsPrefix(Seen(s), Seen(t))
<1> DEFINE u == SubSeq(t, Len(s) + 1, Len(t))
<1>1. Len(s) <= Len(t) /\ \A j \in 1..Len(s) : s[j] = t[j]
  BY PrefixMeans
<1>2. /\ u \in Seq(Bytes) /\ Len(u) = Len(t) - Len(s)
      /\ \A j \in 1..Len(u) : u[j] = t[Len(s) + j]
  BY <1>1
<1> HIDE DEF u
<1>3. /\ s \o u \in Seq(Bytes) /\ Len(s \o u) = Len(t)
      /\ \A j \in 1..Len(t) : (s \o u)[j] = t[j]
  BY <1>1, <1>2
<1>4. s \o u = t
  BY <1>3, SeqEqual
<1>5. Seen(t) = Filled(Seen(s), u)
  BY <1>2, <1>4, FilledConcat DEF Seen
<1>6. Seen(s) \in Seq(Bytes) /\ Len(Seen(s)) <= LineMax
  BY SeenTypes
<1> QED
  BY <1>2, <1>5, <1>6, FilledLonger

\* The first letter of a line, which is not "\r", is the first letter dispatched.
LEMMA SeenHead ==
  ASSUME NEW s \in Seq(Bytes), s # <<>>, Head(s) # "cr"
  PROVE  Seen(s) # <<>> /\ Head(Seen(s)) = Head(s)
<1>0. PICK c \in Bytes : c = Head(s) /\ c = s[1] /\ c # "cr" /\ Len(s) >= 1
  OBVIOUS
<1> DEFINE h == Append(<<>>, c)
<1>1. h \in Seq(Bytes) /\ Len(h) = 1 /\ h[1] = c
  OBVIOUS
<1>2. Seen(h) = h
  <2>1. Filled(<<>>, Append(<<>>, c)) = Put(Filled(<<>>, <<>>), c)
    <3>1. <<>> \in Seq(Bytes)
      OBVIOUS
    <3> QED
      BY <3>1, FilledAppend
  <2>2. Filled(<<>>, <<>>) = <<>>
    BY FilledNothing
  <2>3. Put(<<>>, c) = Append(<<>>, c)
    BY <1>0, ConsoleAssumption DEF ConsoleAssumption, Put
  <2> QED
    BY <2>1, <2>2, <2>3 DEF Seen
<1>3. IsPrefix(h, s)
  <2>1. Len(h) <= Len(s) /\ \A j \in 1..Len(h) : h[j] = s[j]
    BY <1>0, <1>1
  <2> HIDE DEF h
  <2> QED
    BY <1>1, <2>1, PrefixMeans
<1> HIDE DEF h
<1>4. IsPrefix(h, Seen(s))
  BY <1>1, <1>2, <1>3, SeenPart
<1>5. Seen(s) \in Seq(Bytes)
  BY SeenTypes
<1>6. Len(h) <= Len(Seen(s)) /\ \A j \in 1..Len(h) : h[j] = Seen(s)[j]
  BY <1>1, <1>4, <1>5, PrefixMeans
<1> QED
  BY <1>0, <1>1, <1>5, <1>6

-----------------------------------------------------------------------------
(***************************************************************************)
(* The stream between the host and the line buffer.                        *)
(***************************************************************************)
LEMMA LastOrBefore ==
  ASSUME NEW z \in Int, NEW n \in Int, NEW k \in n..z + 1
  PROVE  k = z + 1 \/ k \in n..z
  OBVIOUS

LEMMA Reaches ==
  ASSUME NEW x \in Int, NEW y \in Nat, NEW w \in Nat, NEW v \in Int, NEW j \in 1..y + 1,
         x + j >= 1, v = x + y + 1, v <= w
  PROVE  x + j \in 1..w
  OBVIOUS

\* Another line is sent.
LEMMA WireSend ==
  ASSUME NEW text \in Seq(Bytes), NEW a \in Seq(Seq(Bytes)), NEW n \in 0..Len(a),
         NEW off \in [Nat -> Int], NEW l \in Seq(Bytes), Wire(text, n, a, FALSE, off)
  PROVE  \E more \in [Nat -> Int] :
           Wire(text \o Append(l, "nl"), n, Append(a, l), FALSE, more)
<1>0. PICK z \in Nat : z = Len(a) /\ n \in 0..z
  OBVIOUS
<1> DEFINE b == Append(a, l)
           m == Append(l, "nl")
           t == text \o m
           more == [off EXCEPT ![z + 1] = off[z] + Len(l) + 1]
<1>1. /\ Len(b) = z + 1 /\ b[z + 1] = l
      /\ \A k \in 1..z : b[k] = a[k] /\ Len(a[k]) \in Nat
  <2>1. \A k \in 1..Len(a) : a[k] \in Seq(Bytes)
    OBVIOUS
  <2> QED
    BY <1>0, <2>1
<1>2. /\ more \in [Nat -> Int] /\ more[z + 1] = off[z] + Len(l) + 1
      /\ \A k \in 0..z : more[k] = off[k] /\ off[k] \in Int
      /\ Len(l) \in Nat
  OBVIOUS
<1>3. m \in Seq(Bytes) /\ Len(m) = Len(l) + 1
  BY DEF Bytes
<1>4. /\ t \in Seq(Bytes) /\ Len(t) = Len(text) + Len(l) + 1
      /\ \A p \in 1..Len(text) : t[p] = text[p]
      /\ \A j \in 1..Len(l) + 1 : t[Len(text) + j] = m[j]
  BY <1>3
<1>5. /\ Len(text) = off[z] /\ off[n] = 0
      /\ \A k \in n + 1..z : off[k] = off[k - 1] + Len(a[k]) + 1
      /\ \A k \in n..z : off[k] <= off[z]
      /\ \A k \in n + 1..z : \A j \in 1..Len(a[k]) + 1 :
           off[k - 1] + j \in 1..Len(text) => text[off[k - 1] + j] = Append(a[k], "nl")[j]
  BY <1>0 DEF Wire
<1> HIDE DEF b, t, more
<1>b. more[z + 1] \in Int /\ off[z] \in Int /\ off[z] <= more[z + 1]
  <2>1. off[z] \in Int /\ Len(l) \in Nat /\ more[z + 1] = off[z] + Len(l) + 1
    BY <1>2
  <2> QED
    BY <2>1
<1>6. more[n] = 0
  BY <1>0, <1>2, <1>5
<1>a. ASSUME NEW k \in n + 1..z
      PROVE  /\ k \in 1..z /\ k - 1 \in 0..z /\ more[k - 1] = off[k - 1] /\ more[k] = off[k]
             /\ off[k - 1] \in Int /\ off[k] \in Int /\ b[k] = a[k] /\ Len(a[k]) \in Nat
  <2>1. k \in 1..z /\ k \in 0..z /\ k - 1 \in 0..z
    BY <1>0
  <2> QED
    BY <1>1, <1>2, <2>1
<1>7. \A k \in n + 1..z + 1 : more[k] = more[k - 1] + Len(b[k]) + 1
  <2> TAKE k \in n + 1..z + 1
  <2>1. CASE k = z + 1
    BY <1>1, <1>2, <2>1, SMTT(30)
  <2>2. CASE k \in n + 1..z
    BY <1>5, <1>a, <2>2
  <2>3. k = z + 1 \/ k \in n + 1..z
    BY LastOrBefore
  <2> QED
    BY <1>1, <2>1, <2>2, <2>3
<1>8. \A k \in n..z + 1 : more[k] <= more[z + 1]
  <2> TAKE k \in n..z + 1
  <2>1. CASE k = z + 1
    BY <1>1, <1>2, <2>1
  <2>2. CASE k \in n..z
    <3>1. k \in 0..z /\ z \in 0..z
      BY <1>0, <2>2
    <3>2. more[k] = off[k] /\ off[k] <= off[z] /\ off[k] \in Int /\ off[z] \in Int
      BY <1>2, <1>5, <2>2, <3>1
    <3>3. more[k] <= more[z + 1]
      BY <1>b, <3>2
    <3> QED
      BY <1>1, <3>3
  <2>3. k = z + 1 \/ k \in n..z
    BY LastOrBefore
  <2> QED
    BY <2>1, <2>2, <2>3
<1>9. Len(t) <= more[z + 1] /\ Len(t) = more[z + 1]
  BY <1>1, <1>2, <1>4, <1>5
<1>10. ASSUME NEW k \in n + 1..z + 1, NEW j \in 1..Len(b[k]) + 1, more[k - 1] + j \in 1..Len(t)
       PROVE  t[more[k - 1] + j] = Append(b[k], "nl")[j]
  <2>1. CASE k = z + 1
    <3>1. more[k - 1] = Len(text) /\ b[k] = l
      BY <1>1, <1>2, <1>5, <2>1
    <3> QED
      BY <1>4, <1>10, <3>1
  <2>2. CASE k \in n + 1..z
    <3>1. off[k] = off[k - 1] + Len(a[k]) + 1 /\ off[k] <= off[z] /\ off[z] = Len(text)
      <4>1. k \in n..z
        BY <1>0, <2>2
      <4> QED
        BY <1>5, <2>2, <4>1
    <3>a. /\ more[k - 1] = off[k - 1] /\ b[k] = a[k]
          /\ off[k - 1] \in Int /\ Len(a[k]) \in Nat /\ Len(text) \in Nat
      BY <1>a, <2>2
    <3>b. PICK x \in Int, y \in Nat, w \in Nat, v \in Int :
             x = off[k - 1] /\ y = Len(a[k]) /\ w = Len(text) /\ v = off[k]
      BY <1>a, <2>2, <3>a
    <3>c. x + j >= 1
      <4>1. more[k - 1] + j = x + j
        BY <3>a, <3>b
      <4> QED
        BY <1>10, <4>1
    <3>d. j \in 1..y + 1 /\ v = x + y + 1 /\ v <= w
      BY <3>1, <3>a, <3>b
    <3>2. j \in 1..Len(a[k]) + 1 /\ off[k - 1] + j \in 1..Len(text)
      BY <3>b, <3>c, <3>d, Reaches
    <3>3. text[off[k - 1] + j] = Append(a[k], "nl")[j]
      BY <1>5, <2>2, <3>2
    <3> QED
      BY <1>4, <1>a, <2>2, <3>2, <3>3
  <2>3. k = z + 1 \/ k \in n + 1..z
    BY LastOrBefore
  <2> QED
    BY <2>1, <2>2, <2>3
<1>11. Wire(t, n, b, FALSE, more)
  BY <1>1, <1>6, <1>7, <1>8, <1>9, <1>10 DEF Wire
<1> QED
  BY <1>2, <1>11 DEF t, b

\* The connection ends, and with it what was on its way.
LEMMA WireCut ==
  ASSUME NEW s \in Seq(Bytes), NEW t \in Seq(Bytes), NEW a, NEW n, NEW off,
         off[Len(a)] \in Int, NEW ended, Wire(t, n, a, ended, off), IsPrefix(s, t)
  PROVE  Wire(s, n, a, TRUE, off)
<1>1. Len(s) <= Len(t) /\ \A p \in 1..Len(s) : s[p] = t[p]
  BY PrefixMeans
<1>2. Len(s) <= off[Len(a)]
  BY <1>1 DEF Wire
<1>3. ASSUME NEW k \in n+1..Len(a), NEW j \in 1..Len(a[k]) + 1, off[k - 1] + j \in 1..Len(s)
      PROVE  s[off[k - 1] + j] = Append(a[k], "nl")[j]
  <2>1. off[k - 1] + j \in 1..Len(t)
    BY <1>1, <1>3
  <2>2. t[off[k - 1] + j] = Append(a[k], "nl")[j]
    BY <2>1 DEF Wire
  <2> QED
    BY <1>1, <1>3, <2>2
<1> QED
  BY <1>2, <1>3 DEF Wire

\* Where the first of the lines to come lies in the text.
LEMMA WireFirst ==
  ASSUME NEW text \in Seq(Bytes), NEW a \in Seq(Seq(Bytes)), NEW n \in Nat, n < Len(a),
         NEW off \in [Nat -> Int], NEW ended, Wire(text, n, a, ended, off)
  PROVE  /\ a[n + 1] \in Seq(Bytes) /\ off[n + 1] = Len(a[n + 1]) + 1
         /\ \A j \in 1..Len(a[n + 1]) : j \in 1..Len(text) => text[j] = a[n + 1][j]
         /\ Len(a[n + 1]) + 1 \in 1..Len(text) => text[Len(a[n + 1]) + 1] = "nl"
<1> DEFINE u == a[n + 1]
           m == Append(u, "nl")
<1>1. u \in Seq(Bytes) /\ Len(u) \in Nat /\ Len(text) \in Nat
  OBVIOUS
<1>2. n + 1 \in n + 1..Len(a) /\ (n + 1) - 1 = n
  OBVIOUS
<1>3. off[n] = 0 /\ off[n + 1] = off[n] + Len(u) + 1
  BY <1>2 DEF Wire
<1>4. \A j \in 1..Len(u) + 1 : off[n] + j \in 1..Len(text) => text[off[n] + j] = m[j]
  BY <1>2, ZenonT(60) DEF Wire
<1>5. m[Len(u) + 1] = "nl" /\ \A j \in 1..Len(u) : m[j] = u[j]
  BY <1>1, SMTT(30)
<1> HIDE DEF u, m
<1>6. \A j \in 1..Len(u) + 1 : j \in 1..Len(text) => text[j] = m[j]
  BY <1>3, <1>4, SMTT(30)
<1>7. \A j \in 1..Len(u) : j \in 1..Len(text) => text[j] = u[j]
  BY <1>1, <1>5, <1>6
<1>8. Len(u) + 1 \in 1..Len(text) => text[Len(u) + 1] = "nl"
  <2>1. Len(u) + 1 \in 1..Len(u) + 1
    BY <1>1
  <2> QED
    BY <1>5, <1>6, <2>1
<1>9. off[n + 1] = Len(u) + 1
  BY <1>1, <1>3
<1> QED
  BY <1>1, <1>7, <1>8, <1>9 DEF u

\* At the end of the stream what has come is the beginning of the next line.
LEMMA WireRest ==
  ASSUME NEW r \in Seq(Bytes), Unended(r), NEW a \in Seq(Seq(Bytes)), NEW n \in 0..Len(a),
         NEW off \in [Nat -> Int], NEW ended, Wire(r, n, a, ended, off), r # <<>>
  PROVE  n < Len(a) /\ IsPrefix(r, a[n + 1])
<1>1. n < Len(a)
  <2> SUFFICES ASSUME n = Len(a) PROVE FALSE
    OBVIOUS
  <2>1. Len(r) <= 0
    BY DEF Wire
  <2> QED
    BY <2>1
<1> DEFINE u == a[n + 1]
<1>2. /\ u \in Seq(Bytes) /\ Len(u) \in Nat /\ Len(r) \in Nat
      /\ \A j \in 1..Len(u) : j \in 1..Len(r) => r[j] = u[j]
      /\ Len(u) + 1 \in 1..Len(r) => r[Len(u) + 1] = "nl"
  <2>1. n \in Nat /\ a[n + 1] \in Seq(Bytes) /\ Len(r) \in Nat
    BY <1>1
  <2>2. Len(a[n + 1]) \in Nat
    BY <2>1
  <2>3. /\ \A j \in 1..Len(a[n + 1]) : j \in 1..Len(r) => r[j] = a[n + 1][j]
        /\ Len(a[n + 1]) + 1 \in 1..Len(r) => r[Len(a[n + 1]) + 1] = "nl"
    BY <1>1, <2>1, WireFirst
  <2> QED
    BY <2>1, <2>2, <2>3
<1> HIDE DEF u
<1>3. Len(u) + 1 \notin 1..Len(r)
  BY <1>2 DEF Unended
<1>4. Len(r) <= Len(u)
  BY <1>2, <1>3
<1>5. \A j \in 1..Len(r) : r[j] = u[j]
  BY <1>2, <1>4
<1> QED
  BY <1>1, <1>2, <1>4, <1>5, PrefixMeans DEF u

\* The first end of line in the stream ends the first line sent.
LEMMA WireEnds ==
  ASSUME NEW text \in Seq(Bytes), NEW a \in Seq(Seq(Bytes)), NEW n \in 0..Len(a),
         \A i \in 1..Len(a) : Unended(a[i]),
         NEW off \in [Nat -> Int], NEW ended, Wire(text, n, a, ended, off),
         NEW p \in 1..Len(text), text[p] = "nl", \A q \in 1..p - 1 : text[q] # "nl"
  PROVE  n < Len(a) /\ p = Len(a[n + 1]) + 1 /\ \A j \in 1..p - 1 : text[j] = a[n + 1][j]
<1>1. n < Len(a)
  <2> SUFFICES ASSUME n = Len(a) PROVE FALSE
    OBVIOUS
  <2>1. Len(text) <= 0
    BY DEF Wire
  <2> QED
    BY <2>1
<1> DEFINE u == a[n + 1]
<1>2. /\ u \in Seq(Bytes) /\ Len(u) \in Nat /\ Len(text) \in Nat
      /\ \A j \in 1..Len(u) : j \in 1..Len(text) => text[j] = u[j]
      /\ Len(u) + 1 \in 1..Len(text) => text[Len(u) + 1] = "nl"
  <2>1. n \in Nat /\ a[n + 1] \in Seq(Bytes) /\ Len(text) \in Nat
    BY <1>1
  <2>2. Len(a[n + 1]) \in Nat
    BY <2>1
  <2>3. /\ \A j \in 1..Len(a[n + 1]) : j \in 1..Len(text) => text[j] = a[n + 1][j]
        /\ Len(a[n + 1]) + 1 \in 1..Len(text) => text[Len(a[n + 1]) + 1] = "nl"
    BY <1>1, <2>1, WireFirst
  <2> QED
    BY <2>1, <2>2, <2>3
<1>3. \A j \in 1..Len(u) : u[j] # "nl"
  <2>1. n + 1 \in 1..Len(a)
    BY <1>1
  <2> QED
    BY <2>1 DEF Unended
<1> HIDE DEF u
<1>p. p \in Nat /\ 1 <= p /\ p <= Len(text)
  BY <1>2
<1>4. ~(p <= Len(u))
  <2> SUFFICES ASSUME p \in 1..Len(u) PROVE FALSE
    BY <1>2, <1>p
  <2>1. text[p] = u[p]
    BY <1>2
  <2> QED
    BY <1>3, <2>1
<1>5. ~(p > Len(u) + 1)
  BY <1>2, <1>p
<1>6. p = Len(u) + 1
  BY <1>2, <1>4, <1>5, <1>p
<1>7. \A j \in 1..p - 1 : text[j] = u[j]
  BY <1>2, <1>6
<1> QED
  BY <1>1, <1>6, <1>7 DEF u

LEMMA LessOf ==
  ASSUME NEW x \in Int, NEW y \in Int, NEW p \in Int, NEW h \in Nat
  PROVE  /\ x = y + h + 1 => x - p = (y - p) + h + 1
         /\ x <= y => x - p <= y - p
         /\ h <= y => h - p <= y - p
         /\ h = y => h - p = y - p
         /\ x = p => x - p = 0
  OBVIOUS

LEMMA ShiftIn ==
  ASSUME NEW x \in Int, NEW j \in Int, NEW p \in Nat, NEW h \in Nat,
         (x - p) + j \in 1..h - p
  PROVE  p + ((x - p) + j) = x + j /\ x + j \in 1..h
  OBVIOUS

\* What follows that line is the lines after it.
LEMMA WireShift ==
  ASSUME NEW text \in Seq(Bytes), NEW a \in Seq(Seq(Bytes)), NEW n \in Nat, n < Len(a),
         NEW off \in [Nat -> Int], NEW ended, Wire(text, n, a, ended, off),
         NEW p \in 1..Len(text), p = Len(a[n + 1]) + 1,
         NEW t \in Seq(Bytes), Len(t) = Len(text) - p,
         \A j \in 1..Len(t) : t[j] = text[p + j]
  PROVE  \E less \in [Nat -> Int] : Wire(t, n + 1, a, ended, less)
<1>0. PICK z \in Nat : z = Len(a) /\ n + 1 <= z
  OBVIOUS
<1>p. PICK h \in Nat : h = Len(text) /\ p \in Nat /\ p \in Int
  <2>1. Len(text) \in Nat /\ p \in Nat /\ p \in Int
    OBVIOUS
  <2> QED
    BY <2>1
<1> DEFINE less == [k \in Nat |-> off[k] - p]
<1>1. /\ less \in [Nat -> Int]
      /\ \A k \in Nat : less[k] = off[k] - p /\ off[k] \in Int /\ less[k] \in Int
  BY SMTT(30)
<1>2. /\ \A k \in n + 1..z : off[k] = off[k - 1] + Len(a[k]) + 1
      /\ \A k \in n..z : off[k] <= off[z]
      /\ Len(text) <= off[z] /\ (~ended => Len(text) = off[z])
      /\ \A k \in n + 1..z : \A j \in 1..Len(a[k]) + 1 :
           off[k - 1] + j \in 1..Len(text) => text[off[k - 1] + j] = Append(a[k], "nl")[j]
  BY <1>0 DEF Wire
<1>3. off[n + 1] = p
  BY WireFirst
<1> HIDE DEF less
<1>4. less[n + 1] = 0
  <2>1. n + 1 \in Nat
    OBVIOUS
  <2>2. less[n + 1] = off[n + 1] - p /\ off[n + 1] \in Int
    BY <1>1, <2>1
  <2>3. off[n + 1] - p = 0
    BY <1>3, <1>p, <2>2, LessOf
  <2> QED
    BY <2>2, <2>3
<1>5. ASSUME NEW k \in (n + 1) + 1..z
      PROVE  /\ k \in n + 1..z /\ k \in Nat /\ k - 1 \in Nat /\ Len(a[k]) \in Nat
  <2>1. k \in 1..Len(a)
    BY <1>0
  <2> QED
    BY <1>0, <2>1
<1>6. \A k \in (n + 1) + 1..z : less[k] = less[k - 1] + Len(a[k]) + 1
  <2> TAKE k \in (n + 1) + 1..z
  <2>1. off[k] = off[k - 1] + Len(a[k]) + 1
    BY <1>2, <1>5
  <2>2. PICK x \in Int, y \in Int, m \in Nat : x = off[k] /\ y = off[k - 1] /\ m = Len(a[k])
    BY <1>1, <1>5
  <2>3. less[k] = x - p /\ less[k - 1] = y - p
    BY <1>1, <1>5, <2>2
  <2>4. x = y + m + 1 /\ p \in Int
    BY <1>p, <2>1, <2>2
  <2>5. x - p = (y - p) + m + 1
    BY <2>4, LessOf
  <2> QED
    BY <2>2, <2>3, <2>5
<1>7. \A k \in n + 1..z : less[k] <= less[z]
  <2> TAKE k \in n + 1..z
  <2>1. k \in Nat /\ k \in n..z
    BY <1>0
  <2>2. PICK x \in Int, y \in Int : x = off[k] /\ y = off[z]
    BY <1>1, <2>1
  <2>3. less[k] = x - p /\ less[z] = y - p /\ x <= y
    BY <1>1, <1>2, <2>1, <2>2
  <2>4. x - p <= y - p
    BY <1>p, <2>3, LessOf
  <2> QED
    BY <2>3, <2>4
<1>8. Len(t) <= less[z] /\ (~ended => Len(t) = less[z])
  <2>1. PICK y \in Int : y = off[z]
    BY <1>1
  <2>2. less[z] = y - p /\ Len(t) = h - p /\ h <= y /\ (~ended => h = y)
    BY <1>1, <1>2, <1>p, <2>1
  <2>3. h - p <= y - p /\ (h = y => h - p = y - p)
    BY <1>p, <2>2, LessOf
  <2> QED
    BY <2>2, <2>3
<1>9. ASSUME NEW k \in (n + 1) + 1..z, NEW j \in 1..Len(a[k]) + 1, less[k - 1] + j \in 1..Len(t)
      PROVE  t[less[k - 1] + j] = Append(a[k], "nl")[j]
  <2>1. PICK x \in Int, y \in Int : x = off[k - 1] /\ y = less[k - 1]
    BY <1>1, <1>5
  <2>2. y = x - p
    BY <1>1, <1>5, <2>1
  <2>3. y + j \in 1..(h - p)
    BY <1>9, <1>p, <2>1
  <2>j. j \in Int
    BY <1>5
  <2>i. (x - p) + j \in 1..h - p /\ p \in Nat
    BY <1>p, <2>2, <2>3
  <2>k. p + ((x - p) + j) = x + j /\ x + j \in 1..h
    BY <2>i, <2>j, ShiftIn, ZenonT(60)
  <2>4. p + (y + j) = x + j /\ x + j \in 1..h
    BY <2>2, <2>k
  <2>5. t[y + j] = text[p + (y + j)]
    BY <1>9, <2>1
  <2>6. text[x + j] = Append(a[k], "nl")[j]
    BY <1>2, <1>5, <1>p, <2>1, <2>4
  <2> QED
    BY <2>1, <2>4, <2>5, <2>6
<1>10. Wire(t, n + 1, a, ended, less)
  BY <1>0, <1>4, <1>6, <1>7, <1>8, <1>9 DEF Wire
<1> QED
  BY <1>1, <1>10

-----------------------------------------------------------------------------
(***************************************************************************)
(* Types.                                                                  *)
(***************************************************************************)
LEMMA MinIsIn ==
  ASSUME NEW x \in Nat, NEW y \in Nat, NEW n \in 1..Min({x, y})
  PROVE  n \in Nat /\ 1 <= n /\ n <= x /\ n <= y
<1>1. x <= y \/ y <= x
  OBVIOUS
<1>2. Min({x, y}) = x \/ Min({x, y}) = y
  BY <1>1, MinOfTwo
<1>3. Min({x, y}) <= x /\ Min({x, y}) <= y
  BY <1>1, MinOfTwo
<1> QED
  BY <1>2, <1>3

LEMMA Tail4Type ==
  Tail4 \in Seq(Bytes) /\ Len(Tail4) = 2 /\ Tail4[1] = "crc1" /\ Tail4[2] = "crc2"
  BY DEF Tail4, Bytes

LEMMA Flags ==
  ASSUME NEW b1, NEW b2, NEW b3, NEW b4, NEW b5
  PROVE  {b1, b2, b3, b4, b5} \subseteq BOOLEAN
           <=> b1 \in BOOLEAN /\ b2 \in BOOLEAN /\ b3 \in BOOLEAN /\ b4 \in BOOLEAN /\ b5 \in BOOLEAN
  OBVIOUS

LEMMA SomeTaken ==
  ASSUME NEW s \in Seq(Bytes), NEW n \in Nat, n <= Len(s)
  PROVE  /\ SubSeq(s, 1, n) \in Seq(Bytes) /\ Len(SubSeq(s, 1, n)) = n
         /\ SubSeq(s, n + 1, Len(s)) \in Seq(Bytes)
         /\ Len(SubSeq(s, n + 1, Len(s))) = Len(s) - n
         /\ SubSeq(s, 1, n) \o SubSeq(s, n + 1, Len(s)) = s
<1> DEFINE h == SubSeq(s, 1, n)
           t == SubSeq(s, n + 1, Len(s))
<1>1. /\ h \in Seq(Bytes) /\ Len(h) = n /\ \A j \in 1..n : h[j] = s[j]
      /\ t \in Seq(Bytes) /\ Len(t) = Len(s) - n /\ \A j \in 1..Len(s) - n : t[j] = s[n + j]
  OBVIOUS
<1> HIDE DEF h, t
<1>2. h \o t \in Seq(Bytes) /\ Len(h \o t) = Len(s)
  BY <1>1
<1>3. \A j \in 1..Len(s) : (h \o t)[j] = s[j]
  BY <1>1
<1>4. h \o t = s
  BY <1>2, <1>3, SeqEqual
<1> QED
  BY <1>1, <1>4 DEF h, t

\* What the next receive of the transfer asks for.
LEMMA WantType ==
  ASSUME NEW x \in Nat, x = Len(flashed)
  PROVE  /\ Want \in Nat /\ Want > 0
         /\ x < Len(Image) => x + Want <= Len(Image)
         /\ x >= Len(Image) => Want = 2
<1>1. Len(Image) \in Nat /\ WriteBuf \in Nat \ {0}
  BY ConsoleAssumption DEF ConsoleAssumption
<1>2. CASE x < Len(Image)
  <2> DEFINE y == Len(Image) - x
  <2>1. y \in Nat /\ y > 0 /\ Want = Min({y, WriteBuf})
    BY <1>1, <1>2 DEF Want
  <2> HIDE DEF y
  <2>2. y <= WriteBuf \/ WriteBuf <= y
    BY <1>1, <2>1
  <2>3. (Want = y \/ Want = WriteBuf) /\ Want <= y
    BY <1>1, <2>1, <2>2, MinOfTwo
  <2> QED
    BY <1>1, <1>2, <2>1, <2>3 DEF y
<1>3. CASE x >= Len(Image)
  BY <1>1, <1>3, Tail4Type DEF Want
<1> QED
  BY <1>1, <1>2, <1>3

LEMMA InitTyped == Init => TypeOK
<1> SUFFICES ASSUME Init PROVE TypeOK
  OBVIOUS
<1>1. todo \in Seq(Seq(Bytes))
  BY ConsoleAssumption DEF Init, ConsoleAssumption
<1>2. Len(Image) \in Nat /\ Len(<<>>) = 0 /\ 0 <= RecvBuf /\ 0 <= LineMax
  BY ConsoleAssumption DEF ConsoleAssumption
<1>3. sent \in 0..Len(Image)
  BY <1>2 DEF Init
<1>4. /\ \A S : <<>> \in Seq(S)
  OBVIOUS
<1> QED
  BY <1>1, <1>2, <1>3, <1>4 DEF Init, TypeOK

LEMMA SentGrows ==
  ASSUME sent \in Nat, sent <= Len(Image), HPayload
  PROVE  sent' \in 0..Len(Image) /\ sent <= sent'
<1>c. HostChunk \in Nat /\ Len(Image) \in Nat
  BY ConsoleAssumption DEF ConsoleAssumption
<1>1. sent + HostChunk \in Nat /\ sent + HostChunk >= sent
  BY <1>c
<1>2. sent + HostChunk <= Len(Image) \/ Len(Image) <= sent + HostChunk
  BY <1>c, <1>1
<1>3. CASE sent + HostChunk <= Len(Image)
  <2>1. sent' = sent + HostChunk
    BY <1>c, <1>1, <1>3, MinOfTwo, SMTT(30) DEF HPayload
  <2> QED
    BY <1>c, <1>1, <1>3, <2>1
<1>4. CASE Len(Image) <= sent + HostChunk
  <2>1. sent' = Len(Image)
    BY <1>c, <1>1, <1>4, MinOfTwo DEF HPayload
  <2> QED
    BY <1>c, <2>1
<1> QED
  BY <1>2, <1>3, <1>4

LEMMA TypesKept == TypeOK /\ [Next]_vars => TypeOK'
<1> SUFFICES ASSUME TypeOK, [Next]_vars PROVE TypeOK'
  OBVIOUS
<1> USE DEF host, stream, ota, task, hist
<1>t. /\ todo \in Seq(Seq(Bytes)) /\ sent \in 0..Len(Image) /\ net \in Seq(Bytes)
      /\ back \in Seq({"answer", "ACK", "ERR", "OK", "CRCFAIL"})
      /\ chunk \in Seq(Bytes) /\ Len(chunk) <= RecvBuf
      /\ line \in Seq(Bytes) /\ Len(line) <= LineMax
      /\ got \in Seq(Bytes) /\ flashed \in Seq(Bytes)
      /\ asked \in Seq(Seq(Bytes)) /\ executed \in Seq(Seq(Bytes))
  BY DEF TypeOK
<1>f. /\ gone \in BOOLEAN /\ flushing \in BOOLEAN /\ timed \in BOOLEAN
      /\ fault \in BOOLEAN /\ astray \in BOOLEAN
  BY Flags DEF TypeOK
<1>c. RecvBuf \in Nat /\ LineMax \in Nat /\ HostChunk \in Nat /\ Len(Image) \in Nat
        /\ Image \in Seq(Bytes)
  BY ConsoleAssumption DEF ConsoleAssumption
<1>1. CASE HSend
  <2>1. Head(todo) \in Seq(Bytes) /\ Tail(todo) \in Seq(Seq(Bytes))
    BY <1>1, <1>t DEF HSend
  <2>2. Append(Head(todo), "nl") \in Seq(Bytes) /\ Append(asked, Head(todo)) \in Seq(Seq(Bytes))
    BY <1>t, <2>1 DEF Bytes
  <2>3. net \o Append(Head(todo), "nl") \in Seq(Bytes)
    BY <1>t, <2>2
  <2> QED
    BY <1>1, <2>1, <2>2, <2>3 DEF HSend, HGoto, hFrame, TypeOK
<1>2. CASE HReply
  <2>1. back' \in Seq({"answer", "ACK", "ERR", "OK", "CRCFAIL"})
    BY <1>2, <1>t DEF HReply
  <2> QED
    BY <1>2, <2>1 DEF HReply, HGoto, hFrame, TypeOK
<1>3. CASE HAckTimeout
  BY <1>3, <1>f DEF HAckTimeout, HGoto, hFrame, TypeOK
<1>4. CASE HAck
  <2>1. back' \in Seq({"answer", "ACK", "ERR", "OK", "CRCFAIL"})
    BY <1>4, <1>t DEF HAck
  <2>2. gone' \in BOOLEAN /\ fault' \in BOOLEAN /\ hpc' \in {"payload", "closed"}
    BY <1>4, <1>f DEF HAck, HGoto
  <2> QED
    BY <1>4, <2>1, <2>2 DEF HAck, hFrame, TypeOK
<1>5. CASE HPayload
  <2>1. sent' \in 0..Len(Image) /\ sent <= sent'
    <3>1. sent \in Nat /\ sent <= Len(Image)
      BY <1>c, <1>t
    <3> QED
      BY <1>5, <3>1, SentGrows
  <2>2. SubSeq(Image, sent + 1, sent') \in Seq(Bytes)
    BY <1>c, <1>t, <2>1
  <2>3. net \o SubSeq(Image, sent + 1, sent') \in Seq(Bytes)
    BY <1>t, <2>2
  <2> QED
    BY <1>5, <2>1, <2>3 DEF HPayload, hFrame, TypeOK
<1>6. CASE HCrc
  <2>1. net \o Tail4 \in Seq(Bytes)
    BY <1>t, Tail4Type
  <2> QED
    BY <1>6, <2>1 DEF HCrc, HGoto, hFrame, TypeOK
<1>7. CASE HClose
  BY <1>7, <1>f DEF HClose, HGoto, hFrame, TypeOK
<1>8. CASE Cut
  <2>1. net' \in Seq(Bytes)
    BY <1>8, <1>t DEF Cut
  <2> QED
    BY <1>8, <1>f, <2>1 DEF Cut, hFrame, TypeOK
<1>9. CASE DRecv
  <2>1. PICK n \in 1..Min({Len(net), RecvBuf}) : chunk' = SubSeq(net, 1, n) /\ Take(n)
    BY <1>9 DEF DRecv
  <2>2. n \in Nat /\ n <= Len(net) /\ n <= RecvBuf
    <3>1. Len(net) \in Nat
      BY <1>t
    <3> QED
      BY <1>c, <3>1, MinIsIn
  <2>3. chunk' \in Seq(Bytes) /\ Len(chunk') = n /\ net' \in Seq(Bytes)
    BY <1>t, <2>1, <2>2, SomeTaken DEF Take
  <2> QED
    BY <1>9, <2>2, <2>3 DEF DRecv, DGoto, dFrame, TypeOK
<1>10. CASE DRecvEnds
  <2>1. fault' \in BOOLEAN
    BY <1>10 DEF DRecvEnds
  <2> QED
    BY <1>10, <2>1 DEF DRecvEnds, DGoto, dFrame, TypeOK
<1>11. CASE DParseLine
  <2>1. PICK k \in DOMAIN chunk : /\ line' = Filled(line, SubSeq(chunk, 1, k - 1))
                                  /\ chunk' = SubSeq(chunk, k + 1, Len(chunk))
    BY <1>11 DEF DParseLine
  <2>2. k \in 1..Len(chunk) /\ SubSeq(chunk, 1, k - 1) \in Seq(Bytes)
    BY <1>t
  <2>3. chunk' \in Seq(Bytes) /\ Len(chunk') <= RecvBuf
    <3>1. PICK m \in Nat : m = Len(chunk) /\ k \in Nat /\ k <= m /\ m - k <= m
      BY <1>t, <2>2, SMTT(30)
    <3>2. chunk' \in Seq(Bytes) /\ Len(chunk') = m - k
      BY <1>t, <2>1, <3>1, SomeTaken
    <3>3. m - k <= RecvBuf
      BY <1>c, <1>t, <3>1
    <3> QED
      BY <3>2, <3>3
  <2>4. line' \in Seq(Bytes) /\ Len(line') <= LineMax
    BY <1>t, <2>1, <2>2, FilledLonger
  <2> QED
    BY <1>11, <2>3, <2>4 DEF DParseLine, DGoto, pFrame, dFrame, TypeOK
<1>12. CASE DParseRest
  <2>1. line' \in Seq(Bytes) /\ Len(line') <= LineMax
    BY <1>12, <1>t, FilledLonger DEF DParseRest
  <2>2. chunk' \in Seq(Bytes) /\ Len(chunk') <= RecvBuf
    BY <1>12, <1>c DEF DParseRest
  <2> QED
    BY <1>12, <2>1, <2>2 DEF DParseRest, DGoto, pFrame, dFrame, TypeOK
<1>13. CASE DDispatch
  <2>1. executed' \in Seq(Seq(Bytes))
    BY <1>13, <1>t DEF DDispatch
  <2>2. back' \in Seq({"answer", "ACK", "ERR", "OK", "CRCFAIL"})
    <3>1. back' = back \/ back' = Append(back, "answer")
      BY <1>13 DEF DDispatch
    <3>2. Append(back, "answer") \in Seq({"answer", "ACK", "ERR", "OK", "CRCFAIL"})
      BY <1>t
    <3> QED
      BY <1>t, <3>1, <3>2
  <2>3. line' \in Seq(Bytes) /\ Len(line') <= LineMax
    BY <1>13, <1>c DEF DDispatch
  <2>4. dpc' \in {"ota_ack", "closed", "parse"}
    BY <1>13 DEF DDispatch, Back
  <2> QED
    BY <1>13, <2>1, <2>2, <2>3, <2>4 DEF DDispatch, dFrame, TypeOK
<1>14. CASE OAck
  <2>1. back' \in Seq({"answer", "ACK", "ERR", "OK", "CRCFAIL"})
    BY <1>14, <1>t DEF OAck
  <2> QED
    BY <1>14, <1>f, <2>1 DEF OAck, DGoto, oFrame, dFrame, TypeOK
<1>15. CASE OBegin
  BY <1>15 DEF OBegin, DGoto, oFrame, dFrame, TypeOK
<1>16. CASE ORecv
  <2>1. PICK n \in 1..Min({Len(net), Want - Len(got)}) : got' = got \o SubSeq(net, 1, n) /\ Take(n)
    BY <1>16 DEF ORecv
  <2>2. n \in Nat /\ n <= Len(net)
    <3>1. Want - Len(got) \in Nat
      BY <1>16, <1>t, WantType DEF ORecv
    <3>2. Len(net) \in Nat
      BY <1>t
    <3> QED
      BY <3>1, <3>2, MinIsIn
  <2>3. SubSeq(net, 1, n) \in Seq(Bytes) /\ net' \in Seq(Bytes)
    BY <1>t, <2>1, <2>2, SomeTaken DEF Take
  <2>4. got' \in Seq(Bytes)
    BY <1>t, <2>1, <2>3
  <2> QED
    BY <1>16, <2>3, <2>4 DEF ORecv, oFrame, dFrame, TypeOK
<1>17. CASE OWrite
  <2>1. flashed' \in Seq(Bytes) /\ got' \in Seq(Bytes)
    BY <1>17, <1>t DEF OWrite
  <2> QED
    BY <1>17, <2>1 DEF OWrite, oFrame, dFrame, TypeOK
<1>18. CASE OGiveUp
  <2>1. back' \in Seq({"answer", "ACK", "ERR", "OK", "CRCFAIL"}) /\ got' \in Seq(Bytes)
    BY <1>18, <1>t DEF OGiveUp
  <2>2. fault' \in BOOLEAN /\ astray' \in BOOLEAN
    BY <1>18 DEF OGiveUp
  <2>3. dpc' \in {"closed", "parse"}
    BY <1>18 DEF OGiveUp, Back
  <2> QED
    BY <1>18, <2>1, <2>2, <2>3 DEF OGiveUp, oFrame, dFrame, TypeOK
<1>19. CASE OFinish
  <2>1. back' \in Seq({"answer", "ACK", "ERR", "OK", "CRCFAIL"}) /\ got' \in Seq(Bytes)
    BY <1>19, <1>t DEF OFinish
  <2> QED
    BY <1>19, <2>1 DEF OFinish, oFrame, dFrame, TypeOK
<1>20. CASE OFinishFails
  <2>1. back' \in Seq({"answer", "ACK", "ERR", "OK", "CRCFAIL"}) /\ got' \in Seq(Bytes)
    BY <1>20, <1>t DEF OFinishFails
  <2>2. fault' \in BOOLEAN
    BY <1>20 DEF OFinishFails
  <2>3. dpc' \in {"closed", "parse"}
    BY <1>20 DEF OFinishFails, Back
  <2> QED
    BY <1>20, <2>1, <2>2, <2>3 DEF OFinishFails, oFrame, dFrame, TypeOK
<1>21. CASE UNCHANGED vars
  BY <1>21 DEF vars, TypeOK
<1> QED
  BY <1>1, <1>2, <1>3, <1>4, <1>5, <1>6, <1>7, <1>8, <1>9, <1>10, <1>11, <1>12, <1>13,
     <1>14, <1>15, <1>16, <1>17, <1>18, <1>19, <1>20, <1>21 DEF Next, Upload, Task

-----------------------------------------------------------------------------
(***************************************************************************)
(* The host.                                                               *)
(***************************************************************************)
LEMMA AppendMeans ==
  ASSUME NEW S, NEW s \in Seq(S), NEW x \in S, NEW n \in Nat, n = Len(s)
  PROVE  /\ Append(s, x) \in Seq(S) /\ Append(s, x) # <<>>
         /\ Len(Append(s, x)) = n + 1 /\ DOMAIN Append(s, x) = 1..n + 1
         /\ DOMAIN s = 1..n /\ (n >= 1 => s # <<>>)
         /\ Append(s, x)[n + 1] = x
         /\ \A i \in 1..n : Append(s, x)[i] = s[i]
  OBVIOUS

\* Nothing the task does touches the host.
LEMMA TaskFrame == Task \/ UNCHANGED vars => UNCHANGED <<todo, hpc, sent, gone, asked>>
<1> USE DEF host, stream, ota, task, hist, pFrame, dFrame, oFrame
<1>1. DRecv \/ DRecvEnds => UNCHANGED <<todo, hpc, sent, gone, asked>>
  BY DEF DRecv, DRecvEnds
<1>2. DParseLine \/ DParseRest => UNCHANGED <<todo, hpc, sent, gone, asked>>
  BY DEF DParseLine, DParseRest
<1>3. DDispatch => UNCHANGED <<todo, hpc, sent, gone, asked>>
  BY DEF DDispatch
<1>4. OAck \/ OBegin => UNCHANGED <<todo, hpc, sent, gone, asked>>
  BY DEF OAck, OBegin
<1>5. ORecv \/ OWrite => UNCHANGED <<todo, hpc, sent, gone, asked>>
  BY DEF ORecv, OWrite
<1>6. OGiveUp \/ OFinish \/ OFinishFails => UNCHANGED <<todo, hpc, sent, gone, asked>>
  BY DEF OGiveUp, OFinish, OFinishFails
<1>7. UNCHANGED vars => UNCHANGED <<todo, hpc, sent, gone, asked>>
  BY DEF vars
<1> QED
  BY <1>1, <1>2, <1>3, <1>4, <1>5, <1>6, <1>7 DEF Task

LEMMA HostingKept == TypeOK /\ Hosting /\ [Next]_vars => Hosting'
<1> SUFFICES ASSUME TypeOK, Hosting, [Next]_vars PROVE Hosting'
  OBVIOUS
<1> USE DEF host, stream
<1>t. todo \in Seq(Seq(Bytes)) /\ asked \in Seq(Seq(Bytes))
  BY DEF TypeOK
<1>1. CASE HSend
  <2>0. PICK l \in Seq(Bytes), n \in Nat : l = Head(todo) /\ l = todo[1] /\ n = Len(asked)
    BY <1>1, <1>t DEF HSend
  <2>1. /\ 1 \in DOMAIN todo
        /\ \A i \in DOMAIN Tail(todo) : i + 1 \in DOMAIN todo /\ Tail(todo)[i] = todo[i + 1]
    BY <1>1, <1>t DEF HSend
  <2>2. Stripped(l) /\ \A i \in DOMAIN Tail(todo) : Stripped(Tail(todo)[i])
    BY <2>0, <2>1 DEF Hosting
  <2> DEFINE a == Append(asked, l)
  <2>4. /\ Len(a) = n + 1 /\ DOMAIN a = 1..n + 1 /\ a[n + 1] = l /\ a # <<>>
        /\ DOMAIN asked = 1..n /\ (n >= 1 => asked # <<>>) /\ \A i \in 1..n : a[i] = asked[i]
    BY <1>t, <2>0, AppendMeans
  <2> HIDE DEF a
  <2>5. \A i \in 1..n : Stripped(a[i])
    BY <2>4 DEF Hosting
  <2>6. \A i \in 1..n + 1 : Stripped(a[i])
    <3>1. \A i \in 1..n + 1 : i = n + 1 \/ i \in 1..n
      OBVIOUS
    <3> QED
      BY <2>2, <2>4, <2>5, <3>1
  <2>7. ~gone /\ hpc = "idle"
    BY <1>1 DEF HSend, HGoto
  <2>8. \A i \in 1..n : ~IsOta(a[i])
    <3> TAKE i \in 1..n
    <3>1. asked # <<>>
      BY <2>0, <2>4
    <3>2. CASE i = n
      BY <2>0, <2>4, <2>7, <3>1, <3>2 DEF Hosting
    <3>3. CASE i \in 1..n - 1
      BY <2>0, <2>4, <3>3 DEF Hosting
    <3> QED
      BY <3>2, <3>3
  <2>9. /\ hpc' = (IF IsOta(l) THEN "ack" ELSE "reply") /\ todo' = Tail(todo) /\ asked' = a
        /\ sent' = sent /\ gone' = gone
    BY <1>1, <2>0 DEF HSend, HGoto, a
  <2>10. (n + 1) - 1 = n
    BY <2>0
  <2>11. \A i \in 1..Len(a) - 1 : ~IsOta(a[i])
    BY <2>4, <2>8, <2>10
  <2>12. a # <<>> /\ hpc' \in {"idle", "reply"} => ~IsOta(a[Len(a)])
    BY <2>4, <2>9
  <2>13. sent = 0 /\ hpc' # "closed"
    BY <2>7, <2>9 DEF Hosting
  <2>14. \A i \in DOMAIN a : Stripped(a[i])
    BY <2>4, <2>6
  <2> QED
    BY <2>2, <2>7, <2>9, <2>11, <2>12, <2>13, <2>14 DEF Hosting
<1>2. CASE HReply
  BY <1>2 DEF HReply, HGoto, hFrame, Hosting
<1>3. CASE HAckTimeout
  BY <1>3 DEF HAckTimeout, HGoto, hFrame, Hosting
<1>4. CASE HAck
  <2>1. /\ hpc = "ack" /\ \/ hpc' = "payload" /\ gone' = gone
                          \/ hpc' = "closed" /\ gone' = TRUE
        /\ UNCHANGED <<todo, sent, asked>>
    BY <1>4 DEF HAck, HGoto
  <2> QED
    BY <2>1 DEF Hosting
<1>5. CASE HPayload
  BY <1>5 DEF HPayload, Hosting
<1>6. CASE HCrc
  BY <1>6 DEF HCrc, HGoto, Hosting
<1>7. CASE HClose
  BY <1>7 DEF HClose, HGoto, Hosting
<1>8. CASE Cut
  BY <1>8 DEF Cut, Hosting
<1>9. CASE Task \/ UNCHANGED vars
  <2>1. UNCHANGED <<todo, hpc, sent, gone, asked>>
    BY <1>9, TaskFrame
  <2> QED
    BY <2>1 DEF Hosting
<1> QED
  BY <1>1, <1>2, <1>3, <1>4, <1>5, <1>6, <1>7, <1>8, <1>9 DEF Next, Upload

-----------------------------------------------------------------------------
(***************************************************************************)
(* Cutting and joining.                                                    *)
(***************************************************************************)
LEMMA Nothing ==
  ASSUME NEW s \in Seq(Bytes)
  PROVE  /\ <<>> \o s = s /\ s \o <<>> = s
         /\ IsPrefix(<<>>, s) /\ (IsPrefix(s, <<>>) => s = <<>>)
         /\ s # <<>> => Len(s) >= 1
<1>1. <<>> \in Seq(Bytes) /\ <<>> \o s = s /\ s \o <<>> = s /\ (s # <<>> => Len(s) >= 1)
  OBVIOUS
<1>2. IsPrefix(<<>>, s)
  <2>1. Len(<<>>) <= Len(s) /\ \A j \in 1..Len(<<>>) : <<>>[j] = s[j]
    OBVIOUS
  <2> QED
    BY <1>1, <2>1, PrefixMeans
<1>3. IsPrefix(s, <<>>) => Len(s) <= Len(<<>>)
  BY <1>1, PrefixMeans
<1> QED
  BY <1>1, <1>2, <1>3

LEMMA ConcatMeans ==
  ASSUME NEW s \in Seq(Bytes), NEW t \in Seq(Bytes)
  PROVE  /\ s \o t \in Seq(Bytes) /\ Len(s \o t) = Len(s) + Len(t)
         /\ \A j \in 1..Len(s) : (s \o t)[j] = s[j]
         /\ \A j \in Len(s) + 1..Len(s) + Len(t) : (s \o t)[j] = t[j - Len(s)]
  OBVIOUS

LEMMA PrefixConcat ==
  ASSUME NEW s \in Seq(Bytes), NEW t \in Seq(Bytes), NEW u \in Seq(Bytes)
  PROVE  /\ IsPrefix(t, u) => IsPrefix(s \o t, s \o u)
         /\ IsPrefix(s, s \o t)
<1>1. /\ s \o t \in Seq(Bytes) /\ Len(s \o t) = Len(s) + Len(t)
      /\ \A j \in 1..Len(s) : (s \o t)[j] = s[j]
      /\ \A j \in Len(s) + 1..Len(s) + Len(t) : (s \o t)[j] = t[j - Len(s)]
  OBVIOUS
<1>2. /\ s \o u \in Seq(Bytes) /\ Len(s \o u) = Len(s) + Len(u)
      /\ \A j \in 1..Len(s) : (s \o u)[j] = s[j]
      /\ \A j \in Len(s) + 1..Len(s) + Len(u) : (s \o u)[j] = u[j - Len(s)]
  OBVIOUS
<1>3. Len(s) \in Nat /\ Len(t) \in Nat /\ Len(u) \in Nat
  OBVIOUS
<1>4. ASSUME IsPrefix(t, u) PROVE IsPrefix(s \o t, s \o u)
  <2>1. Len(t) <= Len(u) /\ \A j \in 1..Len(t) : t[j] = u[j]
    BY <1>4, PrefixMeans
  <2>2. ASSUME NEW j \in 1..Len(s) + Len(t) PROVE (s \o t)[j] = (s \o u)[j]
    <3>1. j \in 1..Len(s) \/ j \in Len(s) + 1..Len(s) + Len(t)
      BY <1>3
    <3>2. CASE j \in 1..Len(s)
      BY <1>1, <1>2, <3>2
    <3>3. CASE j \in Len(s) + 1..Len(s) + Len(t)
      <4>1. j - Len(s) \in 1..Len(t) /\ j \in Len(s) + 1..Len(s) + Len(u)
        BY <1>3, <2>1, <3>3
      <4> QED
        BY <1>1, <1>2, <2>1, <3>3, <4>1
    <3> QED
      BY <3>1, <3>2, <3>3
  <2>3. Len(s \o t) <= Len(s \o u)
    BY <1>1, <1>2, <1>3, <2>1
  <2> QED
    BY <1>1, <1>2, <2>2, <2>3, PrefixMeans
<1>5. IsPrefix(s, s \o t)
  <2>1. Len(s) <= Len(s \o t)
    BY <1>1, <1>3
  <2> QED
    BY <1>1, <2>1, PrefixMeans
<1> QED
  BY <1>4, <1>5

LEMMA Regroup ==
  ASSUME NEW s \in Seq(Bytes), NEW t \in Seq(Bytes), NEW u \in Seq(Bytes)
  PROVE  /\ s \o t \in Seq(Bytes) /\ t \o u \in Seq(Bytes)
         /\ (s \o t) \o u = s \o (t \o u)
         /\ Len(s \o t) = Len(s) + Len(t)
  OBVIOUS

\* What is sent next extends what has been sent.
LEMMA ExtendPrefix ==
  ASSUME NEW s \in Seq(Bytes), NEW u \in Seq(Bytes), IsPrefix(s, u),
         NEW i \in Nat, i = Len(s), NEW j \in Nat, i <= j, j <= Len(u)
  PROVE  /\ IsPrefix(s \o SubSeq(u, i + 1, j), u)
         /\ Len(s \o SubSeq(u, i + 1, j)) = j
         /\ SubSeq(u, i + 1, j) \in Seq(Bytes)
<1> DEFINE t == SubSeq(u, i + 1, j)
<1>1. /\ t \in Seq(Bytes) /\ Len(t) = j - i
      /\ \A x \in 1..j - i : t[x] = u[i + x]
  OBVIOUS
<1>2. i <= Len(u) /\ \A x \in 1..i : s[x] = u[x]
  BY PrefixMeans
<1> HIDE DEF t
<1>3. /\ s \o t \in Seq(Bytes) /\ Len(s \o t) = i + Len(t)
      /\ \A x \in 1..i : (s \o t)[x] = s[x]
      /\ \A x \in i + 1..i + Len(t) : (s \o t)[x] = t[x - i]
  BY <1>1
<1>4. Len(s \o t) = j
  BY <1>1, <1>3
<1>5. ASSUME NEW x \in 1..j PROVE (s \o t)[x] = u[x]
  <2>1. CASE x \in 1..i
    BY <1>2, <1>3, <2>1
  <2>2. CASE x \in i + 1..j
    <3>1. x - i \in 1..j - i /\ i + (x - i) = x /\ x \in i + 1..i + Len(t)
      BY <1>1, <2>2
    <3>2. (s \o t)[x] = t[x - i] /\ t[x - i] = u[i + (x - i)]
      BY <1>1, <1>3, <3>1
    <3> QED
      BY <3>1, <3>2
  <2>3. x \in 1..i \/ x \in i + 1..j
    OBVIOUS
  <2> QED
    BY <2>1, <2>2, <2>3
<1>6. IsPrefix(s \o t, u)
  BY <1>3, <1>4, <1>5, PrefixMeans
<1> QED
  BY <1>1, <1>4, <1>6 DEF t

\* The payload is the image and the CRC.
LEMMA PayloadParts ==
  /\ Payload \in Seq(Bytes) /\ Image \in Seq(Bytes) /\ Len(Image) \in Nat /\ Len(Image) >= 1
  /\ Len(Payload) = Len(Image) + 2
  /\ \A i \in 0..Len(Image) : \A j \in i..Len(Image) :
       SubSeq(Image, i + 1, j) = SubSeq(Payload, i + 1, j)
  /\ Tail4 = SubSeq(Payload, Len(Image) + 1, Len(Image) + 2)
  /\ \A s \in Seq(Bytes) :
       Len(s) <= Len(Image) /\ IsPrefix(s, Payload) => IsPrefix(s, Image)
<1>1. Image \in Seq(Bytes) /\ Len(Image) \in Nat /\ Len(Image) >= 1
  BY ConsoleAssumption DEF ConsoleAssumption
<1> DEFINE m == Len(Image)
<1>2. /\ Payload \in Seq(Bytes) /\ Len(Payload) = m + 2
      /\ \A x \in 1..m : Payload[x] = Image[x]
      /\ Payload[m + 1] = "crc1" /\ Payload[m + 2] = "crc2"
  <2>1. PICK y \in Seq(Bytes) : y = Tail4 /\ Len(y) = 2 /\ y[1] = "crc1" /\ y[2] = "crc2"
    BY Tail4Type
  <2>2. /\ Image \o y \in Seq(Bytes) /\ Len(Image \o y) = m + 2
        /\ \A j \in 1..m : (Image \o y)[j] = Image[j]
        /\ \A j \in m + 1..m + 2 : (Image \o y)[j] = y[j - m]
    <3>1. /\ Image \o y \in Seq(Bytes) /\ Len(Image \o y) = Len(Image) + Len(y)
          /\ \A j \in 1..Len(Image) : (Image \o y)[j] = Image[j]
          /\ \A j \in Len(Image) + 1..Len(Image) + Len(y) : (Image \o y)[j] = y[j - Len(Image)]
      BY <1>1, ConcatMeans, Zenon
    <3> QED
      BY <2>1, <3>1, Zenon
  <2>3. /\ m + 1 \in m + 1..m + 2 /\ m + 2 \in m + 1..m + 2
        /\ (m + 1) - m = 1 /\ (m + 2) - m = 2
    BY <1>1
  <2>4. (Image \o y)[m + 1] = "crc1" /\ (Image \o y)[m + 2] = "crc2"
    BY <2>1, <2>2, <2>3
  <2> QED
    BY <2>1, <2>2, <2>4 DEF Payload
<1>3. ASSUME NEW i \in 0..m, NEW j \in i..m
      PROVE  SubSeq(Image, i + 1, j) = SubSeq(Payload, i + 1, j)
  <2> DEFINE s == SubSeq(Image, i + 1, j)
             t == SubSeq(Payload, i + 1, j)
  <2>1. s \in Seq(Bytes) /\ Len(s) = j - i /\ \A x \in 1..j - i : s[x] = Image[i + x]
    BY <1>1
  <2>2. t \in Seq(Bytes) /\ Len(t) = j - i /\ \A x \in 1..j - i : t[x] = Payload[i + x]
    BY <1>1, <1>2
  <2> HIDE DEF s, t
  <2>3. \A x \in 1..j - i : s[x] = t[x]
    <3> TAKE x \in 1..j - i
    <3>1. i + x \in 1..m
      BY <1>1
    <3> QED
      BY <1>2, <2>1, <2>2, <3>1
  <2>4. s = t
    BY <2>1, <2>2, <2>3, SeqEqual
  <2> QED
    BY <2>4 DEF s, t
<1>4. Tail4 = SubSeq(Payload, m + 1, m + 2)
  <2> DEFINE t == SubSeq(Payload, m + 1, m + 2)
  <2>1. t \in Seq(Bytes) /\ Len(t) = 2 /\ \A x \in 1..2 : t[x] = Payload[m + x]
    BY <1>1, <1>2
  <2> HIDE DEF t
  <2>2. \A x \in 1..2 : t[x] = Tail4[x]
    BY <1>1, <1>2, <2>1, Tail4Type
  <2>3. t = Tail4
    BY <2>1, <2>2, SeqEqual, Tail4Type
  <2> QED
    BY <2>3 DEF t
<1>5. ASSUME NEW s \in Seq(Bytes), Len(s) <= m, IsPrefix(s, Payload)
      PROVE  IsPrefix(s, Image)
  <2>1. \A x \in 1..Len(s) : s[x] = Payload[x] /\ x \in 1..m
    BY <1>1, <1>2, <1>5, PrefixMeans
  <2> QED
    BY <1>1, <1>2, <1>5, <2>1, PrefixMeans
<1> QED
  BY <1>1, <1>2, <1>3, <1>4, <1>5

-----------------------------------------------------------------------------
(***************************************************************************)
(* What the host does.                                                     *)
(***************************************************************************)
LEMMA InOrderKept ==
  InOrder /\ UNCHANGED <<executed, asked>> /\ (flushing => flushing') => InOrder'
  BY DEF InOrder, Faithful

\* The connection ends, and what has not arrived is cut short.
LEMMA HostLeaves ==
  ASSUME TypeOK, Straight, net' \in Seq(Bytes), IsPrefix(net', net),
         gone' = TRUE, hpc' = "closed",
         \A i \in DOMAIN back' : \E j \in DOMAIN back : back'[i] = back[j],
         UNCHANGED <<task, ota, executed, asked>>
  PROVE  Straight'
<1>u. /\ UNCHANGED <<dpc, chunk, line, flushing, timed>> /\ UNCHANGED <<got, flashed>>
      /\ UNCHANGED <<executed, asked>>
  BY DEF task, ota
<1>t. /\ net \in Seq(Bytes) /\ chunk \in Seq(Bytes) /\ got \in Seq(Bytes)
      /\ flashed \in Seq(Bytes) /\ asked \in Seq(Seq(Bytes)) /\ executed \in Seq(Seq(Bytes))
  BY DEF TypeOK
<1>b. Begun' <=> Begun
  BY <1>u DEF Begun
<1>1. InOrder'
  BY <1>u, InOrderKept DEF Straight
<1>2. Acked'
  <2>1. \A i \in DOMAIN back' : back'[i] = "ACK" => Begun
    BY DEF Straight, Acked
  <2>2. Begun => Len(executed) = Len(asked)
    BY DEF Straight, Acked
  <2> QED
    BY <1>b, <1>u, <2>1, <2>2 DEF Acked
<1>c. IsPrefix(chunk \o net', chunk \o net) /\ chunk \o net' \in Seq(Bytes) /\ chunk \o net \in Seq(Bytes)
  BY <1>t, PrefixConcat, Regroup
<1>o. \A off \in [Nat -> Int] : off[Len(asked)] \in Int
  BY <1>t
<1>3. ASSUME ~Begun PROVE Listening'
  <2>1. Listening
    BY <1>3 DEF Straight
  <2>2. Reading => Reading'
    <3> SUFFICES ASSUME Reading PROVE Reading'
      OBVIOUS
    <3>1. PICK r \in Seq(Bytes), off \in [Nat -> Int] :
             /\ line = Seen(r) /\ Unended(r)
             /\ Wire(r \o (chunk \o net), Len(executed), asked, gone, off)
      BY DEF Reading
    <3>2. /\ IsPrefix(r \o (chunk \o net'), r \o (chunk \o net))
          /\ r \o (chunk \o net') \in Seq(Bytes) /\ r \o (chunk \o net) \in Seq(Bytes)
      BY <1>c, PrefixConcat, Regroup
    <3>3. Wire(r \o (chunk \o net'), Len(executed), asked, TRUE, off)
      BY <1>o, <3>1, <3>2, WireCut
    <3>4. /\ line' = Seen(r) /\ Unended(r)
          /\ Wire(r \o (chunk' \o net'), Len(executed'), asked', gone', off)
      BY <1>u, <3>1, <3>3
    <3> QED
      BY <3>4 DEF Reading
  <2>3. ASSUME NEW off \in [Nat -> Int], Wire(chunk \o net, Len(executed) + 1, asked, gone, off)
        PROVE  Wire(chunk' \o net', Len(executed') + 1, asked', gone', off)
    <3>1. Wire(chunk \o net', Len(executed) + 1, asked, TRUE, off)
      BY <1>c, <1>o, <2>3, WireCut
    <3> QED
      BY <1>u, <3>1
  <2>4. net = <<>> => net' = <<>>
    BY Nothing
  <2>5. /\ dpc' \in {"recv", "parse", "dispatch", "closed"} /\ ~timed'
        /\ got' = <<>> /\ flashed' = <<>>
        /\ dpc' # "closed" => \A i \in DOMAIN executed' : executed'[i] = Seen(asked'[i])
        /\ dpc' = "recv" => chunk' = <<>>
    BY <1>u, <2>1 DEF Listening
  <2>6. dpc' \in {"recv", "parse"} => ~flushing' /\ Reading'
    BY <1>u, <2>1, <2>2 DEF Listening
  <2>7. dpc' = "dispatch" /\ ~flushing' =>
           /\ Len(executed') < Len(asked') /\ line' = Seen(asked'[Len(executed') + 1])
           /\ \E off \in [Nat -> Int] : Wire(chunk' \o net', Len(executed') + 1, asked', gone', off)
    BY <1>u, <2>1, <2>3 DEF Listening
  <2>8. dpc' = "dispatch" /\ flushing' =>
           /\ gone' /\ net' = <<>> /\ chunk' = <<>>
           /\ line' # <<>> => Len(executed') < Len(asked')
                              /\ IsPrefix(line', Seen(asked'[Len(executed') + 1]))
    BY <1>u, <2>1, <2>4 DEF Listening
  <2> QED
    BY <2>5, <2>6, <2>7, <2>8 DEF Listening
<1>4. ASSUME Begun, dpc \in {"ota_ack", "ota_begin", "ota_recv"} PROVE Taking'
  <2>1. Taking
    BY <1>4 DEF Straight
  <2>2. flashed \o got \in Seq(Bytes) /\ Received \in Seq(Bytes) /\ Received' \in Seq(Bytes)
    BY <1>t, <1>u, Regroup DEF Received
  <2>3. IsPrefix(Received', Received)
    BY <1>t, <1>u, <2>2, PrefixConcat DEF Received
  <2>4. IsPrefix(Received', Payload) /\ (Received = <<>> => Received' = <<>>)
    BY <2>1, <2>2, <2>3, PrefixOfPrefix, PayloadParts, Nothing DEF Taking
  <2>5. Want' = Want
    BY <1>u DEF Want
  <2>6. (\A i \in DOMAIN back : back[i] # "ACK") => \A i \in DOMAIN back' : back'[i] # "ACK"
    OBVIOUS
  <2>7. Payload' = Payload
    BY DEF Payload, Tail4
  <2> QED
    BY <1>u, <2>1, <2>4, <2>5, <2>6, <2>7 DEF Taking
<1>5. ASSUME Begun, dpc \notin {"ota_ack", "ota_begin", "ota_recv"} PROVE Over'
  <2>1. Over
    BY <1>5 DEF Straight
  <2>2. net' = <<>>
    BY <2>1, Nothing DEF Over
  <2> QED
    BY <1>u, <2>1, <2>2 DEF Over
<1> QED
  BY <1>1, <1>2, <1>3, <1>4, <1>5, <1>b, <1>u DEF Straight

\* The next line is on its way.
LEMMA SendKept == TypeOK /\ TypeOK' /\ Hosting /\ Straight /\ HSend => Straight'
<1> SUFFICES ASSUME TypeOK, TypeOK', Hosting, Straight, HSend PROVE Straight'
  OBVIOUS
<1>u. /\ UNCHANGED <<dpc, chunk, line, flushing, timed>> /\ UNCHANGED <<got, flashed>>
      /\ executed' = executed /\ back' = back /\ gone' = gone /\ gone = FALSE
      /\ hpc = "idle" /\ hpc' \in {"ack", "reply"} /\ todo # <<>>
      /\ asked' = Append(asked, Head(todo)) /\ net' = net \o Append(Head(todo), "nl")
  BY DEF HSend, HGoto, hFrame, task, ota, Hosting, TypeOK
<1>t. /\ net \in Seq(Bytes) /\ chunk \in Seq(Bytes) /\ net' \in Seq(Bytes)
      /\ asked \in Seq(Seq(Bytes)) /\ executed \in Seq(Seq(Bytes))
  BY DEF TypeOK
<1>l. PICK l \in Seq(Bytes), m \in Seq(Bytes) : l = Head(todo) /\ m = Append(l, "nl")
  <2>1. todo \in Seq(Seq(Bytes)) /\ todo # <<>>
    BY <1>u DEF TypeOK
  <2>2. PICK l \in Seq(Bytes) : l = Head(todo)
    BY <2>1
  <2>3. Append(l, "nl") \in Seq(Bytes)
    BY DEF Bytes
  <2> QED
    BY <2>2, <2>3
<1>b. ~Begun /\ ~Begun'
  BY <1>u DEF Straight, Acked, Begun
<1>a. PICK n \in Nat, z \in Nat :
        /\ n = Len(executed) /\ z = Len(asked) /\ n <= z /\ Len(asked') = z + 1
        /\ DOMAIN executed = 1..n
        /\ \A i \in 1..z : asked'[i] = asked[i]
  <2>1. PICK n \in Nat, z \in Nat : n = Len(executed) /\ z = Len(asked) /\ DOMAIN executed = 1..n
    BY <1>t
  <2>2. n <= z
    BY <2>1 DEF Straight, InOrder
  <2> QED
    <3>1. Len(Append(asked, l)) = z + 1 /\ \A i \in 1..z : Append(asked, l)[i] = asked[i]
      <4>1. l \in Seq(Bytes) /\ asked \in Seq(Seq(Bytes)) /\ z \in Nat /\ z = Len(asked)
        BY <1>t, <1>l, <2>1
      <4> QED
        BY <4>1, AppendMeans
    <3> QED
      BY <1>u, <1>l, <2>1, <2>2, <3>1
<1>1. InOrder'
  <2>1. \A i \in DOMAIN executed : i \in 1..z /\ asked'[i] = asked[i]
    BY <1>a
  <2>2. Len(executed') <= Len(asked')
    BY <1>a, <1>u
  <2> QED
    BY <1>u, <2>1, <2>2 DEF Straight, InOrder, Faithful
<1>2. Acked'
  BY <1>b, <1>u DEF Straight, Acked
<1>3. Listening
  BY <1>b DEF Straight
<1>4. ASSUME NEW text \in Seq(Bytes), NEW k \in 0..z,
             NEW off \in [Nat -> Int], Wire(text, k, asked, gone, off)
      PROVE  \E more \in [Nat -> Int] : Wire(text \o m, k, asked', gone', more)
  <2>1. Wire(text, k, asked, FALSE, off) /\ k \in 0..Len(asked)
    BY <1>4, <1>a, <1>u
  <2>2. \E more \in [Nat -> Int] : Wire(text \o Append(l, "nl"), k, Append(asked, l), FALSE, more)
    BY <1>t, <2>1, WireSend
  <2> QED
    BY <1>l, <1>u, <2>2
<1>5. chunk' \o net' = (chunk \o net) \o m /\ chunk \o net \in Seq(Bytes)
  <2>1. net' = net \o m /\ chunk' = chunk
    BY <1>l, <1>u
  <2>m. m \in Seq(Bytes) /\ net \in Seq(Bytes) /\ chunk \in Seq(Bytes)
    BY <1>t, <1>l
  <2>2. (chunk \o net) \o m = chunk \o (net \o m) /\ chunk \o net \in Seq(Bytes)
    BY <2>m, Regroup
  <2> QED
    BY <2>1, <2>2
<1>6. Reading => Reading'
  <2> SUFFICES ASSUME Reading PROVE Reading'
    OBVIOUS
  <2>1. PICK r \in Seq(Bytes), off \in [Nat -> Int] :
           /\ line = Seen(r) /\ Unended(r)
           /\ Wire(r \o (chunk \o net), Len(executed), asked, gone, off)
    BY DEF Reading
  <2>2. r \o (chunk \o net) \in Seq(Bytes) /\ n \in 0..z
    BY <1>5, <1>a, Regroup
  <2>3. PICK more \in [Nat -> Int] : Wire((r \o (chunk \o net)) \o m, n, asked', gone', more)
    BY <1>4, <1>a, <2>1, <2>2
  <2>4. (r \o (chunk \o net)) \o m = r \o (chunk' \o net')
    <3>1. (r \o (chunk \o net)) \o m = r \o ((chunk \o net) \o m)
      BY <1>5, Regroup, ZenonT(60)
    <3> QED
      BY <1>5, <3>1
  <2>5. /\ line' = Seen(r) /\ Unended(r)
        /\ Wire(r \o (chunk' \o net'), Len(executed'), asked', gone', more)
    BY <1>a, <1>u, <2>1, <2>3, <2>4
  <2> QED
    BY <2>5 DEF Reading
<1>7. ASSUME dpc = "dispatch", ~flushing
      PROVE  /\ Len(executed') < Len(asked') /\ line' = Seen(asked'[Len(executed') + 1])
             /\ \E off \in [Nat -> Int] : Wire(chunk' \o net', Len(executed') + 1, asked', gone', off)
  <2>1. n < z /\ line = Seen(asked[n + 1])
    BY <1>3, <1>7, <1>a DEF Listening
  <2>2. PICK off \in [Nat -> Int] : Wire(chunk \o net, n + 1, asked, gone, off)
    BY <1>3, <1>7, <1>a DEF Listening
  <2>3. n + 1 \in 0..z /\ n + 1 \in 1..z /\ n < z + 1
    BY <2>1
  <2>4. \E more \in [Nat -> Int] : Wire(chunk' \o net', n + 1, asked', gone', more)
    BY <1>4, <1>5, <2>2, <2>3
  <2> QED
    BY <1>a, <1>u, <2>1, <2>3, <2>4
<1>8. \A i \in DOMAIN executed : asked'[i] = asked[i]
  BY <1>a
<1>9. Listening'
  <2>1. /\ dpc' \in {"recv", "parse", "dispatch"} /\ ~timed'
        /\ got' = <<>> /\ flashed' = <<>>
        /\ \A i \in DOMAIN executed' : executed'[i] = Seen(asked'[i])
        /\ dpc' = "recv" => chunk' = <<>>
        /\ dpc' = "dispatch" => ~flushing'
    BY <1>3, <1>8, <1>u DEF Listening
  <2>2. dpc' \in {"recv", "parse"} => ~flushing' /\ Reading'
    BY <1>3, <1>6, <1>u DEF Listening
  <2>3. dpc' = "dispatch" /\ ~flushing' =>
           /\ Len(executed') < Len(asked') /\ line' = Seen(asked'[Len(executed') + 1])
           /\ \E off \in [Nat -> Int] : Wire(chunk' \o net', Len(executed') + 1, asked', gone', off)
    BY <1>7, <1>u
  <2> QED
    BY <2>1, <2>2, <2>3 DEF Listening
<1> QED
  BY <1>1, <1>2, <1>9, <1>b DEF Straight

\* A part of the payload is on its way.
LEMMA UploadKept ==
  ASSUME TypeOK, TypeOK', Straight, hpc = "payload", hpc' \in {"payload", "verdict"},
         NEW k \in Nat, sent <= k, k <= Len(Payload), hpc' = "payload" => sent' = k,
         net' = net \o SubSeq(Payload, sent + 1, k),
         UNCHANGED <<gone, back, task, ota, executed, asked>>
  PROVE  Straight'
<1>u. /\ UNCHANGED <<dpc, chunk, line, flushing, timed>> /\ UNCHANGED <<got, flashed>>
      /\ UNCHANGED <<executed, asked, back, gone>>
  BY DEF task, ota
<1>t. /\ net \in Seq(Bytes) /\ got \in Seq(Bytes) /\ flashed \in Seq(Bytes)
  BY DEF TypeOK
<1>1. Begun /\ Begun'
  BY <1>u DEF Straight, Acked, Begun
<1>2. InOrder'
  BY <1>u, InOrderKept DEF Straight
<1>3. Acked'
  <2>1. hpc' \notin {"idle", "reply"}
    OBVIOUS
  <2> QED
    BY <1>1, <1>u, <2>1 DEF Straight, Acked
<1>4. dpc \in {"ota_ack", "ota_begin", "ota_recv"} /\ Taking
  BY <1>1 DEF Straight, Over
<1>5. Taking'
  <2>1. flashed \o got \in Seq(Bytes) /\ Received \in Seq(Bytes)
    BY <1>t, Regroup DEF Received
  <2>2. Len(Received) = sent /\ sent \in Nat
    BY <1>4, <2>1 DEF Taking
  <2> DEFINE m == SubSeq(Payload, sent + 1, k)
  <2>3. IsPrefix(Received \o m, Payload) /\ Len(Received \o m) = k /\ m \in Seq(Bytes)
    BY <1>4, <2>1, <2>2, ExtendPrefix, PayloadParts DEF Taking
  <2> HIDE DEF m
  <2>4. Received' = Received \o m
    <3>1. flashed \o got \in Seq(Bytes) /\ net \in Seq(Bytes) /\ m \in Seq(Bytes)
      BY <1>t, <2>1, <2>3
    <3>2. (flashed \o got) \o (net \o m) = ((flashed \o got) \o net) \o m
      BY <3>1, Regroup
    <3> QED
      BY <1>u, <3>2 DEF Received, m
  <2>5. Payload' = Payload /\ Want' = Want
    BY <1>u DEF Payload, Tail4, Want
  <2>6. dpc # "ota_ack"
    BY <1>4 DEF Taking
  <2>7. IsPrefix(Received', Payload) /\ (hpc' = "payload" => Len(Received') = sent')
    BY <2>3, <2>4
  <2> QED
    BY <1>4, <1>u, <2>5, <2>6, <2>7 DEF Taking
<1> QED
  BY <1>1, <1>2, <1>3, <1>4, <1>5, <1>u DEF Straight

\* Every step of the host.
LEMMA HostKept ==
  ASSUME TypeOK, TypeOK', Hosting, Straight,
         HSend \/ HReply \/ HAckTimeout \/ Upload \/ HClose \/ Cut
  PROVE  Straight'
<1> USE DEF stream
<1>t. /\ net \in Seq(Bytes) /\ net' \in Seq(Bytes) /\ sent \in Nat /\ sent <= Len(Image)
      /\ sent' \in Nat /\ sent' <= Len(Image) /\ back \in Seq({"answer", "ACK", "ERR", "OK", "CRCFAIL"})
  BY PayloadParts DEF TypeOK
<1>n. IsPrefix(net, net)
  BY <1>t, PrefixMeans
<1>b. /\ \A i \in DOMAIN back : \E j \in DOMAIN back : back[i] = back[j]
      /\ back # <<>> => \A i \in DOMAIN Tail(back) : \E j \in DOMAIN back : Tail(back)[i] = back[j]
  <2>1. ASSUME back # <<>>, NEW i \in DOMAIN Tail(back)
        PROVE  i + 1 \in DOMAIN back /\ Tail(back)[i] = back[i + 1]
    BY <1>t, <2>1
  <2> QED
    BY <2>1
<1>1. CASE HSend
  BY <1>1, SendKept
<1>2. CASE HReply
  <2>1. /\ hpc = "reply" /\ hpc' = "idle" /\ (back' = back \/ (back # <<>> /\ back' = Tail(back)))
        /\ UNCHANGED <<net, gone, asked, executed>> /\ UNCHANGED <<dpc, chunk, line, flushing, timed>>
        /\ UNCHANGED <<got, flashed>>
    BY <1>2 DEF HReply, HGoto, hFrame, task, ota
  <2>2. ~Begun /\ ~Begun' /\ Listening /\ \A i \in DOMAIN back : back[i] # "ACK"
    BY <2>1 DEF Straight, Acked, Begun
  <2>3. \A i \in DOMAIN back' : back'[i] # "ACK"
    BY <1>b, <2>1, <2>2
  <2>4. Acked' /\ InOrder'
    BY <2>1, <2>2, <2>3, InOrderKept DEF Acked, Straight
  <2>5. Reading' <=> Reading
    BY <2>1 DEF Reading
  <2>6. Listening'
    BY <2>1, <2>2, <2>5 DEF Listening
  <2> QED
    BY <2>2, <2>4, <2>6 DEF Straight
<1>3. CASE HAckTimeout
  <2>1. /\ gone' = TRUE /\ hpc' = "closed" /\ net' = net /\ back' = back
        /\ UNCHANGED <<task, ota, executed, asked>>
    BY <1>3 DEF HAckTimeout, HGoto, hFrame
  <2> QED
    BY <1>b, <1>n, <1>t, <2>1, HostLeaves
<1>4. CASE HAck
  <2>1. /\ hpc = "ack" /\ back # <<>> /\ back' = Tail(back) /\ net' = net
        /\ UNCHANGED <<task, ota, executed, asked>>
    BY <1>4 DEF HAck, HGoto, hFrame
  <2>2. CASE Head(back) = "ACK"
    <3>1. hpc' = "payload" /\ gone' = gone /\ sent' = sent
      BY <1>4, <2>2 DEF HAck, HGoto
    <3>u. /\ UNCHANGED <<dpc, chunk, line, flushing, timed>> /\ UNCHANGED <<got, flashed>>
          /\ UNCHANGED <<executed, asked, net, gone>>
      BY <2>1, <3>1 DEF task, ota
    <3>2. 1 \in DOMAIN back /\ back[1] = "ACK"
      BY <1>t, <2>1, <2>2
    <3>3. Begun /\ Begun'
      BY <3>2, <3>u DEF Straight, Acked, Begun
    <3>4. InOrder'
      BY <3>u, InOrderKept DEF Straight
    <3>5. Acked'
      BY <3>1, <3>3, <3>u DEF Straight, Acked
    <3>6. dpc \in {"ota_ack", "ota_begin", "ota_recv"} /\ Taking
      BY <2>1, <3>3 DEF Straight, Over
    <3>7. Received = <<>> /\ Len(<<>>) = 0 /\ sent = 0 /\ dpc # "ota_ack"
      BY <2>1, <3>2, <3>6 DEF Taking, Hosting
    <3>8. Received' = Received /\ Payload' = Payload /\ Want' = Want
      BY <3>u DEF Received, Payload, Tail4, Want
    <3>9. Taking'
      BY <3>1, <3>6, <3>7, <3>8, <3>u DEF Taking
    <3> QED
      BY <3>3, <3>4, <3>5, <3>6, <3>9, <3>u DEF Straight
  <2>3. CASE Head(back) # "ACK"
    <3>1. gone' = TRUE /\ hpc' = "closed"
      BY <1>4, <2>3 DEF HAck, HGoto
    <3> QED
      BY <1>b, <1>n, <1>t, <2>1, <3>1, HostLeaves
  <2> QED
    BY <2>2, <2>3
<1>5. CASE HPayload
  <2>1. /\ hpc = "payload" /\ hpc' = "payload"
        /\ net' = net \o SubSeq(Image, sent + 1, sent')
        /\ UNCHANGED <<gone, back, task, ota, executed, asked>>
    BY <1>5 DEF HPayload, hFrame
  <2>2. sent <= sent'
    BY <1>5, <1>t, SentGrows
  <2>3. sent \in 0..Len(Image) /\ sent' \in sent..Len(Image) /\ sent' <= Len(Payload)
    BY <1>t, <2>2, PayloadParts
  <2>4. SubSeq(Image, sent + 1, sent') = SubSeq(Payload, sent + 1, sent')
    BY <2>3, PayloadParts
  <2>5. \E k \in Nat : /\ sent <= k /\ k <= Len(Payload) /\ (hpc' = "payload" => sent' = k)
                       /\ net' = net \o SubSeq(Payload, sent + 1, k)
    BY <1>t, <2>1, <2>2, <2>3, <2>4
  <2> QED
    BY <2>1, <2>5, UploadKept
<1>6. CASE HCrc
  <2>1. /\ hpc = "payload" /\ hpc' = "verdict" /\ sent = Len(Image) /\ net' = net \o Tail4
        /\ UNCHANGED <<gone, back, task, ota, executed, asked>>
    BY <1>6 DEF HCrc, HGoto, hFrame
  <2>2. /\ sent + 2 \in Nat /\ sent <= sent + 2 /\ sent + 2 <= Len(Payload)
    BY <1>t, <2>1, PayloadParts
  <2>3. net' = net \o SubSeq(Payload, sent + 1, sent + 2)
    BY <2>1, PayloadParts
  <2> QED
    BY <2>1, <2>2, <2>3, UploadKept
<1>7. CASE HClose
  <2>1. /\ gone' = TRUE /\ hpc' = "closed" /\ net' = net /\ back' = back
        /\ UNCHANGED <<task, ota, executed, asked>>
    BY <1>7 DEF HClose, HGoto, hFrame
  <2> QED
    BY <1>b, <1>n, <1>t, <2>1, HostLeaves
<1>8. CASE Cut
  <2>1. /\ gone' = TRUE /\ hpc' = "closed" /\ back' = back
        /\ UNCHANGED <<task, ota, executed, asked>>
    BY <1>8 DEF Cut, hFrame
  <2>2. PICK n \in 0..Len(net) : net' = SubSeq(net, 1, n)
    BY <1>8 DEF Cut
  <2>3. n \in Nat /\ n <= Len(net)
    BY <1>t, <2>2
  <2>4. net = net' \o SubSeq(net, n + 1, Len(net)) /\ SubSeq(net, n + 1, Len(net)) \in Seq(Bytes)
    BY <1>t, <2>2, <2>3, SomeTaken
  <2>5. IsPrefix(net', net)
    BY <1>t, <2>4, PrefixConcat
  <2> QED
    BY <1>b, <1>t, <2>1, <2>5, HostLeaves
<1> QED
  BY <1>1, <1>2, <1>3, <1>4, <1>5, <1>6, <1>7, <1>8 DEF Upload

-----------------------------------------------------------------------------
(***************************************************************************)
(* What the task does with lines.                                          *)
(***************************************************************************)
LEMMA RecvKept == TypeOK /\ TypeOK' /\ Straight /\ DRecv => Straight'
<1> SUFFICES ASSUME TypeOK, TypeOK', Straight, DRecv PROVE Straight'
  OBVIOUS
<1>t. net \in Seq(Bytes) /\ Len(net) \in Nat /\ chunk \in Seq(Bytes) /\ RecvBuf \in Nat
        /\ net' \in Seq(Bytes) /\ chunk' \in Seq(Bytes)
  BY ConsoleAssumption DEF TypeOK, ConsoleAssumption
<1>u. /\ UNCHANGED <<line, flushing, timed, got, flashed, executed, asked, gone, back, hpc>>
      /\ dpc = "recv" /\ dpc' = "parse"
  BY DEF DRecv, DGoto, ota, dFrame, host
<1>1. PICK n \in 1..Min({Len(net), RecvBuf}) : chunk' = SubSeq(net, 1, n) /\ Take(n)
  BY DEF DRecv
<1>2. n \in Nat /\ 1 <= n /\ n <= Len(net)
  BY <1>t, MinIsIn
<1>3. chunk' \o net' = net
  BY <1>t, <1>1, <1>2, SomeTaken DEF Take
<1>4. ~Begun /\ ~Begun'
  <2> SUFFICES ASSUME Begun PROVE FALSE
    BY <1>u DEF Begun
  <2>1. net = <<>>
    BY <1>u DEF Straight, Over
  <2> QED
    BY <1>2, <2>1
<1>5. Listening /\ chunk = <<>>
  BY <1>4, <1>u DEF Straight, Listening
<1>6. Reading'
  <2>1. PICK r \in Seq(Bytes), off \in [Nat -> Int] :
           /\ line = Seen(r) /\ Unended(r)
           /\ Wire(r \o (chunk \o net), Len(executed), asked, gone, off)
    BY <1>5, <1>u DEF Listening, Reading
  <2>2. chunk \o net = chunk' \o net'
    BY <1>t, <1>3, <1>5, Nothing
  <2>3. /\ line' = Seen(r) /\ Unended(r)
        /\ Wire(r \o (chunk' \o net'), Len(executed'), asked', gone', off)
    BY <1>u, <2>1, <2>2
  <2> QED
    BY <2>3 DEF Reading
<1>7. Listening'
  BY <1>5, <1>6, <1>u DEF Listening
<1>8. InOrder' /\ Acked'
  <2>1. InOrder'
    BY <1>u, InOrderKept DEF Straight
  <2> QED
    BY <1>4, <1>u, <2>1 DEF Straight, Acked
<1> QED
  BY <1>4, <1>7, <1>8 DEF Straight

LEMMA RecvEndsKept == TypeOK /\ TypeOK' /\ Straight /\ DRecvEnds => Straight'
<1> SUFFICES ASSUME TypeOK, TypeOK', Straight, DRecvEnds PROVE Straight'
  OBVIOUS
<1>t. net \in Seq(Bytes) /\ chunk \in Seq(Bytes) /\ asked \in Seq(Seq(Bytes))
        /\ executed \in Seq(Seq(Bytes))
  BY DEF TypeOK
<1>u. /\ UNCHANGED <<net, chunk, line, timed, got, flashed, executed, asked, gone, back, hpc>>
      /\ dpc = "recv" /\ dpc' = "dispatch" /\ flushing' = TRUE
      /\ net = <<>> /\ (gone \/ timed)
  BY DEF DRecvEnds, DGoto, ota, dFrame, host, stream
<1>b. Begun' <=> Begun
  BY <1>u DEF Begun
<1>1. InOrder'
  BY <1>u, InOrderKept DEF Straight
<1>2. Acked'
  BY <1>b, <1>u DEF Straight, Acked
<1>3. ASSUME ~Begun PROVE Listening'
  <2>1. Listening /\ chunk = <<>> /\ gone
    BY <1>3, <1>u DEF Straight, Listening
  <2>2. PICK r \in Seq(Bytes), off \in [Nat -> Int] :
           /\ line = Seen(r) /\ Unended(r)
           /\ Wire(r \o (chunk \o net), Len(executed), asked, gone, off)
    BY <1>u, <2>1 DEF Listening, Reading
  <2>3. chunk \o net = <<>> /\ r \o <<>> = r
    BY <1>u, <2>1, Nothing
  <2>4. Wire(r, Len(executed), asked, gone, off)
    BY <2>2, <2>3
  <2>5. Len(executed) \in 0..Len(asked)
    BY <1>t DEF Straight, InOrder
  <2>6. ASSUME line # <<>>
        PROVE  Len(executed) < Len(asked) /\ IsPrefix(line, Seen(asked[Len(executed) + 1]))
    <3>1. r # <<>>
      BY <2>2, <2>6, FilledNothing DEF Seen
    <3>2. Len(executed) < Len(asked) /\ IsPrefix(r, asked[Len(executed) + 1])
      BY <1>t, <2>2, <2>4, <2>5, <3>1, WireRest
    <3>3. asked[Len(executed) + 1] \in Seq(Bytes)
      BY <1>t, <2>5, <3>2
    <3> QED
      BY <2>2, <3>2, <3>3, SeenPart
  <2> QED
    BY <1>u, <2>1, <2>6 DEF Listening
<1>4. ASSUME Begun PROVE Over'
  BY <1>4, <1>u DEF Straight, Over
<1> QED
  BY <1>1, <1>2, <1>3, <1>4, <1>b, <1>u DEF Straight

LEMMA UnendedConcat ==
  ASSUME NEW r \in Seq(Bytes), NEW h \in Seq(Bytes), Unended(r), Unended(h)
  PROVE  Unended(r \o h)
<1> DEFINE s == r \o h
<1>1. /\ Len(s) = Len(r) + Len(h) /\ \A j \in 1..Len(r) : s[j] = r[j]
      /\ \A j \in Len(r) + 1..Len(r) + Len(h) : s[j] = h[j - Len(r)]
  BY ConcatMeans
<1>2. Len(r) \in Nat /\ Len(h) \in Nat
  OBVIOUS
<1> HIDE DEF s
<1>3. ASSUME NEW j \in 1..Len(r) + Len(h) PROVE s[j] # "nl"
  <2>1. j \in 1..Len(r) \/ j \in Len(r) + 1..Len(r) + Len(h)
    BY <1>2
  <2>2. CASE j \in 1..Len(r)
    BY <1>1, <2>2 DEF Unended
  <2>3. CASE j \in Len(r) + 1..Len(r) + Len(h)
    <3>1. j - Len(r) \in 1..Len(h)
      BY <1>2, <2>3
    <3> QED
      BY <1>1, <2>3, <3>1 DEF Unended
  <2> QED
    BY <2>1, <2>2, <2>3
<1>4. Unended(s)
  BY <1>1, <1>3 DEF Unended
<1> QED
  BY <1>4 DEF s

LEMMA ParseRestKept == TypeOK /\ TypeOK' /\ Straight /\ DParseRest => Straight'
<1> SUFFICES ASSUME TypeOK, TypeOK', Straight, DParseRest PROVE Straight'
  OBVIOUS
<1>t. net \in Seq(Bytes) /\ chunk \in Seq(Bytes)
  BY DEF TypeOK
<1>u. /\ UNCHANGED <<net, flushing, timed, got, flashed, executed, asked, gone, back, hpc>>
      /\ dpc = "parse" /\ dpc' = "recv" /\ line' = Filled(line, chunk) /\ chunk' = <<>>
      /\ \A k \in DOMAIN chunk : chunk[k] # "nl"
  BY DEF DParseRest, DGoto, ota, dFrame, host, stream, pFrame
<1>b. Begun' <=> Begun
  BY <1>u DEF Begun
<1>1. InOrder'
  BY <1>u, InOrderKept DEF Straight
<1>2. Acked'
  BY <1>b, <1>u DEF Straight, Acked
<1>3. ASSUME ~Begun PROVE Listening'
  <2>1. Listening /\ ~flushing
    BY <1>3, <1>u DEF Straight, Listening
  <2>2. PICK r \in Seq(Bytes), off \in [Nat -> Int] :
           /\ line = Seen(r) /\ Unended(r)
           /\ Wire(r \o (chunk \o net), Len(executed), asked, gone, off)
    BY <1>u, <2>1 DEF Listening, Reading
  <2> DEFINE s == r \o chunk
  <2>3. line' = Seen(s)
    BY <1>t, <1>u, <2>2, FilledConcat DEF Seen
  <2>4. s \in Seq(Bytes) /\ r \o (chunk \o net) = s \o net
    BY <1>t, <2>2, Regroup
  <2>5. Unended(s)
    <3>1. Unended(chunk)
      BY <1>t, <1>u DEF Unended
    <3> QED
      BY <1>t, <2>2, <3>1, UnendedConcat
  <2>6. chunk' \o net' = net
    BY <1>t, <1>u, Nothing
  <2> HIDE DEF s
  <2>7. Wire(s \o (chunk' \o net'), Len(executed'), asked', gone', off)
    BY <1>u, <2>2, <2>4, <2>6
  <2>8. Reading'
    BY <2>2, <2>3, <2>4, <2>5, <2>7 DEF Reading
  <2> QED
    BY <1>u, <2>1, <2>8 DEF Listening
<1>4. ASSUME Begun PROVE Over'
  <2>1. Over /\ line = <<>> /\ chunk = <<>>
    BY <1>4, <1>u DEF Straight, Over
  <2>2. line' = <<>>
    BY <1>u, <2>1, FilledNothing
  <2> QED
    BY <1>u, <2>1, <2>2 DEF Over
<1> QED
  BY <1>1, <1>2, <1>3, <1>4, <1>b, <1>u DEF Straight

\* The first line in the stream is the first line sent; the others follow.
LEMMA NextLine ==
  ASSUME NEW v \in Seq(Bytes), Unended(v), NEW t \in Seq(Bytes),
         NEW a \in Seq(Seq(Bytes)), NEW n \in 0..Len(a), \A i \in 1..Len(a) : Unended(a[i]),
         NEW off \in [Nat -> Int], NEW ended, Wire(Append(v, "nl") \o t, n, a, ended, off)
  PROVE  /\ n < Len(a) /\ v = a[n + 1]
         /\ \E less \in [Nat -> Int] : Wire(t, n + 1, a, ended, less)
<1> DEFINE u == Append(v, "nl")
           text == u \o t
<1>1. PICK p \in Nat : p = Len(v) + 1 /\ Len(v) \in Nat
  <2>1. Len(v) \in Nat /\ Len(v) + 1 \in Nat
    OBVIOUS
  <2> QED
    BY <2>1
<1>2. /\ u \in Seq(Bytes) /\ Len(u) = p /\ u[p] = "nl" /\ \A j \in 1..p - 1 : u[j] = v[j]
  BY <1>1 DEF Bytes
<1>3. PICK h \in Nat : h = Len(t)
  OBVIOUS
<1> HIDE DEF u
<1>4. /\ text \in Seq(Bytes) /\ Len(text) = p + h
      /\ \A j \in 1..p : text[j] = u[j]
      /\ \A j \in p + 1..p + h : text[j] = t[j - p]
  BY <1>2, <1>3, ConcatMeans
<1>a. Wire(text, n, a, ended, off)
  BY DEF u
<1> HIDE DEF text
<1>5. p \in 1..Len(text) /\ p \in 1..p /\ p - 1 = Len(v)
  BY <1>1, <1>3, <1>4
<1>6. /\ text[p] = "nl" /\ \A q \in 1..p - 1 : text[q] = v[q]
  <2>1. \A q \in 1..p - 1 : q \in 1..p
    BY <1>1
  <2> QED
    BY <1>2, <1>4, <1>5, <2>1
<1>7. \A q \in 1..p - 1 : text[q] # "nl"
  BY <1>5, <1>6 DEF Unended
<1>8. n < Len(a) /\ p = Len(a[n + 1]) + 1 /\ \A j \in 1..p - 1 : text[j] = a[n + 1][j]
  BY <1>4, <1>5, <1>6, <1>7, <1>a, WireEnds
<1>9. v = a[n + 1]
  <2>1. a[n + 1] \in Seq(Bytes) /\ Len(a[n + 1]) \in Nat
    BY <1>8, SMTT(30)
  <2>2. Len(a[n + 1]) = Len(v)
    <3>1. PICK x \in Nat, y \in Nat : x = Len(v) /\ y = Len(a[n + 1]) /\ x + 1 = y + 1
      <4>1. Len(v) \in Nat /\ Len(v) + 1 = Len(a[n + 1]) + 1
        BY <1>1, <1>8, Zenon
      <4> QED
        BY <2>1, <4>1, Zenon
    <3> QED
      BY <3>1, SMTT(30)
  <2>3. \A j \in 1..Len(v) : v[j] = a[n + 1][j]
    BY <1>5, <1>6, <1>8
  <2> QED
    BY <2>1, <2>2, <2>3, SeqEqual
<1>10. Len(t) = Len(text) - p /\ \A j \in 1..Len(t) : t[j] = text[p + j]
  <2>1. Len(t) = Len(text) - p
    BY <1>1, <1>3, <1>4
  <2>2. \A j \in 1..h : p + j \in p + 1..p + h /\ (p + j) - p = j
    BY <1>1, <1>3
  <2> QED
    BY <1>3, <1>4, <2>1, <2>2
<1>11. n \in Nat
  OBVIOUS
<1>12. \E less \in [Nat -> Int] : Wire(t, n + 1, a, ended, less)
  BY <1>4, <1>5, <1>8, <1>10, <1>11, <1>a, WireShift
<1> QED
  BY <1>8, <1>9, <1>12

\* A chunk with an end of line in it.
LEMMA CutAtEnd ==
  ASSUME NEW s \in Seq(Bytes), NEW k \in 1..Len(s), s[k] = "nl",
         \A j \in 1..k - 1 : s[j] # "nl"
  PROVE  \E h \in Seq(Bytes), t \in Seq(Bytes) :
           /\ h = SubSeq(s, 1, k - 1) /\ t = SubSeq(s, k + 1, Len(s))
           /\ Unended(h) /\ s = Append(h, "nl") \o t
<1>1. k \in Nat /\ k - 1 \in Nat /\ k <= Len(s) /\ k - 1 <= Len(s)
  OBVIOUS
<1> DEFINE h == SubSeq(s, 1, k - 1)
           c == SubSeq(s, 1, k)
           t == SubSeq(s, k + 1, Len(s))
<1>2. /\ h \in Seq(Bytes) /\ Len(h) = k - 1 /\ \A j \in 1..k - 1 : h[j] = s[j]
      /\ c \in Seq(Bytes) /\ Len(c) = k /\ \A j \in 1..k : c[j] = s[j]
  BY <1>1
<1>3. t \in Seq(Bytes) /\ s = c \o t
  BY <1>1, SomeTaken
<1> HIDE DEF h, c, t
<1>4. Unended(h)
  BY <1>2 DEF Unended
<1>5. PICK m \in Seq(Bytes) : /\ m = Append(h, "nl") /\ Len(m) = k /\ m[k] = "nl"
                              /\ \A j \in 1..k - 1 : m[j] = h[j]
  <2>1. Append(h, "nl") \in Seq(Bytes)
    BY <1>2 DEF Bytes
  <2>2. Len(Append(h, "nl")) = k
    BY <1>1, <1>2
  <2>3. Append(h, "nl")[k] = "nl" /\ \A j \in 1..k - 1 : Append(h, "nl")[j] = h[j]
    BY <1>1, <1>2
  <2> QED
    BY <2>1, <2>2, <2>3
<1>6. m = c
  <2>1. \A j \in 1..k : j = k \/ j \in 1..k - 1
    BY <1>1
  <2>2. \A j \in 1..k : m[j] = c[j]
    BY <1>2, <1>5, <2>1
  <2> QED
    BY <1>2, <1>5, <2>2, SeqEqual
<1> QED
  BY <1>2, <1>3, <1>4, <1>5, <1>6, ZenonT(60) DEF h, t

Joined(r, m, t, w) == r \o ((m \o t) \o w) = (r \o m) \o (t \o w)

LEMMA Join ==
  ASSUME NEW r \in Seq(Bytes), NEW m \in Seq(Bytes), NEW t \in Seq(Bytes), NEW w \in Seq(Bytes)
  PROVE  Joined(r, m, t, w)
  BY SMTT(30) DEF Joined

LEMMA JoinLetter ==
  ASSUME NEW r \in Seq(Bytes), NEW h \in Seq(Bytes), NEW b \in Bytes
  PROVE  Append(h, b) \in Seq(Bytes) /\ r \o Append(h, b) = Append(r \o h, b)
  OBVIOUS

Regrouped(r, h, t, w) == r \o ((Append(h, "nl") \o t) \o w) = Append(r \o h, "nl") \o (t \o w)

LEMMA RegroupLine ==
  ASSUME NEW r \in Seq(Bytes), NEW h \in Seq(Bytes), NEW t \in Seq(Bytes), NEW w \in Seq(Bytes)
  PROVE  Regrouped(r, h, t, w)
<1> DEFINE m == Append(h, "nl")
<1>1. m \in Seq(Bytes) /\ r \o m = Append(r \o h, "nl")
  BY JoinLetter DEF Bytes
<1> HIDE DEF m
<1>2. Joined(r, m, t, w)
  BY <1>1, Join
<1> QED
  BY <1>1, <1>2 DEF Joined, Regrouped, m

LEMMA ParseLineKept == TypeOK /\ TypeOK' /\ Hosting /\ Straight /\ DParseLine => Straight'
<1> SUFFICES ASSUME TypeOK, TypeOK', Hosting, Straight, DParseLine PROVE Straight'
  OBVIOUS
<1>t. net \in Seq(Bytes) /\ chunk \in Seq(Bytes) /\ asked \in Seq(Seq(Bytes))
        /\ executed \in Seq(Seq(Bytes))
  BY DEF TypeOK
<1>u. /\ UNCHANGED <<net, flushing, timed, got, flashed, executed, asked, gone, back, hpc>>
      /\ dpc = "parse" /\ dpc' = "dispatch"
  BY DEF DParseLine, DGoto, ota, dFrame, host, stream, pFrame
<1>k. PICK k \in DOMAIN chunk :
        /\ chunk[k] = "nl" /\ \A j \in 1..k-1 : chunk[j] # "nl"
        /\ line' = Filled(line, SubSeq(chunk, 1, k - 1))
        /\ chunk' = SubSeq(chunk, k + 1, Len(chunk))
  BY DEF DParseLine
<1>b. ~Begun /\ ~Begun'
  <2> SUFFICES ASSUME Begun PROVE FALSE
    BY <1>u DEF Begun
  <2>1. chunk = <<>>
    BY <1>u DEF Straight, Over
  <2> QED
    BY <1>k, <2>1
<1>1. InOrder'
  BY <1>u, InOrderKept DEF Straight
<1>2. Acked'
  BY <1>b, <1>u DEF Straight, Acked
<1>3. Listening /\ ~flushing
  BY <1>b, <1>u DEF Straight, Listening
<1>4. PICK r \in Seq(Bytes), off \in [Nat -> Int] :
         /\ line = Seen(r) /\ Unended(r)
         /\ Wire(r \o (chunk \o net), Len(executed), asked, gone, off)
  BY <1>3, <1>u DEF Listening, Reading
<1>5. PICK h \in Seq(Bytes), t \in Seq(Bytes) :
         /\ h = SubSeq(chunk, 1, k - 1) /\ t = SubSeq(chunk, k + 1, Len(chunk))
         /\ Unended(h) /\ chunk = Append(h, "nl") \o t
  <2>1. k \in 1..Len(chunk)
    BY <1>t
  <2> QED
    BY <1>k, <1>t, <2>1, CutAtEnd
<1> DEFINE v == r \o h
<1>6. v \in Seq(Bytes) /\ t \o net \in Seq(Bytes)
  BY <1>t, <1>4, <1>5, Regroup
<1>7. r \o (chunk \o net) = Append(v, "nl") \o (t \o net)
  <2>1. Regrouped(r, h, t, net)
    <3>1. r \in Seq(Bytes) /\ h \in Seq(Bytes) /\ t \in Seq(Bytes) /\ net \in Seq(Bytes)
      BY <1>t, <1>4, <1>5
    <3> QED
      BY <3>1, RegroupLine
  <2> QED
    BY <1>5, <2>1 DEF v, Regrouped
<1>8. Unended(v)
  BY <1>4, <1>5, UnendedConcat
<1> HIDE DEF v
<1>9. Len(executed) \in 0..Len(asked) /\ \A i \in 1..Len(asked) : Unended(asked[i])
  <2>1. Len(executed) \in 0..Len(asked)
    BY <1>t DEF Straight, InOrder
  <2>2. \A i \in 1..Len(asked) : asked[i] \in Seq(Bytes) /\ Stripped(asked[i])
    <3>1. DOMAIN asked = 1..Len(asked) /\ \A i \in 1..Len(asked) : asked[i] \in Seq(Bytes)
      BY <1>t
    <3> QED
      BY <3>1 DEF Hosting
  <2>3. \A i \in 1..Len(asked) : Unended(asked[i])
    BY <2>2 DEF Stripped, Unended
  <2> QED
    BY <2>1, <2>3
<1>a. Wire(Append(v, "nl") \o (t \o net), Len(executed), asked, gone, off)
  BY <1>4, <1>7
<1>10. /\ Len(executed) < Len(asked) /\ v = asked[Len(executed) + 1]
       /\ \E less \in [Nat -> Int] : Wire(t \o net, Len(executed) + 1, asked, gone, less)
  BY <1>t, <1>4, <1>6, <1>8, <1>9, <1>a, NextLine
<1>11. line' = Seen(v)
  BY <1>k, <1>4, <1>5, FilledConcat DEF Seen, v
<1>12. /\ Len(executed') < Len(asked') /\ line' = Seen(asked'[Len(executed') + 1])
       /\ \E less \in [Nat -> Int] : Wire(chunk' \o net', Len(executed') + 1, asked', gone', less)
  BY <1>k, <1>u, <1>5, <1>10, <1>11
<1>13. Listening'
  BY <1>3, <1>12, <1>u DEF Listening
<1> QED
  BY <1>1, <1>2, <1>13, <1>b DEF Straight

LEMMA Answered ==
  ASSUME NEW b \in Seq({"answer", "ACK", "ERR", "OK", "CRCFAIL"}),
         \A i \in DOMAIN b : b[i] # "ACK"
  PROVE  \A i \in DOMAIN Append(b, "answer") : Append(b, "answer")[i] # "ACK"
<1>1. PICK n \in Nat : n = Len(b)
  OBVIOUS
<1>2. "answer" \in {"answer", "ACK", "ERR", "OK", "CRCFAIL"}
  OBVIOUS
<1> DEFINE c == Append(b, "answer")
<1>3. /\ DOMAIN c = 1..n + 1 /\ DOMAIN b = 1..n
      /\ c[n + 1] = "answer" /\ \A i \in 1..n : c[i] = b[i]
  BY <1>1, <1>2, AppendMeans
<1> HIDE DEF c
<1>4. \A i \in 1..n + 1 : i = n + 1 \/ i \in 1..n
  BY <1>1
<1>5. \A i \in 1..n + 1 : c[i] # "ACK"
  BY <1>3, <1>4
<1> QED
  BY <1>3, <1>5 DEF c

\* A line, or what has come of the last one, is dispatched.
LEMMA DispatchKept == TypeOK /\ TypeOK' /\ Hosting /\ Straight /\ DDispatch => Straight'
<1> SUFFICES ASSUME TypeOK, TypeOK', Hosting, Straight, DDispatch PROVE Straight'
  OBVIOUS
<1>t. /\ net \in Seq(Bytes) /\ chunk \in Seq(Bytes) /\ asked \in Seq(Seq(Bytes))
      /\ executed \in Seq(Seq(Bytes)) /\ line \in Seq(Bytes)
      /\ back \in Seq({"answer", "ACK", "ERR", "OK", "CRCFAIL"})
  BY DEF TypeOK
<1>u. /\ UNCHANGED <<net, chunk, flushing, timed, got, flashed, asked, gone, hpc>>
      /\ dpc = "dispatch" /\ line' = <<>>
  BY DEF DDispatch, ota, dFrame, host, stream
<1>a. PICK n \in Nat, z \in Nat : n = Len(executed) /\ z = Len(asked) /\ n <= z
                                  /\ DOMAIN executed = 1..n
  BY <1>t DEF Straight, InOrder
<1>1. CASE line = <<>>
  <2>1. executed' = executed /\ back' = back /\ dpc' = Back
    BY <1>1 DEF DDispatch
  <2>b. Begun' <=> Begun
    BY <2>1 DEF Begun
  <2>2. InOrder'
    BY <1>u, <2>1, InOrderKept DEF Straight
  <2>3. Acked'
    BY <1>u, <2>1, <2>b DEF Straight, Acked
  <2>4. dpc' \in {"closed", "parse"}
    BY <2>1 DEF Back
  <2>5. ASSUME ~Begun PROVE Listening'
    <3>1. Listening
      BY <2>5 DEF Straight
    <3>2. flushing
      <4> SUFFICES ASSUME ~flushing PROVE FALSE
        OBVIOUS
      <4>1. n < z /\ line = Seen(asked[n + 1])
        BY <1>a, <1>u, <3>1 DEF Listening
      <4>2. asked[n + 1] \in Seq(Bytes) /\ n + 1 \in DOMAIN asked
        BY <1>a, <1>t, <4>1
      <4>3. asked[n + 1] # <<>> /\ Head(asked[n + 1]) # "cr"
        BY <4>2 DEF Hosting, Stripped
      <4> QED
        BY <1>1, <4>1, <4>2, <4>3, SeenHead
    <3>3. dpc' = "closed" /\ gone
      BY <1>u, <2>1, <3>1, <3>2 DEF Back, Listening
    <3> QED
      BY <1>u, <2>1, <3>1, <3>3 DEF Listening
  <2>6. ASSUME Begun PROVE Over'
    <3>1. Over
      BY <1>u, <2>6 DEF Straight
    <3> QED
      BY <1>u, <2>4, <3>1 DEF Over
  <2> QED
    BY <2>2, <2>3, <2>4, <2>5, <2>6, <2>b DEF Straight
<1>2. CASE line # <<>>
  <2>1. ~Begun /\ Listening
    BY <1>2, <1>u DEF Straight, Over
  <2>2. executed' = Append(executed, line)
    BY <1>2 DEF DDispatch
  <2>3. /\ Len(executed') = n + 1 /\ DOMAIN executed' = 1..n + 1 /\ executed' # <<>>
        /\ executed'[n + 1] = line /\ \A i \in 1..n : executed'[i] = executed[i]
    BY <1>a, <1>t, <2>2, AppendMeans, SMTT(30)
  <2>4. n < z /\ (~flushing => line = Seen(asked[n + 1])) /\ IsPrefix(line, Seen(asked[n + 1]))
    <3>1. n < z /\ (~flushing => line = Seen(asked[n + 1]))
          /\ (flushing => IsPrefix(line, Seen(asked[n + 1])))
      BY <1>2, <1>a, <1>u, <2>1 DEF Listening
    <3>2. IsPrefix(line, line)
      BY <1>t, PrefixMeans
    <3> QED
      BY <3>1, <3>2
  <2>5. PICK l \in Seq(Bytes) : l = asked[n + 1] /\ Stripped(l) /\ n + 1 \in DOMAIN asked
    <3>1. asked[n + 1] \in Seq(Bytes) /\ n + 1 \in DOMAIN asked
      BY <1>a, <1>t, <2>4
    <3> QED
      BY <3>1 DEF Hosting
  <2>6. Head(line) = Head(l)
    <3>1. Seen(l) # <<>> /\ Head(Seen(l)) = Head(l) /\ Seen(l) \in Seq(Bytes)
      BY <2>5, SeenHead, SeenTypes DEF Stripped
    <3> DEFINE s == Seen(l)
    <3>2. IsPrefix(line, s)
      BY <2>4, <2>5
    <3> HIDE DEF s
    <3>3. 1 \in 1..Len(line) /\ Head(line) = line[1]
      BY <1>2, <1>t
    <3>4. line[1] = s[1]
      <4>1. s \in Seq(Bytes)
        BY <3>1 DEF s
      <4> QED
        BY <1>t, <3>2, <3>3, <4>1, PrefixMeans
    <3>5. Head(s) = s[1]
      BY <3>1 DEF s
    <3> QED
      BY <3>1, <3>3, <3>4, <3>5 DEF s
  <2>7. InOrder'
    <3>1. Len(executed') <= Len(asked')
      BY <1>a, <1>u, <2>3, <2>4
    <3>2. ASSUME NEW i \in 1..n + 1 PROVE Faithful(i)'
      <4>1. CASE i = n + 1
        BY <1>u, <2>3, <2>4, <4>1 DEF Faithful
      <4>2. CASE i \in 1..n
        <5>1. executed[i] = Seen(asked[i])
          BY <1>a, <1>u, <2>1, <4>2 DEF Listening
        <5> QED
          BY <1>u, <2>3, <4>2, <5>1 DEF Faithful
      <4> QED
        BY <4>1, <4>2
    <3> QED
      BY <2>3, <3>1, <3>2 DEF InOrder
  <2>8. Begun' <=> IsOta(line)
    BY <2>3 DEF Begun
  <2>9. /\ \A i \in DOMAIN back : back[i] # "ACK"
        /\ hpc \notin {"payload", "verdict"}
    BY <2>1 DEF Straight, Acked
  <2>10. CASE IsOta(line)
    <3>1. dpc' = "ota_ack" /\ back' = back
      BY <1>2, <2>10 DEF DDispatch
    <3>2. n + 1 = z /\ hpc \notin {"idle", "reply"}
      <4>1. IsOta(asked[n + 1])
        BY <2>5, <2>6, <2>10 DEF IsOta
      <4>2. ~(n + 1 \in 1..z - 1)
        BY <1>a, <4>1 DEF Hosting
      <4>3. n + 1 = z
        BY <1>a, <2>4, <4>2
      <4> QED
        BY <1>a, <1>t, <4>1, <4>3 DEF Hosting
    <3>3. Acked'
      BY <1>a, <1>u, <2>3, <2>9, <3>1, <3>2 DEF Acked
    <3>4. net = <<>> /\ chunk = <<>> /\ got = <<>> /\ flashed = <<>>
      <4>1. CASE flushing
        BY <1>u, <2>1, <4>1 DEF Listening
      <4>2. CASE ~flushing
        <5>1. PICK off \in [Nat -> Int] : Wire(chunk \o net, n + 1, asked, gone, off)
          BY <1>a, <1>u, <2>1, <4>2 DEF Listening
        <5>2. Len(chunk \o net) <= 0
          BY <1>a, <3>2, <5>1 DEF Wire
        <5>3. net = <<>> /\ chunk = <<>>
          BY <1>t, <5>2
        <5> QED
          BY <2>1, <5>3 DEF Listening
      <4> QED
        BY <4>1, <4>2
    <3>5. Taking'
      <4>1. got' = <<>> /\ flashed' = <<>> /\ net' = <<>> /\ chunk' = <<>>
        BY <1>u, <3>4
      <4>2. Received' = <<>>
        BY <4>1 DEF Received
      <4>3. IsPrefix(<<>>, Payload') /\ Len(<<>>) = 0
        BY Nothing, PayloadParts DEF Payload, Tail4
      <4>4. Len(got') <= Want' /\ Len(flashed') <= Len(Image)
        <5>1. Want' > 0 /\ Want' \in Nat
          <6>1. flashed' = flashed /\ Len(flashed) = 0
            BY <1>u, <3>4
          <6>2. Want' = Want
            BY <6>1 DEF Want
          <6> QED
            BY <6>1, <6>2, WantType
        <5> QED
          BY <4>1, <4>3, <5>1, PayloadParts
      <4>5. hpc' \in {"ack", "closed"}
        BY <1>u, <2>9, <3>2 DEF TypeOK
      <4> QED
        BY <1>u, <2>9, <3>1, <4>1, <4>2, <4>3, <4>4, <4>5 DEF Taking
    <3> QED
      BY <2>7, <2>8, <2>10, <3>1, <3>3, <3>5 DEF Straight
  <2>11. CASE ~IsOta(line)
    <3>1. dpc' = Back /\ back' = Append(back, "answer")
      BY <1>2, <2>11 DEF DDispatch
    <3>2. \A i \in DOMAIN back' : back'[i] # "ACK"
      <4>1. \A i \in DOMAIN Append(back, "answer") : Append(back, "answer")[i] # "ACK"
        BY <1>t, <2>9, Answered
      <4> QED
        BY <3>1, <4>1
    <3>3. Acked'
      BY <1>u, <2>8, <2>9, <2>11, <3>2 DEF Acked
    <3>4. got' = <<>> /\ flashed' = <<>> /\ ~timed'
      BY <1>u, <2>1 DEF Listening
    <3>5. CASE flushing
      <4>1. dpc' = "closed" /\ gone'
        BY <1>u, <2>1, <3>1, <3>5 DEF Back, Listening
      <4>2. Listening'
        BY <3>4, <4>1 DEF Listening
      <4> QED
        BY <2>7, <2>8, <2>11, <3>3, <4>2 DEF Straight
    <3>6. CASE ~flushing
      <4>1. dpc' = "parse" /\ ~flushing'
        BY <1>u, <3>1, <3>6 DEF Back
      <4>2. PICK off \in [Nat -> Int] : Wire(chunk \o net, n + 1, asked, gone, off)
        BY <1>a, <1>u, <2>1, <3>6 DEF Listening
      <4>3. Reading'
        <5> DEFINE r == <<>>
        <5>1. r \in Seq(Bytes) /\ Unended(r) /\ line' = Seen(r)
          BY <1>u, FilledNothing DEF Unended, Seen
        <5>2. r \o (chunk' \o net') = chunk \o net
          BY <1>t, <1>u, Nothing, Regroup
        <5> HIDE DEF r
        <5>3. Wire(r \o (chunk' \o net'), Len(executed'), asked', gone', off)
          BY <1>u, <2>3, <4>2, <5>2
        <5> QED
          BY <5>1, <5>3 DEF Reading
      <4>4. \A i \in DOMAIN executed' : executed'[i] = Seen(asked'[i])
        <5> TAKE i \in DOMAIN executed'
        <5>1. CASE i = n + 1
          BY <1>u, <2>3, <2>4, <3>6, <5>1
        <5>2. CASE i \in 1..n
          BY <1>a, <1>u, <2>1, <2>3, <5>2 DEF Listening
        <5>3. i = n + 1 \/ i \in 1..n
          BY <2>3
        <5> QED
          BY <5>1, <5>2, <5>3
      <4>5. Listening'
        BY <3>4, <4>1, <4>3, <4>4 DEF Listening
      <4> QED
        BY <2>7, <2>8, <2>11, <3>3, <4>5 DEF Straight
    <3> QED
      BY <3>5, <3>6
  <2> QED
    BY <2>10, <2>11
<1> QED
  BY <1>1, <1>2

-----------------------------------------------------------------------------
(***************************************************************************)
(* What the task does with the image.                                      *)
(***************************************************************************)
\* A transfer is under way only after the OTA line.
LEMMA UnderWay ==
  ASSUME TypeOK, Straight, dpc \in {"ota_ack", "ota_begin", "ota_recv"}
  PROVE  Begun /\ Taking /\ flashed \o got \in Seq(Bytes) /\ Received \in Seq(Bytes)
<1>1. Begun /\ Taking
  BY DEF Straight, Listening
<1>2. flashed \in Seq(Bytes) /\ got \in Seq(Bytes) /\ net \in Seq(Bytes)
  BY DEF TypeOK
<1>3. flashed \o got \in Seq(Bytes)
  BY <1>2, Regroup
<1>4. Received \in Seq(Bytes)
  BY <1>2, <1>3, Regroup DEF Received
<1> QED
  BY <1>1, <1>3, <1>4

\* Answers of a transfer, and what else its steps leave alone.
LEMMA TransferKept ==
  ASSUME TypeOK, Straight, Begun, NEW x, back' = back \/ back' = Append(back, x),
         UNCHANGED <<executed, asked, flushing, hpc>>
  PROVE  Begun' /\ InOrder' /\ Acked'
<1>1. Begun'
  BY DEF Begun
<1>2. InOrder'
  BY InOrderKept DEF Straight
<1>3. Acked'
  BY <1>1 DEF Straight, Acked
<1> QED
  BY <1>1, <1>2, <1>3

Shifted(s, r, h, t) == (s \o (r \o h)) \o t = (s \o r) \o (h \o t)

LEMMA Shift ==
  ASSUME NEW s \in Seq(Bytes), NEW r \in Seq(Bytes), NEW h \in Seq(Bytes), NEW t \in Seq(Bytes)
  PROVE  Shifted(s, r, h, t)
  BY SMTT(30) DEF Shifted

LEMMA AckKept == TypeOK /\ TypeOK' /\ Straight /\ OAck => Straight'
<1> SUFFICES ASSUME TypeOK, TypeOK', Straight, OAck PROVE Straight'
  OBVIOUS
<1>u. /\ UNCHANGED <<net, gone, got, flashed, chunk, line, flushing, executed, asked, hpc, sent>>
      /\ dpc = "ota_ack" /\ dpc' = "ota_begin" /\ back' = Append(back, "ACK")
  BY DEF OAck, DGoto, ota, stream, oFrame, dFrame, host
<1>1. Begun /\ Taking
  BY <1>u, UnderWay
<1>2. Begun' /\ InOrder' /\ Acked'
  BY <1>1, <1>u, TransferKept
<1>3. Received = <<>> /\ Received' = Received /\ Payload' = Payload /\ Want' = Want
  BY <1>1, <1>u DEF Taking, Received, Payload, Tail4, Want
<1>4. flashed = <<>> /\ got = <<>>
  <2>1. flashed \in Seq(Bytes) /\ got \in Seq(Bytes) /\ net \in Seq(Bytes)
    BY DEF TypeOK
  <2>2. (flashed \o got) \o net = <<>>
    BY <1>3 DEF Received
  <2> QED
    BY <2>1, <2>2
<1>5. Taking'
  BY <1>1, <1>3, <1>4, <1>u DEF Taking
<1> QED
  BY <1>2, <1>5, <1>u DEF Straight

LEMMA BeginKept == TypeOK /\ TypeOK' /\ Straight /\ OBegin => Straight'
<1> SUFFICES ASSUME TypeOK, TypeOK', Straight, OBegin PROVE Straight'
  OBVIOUS
<1>u. /\ UNCHANGED <<net, gone, back, chunk, line, flushing, executed, asked, hpc, sent>>
      /\ dpc = "ota_begin" /\ dpc' = "ota_recv" /\ got' = <<>> /\ flashed' = <<>>
  BY DEF OBegin, DGoto, stream, oFrame, dFrame, host
<1>1. Begun /\ Taking /\ flashed = <<>> /\ got = <<>>
  BY <1>u, UnderWay DEF Taking
<1>2. Begun' /\ InOrder' /\ Acked'
  BY <1>1, <1>u, TransferKept
<1>3. Received' = Received /\ Payload' = Payload /\ Want' = Want
  BY <1>1, <1>u DEF Received, Payload, Tail4, Want
<1>4. Taking'
  BY <1>1, <1>3, <1>u DEF Taking
<1> QED
  BY <1>2, <1>4, <1>u DEF Straight

LEMMA OtaRecvKept == TypeOK /\ TypeOK' /\ Straight /\ ORecv => Straight'
<1> SUFFICES ASSUME TypeOK, TypeOK', Straight, ORecv PROVE Straight'
  OBVIOUS
<1>t. /\ got \in Seq(Bytes) /\ Len(got) \in Nat /\ net \in Seq(Bytes) /\ Len(net) \in Nat
      /\ flashed \in Seq(Bytes) /\ got' \in Seq(Bytes)
  BY SMTT(30) DEF TypeOK
<1>u. /\ UNCHANGED <<gone, back, flashed, chunk, line, flushing, executed, asked, hpc, sent>>
      /\ dpc = "ota_recv" /\ dpc' = "ota_recv" /\ Len(got) < Want
  BY DEF ORecv, oFrame, dFrame, host
<1>1. Begun /\ Taking
  BY <1>u, UnderWay
<1>2. Begun' /\ InOrder' /\ Acked'
  BY <1>1, <1>u, TransferKept
<1>3. PICK n \in 1..Min({Len(net), Want - Len(got)}) : got' = got \o SubSeq(net, 1, n) /\ Take(n)
  BY DEF ORecv
<1>4. n \in Nat /\ n <= Len(net) /\ n <= Want - Len(got)
  <2>1. Want - Len(got) \in Nat
    BY <1>t, <1>u, WantType
  <2> QED
    BY <1>t, <2>1, MinIsIn
<1> DEFINE h == SubSeq(net, 1, n)
           t == SubSeq(net, n + 1, Len(net))
<1>5. h \in Seq(Bytes) /\ Len(h) = n /\ t \in Seq(Bytes) /\ net = h \o t
  BY <1>t, <1>4, SomeTaken
<1>6. got' = got \o h /\ net' = t
  BY <1>3 DEF Take
<1> HIDE DEF h, t
<1>7. Len(got') <= Want'
  <2>1. Want' = Want
    BY <1>u DEF Want
  <2>2. Len(got') = Len(got) + n
    BY <1>t, <1>5, <1>6, Regroup
  <2>3. Want \in Nat
    BY <1>t, WantType
  <2> QED
    BY <1>4, <1>t, <2>1, <2>2, <2>3
<1>8. Received' = Received
  <2>1. Shifted(flashed, got, h, t)
    BY <1>t, <1>5, Shift
  <2> QED
    BY <1>5, <1>6, <1>u, <2>1 DEF Received, Shifted
<1>9. Payload' = Payload
  BY DEF Payload, Tail4
<1>10. Taking'
  BY <1>1, <1>7, <1>8, <1>9, <1>u DEF Taking
<1> QED
  BY <1>2, <1>10, <1>u DEF Straight

LEMMA WriteKept == TypeOK /\ TypeOK' /\ Straight /\ OWrite => Straight'
<1> SUFFICES ASSUME TypeOK, TypeOK', Straight, OWrite PROVE Straight'
  OBVIOUS
<1>t. got \in Seq(Bytes) /\ flashed \in Seq(Bytes) /\ net \in Seq(Bytes)
  BY DEF TypeOK
<1>u. /\ UNCHANGED <<net, gone, back, chunk, line, flushing, executed, asked, hpc, sent>>
      /\ dpc = "ota_recv" /\ dpc' = "ota_recv" /\ Len(got) = Want
      /\ Len(flashed) < Len(Image) /\ flashed' = flashed \o got /\ got' = <<>>
  BY DEF OWrite, stream, oFrame, dFrame, host
<1>1. Begun /\ Taking /\ flashed \o got \in Seq(Bytes)
  BY <1>u, UnderWay
<1>2. Begun' /\ InOrder' /\ Acked'
  BY <1>1, <1>u, TransferKept
<1>3. Received' = Received /\ Payload' = Payload
  <2>1. (flashed \o got) \o <<>> = flashed \o got
    BY <1>1, Nothing
  <2> QED
    BY <1>u, <2>1 DEF Received, Payload, Tail4
<1>4. Len(flashed') <= Len(Image)
  <2>1. PICK x \in Nat : x = Len(flashed)
    BY <1>t
  <2>2. x + Want <= Len(Image)
    BY <1>u, <2>1, WantType
  <2>3. Len(flashed') = x + Want
    BY <1>t, <1>u, <2>1, Regroup
  <2> QED
    BY <2>2, <2>3
<1>5. Len(got') <= Want'
  <2>1. Len(flashed') \in Nat /\ Len(Image) \in Nat /\ WriteBuf \in Nat
    BY <1>1, <1>u, PayloadParts, ConsoleAssumption DEF ConsoleAssumption
  <2>2. CASE Len(flashed') < Len(Image)
    <3> DEFINE y == Len(Image) - Len(flashed')
    <3>1. y \in Nat /\ Want' = Min({y, WriteBuf})
      BY <2>1, <2>2 DEF Want
    <3> HIDE DEF y
    <3>2. y <= WriteBuf \/ WriteBuf <= y
      BY <2>1, <3>1
    <3>3. Want' \in Nat
      BY <2>1, <3>1, <3>2, MinOfTwo
    <3> QED
      BY <1>u, <3>3
  <2>3. CASE ~(Len(flashed') < Len(Image))
    <3>1. Want' = 2
      BY <2>3, Tail4Type DEF Want, Tail4
    <3> QED
      BY <1>u, <3>1
  <2> QED
    BY <2>2, <2>3
<1>6. Taking'
  BY <1>1, <1>3, <1>4, <1>5, <1>u DEF Taking
<1> QED
  BY <1>2, <1>6, <1>u DEF Straight

LEMMA LenZero ==
  ASSUME NEW s \in Seq(Bytes), Len(s) = 0
  PROVE  s = <<>>
  OBVIOUS

\* When everything has come, nothing is left on its way.
LEMMA FinishKept ==
  ASSUME TypeOK, TypeOK', Straight, AllIn, dpc' \in {"restart", "closed", "parse"}, got' = <<>>,
         NEW x, back' = Append(back, x), x # "ACK",
         UNCHANGED <<net, gone, flashed, chunk, line, flushing, executed, asked, hpc>>
  PROVE  Straight'
<1>t. got \in Seq(Bytes) /\ flashed \in Seq(Bytes) /\ net \in Seq(Bytes)
  BY DEF TypeOK
<1>1. Begun /\ Taking /\ flashed \o got \in Seq(Bytes) /\ Received \in Seq(Bytes)
  BY UnderWay DEF AllIn
<1>2. Begun' /\ InOrder' /\ Acked'
  BY <1>1, TransferKept
<1>3. PICK g \in Nat, f \in Nat, m \in Nat, i \in Nat :
        /\ g = Len(got) /\ f = Len(flashed) /\ m = Len(net) /\ i = Len(Image)
        /\ Len(Received) = f + g + m /\ f = i /\ g = 2 /\ i >= 1
  <2>1. Len(flashed \o got) = Len(flashed) + Len(got)
    BY <1>t, Regroup
  <2>2. Len(Received) = Len(flashed \o got) + Len(net)
    BY <1>t, <1>1, Regroup DEF Received
  <2>3. Len(flashed) >= Len(Image) /\ Len(flashed) <= Len(Image) /\ Len(got) = Want
    BY <1>1 DEF AllIn, Taking
  <2>4. Len(Image) \in Nat /\ Len(Image) >= 1
    BY PayloadParts
  <2>5. Len(got) \in Nat /\ Len(flashed) \in Nat /\ Len(net) \in Nat
    BY <1>t
  <2>6. Len(got) = 2
    BY <2>3, <2>5, WantType
  <2>7. PICK g \in Nat, f \in Nat, m \in Nat, i \in Nat :
           g = Len(got) /\ f = Len(flashed) /\ m = Len(net) /\ i = Len(Image)
    BY <2>4, <2>5
  <2>8. Len(Received) = f + g + m
    BY <2>1, <2>2, <2>7
  <2>9. f = i /\ g = 2 /\ i >= 1
    BY <2>3, <2>4, <2>6, <2>7
  <2> QED
    BY <2>7, <2>8, <2>9, Zenon
<1>4. Len(Received) <= i + 2
  BY <1>1, <1>3, PayloadParts, PrefixMeans DEF Taking
<1>5. net = <<>>
  <2>1. m = 0
    BY <1>3, <1>4
  <2> QED
    BY <1>t, <1>3, <2>1, LenZero
<1>6. hpc \in {"verdict", "closed"}
  <2>1. hpc \notin {"idle", "reply"}
    BY <1>1 DEF Straight, Acked
  <2>2. Received # <<>>
    BY <1>3
  <2>3. hpc # "payload"
    <3> SUFFICES ASSUME hpc = "payload" PROVE FALSE
      OBVIOUS
    <3>1. Len(Received) = sent /\ sent <= i /\ sent \in Nat
      BY <1>1, <1>3, PayloadParts DEF Taking, TypeOK
    <3> QED
      BY <1>3, <3>1
  <2> QED
    BY <1>1, <2>1, <2>2, <2>3 DEF Taking, TypeOK
<1>7. IsPrefix(flashed, Image)
  <2>1. IsPrefix(flashed, flashed \o got) /\ IsPrefix(flashed \o got, Received)
    BY <1>t, <1>1, PrefixConcat DEF Received
  <2>2. IsPrefix(flashed, Received)
    BY <1>t, <1>1, <2>1, PrefixOfPrefix
  <2>3. IsPrefix(flashed, Payload)
    BY <1>t, <1>1, <2>2, PrefixOfPrefix, PayloadParts DEF Taking
  <2> QED
    <3>1. Len(flashed) <= Len(Image)
      BY <1>1 DEF Taking
    <3> QED
      BY <1>t, <2>3, <3>1, PayloadParts
<1>8. Over'
  BY <1>1, <1>5, <1>6, <1>7 DEF Over, Taking
<1> QED
  BY <1>2, <1>8 DEF Straight

-----------------------------------------------------------------------------
(***************************************************************************)
(* The invariant holds.                                                    *)
(***************************************************************************)
LEMMA InitHolds == Init => IInv
<1> SUFFICES ASSUME Init PROVE IInv
  OBVIOUS
<1>1. TypeOK
  BY InitTyped
<1>2. Hosting
  <2>1. \A i \in DOMAIN todo : Stripped(todo[i])
    BY ConsoleAssumption DEF Init, ConsoleAssumption
  <2> QED
    BY <2>1 DEF Init, Hosting
<1>3. ~Begun /\ ~flushing /\ dpc = "recv" /\ ~timed /\ chunk = <<>> /\ got = <<>>
        /\ flashed = <<>> /\ executed = <<>> /\ asked = <<>> /\ net = <<>> /\ line = <<>>
        /\ gone = FALSE /\ back = <<>> /\ hpc = "idle"
  BY DEF Init, Begun
<1>4. Reading
  <2> DEFINE r == <<>>
             off == [x \in Nat |-> 0]
  <2>1. r \in Seq(Bytes) /\ Unended(r) /\ line = Seen(r)
    BY <1>3, FilledNothing DEF Unended, Seen
  <2>2. r \o (chunk \o net) = <<>> /\ Len(executed) = 0 /\ Len(asked) = 0 /\ Len(<<>>) = 0
    <3>1. <<>> \in Seq(Bytes)
      OBVIOUS
    <3> QED
      BY <1>3, <3>1, Nothing
  <2>3. off \in [Nat -> Int] /\ off[0] = 0
    OBVIOUS
  <2> HIDE DEF r, off
  <2>4. Wire(<<>>, 0, <<>>, FALSE, off)
    BY <2>3 DEF Wire
  <2>5. Wire(r \o (chunk \o net), Len(executed), asked, gone, off)
    BY <1>3, <2>2, <2>4
  <2> QED
    BY <2>1, <2>3, <2>5 DEF Reading
<1>5. InOrder /\ Acked
  BY <1>3 DEF InOrder, Acked
<1>6. Listening
  BY <1>3, <1>4 DEF Listening
<1> QED
  BY <1>1, <1>2, <1>3, <1>5, <1>6 DEF IInv, Straight

LEMMA StraightKept ==
  ASSUME TypeOK, TypeOK', Hosting, ~astray => Straight, [Next]_vars, ~astray'
  PROVE  Straight'
<1>1. CASE HSend \/ HReply \/ HAckTimeout \/ Upload \/ HClose \/ Cut
  <2>1. astray' = astray
    BY <1>1 DEF HSend, HReply, HAckTimeout, Upload, HAck, HPayload, HCrc, HClose, Cut, hFrame
  <2> QED
    BY <1>1, <2>1, HostKept
<1>2. CASE DRecv
  <2>1. astray' = astray
    BY <1>2 DEF DRecv
  <2> QED
    BY <1>2, <2>1, RecvKept
<1>3. CASE DRecvEnds
  <2>1. astray' = astray
    BY <1>3 DEF DRecvEnds
  <2> QED
    BY <1>3, <2>1, RecvEndsKept
<1>4. CASE DParseLine
  <2>1. astray' = astray
    BY <1>4 DEF DParseLine, pFrame
  <2> QED
    BY <1>4, <2>1, ParseLineKept
<1>5. CASE DParseRest
  <2>1. astray' = astray
    BY <1>5 DEF DParseRest, pFrame
  <2> QED
    BY <1>5, <2>1, ParseRestKept
<1>6. CASE DDispatch
  <2>1. astray' = astray
    BY <1>6 DEF DDispatch
  <2> QED
    BY <1>6, <2>1, DispatchKept
<1>7. CASE OAck
  <2>1. astray' = astray
    BY <1>7 DEF OAck
  <2> QED
    BY <1>7, <2>1, AckKept
<1>8. CASE OBegin
  <2>1. astray' = astray
    BY <1>8 DEF OBegin
  <2> QED
    BY <1>8, <2>1, BeginKept
<1>9. CASE ORecv
  <2>1. astray' = astray
    BY <1>9 DEF ORecv
  <2> QED
    BY <1>9, <2>1, OtaRecvKept
<1>10. CASE OWrite
  <2>1. astray' = astray
    BY <1>10 DEF OWrite
  <2> QED
    BY <1>10, <2>1, WriteKept
<1>11. CASE OGiveUp
  BY <1>11 DEF OGiveUp
<1>12. CASE OFinish
  <2>1. /\ astray' = astray /\ AllIn /\ dpc' = "restart" /\ got' = <<>> /\ back' = Append(back, "OK")
        /\ UNCHANGED <<net, gone, flashed, chunk, line, flushing, executed, asked, hpc>>
    BY <1>12 DEF OFinish, stream, oFrame, dFrame, host
  <2> QED
    BY <2>1, FinishKept
<1>13. CASE OFinishFails
  <2>1. /\ astray' = astray /\ AllIn /\ dpc' \in {"closed", "parse"} /\ got' = <<>>
        /\ \E answer \in {"CRCFAIL", "ERR"} : back' = Append(back, answer)
        /\ UNCHANGED <<net, gone, flashed, chunk, line, flushing, executed, asked, hpc>>
    BY <1>13 DEF OFinishFails, Back, stream, oFrame, dFrame, host
  <2> QED
    BY <2>1, FinishKept
<1>14. CASE UNCHANGED vars
  <2>1. UNCHANGED <<todo, hpc, sent, net, gone, back>> /\ UNCHANGED <<dpc, chunk, line, flushing, timed>>
        /\ UNCHANGED <<got, flashed, asked, executed, fault, astray>>
    BY <1>14 DEF vars, host, stream, task, ota, hist
  <2>2. (Reading' <=> Reading) /\ (Begun' <=> Begun) /\ (InOrder' <=> InOrder) /\ (Acked' <=> Acked)
    BY <2>1 DEF Reading, Begun, InOrder, Faithful, Acked
  <2>3. Listening' <=> Listening
    BY <2>1, <2>2 DEF Listening
  <2>4. (Taking' <=> Taking) /\ (Over' <=> Over)
    BY <2>1 DEF Taking, Over, Received, Payload, Tail4, Want
  <2> QED
    BY <2>1, <2>2, <2>3, <2>4 DEF Straight
<1> QED
  BY <1>1, <1>2, <1>3, <1>4, <1>5, <1>6, <1>7, <1>8, <1>9, <1>10, <1>11, <1>12, <1>13, <1>14
     DEF Next, Task

LEMMA NextHolds == IInv /\ [Next]_vars => IInv'
  BY TypesKept, HostingKept, StraightKept DEF IInv

\* The invariant, of every step of the host, the network and the task.
THEOREM ConsoleInvariant == Spec => []IInv
  BY InitHolds, NextHolds, PTL DEF Spec

\* Types, and the bound of the line buffer: no line, however long and however the
\* stream cuts it, is written behind the buffer's end (client_task).
THEOREM ConsoleTyped == Spec => []TypeOK
<1>1. IInv => TypeOK
  BY DEF IInv
<1> QED
  BY <1>1, ConsoleInvariant, PTL

\* The lines dispatched are the lines the host sent, once, in order and nothing else,
\* for every script, buffer size and way the stream is cut (client_task, ota_perform).
THEOREM LinesStayInOrder == Spec => []LinesInOrder
<1>1. IInv => LinesInOrder
  BY DEF IInv, Straight, InOrder, LinesInOrder
<1> QED
  BY <1>1, ConsoleInvariant, PTL

\* Neither the CRC behind the image nor the bytes around the command are flashed
\* (ota_perform, recv_fully).
THEOREM PayloadIsFlashed == Spec => []FlashedIsPayload
<1>1. ASSUME TypeOK, Straight PROVE IsPrefix(flashed, Image)
  <2>t. flashed \in Seq(Bytes) /\ got \in Seq(Bytes) /\ net \in Seq(Bytes)
    BY <1>1 DEF TypeOK
  <2>1. CASE ~Begun
    <3>1. flashed = <<>>
      BY <1>1, <2>1 DEF Straight, Listening
    <3> QED
      BY <3>1, Nothing, PayloadParts
  <2>2. CASE dpc \in {"ota_ack", "ota_begin", "ota_recv"}
    <3>1. Taking /\ flashed \o got \in Seq(Bytes) /\ Received \in Seq(Bytes)
      BY <1>1, <2>2, UnderWay
    <3>2. IsPrefix(flashed, flashed \o got) /\ IsPrefix(flashed \o got, Received)
      BY <2>t, <3>1, PrefixConcat DEF Received
    <3>3. IsPrefix(flashed, Payload)
      BY <2>t, <3>1, <3>2, PrefixOfPrefix, PayloadParts DEF Taking
    <3> QED
      BY <2>t, <3>1, <3>3, PayloadParts DEF Taking
  <2>3. CASE Begun /\ dpc \notin {"ota_ack", "ota_begin", "ota_recv"}
    BY <1>1, <2>3 DEF Straight, Over
  <2> QED
    BY <2>1, <2>2, <2>3
<1>2. IInv => FlashedIsPayload
  BY <1>1 DEF IInv, FlashedIsPayload
<1> QED
  BY <1>2, ConsoleInvariant, PTL
=============================================================================
