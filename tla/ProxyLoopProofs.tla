--------------------------- MODULE ProxyLoopProofs ---------------------------
(***************************************************************************)
(* ProxyLoop for any messages, batch sizes, queues and cuts: every          *)
(* descriptor is closed exactly once, and the connection implements the     *)
(* pair of channels of RelayChannels.                                       *)
(***************************************************************************)
EXTENDS ProxyLoop, SequenceTheorems, NaturalsInduction, WellFoundedInduction, TLAPS

Fds == Dirs \X Nat \X {"msg", "pipe", "pump"}
Items == [from : Dirs, k : Nat, fds : Seq(Fds)]

Types ==
  /\ sent \in [Dirs -> Seq(Messages["c2h"] \cup Messages["h2c"])]
  /\ \A d \in Dirs : \A k \in 1..Len(sent[d]) : sent[d][k] \in Messages[d]
  /\ taken \in [Dirs -> Nat] /\ done \in [Dirs -> Nat] /\ fdsIn \in [Dirs -> Nat]
  /\ rfds \in [Dirs -> Seq(Fds)] /\ amb \in [Dirs -> BOOLEAN]
  /\ pc \in {"loop", "batch", "forward", "reverse", "closed"}
  /\ dir \in Dirs /\ prefer \in Dirs
  /\ off \in Nat /\ fdoff \in Nat /\ pos \in Nat
  /\ out \in Seq(Items) /\ rev \in Seq(Items)
  /\ ok \in BOOLEAN /\ fatal \in BOOLEAN
  /\ pumps \subseteq Nat
  /\ got \in [Dirs -> Seq(Items)]

\* How many messages of d the handlers have seen.
Handled(d) == IF d = dir THEN done[d] + off ELSE done[d]

Counts == \A d \in Dirs : Handled(d) <= taken[d] /\ taken[d] <= fdsIn[d] /\ fdsIn[d] <= Len(sent[d])

\* Between batches nothing of the last one is left.
BetweenBatches ==
  pc = "loop" => off = 0 /\ fdoff = 0 /\ out = <<>> /\ rev = <<>> /\ pos = 0 /\ ok

\* q holds descriptors of the messages lo + 1 to hi of d, in their order.
Ordered(q, d, lo, hi) ==
  /\ \A i \in 1..Len(q) : q[i][2] \in (lo + 1)..hi /\ q[i] = Fd(d, q[i][2], "msg")
  /\ \A i, j \in 1..Len(q) : i < j => q[i][2] < q[j][2]

\* It holds every one they own, and no other.
Complete(q, d, lo, hi) ==
  /\ \A k \in (lo + 1)..hi : sent[d][k].fd = 1 => \E i \in 1..Len(q) : q[i] = Fd(d, k, "msg")
  /\ \A i \in 1..Len(q) : sent[d][q[i][2]].fd = 1

StreamsOrdered == \A d \in Dirs : Ordered(rfds[d], d, 0, fdsIn[d])

\* Unless an untracked message may own some, read_fds holds the descriptors of the messages
\* that are not drained yet.
StreamsComplete ==
  \A d \in Dirs : pc # "closed" /\ ~amb[d] =>
    Ordered(rfds[d], d, done[d], fdsIn[d]) /\ Complete(rfds[d], d, done[d], fdsIn[d])

\* The batch has consumed the descriptors of the messages it handled.
Consumed ==
  pc # "closed" =>
    /\ fdoff <= Len(rfds[dir])
    /\ ~amb[dir] => \A i \in 1..Len(rfds[dir]) : i <= fdoff <=> rfds[dir][i][2] <= Handled(dir)

\* q holds what the messages of the batch, up to the hi-th, put in direction e, in their order.
Queued(q, e, hi) ==
  /\ \A i \in 1..Len(q) : /\ q[i].k \in (done[dir] + 1)..hi
                          /\ q[i] \in Channels!Produced(dir, q[i].k, e)
  /\ \A i, j \in 1..Len(q) : i < j => q[i].k < q[j].k
  /\ \A k \in (done[dir] + 1)..hi :
       Channels!Produced(dir, k, e) \subseteq {q[i] : i \in 1..Len(q)}

QueuesInOrder == pc # "closed" => Queued(out, dir, Handled(dir)) /\ Queued(rev, Other(dir), Handled(dir))

\* The descriptors of the process: those in read_fds, of the pumps and of queued pipes.
HeldOnce ==
  /\ ~twice
  /\ pc = "closed" => held = {}
  /\ pc # "closed" =>
       /\ held = ConnectionFds \cup PumpFds(pumps) \cup FdsOf(out)
       /\ \A x \in FdsOf(out) : x[3] = "pipe" \/ \E i \in 1..fdoff : x = rfds[dir][i]

\* What the targets have been handed: all that the drained messages produced, and of the
\* batch the items already written.
Delivered(d, e, n) ==
  \A k \in 1..n : Channels!Produced(d, k, e) \subseteq Range(got[e])

HandedOver ==
  pc # "closed" =>
    /\ \A d, e \in Dirs : Delivered(d, e, done[d])
    /\ \A e \in Dirs : \A x \in Range(got[e]) :
         \/ x.k <= done[x.from]
         \/ x.from = dir /\ e = dir /\ pc = "forward" /\ \E i \in 1..pos : x = out[i]
         \/ x.from = dir /\ e = dir /\ pc = "reverse" /\ x.k <= Handled(dir)
         \/ x.from = dir /\ e # dir /\ pc = "reverse" /\ \E i \in 1..pos : x = rev[i]
    /\ pc = "forward" => \A i \in 1..pos : i <= Len(out) /\ out[i] \in Range(got[dir])
    /\ pc = "reverse" => \A i \in 1..pos : i <= Len(rev) /\ rev[i] \in Range(got[Other(dir)])
    /\ pc = "reverse" /\ ok => \A i \in 1..Len(out) : out[i] \in Range(got[dir])
    /\ pc = "batch" => pos = 0

ProxyInv ==
  /\ Types /\ Counts /\ BetweenBatches /\ StreamsOrdered /\ StreamsComplete /\ Consumed
  /\ QueuesInOrder /\ HeldOnce /\ HandedOver

-----------------------------------------------------------------------------
(* Concatenation.                                                          *)

\* A set of naturals has a least element.
LEMMA Least ==
  ASSUME NEW T, T \subseteq Nat, T # {}
  PROVE  \E m \in T : \A k \in T : m <= k
<1>. DEFINE Below == {ss \in Nat \X Nat : ss[1] < ss[2]}
<1>1. IsWellFoundedOn(Below, Nat)
  BY NatLessThanWellFounded DEF OpToRel
<1>2. PICK m \in T : \A k \in T : ~(<<k, m>> \in Below)
  BY <1>1, WFMin
<1>3. ASSUME NEW k \in T PROVE m <= k
  <2>1. k \in Nat /\ m \in Nat
    OBVIOUS
  <2>2. k < m => <<k, m>> \in Below
    BY <2>1
  <2>. QED
    BY <2>1, <2>2, <1>2
<1>. QED
  BY <1>3

\* The function the concatenation of s is defined by.
Flat(s) == CHOOSE f : f = [i \in 1..Len(s) |-> IF i = 1 THEN s[i] ELSE f[i - 1] \o s[i]]

FlatUpTo(f, s, m) == f = [i \in 1..m |-> IF i = 1 THEN s[i] ELSE f[i - 1] \o s[i]]

\* FlattenSeq is the last value of the function it is defined by.
LEMMA FlattenIs ==
  ASSUME NEW s, Len(s) # 0
  PROVE  FlattenSeq(s) = Flat(s)[Len(s)]
BY DEF FlattenSeq, Flat

\* That function exists up to m when it exists up to m - 1.
LEMMA FlatStep ==
  ASSUME NEW s, NEW m \in Nat \ {0}, NEW g, FlatUpTo(g, s, m - 1)
  PROVE  \E f : FlatUpTo(f, s, m)
<1>. DEFINE f == [i \in 1..m |-> IF i = m THEN IF i = 1 THEN s[i] ELSE g[i - 1] \o s[i] ELSE g[i]]
<1>2. \A i \in 1..(m - 1) : f[i] = g[i]
  OBVIOUS
<1>3. \A i \in 1..m : f[i] = IF i = 1 THEN s[i] ELSE f[i - 1] \o s[i]
  <2>. TAKE i \in 1..m
  <2>0. f[i] = IF i = m THEN IF i = 1 THEN s[i] ELSE g[i - 1] \o s[i] ELSE g[i]
    OBVIOUS
  <2>. HIDE DEF f
  <2>1. i # 1 => f[i - 1] = g[i - 1]
    BY <1>2
  <2>2. CASE i = m
    BY <2>0, <2>1, <2>2
  <2>3. CASE i # m
    <3>0. i \in 1..(m - 1) BY <2>3
    <3>1. g[i] = IF i = 1 THEN s[i] ELSE g[i - 1] \o s[i]
      BY <3>0 DEF FlatUpTo
    <3>2. f[i] = g[i] BY <1>2, <3>0
    <3>. QED BY <2>1, <3>1, <3>2
  <2>. QED BY <2>2, <2>3
<1>4. f = [i \in 1..m |-> f[i]] OBVIOUS
<1>. HIDE DEF f
<1>5. FlatUpTo(f, s, m)
  BY <1>4, <1>3 DEF FlatUpTo
<1>. QED BY <1>5

\* It satisfies its recursive equation.
LEMMA FlatUnfolds ==
  ASSUME NEW s, Len(s) \in Nat
  PROVE  \A i \in 1..Len(s) : Flat(s)[i] = IF i = 1 THEN s[i] ELSE Flat(s)[i - 1] \o s[i]
<1>. DEFINE Bad == {m \in Nat : ~\E f : FlatUpTo(f, s, m)}
<1>1. ASSUME Bad # {} PROVE FALSE
  <2>0. Bad \subseteq Nat OBVIOUS
  <2>. HIDE DEF Bad
  <2>1. PICK m \in Bad : \A k \in Bad : m <= k
    BY Least, <2>0, <1>1
  <2>. USE DEF Bad
  <2>2. CASE m = 0
    <3>1. FlatUpTo([i \in 1..0 |-> s], s, 0) BY DEF FlatUpTo
    <3>. QED BY <3>1, <2>1, <2>2
  <2>3. CASE m # 0
    <3>1. m - 1 \in Nat /\ m - 1 \notin Bad
      BY <2>1, <2>3
    <3>2. PICK g : FlatUpTo(g, s, m - 1)
      BY <3>1
    <3>3. \E f : FlatUpTo(f, s, m)
      <4>1. m \in Nat \ {0} BY <2>1, <2>3
      <4>. HIDE DEF Bad
      <4>. QED BY <3>2, <4>1, FlatStep
    <3>. QED BY <3>3, <2>1
  <2>. QED BY <2>2, <2>3
<1>2. \E f : FlatUpTo(f, s, Len(s))
  BY <1>1
<1>3. \E f : f = [i \in 1..Len(s) |-> IF i = 1 THEN s[i] ELSE f[i - 1] \o s[i]]
  BY <1>2 DEF FlatUpTo
<1>. DEFINE g == Flat(s)
<1>4. g = [i \in 1..Len(s) |-> IF i = 1 THEN s[i] ELSE g[i - 1] \o s[i]]
  BY <1>3 DEF Flat
<1>. HIDE DEF g
<1>5. \A i \in 1..Len(s) : g[i] = IF i = 1 THEN s[i] ELSE g[i - 1] \o s[i]
  BY <1>4
<1>. QED BY <1>5 DEF g

-----------------------------------------------------------------------------
(* Descriptor streams.                                                     *)

\* Consecutive pieces of a descriptor stream join.
LEMMA Join ==
  ASSUME NEW d, NEW lo \in Nat, NEW mid \in Nat, NEW hi \in Nat, lo <= mid, mid <= hi,
         NEW q \in Seq(Fds), NEW r \in Seq(Fds), Ordered(q, d, lo, mid), Ordered(r, d, mid, hi)
  PROVE  /\ q \o r \in Seq(Fds)
         /\ Ordered(q \o r, d, lo, hi)
         /\ Complete(q, d, lo, mid) /\ Complete(r, d, mid, hi) => Complete(q \o r, d, lo, hi)
<1>. DEFINE t == q \o r
<1>1. /\ t \in Seq(Fds) /\ Len(t) = Len(q) + Len(r) /\ Len(q) \in Nat /\ Len(r) \in Nat
      /\ \A i \in 1..Len(q) : t[i] = q[i]
      /\ \A i \in 1..Len(r) : t[Len(q) + i] = r[i]
  BY ConcatProperties, LenProperties
<1>. HIDE DEF t
<1>2. \A i \in 1..Len(t) : i \notin 1..Len(q) => \E j \in 1..Len(r) : i = Len(q) + j
  <2>. TAKE i \in 1..Len(t)
  <2>. HAVE i \notin 1..Len(q)
  <2>1. i - Len(q) \in 1..Len(r) /\ i = Len(q) + (i - Len(q))
    BY <1>1
  <2>. QED BY <2>1
<1>3. \A i \in 1..Len(t) : t[i][2] \in (lo + 1)..hi /\ t[i] = Fd(d, t[i][2], "msg")
  <2>. TAKE i \in 1..Len(t)
  <2>1. CASE i \in 1..Len(q)
    BY <1>1, <2>1 DEF Ordered
  <2>2. CASE i \notin 1..Len(q)
    <3>1. PICK j \in 1..Len(r) : i = Len(q) + j
      BY <1>2, <2>2
    <3>2. t[i] = r[j] BY <3>1, <1>1
    <3>. QED BY <3>2 DEF Ordered
  <2>. QED BY <2>1, <2>2
<1>4. ASSUME NEW i \in 1..Len(t), NEW j \in 1..Len(t), i < j PROVE t[i][2] < t[j][2]
  <2>1. CASE j \in 1..Len(q)
    <3>1. i \in 1..Len(q) BY <2>1, <1>4, <1>1
    <3>2. t[i] = q[i] /\ t[j] = q[j] BY <3>1, <2>1, <1>1
    <3>. QED BY <3>1, <3>2, <2>1, <1>4 DEF Ordered
  <2>2. CASE i \in 1..Len(q) /\ j \notin 1..Len(q)
    <3>1. PICK m \in 1..Len(r) : j = Len(q) + m
      BY <1>2, <2>2
    <3>2. t[i] = q[i] /\ t[j] = r[m] BY <3>1, <2>2, <1>1
    <3>3. q[i][2] \in (lo + 1)..mid /\ r[m][2] \in (mid + 1)..hi
      BY <2>2 DEF Ordered
    <3>4. \A x \in (lo + 1)..mid, y \in (mid + 1)..hi : x < y OBVIOUS
    <3>5. q[i][2] < r[m][2] BY <3>3, <3>4
    <3>. QED BY <3>2, <3>5
  <2>3. CASE i \notin 1..Len(q) /\ j \notin 1..Len(q)
    <3>1. PICK m \in 1..Len(r) : j = Len(q) + m
      BY <1>2, <2>3
    <3>2. PICK n \in 1..Len(r) : i = Len(q) + n
      BY <1>2, <2>3
    <3>3. t[i] = r[n] /\ t[j] = r[m] /\ n < m BY <3>1, <3>2, <1>1, <1>4
    <3>. QED BY <3>3 DEF Ordered
  <2>. QED BY <2>1, <2>2, <2>3
<1>5. ASSUME Complete(q, d, lo, mid), Complete(r, d, mid, hi) PROVE Complete(t, d, lo, hi)
  <2>4. ASSUME NEW i \in 1..Len(t) PROVE sent[d][t[i][2]].fd = 1
    <3>1. CASE i \in 1..Len(q)
      BY <1>1, <1>5, <3>1 DEF Complete
    <3>2. CASE i \notin 1..Len(q)
      <4>1. PICK j \in 1..Len(r) : i = Len(q) + j
        BY <1>2, <3>2
      <4>2. t[i] = r[j] BY <4>1, <1>1
      <4>. QED BY <1>5, <4>2 DEF Complete
    <3>. QED BY <3>1, <3>2
  <2>1. SUFFICES ASSUME NEW k \in (lo + 1)..hi, sent[d][k].fd = 1
                 PROVE  \E i \in 1..Len(t) : t[i] = Fd(d, k, "msg")
    BY <2>4 DEF Complete
  <2>2. CASE k <= mid
    <3>1. PICK i \in 1..Len(q) : q[i] = Fd(d, k, "msg")
      BY <1>5, <2>1, <2>2 DEF Complete
    <3>. QED BY <3>1, <1>1
  <2>3. CASE mid < k
    <3>1. PICK i \in 1..Len(r) : r[i] = Fd(d, k, "msg")
      BY <1>5, <2>1, <2>3 DEF Complete
    <3>2. Len(q) + i \in 1..Len(t) /\ t[Len(q) + i] = r[i] BY <1>1
    <3>. QED BY <3>1, <3>2
  <2>. QED BY <2>2, <2>3
<1>. QED BY <1>1, <1>3, <1>4, <1>5 DEF Ordered, t

\* The descriptors of one message are a piece of the stream.
LEMMA OwnFdsAre ==
  ASSUME NEW d \in Dirs, NEW k \in Nat \ {0}
  PROVE  /\ OwnFds(d, k, sent[d][k]) \in Seq(Fds)
         /\ Ordered(OwnFds(d, k, sent[d][k]), d, k - 1, k)
         /\ Complete(OwnFds(d, k, sent[d][k]), d, k - 1, k)
<1>1. Fd(d, k, "msg") \in Fds /\ Fd(d, k, "msg")[2] = k
  BY DEF Fd, Fds
<1>. HIDE DEF Fd
<1>2. CASE sent[d][k].fd = 1
  BY <1>1, <1>2, EmptySeq DEF OwnFds, Ordered, Complete
<1>3. CASE sent[d][k].fd # 1
  BY <1>1, <1>3, EmptySeq DEF OwnFds, Ordered, Complete
<1>. QED BY <1>2, <1>3

Arrived(d, b, c) == FlattenSeq([i \in 1..c |-> OwnFds(d, b + i, sent[d][b + i])])

\* So is what one receive brings.
LEMMA ArrivedAre ==
  ASSUME NEW d \in Dirs, NEW b \in Nat, NEW c \in Nat
  PROVE  /\ Arrived(d, b, c) \in Seq(Fds)
         /\ Ordered(Arrived(d, b, c), d, b, b + c)
         /\ Complete(Arrived(d, b, c), d, b, b + c)
<1>. DEFINE s == [i \in 1..c |-> OwnFds(d, b + i, sent[d][b + i])]
            Good(q, i) == q \in Seq(Fds) /\ Ordered(q, d, b, b + i) /\ Complete(q, d, b, b + i)
            Bad == {i \in Nat : i \in 1..c /\ ~Good(Flat(s)[i], i)}
<1>1. /\ Len(s) = c
      /\ \A i \in 1..c : s[i] = OwnFds(d, b + i, sent[d][b + i])
  OBVIOUS
<1>. HIDE DEF s
<1>2. \A i \in 1..c : Flat(s)[i] = IF i = 1 THEN s[i] ELSE Flat(s)[i - 1] \o s[i]
  BY <1>1, FlatUnfolds
<1>3. ASSUME NEW i \in 1..c
      PROVE  /\ s[i] \in Seq(Fds)
             /\ Ordered(s[i], d, b + (i - 1), b + i) /\ Complete(s[i], d, b + (i - 1), b + i)
  <2>1. b + i \in Nat \ {0} /\ (b + i) - 1 = b + (i - 1) OBVIOUS
  <2>2. s[i] = OwnFds(d, b + i, sent[d][b + i]) BY <1>1
  <2>. QED BY <2>1, <2>2, OwnFdsAre
<1>4. ASSUME Bad # {} PROVE FALSE
  <2>0. Bad \subseteq Nat OBVIOUS
  <2>. HIDE DEF Bad
  <2>1. PICK i \in Bad : \A k \in Bad : i <= k
    BY Least, <2>0, <1>4
  <2>. USE DEF Bad
  <2>2. i \in 1..c /\ ~Good(Flat(s)[i], i) BY <2>1
  <2>3. CASE i = 1
    <3>1. Flat(s)[i] = s[i] /\ b + (i - 1) = b BY <1>2, <2>2, <2>3
    <3>2. s[i] \in Seq(Fds) /\ Ordered(s[i], d, b + (i - 1), b + i)
          /\ Complete(s[i], d, b + (i - 1), b + i)
      BY <1>3, <2>2
    <3>. QED BY <3>1, <3>2, <2>2
  <2>4. CASE i # 1
    <3>1. i - 1 \in 1..c /\ i - 1 \notin Bad BY <2>1, <2>2, <2>4
    <3>2. Good(Flat(s)[i - 1], i - 1) BY <3>1
    <3>3. Flat(s)[i] = Flat(s)[i - 1] \o s[i] BY <1>2, <2>2, <2>4
    <3>4. b + (i - 1) \in Nat /\ b + i \in Nat /\ b <= b + (i - 1) /\ b + (i - 1) <= b + i
      BY <2>2
    <3>5. s[i] \in Seq(Fds) /\ Ordered(s[i], d, b + (i - 1), b + i)
          /\ Complete(s[i], d, b + (i - 1), b + i)
      BY <1>3, <2>2
    <3>6. Good(Flat(s)[i - 1] \o s[i], i)
      <4>. HIDE DEF Bad
      <4>. QED BY <3>2, <3>4, <3>5, Join
    <3>. QED BY <3>3, <3>6, <2>2
  <2>. QED BY <2>3, <2>4
<1>5. CASE c = 0
  <2>1. Arrived(d, b, c) = s BY <1>1, <1>5 DEF FlattenSeq, Arrived, s
  <2>2. s = <<>> BY <1>5 DEF s
  <2>. QED BY <2>1, <2>2, <1>5, EmptySeq DEF Ordered, Complete
<1>6. CASE c # 0
  <2>1. Arrived(d, b, c) = Flat(s)[c]
    <3>1. Arrived(d, b, c) = FlattenSeq(s) BY DEF Arrived, s
    <3>. QED BY <3>1, <1>1, <1>6, FlattenIs
  <2>2. Good(Flat(s)[c], c)
    <3>1. c \notin Bad BY <1>4
    <3>. QED BY <3>1, <1>6
  <2>. QED BY <2>1, <2>2
<1>. QED BY <1>5, <1>6

-----------------------------------------------------------------------------
\* What a message produces carries its name.
LEMMA ProducedIs ==
  ASSUME Types, NEW d \in Dirs, NEW e \in Dirs, NEW k \in Nat, NEW x \in Channels!Produced(d, k, e)
  PROVE  x.from = d /\ x.k = k
BY DEF Channels!Produced, Outputs, Answers, Item

LEMMA InitHolds == Init => ProxyInv
<1>. SUFFICES ASSUME Init PROVE ProxyInv OBVIOUS
<1>1. Types
  <2>1. /\ <<>> \in Seq(Fds) /\ <<>> \in Seq(Items) /\ Len(<<>>) = 0
        /\ <<>> \in Seq(Messages["c2h"] \cup Messages["h2c"])
    BY EmptySeq
  <2>2. sent \in [Dirs -> Seq(Messages["c2h"] \cup Messages["h2c"])]
    BY <2>1 DEF Init
  <2>3. \A d \in Dirs : \A k \in 1..Len(sent[d]) : sent[d][k] \in Messages[d]
    BY <2>1 DEF Init
  <2>4. out \in Seq(Items) /\ rev \in Seq(Items) /\ got \in [Dirs -> Seq(Items)]
        /\ rfds \in [Dirs -> Seq(Fds)]
    BY <2>1 DEF Init
  <2>. HIDE DEF Fds, Items
  <2>5. dir \in Dirs /\ prefer \in Dirs BY DEF Init, Dirs
  <2>. QED BY <2>2, <2>3, <2>4, <2>5 DEF Init, Types
<1>2. Counts BY DEF Init, Counts, Handled, Dirs
<1>3. BetweenBatches BY DEF Init, BetweenBatches
<1>4. StreamsOrdered /\ StreamsComplete /\ Consumed
  BY DEF Init, StreamsOrdered, StreamsComplete, Ordered, Complete, Consumed, Dirs
<1>5. QueuesInOrder BY DEF Init, QueuesInOrder, Queued, Handled, Dirs
<1>6. HeldOnce BY DEF Init, HeldOnce, ConnectionFds, FdsOf, Range, PumpFds, Dirs
<1>7. HandedOver BY DEF Init, HandedOver, Delivered, Dirs, Range
<1>. QED BY <1>1, <1>2, <1>3, <1>4, <1>5, <1>6, <1>7 DEF ProxyInv

-----------------------------------------------------------------------------
(* Steps that leave the connection alone.                                  *)

connVars == <<sent, taken, done, fdsIn, rfds, amb, dir, prefer, off, fdoff, out, rev,
              fatal, pumps, held, twice>>

\* A step that only moves pc, pos, ok or got keeps what is said of the buffers.
LEMMA BuffersKept ==
  ASSUME ProxyInv, UNCHANGED connVars, pc' = "closed" <=> pc = "closed",
         pc' \in {"loop", "batch", "forward", "reverse", "closed"},
         pos' \in Nat, ok' \in BOOLEAN, got' \in [Dirs -> Seq(Items)]
  PROVE  /\ Types' /\ Counts' /\ StreamsOrdered' /\ StreamsComplete' /\ Consumed'
         /\ QueuesInOrder' /\ HeldOnce'
         /\ \A k, d, e : Channels!Produced(d, k, e)' = Channels!Produced(d, k, e)
<1>. USE DEF ProxyInv, connVars
<1>1. Types' BY DEF Types
<1>2. Counts' BY DEF Counts, Handled
<1>4. StreamsOrdered' BY DEF StreamsOrdered, Ordered
<1>5. StreamsComplete' BY DEF StreamsComplete, Ordered, Complete
<1>6. Consumed' BY DEF Consumed, Handled
<1>7. \A k, d, e : Channels!Produced(d, k, e)' = Channels!Produced(d, k, e)
  BY DEF Channels!Produced
<1>8. QueuesInOrder'
  <2>1. \A k, e : Channels!Produced(dir, k, e)' = Channels!Produced(dir, k, e)
    BY DEF Channels!Produced
  <2>2. Handled(dir)' = Handled(dir) BY DEF Handled
  <2>3. Queued(out, dir, Handled(dir)) => Queued(out, dir, Handled(dir))' BY <2>1, <2>2 DEF Queued
  <2>4. Queued(rev, Other(dir), Handled(dir)) => Queued(rev, Other(dir), Handled(dir))' BY <2>1, <2>2 DEF Queued, Other
  <2>. QED BY <2>3, <2>4 DEF QueuesInOrder
<1>9. HeldOnce'
  <2>1. ConnectionFds' = ConnectionFds /\ FdsOf(out)' = FdsOf(out) BY DEF ConnectionFds, FdsOf
  <2>2. PumpFds(pumps)' = PumpFds(pumps) /\ UNCHANGED <<twice, held, fdoff, rfds, dir>>
    BY DEF PumpFds
  <2>. QED BY <2>1, <2>2 DEF HeldOnce
<1>. QED BY <1>1, <1>2, <1>4, <1>5, <1>6, <1>7, <1>8, <1>9

\* A step of a peer, or of nobody.
LEMMA QuietStep ==
  ASSUME ProxyInv, UNCHANGED <<connVars, pc, pos, ok, got>>
  PROVE  ProxyInv'
<1>1. /\ Types' /\ Counts' /\ StreamsOrdered' /\ StreamsComplete' /\ Consumed'
      /\ QueuesInOrder' /\ HeldOnce'
      /\ \A k, d, e : Channels!Produced(d, k, e)' = Channels!Produced(d, k, e)
  <2>1. pos \in Nat /\ ok \in BOOLEAN /\ got \in [Dirs -> Seq(Items)]
        /\ pc \in {"loop", "batch", "forward", "reverse", "closed"}
    BY DEF ProxyInv, Types
  <2>. QED BY <2>1, BuffersKept
<1>2. BetweenBatches' BY DEF BetweenBatches, ProxyInv, connVars
<1>3. HandedOver' BY <1>1 DEF HandedOver, Delivered, Handled, Other, ProxyInv, connVars
<1>. QED BY <1>1, <1>2, <1>3 DEF ProxyInv

\* The batch is complete: its forward send starts.
LEMMA FinishBatchStep ==
  ASSUME ProxyInv, FinishBatch
  PROVE  ProxyInv'
<1>0. /\ pc = "batch" /\ pc' = "forward" /\ UNCHANGED <<connVars, pos, ok, got>>
  BY DEF FinishBatch, connVars, streamVars, batchVars, peerVars
<1>1. /\ Types' /\ Counts' /\ StreamsOrdered' /\ StreamsComplete' /\ Consumed'
      /\ QueuesInOrder' /\ HeldOnce'
      /\ \A k, d, e : Channels!Produced(d, k, e)' = Channels!Produced(d, k, e)
  <2>1. pos \in Nat /\ ok \in BOOLEAN /\ got \in [Dirs -> Seq(Items)]
    BY DEF ProxyInv, Types
  <2>. QED BY <1>0, <2>1, BuffersKept
<1>2. BetweenBatches' BY <1>0 DEF BetweenBatches
<1>3. HandedOver'
  <2>1. pos = 0 /\ \A i \in 1..0 : FALSE
    BY <1>0 DEF ProxyInv, HandedOver
  <2>. QED BY <1>0, <1>1, <2>1 DEF HandedOver, Delivered, Handled, Other, ProxyInv, connVars
<1>. QED BY <1>1, <1>2, <1>3 DEF ProxyInv

\* The forward send is over: the reverse one starts.
LEMMA ForwardEndsStep ==
  ASSUME ProxyInv, ForwardEnds
  PROVE  ProxyInv'
<1>0. /\ pc = "forward" /\ pc' = "reverse" /\ UNCHANGED <<connVars, got>> /\ pos' = 0
      /\ \/ pos = Len(out) /\ ok' = ok
         \/ ok' = FALSE
  BY DEF ForwardEnds, connVars, streamVars, peerVars
<1>1. /\ Types' /\ Counts' /\ StreamsOrdered' /\ StreamsComplete' /\ Consumed'
      /\ QueuesInOrder' /\ HeldOnce'
      /\ \A k, d, e : Channels!Produced(d, k, e)' = Channels!Produced(d, k, e)
  <2>1. pos' \in Nat /\ ok' \in BOOLEAN /\ got \in [Dirs -> Seq(Items)]
    BY <1>0 DEF ProxyInv, Types
  <2>. QED BY <1>0, <2>1, BuffersKept
<1>2. BetweenBatches' BY <1>0 DEF BetweenBatches
<1>3. HandedOver'
  <2>1. Queued(out, dir, Handled(dir)) /\ HandedOver /\ Types
    BY <1>0 DEF ProxyInv, QueuesInOrder
  <2>2. \A i \in 1..pos : i \in 1..Len(out) /\ out[i] \in Range(got[dir])
    BY <1>0, <2>1, LenProperties DEF HandedOver, Types
  <2>3. \A i \in 1..pos : out[i].k <= Handled(dir)
    <3>1. Handled(dir) \in Nat /\ done[dir] \in Nat BY <2>1 DEF Types, Handled
    <3>. QED BY <2>1, <2>2, <3>1 DEF Queued
  <2>4. ASSUME NEW e \in Dirs, NEW x \in Range(got[e])
        PROVE  x.k <= done[x.from] \/ (x.from = dir /\ e = dir /\ x.k <= Handled(dir))
    BY <1>0, <2>1, <2>3 DEF HandedOver
  <2>5. ok' => \A i \in 1..Len(out) : out[i] \in Range(got[dir])
    BY <1>0, <2>2
  <2>6. \A i \in 1..0 : FALSE OBVIOUS
  <2>7. Handled(dir)' = Handled(dir) BY <1>0 DEF connVars, Handled
  <2>8. \A d, e \in Dirs : Delivered(d, e, done[d])'
    BY <1>0, <1>1, <2>1 DEF HandedOver, Delivered, connVars
  <2>. QED BY <1>0, <1>1, <2>4, <2>5, <2>6, <2>7, <2>8 DEF HandedOver, connVars
<1>. QED BY <1>1, <1>2, <1>3 DEF ProxyInv

\* What is sent stays sent.
LEMMA SentGrows ==
  ASSUME Types, NEW d \in Dirs, NEW m \in Messages[d], PeerSend(d, m)
  PROVE  /\ sent' \in [Dirs -> Seq(Messages["c2h"] \cup Messages["h2c"])]
         /\ \A e \in Dirs : \A k \in 1..Len(sent'[e]) : sent'[e][k] \in Messages[e]
         /\ \A e \in Dirs : Len(sent[e]) <= Len(sent'[e])
         /\ \A e \in Dirs : \A k \in 1..Len(sent[e]) : sent'[e][k] = sent[e][k]
<1>. DEFINE S == Messages["c2h"] \cup Messages["h2c"]
<1>1. sent[d] \in Seq(S) /\ m \in S /\ sent' = [sent EXCEPT ![d] = Append(sent[d], m)]
  BY DEF Types, PeerSend, Dirs
<1>2. /\ Append(sent[d], m) \in Seq(S) /\ Len(Append(sent[d], m)) = Len(sent[d]) + 1
      /\ \A k \in 1..Len(sent[d]) : Append(sent[d], m)[k] = sent[d][k]
      /\ Append(sent[d], m)[Len(sent[d]) + 1] = m /\ Len(sent[d]) \in Nat
  BY <1>1, AppendProperties, LenProperties
<1>3. sent \in [Dirs -> Seq(S)] BY DEF Types
<1>. HIDE DEF S
<1>4. sent' \in [Dirs -> Seq(S)] BY <1>1, <1>2, <1>3
<1>5. ASSUME NEW e \in Dirs
      PROVE  /\ \A k \in 1..Len(sent'[e]) : sent'[e][k] \in Messages[e]
             /\ Len(sent[e]) <= Len(sent'[e])
             /\ \A k \in 1..Len(sent[e]) : sent'[e][k] = sent[e][k]
  <2>1. CASE e = d
    <3>1. sent'[e] = Append(sent[d], m) BY <1>1, <1>3, <2>1
    <3>2. \A k \in 1..Len(sent'[e]) : k \in 1..Len(sent[d]) \/ k = Len(sent[d]) + 1
      BY <3>1, <1>2
    <3>3. \A k \in 1..Len(sent[d]) : sent[d][k] \in Messages[d] BY DEF Types
    <3>. QED BY <3>1, <3>2, <3>3, <2>1, <1>2
  <2>2. CASE e # d
    <3>1. sent'[e] = sent[e] /\ Len(sent[e]) \in Nat BY <1>1, <1>3, <2>2, LenProperties
    <3>. QED BY <3>1 DEF Types
  <2>. QED BY <2>1, <2>2
<1>. QED BY <1>4, <1>5 DEF S

LEMMA PeerSendStep ==
  ASSUME ProxyInv, NEW d \in Dirs, NEW m \in Messages[d], PeerSend(d, m)
  PROVE  ProxyInv'
<1>. USE DEF ProxyInv
<1>1. /\ pc = "loop" /\ pc' = pc
      /\ UNCHANGED <<taken, done, fdsIn, rfds, amb, dir, prefer, off, fdoff, out, rev,
                     fatal, pumps, held, twice, got, pos, ok>>
  BY DEF PeerSend, batchVars, peerVars
<1>2. /\ sent' \in [Dirs -> Seq(Messages["c2h"] \cup Messages["h2c"])]
      /\ \A e \in Dirs : \A k \in 1..Len(sent'[e]) : sent'[e][k] \in Messages[e]
      /\ \A e \in Dirs : Len(sent[e]) <= Len(sent'[e])
      /\ \A e \in Dirs : \A k \in 1..Len(sent[e]) : sent'[e][k] = sent[e][k]
  BY SentGrows
<1>3. \A e \in Dirs : Len(sent[e]) \in Nat /\ Len(sent'[e]) \in Nat /\ fdsIn[e] \in Nat
                      /\ done[e] \in Nat /\ taken[e] \in Nat
  BY <1>2, LenProperties DEF Types
<1>4. off = 0 /\ fdoff = 0 /\ out = <<>> /\ rev = <<>> /\ pos = 0 /\ ok BY <1>1 DEF BetweenBatches
<1>5. \A e \in Dirs : done[e] <= taken[e] /\ taken[e] <= fdsIn[e] /\ fdsIn[e] <= Len(sent[e])
  BY <1>3, <1>4 DEF Counts, Handled
<1>6. \A e, f \in Dirs : \A k \in 1..Len(sent[e]) :
        Channels!Produced(e, k, f)' = Channels!Produced(e, k, f)
  BY <1>2 DEF Channels!Produced
<1>10. Types' BY <1>1, <1>2 DEF Types
<1>20. Counts' BY <1>1, <1>2, <1>3 DEF Counts, Handled
<1>30. BetweenBatches' BY <1>1 DEF BetweenBatches
<1>40. StreamsOrdered' BY <1>1 DEF StreamsOrdered, Ordered
<1>50. StreamsComplete'
  <2>1. ASSUME NEW e \in Dirs, Complete(rfds[e], e, done[e], fdsIn[e])
        PROVE  Complete(rfds[e], e, done[e], fdsIn[e])'
    <3>1. \A k \in (done[e] + 1)..fdsIn[e] : k \in 1..Len(sent[e]) BY <1>3, <1>5
    <3>2. \A i \in 1..Len(rfds[e]) : rfds[e][i][2] \in (0 + 1)..fdsIn[e]
      BY DEF StreamsOrdered, Ordered
    <3>3. \A i \in 1..Len(rfds[e]) : rfds[e][i][2] \in 1..Len(sent[e])
      <4>1. \A x \in (0 + 1)..fdsIn[e] : x \in 1..Len(sent[e]) BY <1>3, <1>5
      <4>. QED BY <3>2, <4>1
    <3>. QED BY <1>1, <1>2, <2>1, <3>1, <3>3 DEF Complete
  <2>2. ASSUME NEW e \in Dirs, Ordered(rfds[e], e, done[e], fdsIn[e])
        PROVE  Ordered(rfds[e], e, done[e], fdsIn[e])'
    BY <1>1, <2>2 DEF Ordered
  <2>. QED BY <1>1, <2>1, <2>2 DEF StreamsComplete
<1>60. Consumed' BY <1>1 DEF Consumed, Handled
<1>70. QueuesInOrder'
  <2>1. \A k \in (done[dir] + 1)..Handled(dir) : FALSE
    <3>1. Handled(dir) = done[dir] /\ done[dir] \in Nat BY <1>3, <1>4 DEF Types, Handled
    <3>. QED BY <3>1
  <2>2. \A k \in ((done[dir] + 1)..Handled(dir))' : FALSE
    BY <2>1, <1>1 DEF Handled
  <2>3. out' = <<>> /\ rev' = <<>> /\ Len(<<>>) = 0 BY <1>1, <1>4
  <2>. QED BY <2>2, <2>3 DEF QueuesInOrder, Queued
<1>80. HeldOnce' BY <1>1 DEF HeldOnce, ConnectionFds, FdsOf, PumpFds
<1>90. HandedOver'
  <2>1. ASSUME NEW e \in Dirs, NEW f \in Dirs, Delivered(e, f, done[e])
        PROVE  Delivered(e, f, done[e])'
    <3>1. \A k \in 1..done[e] : k \in 1..Len(sent[e]) BY <1>3, <1>5
    <3>. QED BY <1>1, <1>6, <2>1, <3>1 DEF Delivered
  <2>2. \A e, f \in Dirs : Delivered(e, f, done[e])'
    BY <2>1, <1>1 DEF HandedOver
  <2>3. \A e \in Dirs : \A x \in Range(got[e]) : x.k <= done[x.from]
    BY <1>1 DEF HandedOver
  <2>. QED BY <1>1, <2>2, <2>3 DEF HandedOver
<1>. QED BY <1>10, <1>20, <1>30, <1>40, <1>50, <1>60, <1>70, <1>80, <1>90

-----------------------------------------------------------------------------
(* The two sends.                                                          *)

\* What an append adds to a sequence.
LEMMA AppendRange ==
  ASSUME NEW S, NEW q \in Seq(S), NEW x \in S
  PROVE  Append(q, x) \in Seq(S) /\ Range(Append(q, x)) = Range(q) \cup {x}
<1>1. /\ Append(q, x) \in Seq(S) /\ Len(Append(q, x)) = Len(q) + 1 /\ Len(q) \in Nat
      /\ \A i \in 1..Len(q) : Append(q, x)[i] = q[i]
      /\ Append(q, x)[Len(q) + 1] = x
  BY AppendProperties, LenProperties
<1>2. Range(q) = {q[i] : i \in 1..Len(q)} BY LenProperties DEF Range
<1>3. Range(Append(q, x)) = {Append(q, x)[i] : i \in 1..(Len(q) + 1)}
  BY <1>1, LenProperties DEF Range
<1>. DEFINE t == Append(q, x)
<1>4. \A i \in 1..(Len(q) + 1) : i \in 1..Len(q) \/ i = Len(q) + 1 BY <1>1
<1>5. \A i \in 1..Len(q) : i \in 1..(Len(q) + 1) BY <1>1
<1>6. Len(q) + 1 \in 1..(Len(q) + 1) BY <1>1
<1>. HIDE DEF t
<1>7. {t[i] : i \in 1..(Len(q) + 1)} = {q[i] : i \in 1..Len(q)} \cup {x}
  BY <1>1, <1>4, <1>5, <1>6 DEF t
<1>. QED BY <1>1, <1>2, <1>3, <1>7 DEF t

\* An item is appended to what the target of e has.
LEMMA HandOver ==
  ASSUME Types, NEW e \in Dirs, NEW x \in Items, got' = [got EXCEPT ![e] = Append(@, x)]
  PROVE  /\ got' \in [Dirs -> Seq(Items)]
         /\ Range(got'[e]) = Range(got[e]) \cup {x}
         /\ \A f \in Dirs : f # e => got'[f] = got[f]
         /\ \A f \in Dirs : Range(got[f]) \subseteq Range(got'[f])
<1>1. got \in [Dirs -> Seq(Items)] BY DEF Types
<1>2. got[e] \in Seq(Items) /\ got'[e] = Append(got[e], x) BY <1>1
<1>3. got'[e] \in Seq(Items) /\ Range(got'[e]) = Range(got[e]) \cup {x}
  BY <1>2, AppendRange
<1>4. \A f \in Dirs : f # e => got'[f] = got[f] BY <1>1
<1>. QED BY <1>1, <1>2, <1>3, <1>4

\* An item of the batch reaches the other peer.
LEMMA SendForwardStep ==
  ASSUME ProxyInv, SendForward
  PROVE  ProxyInv'
<1>0. /\ pc = "forward" /\ pc' = pc /\ UNCHANGED <<connVars, ok>>
      /\ pos < Len(out) /\ pos' = pos + 1
      /\ got' = [got EXCEPT ![dir] = Append(@, out[pos + 1])]
  BY DEF SendForward, SendItem, connVars, streamVars, peerVars
<1>. DEFINE x == out[pos + 1]
<1>1. /\ Types /\ Queued(out, dir, Handled(dir)) /\ HandedOver /\ dir \in Dirs
      /\ pos \in Nat /\ ok \in BOOLEAN /\ Len(out) \in Nat
  BY <1>0, LenProperties DEF ProxyInv, QueuesInOrder, Types
<1>2. pos + 1 \in 1..Len(out) /\ x \in Items
  <2>1. pos + 1 \in 1..Len(out) BY <1>0, <1>1
  <2>. QED BY <2>1, ElementOfSeq, <1>1 DEF Types
<1>3. x.from = dir
  <2>1. x.k \in Nat BY <1>2 DEF Items
  <2>2. x \in Channels!Produced(dir, x.k, dir) BY <1>1, <1>2 DEF Queued
  <2>. QED BY <1>1, <2>1, <2>2, ProducedIs
<1>. HIDE DEF x
<1>4. /\ got' \in [Dirs -> Seq(Items)]
      /\ Range(got'[dir]) = Range(got[dir]) \cup {x}
      /\ \A f \in Dirs : f # dir => got'[f] = got[f]
      /\ \A f \in Dirs : Range(got[f]) \subseteq Range(got'[f])
  <2>1. got' = [got EXCEPT ![dir] = Append(@, x)] BY <1>0 DEF x
  <2>. QED BY <2>1, <1>1, <1>2, HandOver
<1>5. /\ Types' /\ Counts' /\ StreamsOrdered' /\ StreamsComplete' /\ Consumed'
      /\ QueuesInOrder' /\ HeldOnce'
      /\ \A k, d, e : Channels!Produced(d, k, e)' = Channels!Produced(d, k, e)
  <2>1. pos' \in Nat BY <1>0, <1>1
  <2>. QED BY <1>0, <1>1, <1>4, <2>1, BuffersKept
<1>6. BetweenBatches' BY <1>0 DEF BetweenBatches
<1>7. HandedOver'
  <2>1. \A d, e \in Dirs : Delivered(d, e, done[d])'
    <3>1. \A d, e \in Dirs : Delivered(d, e, done[d]) BY <1>0, <1>1 DEF HandedOver
    <3>. QED BY <1>0, <1>4, <1>5, <3>1 DEF Delivered, connVars
  <2>2. \A i \in 1..(pos + 1) : i \in 1..pos \/ i = pos + 1 BY <1>1
  <2>3. \A i \in 1..pos : i \in 1..(pos + 1) BY <1>1
  <2>4. ASSUME NEW e \in Dirs, NEW y \in Range(got'[e])
        PROVE  y.k <= done[y.from]
                 \/ (y.from = dir /\ e = dir /\ \E i \in 1..(pos + 1) : y = out[i])
    <3>1. CASE y \in Range(got[e])
      BY <1>0, <1>1, <3>1, <2>3 DEF HandedOver
    <3>2. CASE y \notin Range(got[e])
      <4>1. e = dir /\ y = out[pos + 1] BY <1>4, <3>2 DEF x
      <4>2. pos + 1 \in 1..(pos + 1) BY <1>1
      <4>. QED BY <4>1, <4>2, <1>3 DEF x
    <3>. QED BY <3>1, <3>2
  <2>5. \A i \in 1..(pos + 1) : i <= Len(out) /\ out[i] \in Range(got'[dir])
    <3>1. pos + 1 <= Len(out) /\ out[pos + 1] \in Range(got'[dir]) BY <1>2, <1>4 DEF x
    <3>2. \A i \in 1..pos : i <= Len(out) /\ out[i] \in Range(got'[dir])
      BY <1>0, <1>1, <1>4 DEF HandedOver
    <3>. QED BY <3>1, <3>2, <2>2
  <2>. QED BY <1>0, <2>1, <2>4, <2>5 DEF HandedOver, connVars
<1>. QED BY <1>5, <1>6, <1>7 DEF ProxyInv

\* An answer reaches the sending peer.
LEMMA SendReverseStep ==
  ASSUME ProxyInv, SendReverse
  PROVE  ProxyInv'
<1>. DEFINE o == Other(dir)
            x == rev[pos + 1]
<1>0. /\ pc = "reverse" /\ pc' = pc /\ UNCHANGED <<connVars, ok>>
      /\ pos < Len(rev) /\ pos' = pos + 1
      /\ got' = [got EXCEPT ![o] = Append(@, x)]
  BY DEF SendReverse, SendItem, connVars, streamVars, peerVars
<1>1. /\ Types /\ Queued(rev, o, Handled(dir)) /\ HandedOver /\ dir \in Dirs
      /\ pos \in Nat /\ ok \in BOOLEAN /\ Len(rev) \in Nat
  BY <1>0, LenProperties DEF ProxyInv, QueuesInOrder, Types
<1>8. o \in Dirs /\ o # dir /\ \A e \in Dirs : e = o \/ e = dir
  BY <1>1 DEF Other, Dirs
<1>2. pos + 1 \in 1..Len(rev) /\ x \in Items
  <2>1. pos + 1 \in 1..Len(rev) BY <1>0, <1>1
  <2>. QED BY <2>1, ElementOfSeq, <1>1 DEF Types
<1>3. x.from = dir
  <2>1. x.k \in Nat BY <1>2 DEF Items
  <2>2. x \in Channels!Produced(dir, x.k, o) BY <1>1, <1>2 DEF Queued
  <2>. HIDE DEF o, x
  <2>. QED BY <1>1, <1>8, <2>1, <2>2, ProducedIs
<1>. HIDE DEF x, o
<1>4. /\ got' \in [Dirs -> Seq(Items)]
      /\ Range(got'[o]) = Range(got[o]) \cup {x}
      /\ \A f \in Dirs : f # o => got'[f] = got[f]
      /\ \A f \in Dirs : Range(got[f]) \subseteq Range(got'[f])
  BY <1>0, <1>1, <1>2, <1>8, HandOver
<1>5. /\ Types' /\ Counts' /\ StreamsOrdered' /\ StreamsComplete' /\ Consumed'
      /\ QueuesInOrder' /\ HeldOnce'
      /\ \A k, d, e : Channels!Produced(d, k, e)' = Channels!Produced(d, k, e)
  <2>1. pos' \in Nat BY <1>0, <1>1
  <2>. QED BY <1>0, <1>1, <1>4, <2>1, BuffersKept
<1>6. BetweenBatches' BY <1>0 DEF BetweenBatches
<1>7. HandedOver'
  <2>1. \A d, e \in Dirs : Delivered(d, e, done[d])'
    <3>1. \A d, e \in Dirs : Delivered(d, e, done[d]) BY <1>0, <1>1 DEF HandedOver
    <3>. QED BY <1>0, <1>4, <1>5, <3>1 DEF Delivered, connVars
  <2>2. \A i \in 1..(pos + 1) : i \in 1..pos \/ i = pos + 1 BY <1>1
  <2>3. \A i \in 1..pos : i \in 1..(pos + 1) BY <1>1
  <2>4. ASSUME NEW e \in Dirs, NEW y \in Range(got'[e])
        PROVE  \/ y.k <= done[y.from]
               \/ y.from = dir /\ e = dir /\ y.k <= Handled(dir)
               \/ y.from = dir /\ e # dir /\ \E i \in 1..(pos + 1) : y = rev[i]
    <3>1. CASE y \in Range(got[e])
      BY <1>0, <1>1, <3>1, <2>3 DEF HandedOver
    <3>2. CASE y \notin Range(got[e])
      <4>1. e = o /\ y = rev[pos + 1] BY <1>4, <3>2 DEF x
      <4>2. pos + 1 \in 1..(pos + 1) BY <1>1
      <4>. QED BY <4>1, <4>2, <1>3, <1>8 DEF x
    <3>. QED BY <3>1, <3>2
  <2>5. \A i \in 1..(pos + 1) : i <= Len(rev) /\ rev[i] \in Range(got'[o])
    <3>1. pos + 1 <= Len(rev) /\ rev[pos + 1] \in Range(got'[o]) BY <1>2, <1>4 DEF x
    <3>2. \A i \in 1..pos : i <= Len(rev) /\ rev[i] \in Range(got'[o])
      BY <1>0, <1>1, <1>4, <1>8 DEF HandedOver, o
    <3>. QED BY <3>1, <3>2, <2>2
  <2>6. ok => \A i \in 1..Len(out) : out[i] \in Range(got'[dir])
    BY <1>0, <1>1, <1>4 DEF HandedOver
  <2>7. Handled(dir)' = Handled(dir) /\ Other(dir)' = o BY <1>0 DEF connVars, Handled, Other, o
  <2>. QED BY <1>0, <2>1, <2>4, <2>5, <2>6, <2>7 DEF HandedOver, connVars
<1>. QED BY <1>5, <1>6, <1>7 DEF ProxyInv

-----------------------------------------------------------------------------
(* Receiving and the start of a batch.                                     *)

\* What read_buf and read_fds hold while no batch is handled.
Filled ==
  /\ taken \in [Dirs -> Nat] /\ fdsIn \in [Dirs -> Nat] /\ rfds \in [Dirs -> Seq(Fds)]
  /\ \A d \in Dirs : done[d] <= taken[d] /\ taken[d] <= fdsIn[d] /\ fdsIn[d] <= Len(sent[d])
  /\ \A d \in Dirs :
       /\ Ordered(rfds[d], d, 0, fdsIn[d])
       /\ ~amb[d] => /\ Ordered(rfds[d], d, done[d], fdsIn[d])
                     /\ Complete(rfds[d], d, done[d], fdsIn[d])
  /\ held = ConnectionFds \cup PumpFds(pumps)

\* Nothing is read: the buffers are filled as they were.
LEMMA LoopFilled ==
  ASSUME ProxyInv, pc = "loop"
  PROVE  Filled
<1>. USE DEF ProxyInv
<1>1. off = 0 /\ out = <<>> BY DEF BetweenBatches
<1>2. \A d \in Dirs : Handled(d) = done[d] BY <1>1 DEF Handled, Types
<1>3. FdsOf(out) = {}
  BY <1>1 DEF FdsOf
<1>4. held = ConnectionFds \cup PumpFds(pumps) BY <1>3 DEF HeldOnce
<1>5. \A d \in Dirs : done[d] <= taken[d] /\ taken[d] <= fdsIn[d] /\ fdsIn[d] <= Len(sent[d])
  BY <1>2 DEF Counts
<1>. QED BY <1>4, <1>5 DEF Filled, Types, StreamsOrdered, StreamsComplete

\* A receive leaves the read buffers filled.
LEMMA ReceivedFills ==
  ASSUME Types, Filled, NEW d \in Dirs, NEW n \in Nat, NEW p \in Nat, NEW f \in Nat,
         Received(d, n, p, f), UNCHANGED <<done, amb, pumps>>
  PROVE  Filled'
<1>. DEFINE b == fdsIn[d]
            q == Arrived(d, b, f - b)
<1>1. /\ sent' = sent /\ f >= b
      /\ taken' = [taken EXCEPT ![d] = n] /\ fdsIn' = [fdsIn EXCEPT ![d] = f]
      /\ rfds' = [rfds EXCEPT ![d] = @ \o q] /\ held' = held \cup Range(q)
  BY DEF Received, Arrived
<1>2. taken[d] <= n /\ n <= Len(sent[d]) /\ n <= f /\ f <= Len(sent[d])
  <2>1. Len(sent[d]) \in Nat /\ taken[d] \in Nat BY LenProperties DEF Types
  <2>2. n \in taken[d]..Len(sent[d]) /\ (p > 0 => n < Len(sent[d]))
        /\ f \in {IF p > 0 THEN n + 1 ELSE n, Len(sent[d])}
    BY DEF Received
  <2>. QED BY <2>1, <2>2
<1>0. b \in Nat BY DEF Types
<1>3. f - b \in Nat /\ b + (f - b) = f
  <2>. HIDE DEF q, b
  <2>. QED BY <1>0, <1>1
<1>4. /\ q \in Seq(Fds) /\ Ordered(q, d, b, f) /\ Complete(q, d, b, f)
  <2>1. /\ Arrived(d, b, f - b) \in Seq(Fds) /\ Ordered(Arrived(d, b, f - b), d, b, b + (f - b))
        /\ Complete(Arrived(d, b, f - b), d, b, b + (f - b))
    BY <1>0, <1>3, ArrivedAre
  <2>. QED BY <2>1, <1>3
<1>. HIDE DEF q, b
<1>5. /\ rfds[d] \in Seq(Fds) /\ Ordered(rfds[d], d, 0, b) /\ done[d] \in Nat /\ done[d] <= b
      /\ ~amb[d] => Ordered(rfds[d], d, done[d], b) /\ Complete(rfds[d], d, done[d], b)
  <2>1. done[d] \in Nat /\ taken[d] \in Nat /\ fdsIn[d] \in Nat BY DEF Types
  <2>. QED BY <2>1 DEF Filled, b
<1>6. /\ rfds[d] \o q \in Seq(Fds) /\ Ordered(rfds[d] \o q, d, 0, f)
  BY <1>0, <1>1, <1>4, <1>5, Join
<1>7. ~amb[d] => /\ Ordered(rfds[d] \o q, d, done[d], f)
                 /\ Complete(rfds[d] \o q, d, done[d], f)
  BY <1>0, <1>1, <1>4, <1>5, Join
<1>8. /\ rfds' \in [Dirs -> Seq(Fds)] /\ taken' \in [Dirs -> Nat] /\ fdsIn' \in [Dirs -> Nat]
      /\ rfds'[d] = rfds[d] \o q /\ fdsIn'[d] = f /\ taken'[d] = n
      /\ \A e \in Dirs : e # d => rfds'[e] = rfds[e] /\ fdsIn'[e] = fdsIn[e] /\ taken'[e] = taken[e]
  BY <1>1, <1>6 DEF Types
<1>9. \A e \in Dirs : done[e] <= taken'[e] /\ taken'[e] <= fdsIn'[e] /\ fdsIn'[e] <= Len(sent[e])
  <2>1. done[d] <= taken[d] /\ done[d] \in Nat /\ taken[d] \in Nat /\ Len(sent[d]) \in Nat
    BY LenProperties DEF Filled, Types
  <2>2. done[d] <= n BY <2>1, <1>2
  <2>. QED BY <1>8, <1>2, <2>2 DEF Filled
<1>10. \A e \in Dirs : /\ Ordered(rfds'[e], e, 0, fdsIn'[e])
                       /\ ~amb[e] => Ordered(rfds'[e], e, done[e], fdsIn'[e])
                       /\ ~amb[e] => Complete(rfds'[e], e, done[e], fdsIn'[e])
  BY <1>6, <1>7, <1>8 DEF Filled
<1>11. \A e \in Dirs : Complete(rfds[e], e, done[e], fdsIn[e])' <=> Complete(rfds'[e], e, done[e], fdsIn'[e])
  BY <1>1 DEF Complete
<1>12. held' = ConnectionFds' \cup PumpFds(pumps)'
  <2>1. Range(rfds[d] \o q) = Range(rfds[d]) \cup Range(q)
    BY <1>4, <1>5, RangeConcatenation
  <2>2. Range(rfds'[d]) = Range(rfds[d]) \cup Range(q) BY <2>1, <1>8
  <2>3. \A e \in Dirs : e # d => Range(rfds'[e]) = Range(rfds[e]) BY <1>8
  <2>6. ConnectionFds' = ConnectionFds \cup Range(q) BY <2>2, <2>3 DEF ConnectionFds, Dirs
  <2>7. PumpFds(pumps)' = PumpFds(pumps) BY DEF PumpFds
  <2>. QED BY <1>1, <2>6, <2>7 DEF Filled
<1>. QED BY <1>8, <1>9, <1>10, <1>11, <1>12, <1>1 DEF Filled, Ordered

\* A batch starts on filled buffers.
LEMMA BeginStep ==
  ASSUME ProxyInv, pc = "loop", NEW d \in Dirs, Begin(d), UNCHANGED sent, Filled'
  PROVE  ProxyInv'
<1>. USE DEF ProxyInv
<1>1. /\ pc' = "batch" /\ dir' = d /\ off' = 0 /\ fdoff' = 0 /\ out' = <<>> /\ rev' = <<>>
      /\ pos' = 0 /\ ok' = TRUE /\ UNCHANGED <<done, amb, prefer, fatal, pumps, twice, got>>
  BY DEF Begin, peerVars
<1>2. Types'
  <2>1. <<>> \in Seq(Items) BY EmptySeq
  <2>. QED BY <1>1, <2>1 DEF Types, Filled
<1>3. \A e \in Dirs : Handled(e)' = done[e] /\ done[e] \in Nat
  BY <1>1 DEF Handled, Types
<1>4. Counts' BY <1>1, <1>3 DEF Counts, Filled
<1>5. BetweenBatches' BY <1>1 DEF BetweenBatches
<1>6. StreamsOrdered' BY DEF StreamsOrdered, Filled
<1>7. StreamsComplete' BY DEF StreamsComplete, Filled
<1>8. Consumed'
  <2>1. ~amb'[d] => \A i \in 1..Len(rfds'[d]) : done[d] + 1 <= rfds'[d][i][2] /\ rfds'[d][i][2] \in Nat
    BY <1>1, <1>3 DEF Filled, Ordered
  <2>2. Len(rfds'[d]) \in Nat BY LenProperties DEF Filled
  <2>3. ~amb'[d] => \A i \in 1..Len(rfds'[d]) : ~(i <= 0) /\ ~(rfds'[d][i][2] <= done[d])
    BY <2>1, <2>2, <1>3
  <2>. QED BY <1>1, <1>3, <2>2, <2>3 DEF Consumed
<1>9. QueuesInOrder'
  <2>1. \A k \in ((done[dir] + 1)..Handled(dir))' : FALSE BY <1>1, <1>3
  <2>. QED BY <1>1, <2>1 DEF QueuesInOrder, Queued
<1>10. HeldOnce'
  <2>1. FdsOf(out)' = {} BY <1>1 DEF FdsOf
  <2>. QED BY <1>1, <2>1 DEF HeldOnce, Filled
<1>11. HandedOver'
  <2>1. \A e, f \in Dirs : Delivered(e, f, done[e])'
    <3>1. \A k, e, f : Channels!Produced(e, k, f)' = Channels!Produced(e, k, f)
      BY DEF Channels!Produced
    <3>. QED BY <1>1, <3>1 DEF HandedOver, Delivered
  <2>. QED BY <1>1, <2>1 DEF HandedOver
<1>. QED BY <1>2, <1>4, <1>5, <1>6, <1>7, <1>8, <1>9, <1>10, <1>11

LEMMA FilledKept ==
  ASSUME Filled, UNCHANGED <<sent, taken, fdsIn, rfds, held, done, amb, pumps>>
  PROVE  Filled'
BY DEF Filled, Ordered, Complete, ConnectionFds, PumpFds

LEMMA DispatchPreferredStep ==
  ASSUME ProxyInv, DispatchPreferred
  PROVE  ProxyInv'
<1>1. pc = "loop" /\ Begin(prefer) /\ UNCHANGED <<sent, taken, fdsIn, rfds, held, done, amb, pumps>>
  BY DEF DispatchPreferred, Begin, streamVars
<1>2. Filled' BY <1>1, LoopFilled, FilledKept
<1>. QED BY <1>1, <1>2, BeginStep DEF ProxyInv, Types

LEMMA ProbeStep ==
  ASSUME ProxyInv, Probe
  PROVE  ProxyInv'
<1>0. pc = "loop" /\ Filled /\ Types /\ prefer \in Dirs /\ Other(prefer) \in Dirs
  BY LoopFilled DEF Probe, ProxyInv, Types, Other, Dirs
<1>1. CASE Begin(Other(prefer)) /\ UNCHANGED <<streamVars, rfds, held>>
  <2>1. UNCHANGED <<sent, taken, fdsIn, rfds, held, done, amb, pumps>>
    BY <1>1 DEF Begin, streamVars
  <2>. QED BY <1>0, <1>1, <2>1, FilledKept, BeginStep
<1>2. ASSUME NEW n \in 0..Len(sent[prefer]), NEW f \in 0..Len(sent[prefer]), NEW p \in Cuts,
             Received(prefer, n, p, f), Begin(prefer) \/ Begin(Other(prefer))
      PROVE  ProxyInv'
  <2>1. Filled'
    <3>1. n \in Nat /\ f \in Nat /\ p \in Nat BY DEF Cuts
    <3>2. UNCHANGED <<done, amb, pumps>> BY <1>2 DEF Begin
    <3>. QED BY <1>0, <1>2, <3>1, <3>2, ReceivedFills
  <2>. QED BY <1>0, <1>2, <2>1, BeginStep DEF Received
<1>. QED BY <1>1, <1>2 DEF Probe

LEMMA SelectStep ==
  ASSUME ProxyInv, NEW d \in Dirs, Select(d)
  PROVE  ProxyInv'
<1>0. pc = "loop" /\ Filled /\ Types /\ Begin(d)
  BY LoopFilled DEF Select, ProxyInv
<1>1. PICK n \in 0..Len(sent[d]), f \in 0..Len(sent[d]), p \in Cuts : Received(d, n, p, f)
  BY DEF Select
<1>2. Filled'
  <2>1. n \in Nat /\ f \in Nat /\ p \in Nat BY DEF Cuts
  <2>2. UNCHANGED <<done, amb, pumps>> BY <1>0 DEF Begin
  <2>. QED BY <1>0, <1>1, <2>1, <2>2, ReceivedFills
<1>. QED BY <1>0, <1>1, <1>2, BeginStep DEF Received

-----------------------------------------------------------------------------
(* Teardown.                                                               *)

\* Answers carry no descriptors.
LEMMA AnswersBare ==
  ASSUME Types, Queued(rev, Other(dir), Handled(dir))
  PROVE  FdsOf(rev) = {}
<1>1. Other(dir) # dir BY DEF Types, Other, Dirs
<1>2. ASSUME NEW i \in DOMAIN rev PROVE Range(rev[i].fds) = {}
  <2>1. i \in 1..Len(rev) BY LenProperties DEF Types
  <2>2. rev[i] \in Channels!Produced(dir, rev[i].k, Other(dir)) BY <2>1 DEF Queued
  <2>3. rev[i].fds = <<>> BY <1>1, <2>2 DEF Channels!Produced, Answers, Item
  <2>. QED BY <2>3 DEF Range
<1>. QED BY <1>2 DEF FdsOf

\* A teardown closes what is held, once.
LEMMA TeardownStep ==
  ASSUME ProxyInv, pc # "closed", NEW fresh, Teardown(fresh), UNCHANGED <<sent, taken, fdsIn>>
  PROVE  ProxyInv'
<1>. USE DEF ProxyInv
<1>. DEFINE new == {Fd("c2h", k, "pipe") : k \in fresh}
<1>1. /\ pc' = "closed" /\ pumps' = {} /\ rfds' = [d \in Dirs |-> <<>>] /\ out' = <<>> /\ rev' = <<>>
      /\ UNCHANGED <<done, amb, dir, prefer, off, fdoff, pos, ok, fatal, got>>
      /\ held' = ((held \cup new) \ (EarlyReturnFds \cup ConnectionFds \cup FdsOf(rev) \cup new))
                   \ PumpFds(pumps)
      /\ twice' = (twice \/ ~(EarlyReturnFds \cup ConnectionFds \cup FdsOf(rev) \cup new
                              \subseteq held \cup new))
  BY DEF Teardown, ContextFds, peerVars
<1>. HIDE DEF new
<1>2. Types'
  <2>1. <<>> \in Seq(Items) /\ <<>> \in Seq(Fds) BY EmptySeq
  <2>2. rfds' \in [Dirs -> Seq(Fds)] BY <1>1, <2>1
  <2>. QED BY <1>1, <2>1, <2>2 DEF Types
<1>3. Counts' BY <1>1 DEF Counts, Handled
<1>4. StreamsOrdered' BY <1>1 DEF StreamsOrdered, Ordered
<1>5. HeldOnce'
  <2>1. FdsOf(rev) = {} BY AnswersBare DEF QueuesInOrder
  <2>2. held = ConnectionFds \cup PumpFds(pumps) \cup FdsOf(out) /\ ~twice BY DEF HeldOnce
  <2>3. Range(rfds[dir]) \subseteq ConnectionFds BY DEF ConnectionFds, Types, Dirs
  <2>4. EarlyReturnFds = FdsOf(out) \ Range(rfds[dir]) BY DEF EarlyReturnFds
  <2>5. held' = {} BY <1>1, <2>1, <2>2, <2>3, <2>4
  <2>6. ~twice'
    <3>1. EarlyReturnFds \cup ConnectionFds \cup FdsOf(rev) \cup new \subseteq held \cup new
      BY <2>1, <2>2, <2>4
    <3>. QED BY <1>1, <2>2, <3>1
  <2>. QED BY <1>1, <2>5, <2>6 DEF HeldOnce
<1>. QED
  BY <1>1, <1>2, <1>3, <1>4, <1>5
  DEF BetweenBatches, StreamsComplete, Consumed, QueuesInOrder, HandedOver

LEMMA DisconnectStep ==
  ASSUME ProxyInv, NEW d \in Dirs, Disconnect(d)
  PROVE  ProxyInv'
BY TeardownStep DEF Disconnect

LEMMA RejectMsgStep ==
  ASSUME ProxyInv, RejectMsg
  PROVE  ProxyInv'
<1>1. PICK fresh : Teardown(fresh) BY DEF RejectMsg
<1>. QED BY <1>1, TeardownStep DEF RejectMsg, streamVars

-----------------------------------------------------------------------------
(* A clipboard transfer ends.                                              *)

\* A pump closes its own descriptors and no other.
LEMMA PumpEndsStep ==
  ASSUME ProxyInv, NEW n \in pumps, PumpEnds(n)
  PROVE  ProxyInv'
<1>. USE DEF ProxyInv
<1>0. /\ pc = "loop" /\ pumps' = pumps \ {n} /\ held' = held \ {Fd("c2h", n, "pump")}
      /\ UNCHANGED <<sent, taken, fdsIn, done, rfds, amb, pc, dir, prefer, off, fdoff, out, rev,
                     pos, ok, fatal, twice, got>>
  BY DEF PumpEnds, streamVars, batchVars, peerVars
<1>1. Types' BY <1>0 DEF Types
<1>2. Counts' BY <1>0 DEF Counts, Handled
<1>3. BetweenBatches' BY <1>0 DEF BetweenBatches
<1>4. StreamsOrdered' BY <1>0 DEF StreamsOrdered, Ordered
<1>5. StreamsComplete' BY <1>0 DEF StreamsComplete, Ordered, Complete
<1>6. Consumed' BY <1>0 DEF Consumed, Handled
<1>7. \A k, d, e : Channels!Produced(d, k, e)' = Channels!Produced(d, k, e)
  BY <1>0 DEF Channels!Produced
<1>8. QueuesInOrder'
  <2>2. Handled(dir)' = Handled(dir) BY <1>0 DEF Handled
  <2>3. Queued(out, dir, Handled(dir)) => Queued(out, dir, Handled(dir))'
    BY <1>0, <1>7, <2>2 DEF Queued
  <2>4. Queued(rev, Other(dir), Handled(dir)) => Queued(rev, Other(dir), Handled(dir))'
    BY <1>0, <1>7, <2>2 DEF Queued, Other
  <2>. QED BY <1>0, <2>3, <2>4 DEF QueuesInOrder
<1>9. HeldOnce'
  <2>1. out = <<>> BY <1>0 DEF BetweenBatches
  <2>2. FdsOf(out) = {} /\ FdsOf(out)' = {} BY <1>0, <2>1 DEF FdsOf
  <2>3. held = ConnectionFds \cup PumpFds(pumps) /\ ~twice BY <1>0, <2>2 DEF HeldOnce
  <2>4. ConnectionFds' = ConnectionFds BY <1>0 DEF ConnectionFds
  <2>5. Fd("c2h", n, "pump") \notin ConnectionFds
    <3>1. ASSUME NEW d \in Dirs, Fd("c2h", n, "pump") \in Range(rfds[d]) PROVE FALSE
      <4>1. PICK i \in 1..Len(rfds[d]) : rfds[d][i] = Fd("c2h", n, "pump")
        BY <3>1, LenProperties DEF Types, Range
      <4>2. rfds[d][i] = Fd(d, rfds[d][i][2], "msg") BY DEF StreamsOrdered, Ordered
      <4>. QED BY <4>1, <4>2 DEF Fd
    <3>. QED BY <3>1 DEF ConnectionFds, Dirs
  <2>6. PumpFds(pumps)' = PumpFds(pumps) \ {Fd("c2h", n, "pump")}
    <3>1. \A k, l : Fd("c2h", k, "pump") = Fd("c2h", l, "pump") => k = l BY DEF Fd
    <3>. QED BY <1>0, <3>1 DEF PumpFds
  <2>. QED BY <1>0, <2>2, <2>3, <2>4, <2>5, <2>6 DEF HeldOnce
<1>10. HandedOver'
  <2>1. \A d, e \in Dirs : Delivered(d, e, done[d])'
    BY <1>0, <1>7 DEF HandedOver, Delivered
  <2>. QED BY <1>0, <2>1 DEF HandedOver
<1>. QED BY <1>1, <1>2, <1>3, <1>4, <1>5, <1>6, <1>8, <1>9, <1>10

-----------------------------------------------------------------------------
(* One message of a batch.                                                 *)

\* The queue of a direction takes what the next message produces.
LEMMA QueueGrows ==
  ASSUME Types, NEW q \in Seq(Items), NEW e \in Dirs, NEW hi \in Nat, done[dir] <= hi,
         Queued(q, e, hi)
  PROVE  /\ Channels!Produced(dir, hi + 1, e) = {} => Queued(q, e, hi + 1)
         /\ \A x \in Items : Channels!Produced(dir, hi + 1, e) = {x} => Queued(Append(q, x), e, hi + 1)
<1>0. dir \in Dirs /\ done[dir] \in Nat BY DEF Types
<1>1. \A k \in (done[dir] + 1)..(hi + 1) : k \in (done[dir] + 1)..hi \/ k = hi + 1 BY <1>0
<1>2. \A k \in (done[dir] + 1)..hi : k \in (done[dir] + 1)..(hi + 1) /\ k < hi + 1 BY <1>0
<1>3. ASSUME Channels!Produced(dir, hi + 1, e) = {} PROVE Queued(q, e, hi + 1)
  BY <1>1, <1>2, <1>3 DEF Queued
<1>4. ASSUME NEW x \in Items, Channels!Produced(dir, hi + 1, e) = {x}
      PROVE  Queued(Append(q, x), e, hi + 1)
  <2>. DEFINE t == Append(q, x)
  <2>1. /\ Len(t) = Len(q) + 1 /\ Len(q) \in Nat /\ t[Len(q) + 1] = x
        /\ \A i \in 1..Len(q) : t[i] = q[i]
    BY AppendProperties, LenProperties
  <2>. HIDE DEF t
  <2>2. \A i \in 1..Len(t) : i \in 1..Len(q) \/ i = Len(q) + 1 BY <2>1
  <2>3. x.k = hi + 1
    BY <1>4, <1>0, ProducedIs
  <2>4. hi + 1 \in (done[dir] + 1)..(hi + 1) BY <1>0
  <2>5. ASSUME NEW i \in 1..Len(t)
        PROVE  t[i].k \in (done[dir] + 1)..(hi + 1) /\ t[i] \in Channels!Produced(dir, t[i].k, e)
    BY <1>2, <1>4, <2>1, <2>2, <2>3, <2>4 DEF Queued
  <2>6. ASSUME NEW i \in 1..Len(t), NEW j \in 1..Len(t), i < j PROVE t[i].k < t[j].k
    <3>1. i \in 1..Len(q) BY <2>6, <2>1
    <3>2. CASE j \in 1..Len(q) BY <2>6, <3>1, <3>2, <2>1 DEF Queued
    <3>3. CASE j = Len(q) + 1
      <4>1. t[j].k = hi + 1 BY <3>3, <2>1, <2>3
      <4>2. t[i].k \in (done[dir] + 1)..hi BY <3>1, <2>1 DEF Queued
      <4>3. t[i].k < hi + 1 BY <4>2, <1>2
      <4>. QED BY <4>1, <4>3
    <3>. QED BY <3>2, <3>3, <2>2
  <2>7. ASSUME NEW k \in (done[dir] + 1)..(hi + 1)
        PROVE  Channels!Produced(dir, k, e) \subseteq {t[i] : i \in 1..Len(t)}
    <3>1. CASE k = hi + 1
      <4>1. Len(q) + 1 \in 1..Len(t) BY <2>1
      <4>. QED BY <1>4, <2>1, <3>1, <4>1
    <3>2. CASE k \in (done[dir] + 1)..hi
      <4>1. Channels!Produced(dir, k, e) \subseteq {q[i] : i \in 1..Len(q)} BY <3>2 DEF Queued
      <4>2. \A i \in 1..Len(q) : i \in 1..Len(t) BY <2>1
      <4>3. {q[i] : i \in 1..Len(q)} \subseteq {t[i] : i \in 1..Len(t)} BY <2>1, <4>2
      <4>. QED BY <4>1, <4>3
    <3>. QED BY <3>1, <3>2, <1>1
  <2>. QED BY <2>5, <2>6, <2>7 DEF Queued, t
<1>. QED BY <1>3, <1>4

\* The descriptors of a queue with one more item.
LEMMA FdsOfAppend ==
  ASSUME NEW q \in Seq(Items), NEW x \in Items
  PROVE  FdsOf(Append(q, x)) = FdsOf(q) \cup Range(x.fds)
<1>. DEFINE t == Append(q, x)
<1>1. /\ DOMAIN q = 1..Len(q) /\ DOMAIN t = 1..(Len(q) + 1) /\ Len(q) \in Nat /\ t[Len(q) + 1] = x
      /\ \A i \in 1..Len(q) : t[i] = q[i]
  BY AppendProperties, LenProperties
<1>. HIDE DEF t
<1>2. \A i \in DOMAIN t : i \in DOMAIN q \/ i = Len(q) + 1 BY <1>1
<1>3. \A i \in DOMAIN q : i \in DOMAIN t BY <1>1
<1>4. Len(q) + 1 \in DOMAIN t BY <1>1
<1>5. FdsOf(t) = FdsOf(q) \cup Range(x.fds)
  BY <1>1, <1>2, <1>3, <1>4 DEF FdsOf
<1>. QED BY <1>5 DEF t

\* The descriptors a message takes are its own.
LEMMA TakenAre ==
  ASSUME ProxyInv, pc = "batch", ~amb[dir], NEW m, m = M, m.fd \in {0, 1},
         NEW h \in Nat, h = K, h <= fdsIn[dir]
  PROVE  /\ TakenFds = OwnFds(dir, h, m)
         /\ fdoff + m.fd <= Len(rfds[dir])
         /\ \A i \in 1..Len(rfds[dir]) : i <= fdoff + m.fd <=> rfds[dir][i][2] <= h
         /\ m.fd = 1 => fdoff + 1 \in 1..Len(rfds[dir]) /\ rfds[dir][fdoff + 1] = Fd(dir, h, "msg")
<1>. DEFINE q == rfds[dir]
<1>1. /\ q \in Seq(Fds) /\ Len(q) \in Nat /\ fdoff \in Nat /\ fdoff <= Len(q)
      /\ done[dir] \in Nat /\ off \in Nat /\ fdsIn[dir] \in Nat /\ dir \in Dirs
  BY LenProperties DEF ProxyInv, Types, Consumed
<1>2. Handled(dir) + 1 = h /\ Handled(dir) \in Nat /\ done[dir] + 1 <= h /\ m = sent[dir][h]
  BY <1>1 DEF Handled, K, M
<1>3. /\ Ordered(q, dir, done[dir], fdsIn[dir]) /\ Complete(q, dir, done[dir], fdsIn[dir])
      /\ \A i \in 1..Len(q) : i <= fdoff <=> q[i][2] <= Handled(dir)
  BY <1>1 DEF ProxyInv, StreamsComplete, Consumed
<1>. HIDE DEF q
<1>4. \A i \in 1..Len(q) : q[i][2] \in Nat BY <1>1, <1>3 DEF Ordered
<1>5. CASE m.fd = 1
  <2>1. PICK j \in 1..Len(q) : q[j] = Fd(dir, h, "msg")
    BY <1>1, <1>2, <1>3, <1>5 DEF Complete
  <2>2. q[j][2] = h BY <2>1 DEF Fd
  <2>3. ~(j <= fdoff) BY <2>2, <1>2, <1>3
  <2>4. fdoff + 1 \in 1..Len(q) BY <2>3, <1>1
  <2>5. j = fdoff + 1
    <3>1. SUFFICES ASSUME fdoff + 1 < j PROVE FALSE BY <2>3, <1>1
    <3>2. q[fdoff + 1][2] < h BY <3>1, <2>2, <2>4, <1>3 DEF Ordered
    <3>3. q[fdoff + 1][2] <= Handled(dir) BY <3>2, <2>4, <1>2, <1>4
    <3>4. fdoff + 1 <= fdoff BY <3>3, <2>4, <1>3
    <3>. QED BY <3>4, <1>1
  <2>6. ASSUME NEW i \in 1..Len(q) PROVE i <= fdoff + 1 <=> q[i][2] <= h
    <3>1. CASE i < j
      <4>1. q[i][2] < q[j][2] BY <3>1, <1>3 DEF Ordered
      <4>. QED BY <4>1, <3>1, <2>2, <2>5, <1>1, <1>2, <1>4
    <3>2. CASE i = j BY <3>2, <2>2, <2>5, <1>1, <1>2
    <3>3. CASE j < i
      <4>1. q[j][2] < q[i][2] BY <3>3, <1>3 DEF Ordered
      <4>. QED BY <4>1, <3>3, <2>2, <2>5, <1>1, <1>2, <1>4
    <3>. QED BY <3>1, <3>2, <3>3
  <2>7. TakenFds = <<Fd(dir, h, "msg")>>
    <3>1. TakenFds = SubSeq(q, fdoff + 1, fdoff + 1) BY <1>5 DEF TakenFds, q
    <3>2. SubSeq(q, fdoff + 1, fdoff + 1) = <<q[fdoff + 1]>>
      <4>1. SubSeq(q, fdoff + 1, fdoff + 1) = <<q[fdoff + 1]>> \o SubSeq(q, fdoff + 1 + 1, fdoff + 1)
        BY <1>1, <2>4, SubSeqRecursiveFirst
      <4>2. SubSeq(q, fdoff + 1 + 1, fdoff + 1) = <<>> BY <1>1, SubSeqEmpty
      <4>3. <<q[fdoff + 1]>> \in Seq(Fds) BY <1>1, <2>4, ElementOfSeq
      <4>. QED BY <4>1, <4>2, <4>3, ConcatEmptySeq
    <3>. QED BY <3>1, <3>2, <2>1, <2>5
  <2>. QED BY <2>1, <2>4, <2>5, <2>6, <2>7, <1>5 DEF OwnFds, q
<1>6. CASE m.fd = 0
  <2>1. \A i \in 1..Len(q) : q[i][2] # h BY <1>2, <1>3, <1>6 DEF Complete
  <2>2. \A i \in 1..Len(q) : i <= fdoff + 0 <=> q[i][2] <= h
    BY <2>1, <1>1, <1>2, <1>3, <1>4
  <2>3. TakenFds = <<>>
    <3>1. TakenFds = SubSeq(q, fdoff + 1, fdoff + 0) BY <1>6 DEF TakenFds, q
    <3>. QED BY <3>1, <1>1, SubSeqEmpty
  <2>. QED BY <2>2, <2>3, <1>1, <1>6 DEF OwnFds, q
<1>. QED BY <1>5, <1>6

\* What HandleMsg does to the queues, in terms of what the message is to produce.
MsgEffect(h, m) ==
  /\ \/ /\ out' = out /\ Channels!Produced(dir, h, dir) = {}
        /\ UNCHANGED <<held, pumps>>
     \/ /\ \E x \in Items :
             /\ Channels!Produced(dir, h, dir) = {x} /\ out' = Append(out, x)
             /\ Range(x.fds) \subseteq {rfds[dir][i] : i \in 1..(fdoff + m.fd)}
        /\ UNCHANGED <<held, pumps>>
        /\ fdoff' = fdoff + m.fd
     \/ /\ \E x \in Items :
             /\ Channels!Produced(dir, h, dir) = {x} /\ out' = Append(out, x)
             /\ Range(x.fds) = {Fd(dir, h, "pipe")}
        /\ held' = held \cup {Fd(dir, h, "pipe"), Fd("c2h", h, "pump")}
        /\ pumps' = pumps \cup {h}
  /\ \/ rev' = rev /\ Channels!Produced(dir, h, Other(dir)) = {}
     \/ \E x \in Items : Channels!Produced(dir, h, Other(dir)) = {x} /\ rev' = Append(rev, x)

\* What one message does, whatever its kind.
LEMMA HandledKind ==
  ASSUME ProxyInv, HandleMsg
  PROVE  \E h, m :
           /\ h \in Nat /\ h = K /\ m = M /\ h = Handled(dir) + 1 /\ h <= taken[dir]
           /\ m.fd \in {0, 1} /\ m = sent[dir][h]
           /\ MsgEffect(h, m)
           /\ \/ fdoff' = fdoff /\ amb' = [amb EXCEPT ![dir] = @ \/ fdoff < Len(rfds[dir])]
              \/ /\ fdoff' = fdoff + m.fd /\ amb' = amb /\ fdoff + m.fd <= Len(rfds[dir])
                 /\ \A i \in 1..Len(rfds[dir]) : i <= fdoff + m.fd <=> rfds[dir][i][2] <= h
<1>1. PICK h, m : h = K /\ m = M OBVIOUS
<1>2. /\ pc = "batch" /\ ~EndOfBatch /\ ~Rejected /\ dir \in Dirs
      /\ done[dir] \in Nat /\ off \in Nat /\ taken[dir] \in Nat /\ fdsIn[dir] \in Nat
      /\ Len(sent[dir]) \in Nat
  BY LenProperties DEF HandleMsg, ProxyInv, Types
<1>3. FrameIn /\ ~amb[dir] BY <1>2 DEF EndOfBatch, Rejected, AmbiguousFd
<1>4. /\ h \in Nat /\ h = Handled(dir) + 1 /\ h <= taken[dir] /\ h <= fdsIn[dir]
      /\ h \in 1..Len(sent[dir]) /\ m = sent[dir][h]
  <2>1. h = done[dir] + off + 1 /\ h <= taken[dir] BY <1>1, <1>3 DEF K, FrameIn
  <2>2. taken[dir] <= fdsIn[dir] /\ fdsIn[dir] <= Len(sent[dir]) BY <1>2 DEF ProxyInv, Counts
  <2>3. m = sent[dir][h] BY <1>1 DEF M
  <2>. QED BY <2>1, <2>2, <2>3, <1>2 DEF Handled
<1>5. m \in Messages[dir] /\ m.fd \in {0, 1} /\ (m.kind = "receive" => dir = "c2h")
  <2>1. m \in Messages[dir] BY <1>2, <1>4 DEF ProxyInv, Types
  <2>. QED BY <2>1, <1>2, MessagesAssumption DEF Dirs
<1>6. /\ TakenFds = OwnFds(dir, h, m)
      /\ fdoff + m.fd <= Len(rfds[dir])
      /\ \A i \in 1..Len(rfds[dir]) : i <= fdoff + m.fd <=> rfds[dir][i][2] <= h
      /\ m.fd = 1 => fdoff + 1 \in 1..Len(rfds[dir]) /\ rfds[dir][fdoff + 1] = Fd(dir, h, "msg")
  BY <1>1, <1>2, <1>3, <1>4, <1>5, TakenAre
<1>7. /\ Item(dir, h, <<>>) \in Items /\ Item(dir, h, <<Fd(dir, h, "msg")>>) \in Items
      /\ Item(dir, h, <<Fd(dir, h, "pipe")>>) \in Items
  <2>1. Fd(dir, h, "msg") \in Fds /\ Fd(dir, h, "pipe") \in Fds BY <1>2, <1>4 DEF Fd, Fds
  <2>. HIDE DEF Fds
  <2>2. <<Fd(dir, h, "msg")>> \in Seq(Fds) /\ <<Fd(dir, h, "pipe")>> \in Seq(Fds) /\ <<>> \in Seq(Fds)
    BY <2>1, EmptySeq
  <2>. QED BY <2>2, <1>2, <1>4 DEF Item, Items
<1>8. Other(dir) # dir BY <1>2 DEF Other, Dirs
<1>9. /\ Channels!Produced(dir, h, dir) = Outputs(dir, h, m)
      /\ Channels!Produced(dir, h, Other(dir)) = Answers(dir, h, m)
  BY <1>4, <1>8 DEF Channels!Produced
<1>10. Range(<<>>) = {} /\ \A x : Range(<<x>>) = {x} BY DEF Range
<1>11. fdoff \in Nat BY DEF ProxyInv, Types
<1>20. CASE m.kind = "untracked"
  <2>1. UNCHANGED <<fdoff, out, rev, pumps, held>>
        /\ amb' = [amb EXCEPT ![dir] = @ \/ fdoff < Len(rfds[dir])]
    BY <1>1, <1>20 DEF HandleMsg, Untracked
  <2>2. Outputs(dir, h, m) = {} /\ Answers(dir, h, m) = {} BY <1>20 DEF Outputs, Answers
  <2>3. MsgEffect(h, m) BY <2>1, <2>2, <1>9 DEF MsgEffect
  <2>. QED BY <2>1, <2>3, <1>1, <1>4, <1>5
<1>21. CASE m.kind # "untracked"
  <2>0. Dispatched BY <1>1, <1>21 DEF HandleMsg
  <2>1. fdoff' = fdoff + m.fd /\ amb' = amb BY <2>0, <1>1 DEF Dispatched
  <2>2. MsgEffect(h, m)
    <3>1. CASE m.kind \in {"forward", "acked"}
      <4>. DEFINE x == Item(dir, h, OwnFds(dir, h, m))
      <4>1. out' = Append(out, x) /\ UNCHANGED <<pumps, held>>
            /\ rev' = IF m.kind = "acked" THEN Append(rev, Item(dir, h, <<>>)) ELSE rev
        BY <2>0, <3>1, <1>1, <1>6 DEF Dispatched
      <4>2. x \in Items BY <1>5, <1>7 DEF OwnFds
      <4>3. Outputs(dir, h, m) = {x} BY <3>1 DEF Outputs
      <4>4. Answers(dir, h, m) = IF m.kind = "acked" THEN {Item(dir, h, <<>>)} ELSE {}
        BY <3>1 DEF Answers
      <4>5. Range(x.fds) \subseteq {rfds[dir][i] : i \in 1..(fdoff + m.fd)}
        <5>1. x.fds = OwnFds(dir, h, m) BY DEF Item
        <5>2. CASE m.fd = 1
          <6>1. fdoff + 1 \in 1..(fdoff + m.fd) BY <1>11, <5>2
          <6>2. Range(x.fds) = {rfds[dir][fdoff + 1]} BY <1>6, <1>10, <5>1, <5>2 DEF OwnFds
          <6>. QED BY <6>1, <6>2
        <5>3. CASE m.fd # 1
          <6>1. Range(x.fds) = {} BY <1>10, <5>1, <5>3 DEF OwnFds
          <6>. QED BY <6>1
        <5>. QED BY <5>2, <5>3
      <4>. HIDE DEF x
      <4>6. \/ rev' = rev /\ Answers(dir, h, m) = {}
            \/ \E y \in Items : Answers(dir, h, m) = {y} /\ rev' = Append(rev, y)
        BY <4>1, <4>4, <1>7
      <4>. QED BY <4>1, <4>2, <4>3, <4>5, <4>6, <2>1, <1>9 DEF MsgEffect
    <3>2. CASE m.kind = "consumed"
      <4>1. UNCHANGED <<out, rev, pumps, held>> BY <2>0, <3>2, <1>1 DEF Dispatched
      <4>2. Outputs(dir, h, m) = {} /\ Answers(dir, h, m) = {} BY <3>2 DEF Outputs, Answers
      <4>. QED BY <4>1, <4>2, <1>9 DEF MsgEffect
    <3>3. CASE m.kind = "receive"
      <4>. DEFINE x == Item(dir, h, <<Fd(dir, h, "pipe")>>)
      <4>1. /\ rev' = rev /\ out' = Append(out, x) /\ pumps' = pumps \cup {h}
            /\ held' = held \cup {Fd(dir, h, "pipe"), Fd(dir, h, "pump")}
        BY <2>0, <3>3, <1>1 DEF Dispatched, Receive
      <4>2. Outputs(dir, h, m) = {x} /\ Answers(dir, h, m) = {} BY <3>3 DEF Outputs, Answers
      <4>3. Range(x.fds) = {Fd(dir, h, "pipe")} /\ dir = "c2h" /\ x \in Items
        BY <1>5, <1>7, <1>10, <3>3 DEF Item
      <4>. HIDE DEF x
      <4>. QED BY <4>1, <4>2, <4>3, <1>9 DEF MsgEffect
    <3>4. CASE m.kind = "fatal"
      <4>1. UNCHANGED <<out, pumps, held>> /\ rev' = Append(rev, Item(dir, h, <<>>))
        BY <2>0, <3>4, <1>1 DEF Dispatched
      <4>2. Outputs(dir, h, m) = {} /\ Answers(dir, h, m) = {Item(dir, h, <<>>)}
        BY <3>4 DEF Outputs, Answers
      <4>. QED BY <4>1, <4>2, <1>7, <1>9 DEF MsgEffect
    <3>. QED BY <2>0, <3>1, <3>2, <3>3, <3>4, <1>1 DEF Dispatched
  <2>. QED BY <2>1, <2>2, <1>1, <1>4, <1>5, <1>6
<1>. QED BY <1>20, <1>21

LEMMA HandleMsgStep ==
  ASSUME ProxyInv, HandleMsg
  PROVE  ProxyInv'
<1>. USE DEF ProxyInv
<1>0. /\ pc = "batch" /\ pc' = pc /\ off' = off + 1
      /\ fatal' \in BOOLEAN
      /\ UNCHANGED <<sent, taken, fdsIn, done, rfds, dir, prefer, pos, ok, twice, got>>
  <2>1. /\ pc = "batch" /\ off' = off + 1
        /\ UNCHANGED <<streamVars, done, rfds, pc, dir, prefer, pos, ok, twice, peerVars>>
        /\ Untracked \/ Dispatched
    BY DEF HandleMsg
  <2>2. fatal' \in BOOLEAN BY <2>1 DEF Untracked, Dispatched, Types
  <2>. QED BY <2>1, <2>2 DEF streamVars, peerVars
<1>1. PICK h, m :
           /\ h \in Nat /\ h = K /\ m = M /\ h = Handled(dir) + 1 /\ h <= taken[dir]
           /\ m.fd \in {0, 1} /\ m = sent[dir][h]
           /\ MsgEffect(h, m)
           /\ \/ fdoff' = fdoff /\ amb' = [amb EXCEPT ![dir] = @ \/ fdoff < Len(rfds[dir])]
              \/ /\ fdoff' = fdoff + m.fd /\ amb' = amb /\ fdoff + m.fd <= Len(rfds[dir])
                 /\ \A i \in 1..Len(rfds[dir]) : i <= fdoff + m.fd <=> rfds[dir][i][2] <= h
  BY HandledKind
<1>2. /\ dir \in Dirs /\ done[dir] \in Nat /\ off \in Nat /\ fdoff \in Nat /\ Len(rfds[dir]) \in Nat
      /\ out \in Seq(Items) /\ rev \in Seq(Items) /\ Other(dir) \in Dirs /\ Other(dir) # dir
  BY LenProperties DEF Types, Other, Dirs
<1>3. Handled(dir)' = h /\ \A d \in Dirs : d # dir => Handled(d)' = Handled(d)
  <2>1. Handled(dir) = done[dir] + off /\ Handled(dir)' = done[dir] + (off + 1)
    BY <1>0 DEF Handled
  <2>4. h = Handled(dir) + 1 BY <1>1
  <2>2. Handled(dir)' = h BY <2>1, <2>4, <1>2
  <2>3. \A d \in Dirs : d # dir => Handled(d)' = Handled(d) BY <1>0 DEF Handled
  <2>. QED BY <2>2, <2>3
<1>4. Types'
  <2>1. fdoff' \in Nat BY <1>1, <1>2
  <2>5. amb' \in [Dirs -> BOOLEAN]
    <3>1. amb \in [Dirs -> BOOLEAN] BY DEF Types
    <3>2. (amb[dir] \/ fdoff < Len(rfds[dir])) \in BOOLEAN OBVIOUS
    <3>3. amb' = [amb EXCEPT ![dir] = amb[dir] \/ fdoff < Len(rfds[dir])] \/ amb' = amb BY <1>1
    <3>. QED BY <3>1, <3>2, <3>3
  <2>6. off' \in Nat BY <1>0, <1>2
  <2>2. out' \in Seq(Items)
    <3>1. \A x \in Items : Append(out, x) \in Seq(Items) BY <1>2, AppendProperties
    <3>. QED BY <1>1, <1>2, <3>1 DEF MsgEffect
  <2>3. rev' \in Seq(Items)
    <3>1. \A x \in Items : Append(rev, x) \in Seq(Items) BY <1>2, AppendProperties
    <3>. QED BY <1>1, <1>2, <3>1 DEF MsgEffect
  <2>4. pumps' \subseteq Nat BY <1>1 DEF MsgEffect, Types
  <2>7. sent' = sent /\ Types BY <1>0
  <2>. QED BY <1>0, <2>1, <2>2, <2>3, <2>4, <2>5, <2>6, <2>7 DEF Types
<1>5. Counts' BY <1>0, <1>1, <1>3 DEF Counts
<1>6. BetweenBatches' BY <1>0 DEF BetweenBatches
<1>7. StreamsOrdered' BY <1>0 DEF StreamsOrdered, Ordered
<1>8. StreamsComplete'
  <2>1. \A d \in Dirs : ~amb'[d] => ~amb[d] BY <1>1, <1>2 DEF Types
  <2>. QED BY <1>0, <2>1 DEF StreamsComplete, Ordered, Complete
<1>9. Consumed'
  <2>0. /\ fdoff <= Len(rfds[dir])
        /\ ~amb[dir] => \A i \in 1..Len(rfds[dir]) : i <= fdoff <=> rfds[dir][i][2] <= Handled(dir)
    BY <1>0 DEF Consumed
  <2>1. CASE fdoff' = fdoff /\ amb' = [amb EXCEPT ![dir] = @ \/ fdoff < Len(rfds[dir])]
    <3>1. ASSUME ~amb'[dir] PROVE \A i \in 1..Len(rfds[dir]) : i <= fdoff /\ rfds[dir][i][2] <= h
      <4>1. ~amb[dir] /\ ~(fdoff < Len(rfds[dir])) BY <2>1, <3>1, <1>2 DEF Types
      <4>2. \A i \in 1..Len(rfds[dir]) : i <= fdoff BY <4>1, <1>2
      <4>3. \A i \in 1..Len(rfds[dir]) : rfds[dir][i][2] \in Nat
        <5>1. fdsIn[dir] \in Nat BY <1>2 DEF Types
        <5>2. \A i \in 1..Len(rfds[dir]) : rfds[dir][i][2] \in (0 + 1)..fdsIn[dir]
          BY <1>2 DEF StreamsOrdered, Ordered
        <5>. QED BY <5>1, <5>2
      <4>4. Handled(dir) \in Nat /\ h \in Nat /\ Handled(dir) <= h BY <1>1, <1>2 DEF Handled
      <4>5. \A i \in 1..Len(rfds[dir]) : rfds[dir][i][2] <= Handled(dir) BY <2>0, <4>1, <4>2
      <4>. QED BY <4>2, <4>3, <4>4, <4>5
    <3>. QED BY <1>0, <1>3, <2>0, <2>1, <3>1 DEF Consumed
  <2>2. CASE /\ fdoff' = fdoff + m.fd /\ amb' = amb /\ fdoff + m.fd <= Len(rfds[dir])
             /\ \A i \in 1..Len(rfds[dir]) : i <= fdoff + m.fd <=> rfds[dir][i][2] <= h
    BY <1>0, <1>3, <2>2 DEF Consumed
  <2>. QED BY <1>1, <2>1, <2>2
<1>10. \A k, d, e : Channels!Produced(d, k, e)' = Channels!Produced(d, k, e)
  BY <1>0 DEF Channels!Produced
<1>11. QueuesInOrder'
  <2>1. /\ Queued(out, dir, Handled(dir)) /\ Queued(rev, Other(dir), Handled(dir))
        /\ Handled(dir) \in Nat /\ done[dir] <= Handled(dir)
    BY <1>0, <1>2 DEF QueuesInOrder, Handled
  <2>2. Queued(out', dir, h)
    <3>1. /\ Channels!Produced(dir, h, dir) = {} => Queued(out, dir, h)
          /\ \A x \in Items : Channels!Produced(dir, h, dir) = {x} => Queued(Append(out, x), dir, h)
      BY <1>1, <1>2, <2>1, QueueGrows
    <3>. QED BY <3>1, <1>1 DEF MsgEffect
  <2>3. Queued(rev', Other(dir), h)
    <3>1. /\ Channels!Produced(dir, h, Other(dir)) = {} => Queued(rev, Other(dir), h)
          /\ \A x \in Items : Channels!Produced(dir, h, Other(dir)) = {x}
               => Queued(Append(rev, x), Other(dir), h)
      BY <1>1, <1>2, <2>1, QueueGrows
    <3>. QED BY <3>1, <1>1 DEF MsgEffect
  <2>4. Queued(out', dir, h) => Queued(out, dir, Handled(dir))'
    BY <1>0, <1>3, <1>10 DEF Queued
  <2>5. Queued(rev', Other(dir), h) => Queued(rev, Other(dir), Handled(dir))'
    BY <1>0, <1>3, <1>10 DEF Queued, Other
  <2>. QED BY <2>2, <2>3, <2>4, <2>5 DEF QueuesInOrder
<1>12. HeldOnce'
  <2>1. /\ ~twice /\ held = ConnectionFds \cup PumpFds(pumps) \cup FdsOf(out)
        /\ \A x \in FdsOf(out) : x[3] = "pipe" \/ \E i \in 1..fdoff : x = rfds[dir][i]
    BY <1>0 DEF HeldOnce
  <2>2. ConnectionFds' = ConnectionFds BY <1>0 DEF ConnectionFds
  <2>3. \A i \in 1..fdoff : i \in 1..(fdoff + m.fd) /\ i \in 1..fdoff' BY <1>1, <1>2
  <2>4. fdoff + m.fd <= Len(rfds[dir]) => {rfds[dir][i] : i \in 1..(fdoff + m.fd)} \subseteq ConnectionFds
    <3>1. Range(rfds[dir]) = {rfds[dir][i] : i \in 1..Len(rfds[dir])}
      BY <1>2, LenProperties DEF Range, Types
    <3>2. Range(rfds[dir]) \subseteq ConnectionFds BY <1>2 DEF ConnectionFds, Dirs
    <3>3. fdoff + m.fd <= Len(rfds[dir]) => \A i \in 1..(fdoff + m.fd) : i \in 1..Len(rfds[dir])
      BY <1>1, <1>2
    <3>. QED BY <3>1, <3>2, <3>3
  <2>5. CASE out' = out /\ UNCHANGED <<held, pumps>>
    <3>1. FdsOf(out)' = FdsOf(out) /\ PumpFds(pumps)' = PumpFds(pumps) BY <2>5 DEF FdsOf, PumpFds
    <3>. QED BY <1>0, <2>1, <2>2, <2>3, <2>5, <3>1 DEF HeldOnce
  <2>6. ASSUME NEW x \in Items, out' = Append(out, x), UNCHANGED <<held, pumps>>, fdoff' = fdoff + m.fd,
               Range(x.fds) \subseteq {rfds[dir][i] : i \in 1..(fdoff + m.fd)}
        PROVE  HeldOnce'
    <3>1. FdsOf(out)' = FdsOf(out) \cup Range(x.fds) BY <2>6, <1>2, FdsOfAppend
    <3>2. PumpFds(pumps)' = PumpFds(pumps) BY <2>6 DEF PumpFds
    <3>3. fdoff + m.fd <= Len(rfds[dir]) BY <1>1, <1>2, <2>6, <1>0 DEF Consumed
    <3>4. held' = ConnectionFds \cup PumpFds(pumps) \cup FdsOf(out)'
      BY <2>1, <2>4, <2>6, <3>1, <3>3
    <3>5. \A y \in FdsOf(out)' : y[3] = "pipe" \/ \E i \in 1..fdoff' : y = rfds[dir][i]
      BY <2>1, <2>3, <2>6, <3>1
    <3>. QED BY <1>0, <2>1, <2>2, <3>2, <3>4, <3>5 DEF HeldOnce
  <2>7. ASSUME NEW x \in Items, out' = Append(out, x), Range(x.fds) = {Fd(dir, h, "pipe")},
               held' = held \cup {Fd(dir, h, "pipe"), Fd("c2h", h, "pump")}, pumps' = pumps \cup {h}
        PROVE  HeldOnce'
    <3>1. FdsOf(out)' = FdsOf(out) \cup {Fd(dir, h, "pipe")} BY <2>7, <1>2, FdsOfAppend
    <3>2. PumpFds(pumps)' = PumpFds(pumps) \cup {Fd("c2h", h, "pump")} BY <2>7 DEF PumpFds
    <3>3. held' = ConnectionFds \cup PumpFds(pumps)' \cup FdsOf(out)'
      BY <2>1, <2>7, <3>1, <3>2
    <3>4. Fd(dir, h, "pipe")[3] = "pipe" BY DEF Fd
    <3>5. \A y \in FdsOf(out)' : y[3] = "pipe" \/ \E i \in 1..fdoff' : y = rfds[dir][i]
      BY <2>1, <2>3, <3>1, <3>4
    <3>. QED BY <1>0, <2>1, <2>2, <3>3, <3>5 DEF HeldOnce
  <2>. QED BY <1>1, <2>5, <2>6, <2>7 DEF MsgEffect
<1>13. HandedOver'
  <2>1. \A d, e \in Dirs : Delivered(d, e, done[d])'
    BY <1>0, <1>10 DEF HandedOver, Delivered
  <2>. QED BY <1>0, <2>1 DEF HandedOver
<1>. QED BY <1>4, <1>5, <1>6, <1>7, <1>8, <1>9, <1>11, <1>12, <1>13

-----------------------------------------------------------------------------
(* The end of a batch.                                                     *)

\* What is left of a descriptor stream when its first n descriptors are consumed.
RestOf(q, n) == SubSeq(q, n + 1, Len(q))

LEMMA Rest ==
  ASSUME NEW q \in Seq(Fds), NEW n \in Nat, n <= Len(q), NEW d, NEW lo \in Nat, NEW hi \in Nat,
         Ordered(q, d, lo, hi)
  PROVE  /\ RestOf(q, n) \in Seq(Fds) /\ Ordered(RestOf(q, n), d, lo, hi)
         /\ Len(RestOf(q, n)) = Len(q) - n
         /\ \A i \in 1..Len(RestOf(q, n)) : n + i \in 1..Len(q) /\ RestOf(q, n)[i] = q[n + i]
         /\ \A i \in 1..Len(q) : n < i => /\ i - n \in 1..Len(RestOf(q, n))
                                         /\ RestOf(q, n)[i - n] = q[i]
         /\ Range(q) = Range(SubSeq(q, 1, n)) \cup Range(RestOf(q, n))
         /\ Range(SubSeq(q, 1, n)) = {q[i] : i \in 1..n}
         /\ Range(SubSeq(q, 1, n)) \cap Range(RestOf(q, n)) = {}
<1>. DEFINE r == SubSeq(q, n + 1, Len(q))
            f == SubSeq(q, 1, n)
<1>0. Len(q) \in Nat /\ DOMAIN q = 1..Len(q) /\ \A i \in 1..Len(q) : q[i] \in Fds
  BY LenProperties, ElementOfSeq
<1>1. r \in Seq(Fds) /\ Len(r) = Len(q) - n /\ \A i \in 1..(Len(q) - n) : r[i] = q[n + i]
  <2>1. \A i \in (n + 1)..Len(q) : q[i] \in Fds BY <1>0
  <2>2. /\ r \in Seq(Fds) /\ Len(r) = IF n + 1 <= Len(q) THEN Len(q) - (n + 1) + 1 ELSE 0
        /\ \A i \in 1..(Len(q) - (n + 1) + 1) : r[i] = q[(n + 1) + i - 1]
    BY <1>0, <2>1, SubSeqProperties
  <2>. HIDE DEF r
  <2>3. Len(q) - (n + 1) + 1 = Len(q) - n /\ \A i \in 1..(Len(q) - n) : (n + 1) + i - 1 = n + i
    BY <1>0
  <2>4. Len(r) = Len(q) - n
    <3>1. CASE n + 1 <= Len(q)
      <4>1. Len(r) = Len(q) - (n + 1) + 1 BY <2>2, <3>1
      <4>. QED BY <4>1, <2>3
    <3>2. CASE ~(n + 1 <= Len(q))
      <4>1. Len(r) = 0 BY <2>2, <3>2
      <4>2. Len(q) \in Nat BY <1>0
      <4>3. \A a, b \in Nat : a <= b /\ ~(a + 1 <= b) => b - a = 0 OBVIOUS
      <4>4. Len(q) - n = 0 BY <3>2, <4>2, <4>3
      <4>. QED BY <4>1, <4>4
    <3>. QED BY <3>1, <3>2
  <2>. QED BY <2>2, <2>3, <2>4
<1>2. f \in Seq(Fds) /\ Len(f) = n /\ \A i \in 1..n : f[i] = q[i]
  <2>1. \A i \in 1..n : q[i] \in Fds BY <1>0
  <2>2. /\ f \in Seq(Fds) /\ Len(f) = IF 1 <= n THEN n - 1 + 1 ELSE 0
        /\ \A i \in 1..(n - 1 + 1) : f[i] = q[1 + i - 1]
    BY <1>0, <2>1, SubSeqProperties
  <2>3. n - 1 + 1 = n /\ \A i \in 1..n : 1 + i - 1 = i OBVIOUS
  <2>. HIDE DEF f
  <2>. QED BY <2>2, <2>3
<1>. HIDE DEF r, f
<1>3. \A i \in 1..Len(r) : n + i \in 1..Len(q) /\ r[i] = q[n + i] BY <1>0, <1>1
<1>4. \A i \in 1..Len(q) : n < i => i - n \in 1..Len(r) /\ r[i - n] = q[i]
  <2>. TAKE i \in 1..Len(q)
  <2>. HAVE n < i
  <2>1. i - n \in 1..Len(r) /\ n + (i - n) = i BY <1>0, <1>1
  <2>. QED BY <2>1, <1>3
<1>5. Ordered(r, d, lo, hi)
  <2>1. \A i, j \in 1..Len(r) : i < j => n + i < n + j BY <1>0, <1>1
  <2>. QED BY <1>3, <2>1 DEF Ordered
<1>6. Range(q) = {q[i] : i \in 1..Len(q)} /\ Range(r) = {r[i] : i \in 1..Len(r)}
      /\ Range(f) = {f[i] : i \in 1..n}
  BY <1>0, <1>1, <1>2, LenProperties DEF Range
<1>7. Range(f) = {q[i] : i \in 1..n} BY <1>2, <1>6
<1>8. Range(q) = Range(f) \cup Range(r)
  <2>1. Range(q) \subseteq Range(f) \cup Range(r)
    <3>1. SUFFICES ASSUME NEW i \in 1..Len(q) PROVE q[i] \in Range(f) \cup Range(r) BY <1>6
    <3>2. CASE n < i BY <3>2, <1>4, <1>6
    <3>3. CASE ~(n < i)
      <4>1. i \in 1..n BY <3>3, <1>0
      <4>. QED BY <4>1, <1>7
    <3>. QED BY <3>2, <3>3
  <2>2. Range(r) \subseteq Range(q) BY <1>3, <1>6
  <2>3. Range(f) \subseteq Range(q)
    <3>1. \A i \in 1..n : i \in 1..Len(q) BY <1>0
    <3>. QED BY <3>1, <1>6, <1>7
  <2>. QED BY <2>1, <2>2, <2>3
<1>9. Range(f) \cap Range(r) = {}
  <2>1. SUFFICES ASSUME NEW i \in 1..n, NEW j \in 1..Len(r), q[i] = r[j] PROVE FALSE BY <1>6, <1>7
  <2>2. i \in 1..Len(q) /\ n + j \in 1..Len(q) /\ i < n + j BY <1>0, <1>1, <1>3
  <2>3. r[j] = q[n + j] BY <1>3
  <2>4. q[i][2] < q[n + j][2] BY <2>2 DEF Ordered
  <2>5. q[i][2] \in (lo + 1)..hi BY <2>2 DEF Ordered
  <2>. QED BY <2>1, <2>3, <2>4, <2>5
<1>10. r \in Seq(Fds) /\ Len(r) = Len(q) - n BY <1>1
<1>. QED BY <1>3, <1>4, <1>5, <1>7, <1>8, <1>9, <1>10 DEF r, f, RestOf

LEMMA ReverseEndsStep ==
  ASSUME ProxyInv, ReverseEnds
  PROVE  ProxyInv'
<1>. USE DEF ProxyInv
<1>. DEFINE q == rfds[dir]
            r == RestOf(q, fdoff)
            o == Other(dir)
            good == ok /\ pos = Len(rev) /\ ~fatal
            kept == [rfds EXCEPT ![dir] = r]
<1>0. /\ pc = "reverse"
      /\ pos = Len(rev) \/ SendFails(o, rev)
      /\ twice' = (twice \/ ~(BatchFds \subseteq held))
      /\ pc' = IF good THEN "loop" ELSE "closed"
      /\ rfds' = IF good THEN kept ELSE [d \in Dirs |-> <<>>]
      /\ pumps' = IF good THEN pumps ELSE {}
      /\ held' = IF good THEN held \ BatchFds
                 ELSE ((held \ BatchFds) \ (Range(kept["c2h"]) \cup Range(kept["h2c"]))) \ PumpFds(pumps)
      /\ done' = [done EXCEPT ![dir] = @ + off]
      /\ prefer' = NextPreference
      /\ off' = 0 /\ fdoff' = 0 /\ out' = <<>> /\ rev' = <<>> /\ pos' = 0 /\ ok' = TRUE
      /\ UNCHANGED <<sent, taken, fdsIn, amb, dir, fatal, got>>
  BY DEF ReverseEnds, streamVars, peerVars, RestOf
<1>1. /\ dir \in Dirs /\ o \in Dirs /\ o # dir /\ \A d \in Dirs : d = dir \/ d = o
      /\ q \in Seq(Fds) /\ Len(q) \in Nat /\ fdoff \in Nat /\ fdoff <= Len(q)
      /\ off \in Nat /\ \A d \in Dirs : done[d] \in Nat /\ fdsIn[d] \in Nat
      /\ rfds \in [Dirs -> Seq(Fds)] /\ done \in [Dirs -> Nat]
  BY <1>0, LenProperties DEF Types, Consumed, Other, Dirs
<1>2. Ordered(q, dir, 0, fdsIn[dir]) BY <1>1 DEF StreamsOrdered
<1>3. /\ r \in Seq(Fds) /\ Ordered(r, dir, 0, fdsIn[dir]) /\ Len(r) = Len(q) - fdoff
      /\ \A i \in 1..Len(r) : fdoff + i \in 1..Len(q) /\ r[i] = q[fdoff + i]
      /\ \A i \in 1..Len(q) : fdoff < i => i - fdoff \in 1..Len(r) /\ r[i - fdoff] = q[i]
      /\ Range(q) = Range(SubSeq(q, 1, fdoff)) \cup Range(r)
      /\ Range(SubSeq(q, 1, fdoff)) = {q[i] : i \in 1..fdoff}
      /\ Range(SubSeq(q, 1, fdoff)) \cap Range(r) = {}
  <2>. HIDE DEF q
  <2>. QED BY <1>1, <1>2, Rest
<1>4. /\ kept \in [Dirs -> Seq(Fds)] /\ kept[dir] = r /\ kept[o] = rfds[o]
  <2>. HIDE DEF r, o
  <2>. QED BY <1>1, <1>3
<1>5. /\ done' \in [Dirs -> Nat] /\ done'[dir] = Handled(dir) /\ done'[o] = done[o]
      /\ \A d \in Dirs : Handled(d)' = Handled(d) /\ Handled(d) = done'[d]
  <2>1. done' \in [Dirs -> Nat] /\ done'[dir] = done[dir] + off /\ done'[o] = done[o] BY <1>0, <1>1
  <2>2. \A d \in Dirs : Handled(d) = done'[d] BY <2>1, <1>1 DEF Handled
  <2>3. \A d \in Dirs : Handled(d)' = done'[d] BY <2>1, <1>0, <1>1 DEF Handled
  <2>. QED BY <2>1, <2>2, <2>3, <1>1
<1>. HIDE DEF q, r, kept, o
<1>6. rfds' \in [Dirs -> Seq(Fds)]
  <2>1. <<>> \in Seq(Fds) BY EmptySeq
  <2>. QED BY <2>1, <1>0, <1>4
<1>7. Types'
  <2>1. <<>> \in Seq(Items) BY EmptySeq
  <2>2. prefer' \in Dirs /\ pc' \in {"loop", "closed"} /\ pumps' \subseteq Nat
    BY <1>0, <1>1 DEF NextPreference, Other, Dirs, Types
  <2>. QED BY <1>0, <1>5, <1>6, <2>1, <2>2 DEF Types
<1>8. Counts' BY <1>0, <1>5 DEF Counts
<1>9. BetweenBatches' BY <1>0 DEF BetweenBatches
<1>10. StreamsOrdered'
  <2>1. ASSUME NEW d \in Dirs PROVE Ordered(rfds'[d], d, 0, fdsIn[d])
    <3>1. CASE good
      BY <1>0, <1>1, <1>3, <1>4, <2>1, <3>1 DEF StreamsOrdered
    <3>2. CASE ~good
      <4>1. rfds'[d] = <<>> BY <1>0, <3>2
      <4>. QED BY <4>1 DEF Ordered
    <3>. QED BY <3>1, <3>2
  <2>. QED BY <1>0, <2>1 DEF StreamsOrdered, Ordered
<1>11. ASSUME good, ~amb[dir]
       PROVE  Ordered(r, dir, Handled(dir), fdsIn[dir]) /\ Complete(r, dir, Handled(dir), fdsIn[dir])
  <2>1. /\ Ordered(q, dir, done[dir], fdsIn[dir]) /\ Complete(q, dir, done[dir], fdsIn[dir])
        /\ \A i \in 1..Len(q) : i <= fdoff <=> q[i][2] <= Handled(dir)
    BY <1>0, <1>1, <1>11 DEF StreamsComplete, Consumed, q
  <2>2. Handled(dir) \in Nat /\ done[dir] <= Handled(dir) BY <1>1, <1>5 DEF Handled
  <2>3. \A i \in 1..Len(q) : q[i][2] \in (done[dir] + 1)..fdsIn[dir] BY <2>1 DEF Ordered
  <2>4. ASSUME NEW i \in 1..Len(r) PROVE r[i][2] \in (Handled(dir) + 1)..fdsIn[dir]
    <3>1. fdoff + i \in 1..Len(q) /\ r[i] = q[fdoff + i] BY <1>3
    <3>2. ~(fdoff + i <= fdoff) BY <1>1
    <3>3. ~(q[fdoff + i][2] <= Handled(dir)) /\ q[fdoff + i][2] \in (done[dir] + 1)..fdsIn[dir]
      BY <2>1, <2>3, <3>1, <3>2
    <3>. QED BY <3>1, <3>3, <2>2, <1>1
  <2>5. Ordered(r, dir, Handled(dir), fdsIn[dir])
    BY <2>4, <1>3 DEF Ordered
  <2>6. ASSUME NEW k \in (Handled(dir) + 1)..fdsIn[dir], sent[dir][k].fd = 1
        PROVE  \E i \in 1..Len(r) : r[i] = Fd(dir, k, "msg")
    <3>1. k \in (done[dir] + 1)..fdsIn[dir] /\ ~(k <= Handled(dir)) BY <2>2, <1>1
    <3>2. PICK i \in 1..Len(q) : q[i] = Fd(dir, k, "msg") BY <2>1, <2>6, <3>1 DEF Complete
    <3>3. q[i][2] = k BY <3>2 DEF Fd
    <3>4. fdoff < i BY <2>1, <3>1, <3>3, <1>1
    <3>. QED BY <3>2, <3>4, <1>3
  <2>7. \A i \in 1..Len(r) : sent[dir][r[i][2]].fd = 1 BY <2>1, <1>3 DEF Complete
  <2>. QED BY <2>5, <2>6, <2>7 DEF Complete
<1>12. StreamsComplete'
  <2>1. ASSUME NEW d \in Dirs, pc' # "closed", ~amb[d]
        PROVE  Ordered(rfds'[d], d, done'[d], fdsIn[d]) /\ Complete(rfds'[d], d, done'[d], fdsIn[d])
    <3>0. good BY <1>0, <2>1
    <3>1. CASE d = dir BY <1>0, <1>4, <1>5, <1>11, <2>1, <3>0, <3>1
    <3>2. CASE d = o BY <1>0, <1>4, <1>5, <2>1, <3>0, <3>2 DEF StreamsComplete
    <3>. QED BY <3>1, <3>2, <1>1
  <2>. QED BY <1>0, <2>1 DEF StreamsComplete, Ordered, Complete
<1>13. Consumed'
  <2>1. ASSUME pc' # "closed", ~amb[dir]
        PROVE  \A i \in 1..Len(r) : ~(i <= 0) /\ ~(r[i][2] <= Handled(dir))
    <3>0. good BY <1>0, <2>1
    <3>1. \A i \in 1..Len(r) : r[i][2] \in (Handled(dir) + 1)..fdsIn[dir]
      BY <1>11, <2>1, <3>0 DEF Ordered
    <3>2. Handled(dir) \in Nat BY <1>1, <1>5
    <3>. QED BY <3>1, <3>2, <1>1, <1>3
  <2>2. pc' # "closed" => rfds'[dir] = r /\ 0 <= Len(r) BY <1>0, <1>1, <1>3, <1>4
  <2>3. Handled(dir)' = Handled(dir)
    <3>1. Handled(dir)' = done'[dir] BY <1>0, <1>1, <1>5 DEF Handled
    <3>. QED BY <3>1, <1>5
  <2>. QED BY <1>0, <2>1, <2>2, <2>3 DEF Consumed
<1>14. QueuesInOrder'
  <2>0. done[dir]' = Handled(dir) /\ Handled(dir)' = Handled(dir) /\ Handled(dir) \in Nat
    <3>1. Handled(dir)' = done'[dir] /\ done[dir]' = done'[dir]
      BY <1>0, <1>1, <1>5 DEF Handled
    <3>2. done'[dir] = Handled(dir) /\ Handled(dir) \in Nat BY <1>1, <1>5
    <3>. QED BY <3>1, <3>2
  <2>1. \A k \in ((done[dir] + 1)..Handled(dir))' : FALSE BY <2>0
  <2>. QED BY <1>0, <2>1 DEF QueuesInOrder, Queued
<1>15. HeldOnce'
  <2>. DEFINE A == Range(SubSeq(q, 1, fdoff))
              B == Range(r)
              C == Range(rfds[o])
              P == PumpFds(pumps)
  <2>1. /\ ~twice /\ held = ConnectionFds \cup P \cup FdsOf(out)
        /\ \A x \in FdsOf(out) : x[3] = "pipe" \/ \E i \in 1..fdoff : x = q[i]
    BY <1>0 DEF HeldOnce, q
  <2>2. FdsOf(rev) = {} BY <1>0, AnswersBare DEF QueuesInOrder
  <2>3. BatchFds = FdsOf(out) \cup A BY <2>2 DEF BatchFds, q
  <2>4. ConnectionFds = A \cup B \cup C
    <3>1. ConnectionFds = Range(rfds[dir]) \cup Range(rfds[o])
      BY <1>1 DEF ConnectionFds, Dirs
    <3>. QED BY <3>1, <1>3 DEF q
  <2>5. Range(kept["c2h"]) \cup Range(kept["h2c"]) = B \cup C
    BY <1>1, <1>4 DEF Dirs
  <2>6. \A d \in Dirs : \A x \in Range(rfds[d]) : x[1] = d /\ x[3] = "msg"
    <3>1. \A d \in Dirs : \A i \in 1..Len(rfds[d]) : rfds[d][i] = Fd(d, rfds[d][i][2], "msg")
      BY DEF StreamsOrdered, Ordered
    <3>2. \A d \in Dirs : DOMAIN rfds[d] = 1..Len(rfds[d]) BY <1>1, LenProperties
    <3>. QED BY <3>1, <3>2 DEF Range, Fd
  <2>7. /\ \A x \in B : x[1] = dir /\ x[3] = "msg"
        /\ \A x \in A : x[1] = dir /\ x[3] = "msg"
        /\ \A x \in C : x[1] = o /\ x[3] = "msg"
    <3>1. B \subseteq Range(rfds[dir]) /\ A \subseteq Range(rfds[dir]) BY <1>3 DEF q
    <3>. QED BY <1>1, <2>6, <3>1
  <2>8. \A x \in P : x[3] = "pump" BY DEF PumpFds, Fd
  <2>9. \A x \in FdsOf(out) : x[3] = "pipe" \/ x \in A BY <2>1, <1>3
  <2>10. A \cap B = {} BY <1>3
  <2>. HIDE DEF A, B, C, P
  <2>11. BatchFds \cap (B \cup C \cup P) = {}
    <3>1. ASSUME NEW x \in BatchFds, x \in P PROVE FALSE
      BY <2>3, <2>7, <2>8, <2>9, <3>1
    <3>2. ASSUME NEW x \in BatchFds, x \in B \cup C PROVE FALSE
      <4>1. x[3] = "msg" BY <2>7, <3>2
      <4>2. x \in A BY <2>3, <2>9, <3>2, <4>1
      <4>3. x \notin B BY <2>10, <4>2
      <4>4. x[1] = dir /\ x[1] = o BY <2>7, <3>2, <4>2, <4>3
      <4>. QED BY <4>4, <1>1
    <3>. QED BY <3>1, <3>2
  <2>12. held \ BatchFds = B \cup C \cup P BY <2>1, <2>3, <2>4, <2>11
  <2>13. ~twice' BY <1>0, <2>1, <2>3, <2>4
  <2>14. CASE good
    <3>1. held' = B \cup C \cup P /\ pumps' = pumps /\ rfds' = kept /\ pc' = "loop"
      BY <1>0, <2>12, <2>14
    <3>2. ConnectionFds' = B \cup C BY <3>1, <2>5 DEF ConnectionFds
    <3>3. FdsOf(out)' = {} BY <1>0 DEF FdsOf
    <3>4. PumpFds(pumps)' = P BY <3>1 DEF PumpFds, P
    <3>. QED BY <2>13, <3>1, <3>2, <3>3, <3>4 DEF HeldOnce
  <2>15. CASE ~good
    <3>1. held' = {} /\ pc' = "closed" BY <1>0, <2>5, <2>12, <2>15 DEF P
    <3>. QED BY <2>13, <3>1 DEF HeldOnce
  <2>. QED BY <2>14, <2>15
<1>16. HandedOver'
  <2>1. SUFFICES ASSUME pc' # "closed" PROVE HandedOver' BY DEF HandedOver
  <2>2. good /\ pc' = "loop" BY <1>0, <2>1
  <2>3. /\ Queued(out, dir, Handled(dir)) /\ Queued(rev, o, Handled(dir)) /\ HandedOver
        /\ Len(out) \in Nat /\ Len(rev) \in Nat
    BY <1>0, LenProperties DEF QueuesInOrder, Types, o
  <2>4. \A k, d, e : Channels!Produced(d, k, e)' = Channels!Produced(d, k, e)
    BY <1>0 DEF Channels!Produced
  <2>5. /\ \A i \in 1..Len(out) : out[i] \in Range(got[dir])
        /\ \A i \in 1..Len(rev) : rev[i] \in Range(got[o])
    BY <1>0, <2>2, <2>3 DEF HandedOver, o
  <2>6. \A d, e \in Dirs : Delivered(d, e, done[d]) BY <1>0, <2>3 DEF HandedOver
  <2>7. ASSUME NEW d \in Dirs, NEW e \in Dirs, NEW k \in 1..Handled(d)
        PROVE  Channels!Produced(d, k, e) \subseteq Range(got[e])
    <3>0. Handled(d) \in Nat /\ done[d] \in Nat BY <1>1, <1>5
    <3>1. CASE k <= done[d]
      <4>1. k \in 1..done[d] BY <3>0, <3>1
      <4>. QED BY <4>1, <2>6 DEF Delivered
    <3>2. CASE ~(k <= done[d])
      <4>1. d = dir BY <3>0, <3>2 DEF Handled
      <4>2. k \in (done[dir] + 1)..Handled(dir) BY <4>1, <3>0, <3>2
      <4>3. CASE e = dir
        <5>1. Channels!Produced(dir, k, dir) \subseteq {out[i] : i \in 1..Len(out)}
          BY <2>3, <4>2 DEF Queued
        <5>. QED BY <5>1, <4>1, <4>3, <2>5
      <4>4. CASE e = o
        <5>1. Channels!Produced(dir, k, o) \subseteq {rev[i] : i \in 1..Len(rev)}
          BY <2>3, <4>2 DEF Queued
        <5>. QED BY <5>1, <4>1, <4>4, <2>5
      <4>. QED BY <4>3, <4>4, <1>1
    <3>. QED BY <3>1, <3>2
  <2>8. \A d, e \in Dirs : Delivered(d, e, done[d])'
    <3>1. \A d \in Dirs : done'[d] = Handled(d) BY <1>5
    <3>. QED BY <1>0, <2>4, <2>7, <3>1 DEF Delivered
  <2>9. ASSUME NEW e \in Dirs, NEW x \in Range(got[e]) PROVE x.k <= done'[x.from]
    <3>0. x \in Items
      <4>1. got[e] \in Seq(Items) BY DEF Types
      <4>. QED BY <4>1, LenProperties DEF Range
    <3>1. x.k \in Nat /\ x.from \in Dirs BY <3>0 DEF Items
    <3>2. Handled(dir) \in Nat /\ \A d \in Dirs : done[d] <= done'[d]
      <4>1. Handled(dir) \in Nat BY <1>1, <1>5
      <4>2. done'[dir] = done[dir] + off BY <1>0, <1>1
      <4>3. done[dir] \in Nat /\ off \in Nat /\ done[o] \in Nat /\ done'[o] = done[o] BY <1>1, <1>5
      <4>4. done[dir] <= done'[dir] /\ done[o] <= done'[o] BY <4>2, <4>3
      <4>. QED BY <4>1, <4>4, <1>1
    <3>3. CASE x.k <= done[x.from]
      <4>1. done[x.from] <= done'[x.from] /\ done[x.from] \in Nat /\ done'[x.from] \in Nat
        BY <1>1, <1>5, <3>1, <3>2
      <4>. QED BY <3>1, <3>3, <4>1
    <3>4. CASE x.from = dir /\ x.k <= Handled(dir) BY <3>4, <1>5
    <3>5. CASE x.from = dir /\ \E i \in 1..pos : x = rev[i]
      <4>1. \A i \in 1..Len(rev) : rev[i].k \in (done[dir] + 1)..Handled(dir) BY <2>3 DEF Queued
      <4>2. x.k \in (done[dir] + 1)..Handled(dir) BY <2>2, <3>5, <4>1
      <4>3. x.k <= Handled(dir) BY <4>2, <3>2, <1>1
      <4>. QED BY <4>3, <3>4, <3>5
    <3>. QED BY <1>0, <2>3, <3>3, <3>4, <3>5 DEF HandedOver
  <2>. QED BY <1>0, <2>2, <2>8, <2>9 DEF HandedOver
<1>. QED BY <1>7, <1>8, <1>9, <1>10, <1>12, <1>13, <1>14, <1>15, <1>16

-----------------------------------------------------------------------------
(* Every step keeps the invariant.                                         *)

LEMMA NextStep ==
  ASSUME ProxyInv, [Next]_vars
  PROVE  ProxyInv'
<1>1. CASE UNCHANGED vars
  BY <1>1, QuietStep DEF vars, connVars
<1>2. CASE DispatchPreferred BY <1>2, DispatchPreferredStep
<1>3. CASE Probe BY <1>3, ProbeStep
<1>4. ASSUME NEW d \in Dirs, Select(d) PROVE ProxyInv' BY <1>4, SelectStep
<1>5. ASSUME NEW d \in Dirs, Disconnect(d) PROVE ProxyInv' BY <1>5, DisconnectStep
<1>6. CASE RejectMsg BY <1>6, RejectMsgStep
<1>7. CASE HandleMsg BY <1>7, HandleMsgStep
<1>8. CASE FinishBatch BY <1>8, FinishBatchStep
<1>9. CASE SendForward BY <1>9, SendForwardStep
<1>10. CASE ForwardEnds BY <1>10, ForwardEndsStep
<1>11. CASE SendReverse BY <1>11, SendReverseStep
<1>12. CASE ReverseEnds BY <1>12, ReverseEndsStep
<1>13. ASSUME NEW d \in Dirs, NEW m \in Messages[d], PeerSend(d, m) PROVE ProxyInv'
  BY <1>13, PeerSendStep
<1>14. ASSUME NEW d \in Dirs, PeerRead(d) PROVE ProxyInv'
  BY <1>14, QuietStep DEF PeerRead, streamVars, batchVars, peerVars, connVars
<1>15. ASSUME NEW d \in Dirs, PeerClose(d) PROVE ProxyInv'
  BY <1>15, QuietStep DEF PeerClose, streamVars, batchVars, peerVars, connVars
<1>16. ASSUME NEW k \in pumps, PumpEnds(k) PROVE ProxyInv' BY <1>16, PumpEndsStep
<1>. QED
  BY <1>1, <1>2, <1>3, <1>4, <1>5, <1>6, <1>7, <1>8, <1>9, <1>10, <1>11, <1>12, <1>13,
     <1>14, <1>15, <1>16 DEF Next, Proxy

\* Whatever the peers send and however the transports cut it, read_fds holds the descriptors
\* of the undrained messages in their order (unless an untracked message was seen), a batch has
\* consumed exactly those of the messages it handled, its two queues hold what these messages
\* produce, and the targets were handed everything the drained ones produced.
THEOREM ProxyInvariant == Spec => []ProxyInv
<1>1. Init => ProxyInv BY InitHolds
<1>2. ProxyInv /\ [Next]_vars => ProxyInv' BY NextStep
<1>. QED BY <1>1, <1>2, PTL DEF Spec

\* Every descriptor the process opens for a connection is closed exactly once: by the batch that
\* wrote or consumed it (handle_msgs), by the pump task, or by the teardown of run.
THEOREM DescriptorsAreAccounted == Spec => []DescriptorsAccounted
<1>1. ProxyInv => DescriptorsAccounted
  <2>1. SUFFICES ASSUME ProxyInv PROVE DescriptorsAccounted OBVIOUS
  <2>2. HeldOnce /\ BetweenBatches BY <2>1 DEF ProxyInv
  <2>3. pc = "loop" => FdsOf(out) = {} BY <2>2 DEF BetweenBatches, FdsOf
  <2>. QED BY <2>2, <2>3 DEF HeldOnce, DescriptorsAccounted
<1>. QED BY <1>1, ProxyInvariant, PTL

-----------------------------------------------------------------------------
(* Refinement.                                                             *)

\* Handing over the next item of a queue of the batch is the abstract delivery.
LEMMA DeliverNext ==
  ASSUME ProxyInv, NEW e \in Dirs, NEW q,
         \/ pc = "forward" /\ e = dir /\ q = out
         \/ pc = "reverse" /\ e = Other(dir) /\ q = rev,
         pos < Len(q), got' = [got EXCEPT ![e] = Append(@, q[pos + 1])],
         UNCHANGED <<sent, pc>>
  PROVE  Channels!Deliver(e)
<1>. USE DEF ProxyInv
<1>. DEFINE item == q[pos + 1]
            k == q[pos + 1].k
<1>1. /\ q \in Seq(Items) /\ Len(q) \in Nat /\ pos \in Nat /\ pos + 1 \in 1..Len(q)
      /\ dir \in Dirs /\ done[dir] \in Nat /\ Handled(dir) \in Nat
      /\ Handled(dir) <= Len(sent[dir]) /\ Len(sent[dir]) \in Nat /\ pc # "closed"
  <2>1. q \in Seq(Items) BY DEF Types
  <2>2. Len(q) \in Nat BY <2>1, LenProperties
  <2>3. pos \in Nat /\ dir \in Dirs /\ done[dir] \in Nat /\ off \in Nat BY DEF Types
  <2>4. Handled(dir) \in Nat BY <2>3 DEF Handled
  <2>5. Len(sent[dir]) \in Nat /\ taken[dir] \in Nat /\ fdsIn[dir] \in Nat
    BY <2>3, LenProperties DEF Types
  <2>6. Handled(dir) <= Len(sent[dir]) BY <2>3, <2>4, <2>5 DEF Counts
  <2>7. pos + 1 \in 1..Len(q) BY <2>2, <2>3
  <2>. QED BY <2>1, <2>2, <2>3, <2>4, <2>5, <2>6, <2>7
<1>2. Queued(q, e, Handled(dir)) BY <1>1 DEF QueuesInOrder
<1>3. k \in (done[dir] + 1)..Handled(dir) /\ item \in Channels!Produced(dir, k, e)
  BY <1>1, <1>2 DEF Queued
<1>4. k \in 1..Len(sent[dir]) /\ k \in Nat /\ ~(k <= done[dir]) BY <1>1, <1>3
<1>5. item.k = k /\ item.from = dir
  <2>1. Types BY DEF ProxyInv
  <2>. HIDE DEF k, item, ProxyInv
  <2>2. item.from = dir /\ item.k = k BY <1>1, <1>3, <1>4, <2>1, ProducedIs
  <2>. QED BY <2>2
<1>6. \A i \in 1..pos : i \in 1..Len(q) /\ i < pos + 1 /\ q[i].k < k /\ q[i] # item
  <2>1. \A i \in 1..pos : i \in 1..Len(q) /\ i < pos + 1 BY <1>1
  <2>2. \A i \in 1..pos : q[i].k < q[pos + 1].k BY <1>1, <1>2, <2>1 DEF Queued
  <2>3. ~(k < k) BY <1>4
  <2>. QED BY <2>1, <2>2, <2>3
<1>7. item \notin Range(got[e])
  <2>1. SUFFICES ASSUME item \in Range(got[e]) PROVE FALSE OBVIOUS
  <2>2. CASE pc = "forward" /\ e = dir /\ q = out
    BY <1>1, <1>4, <1>5, <1>6, <2>1, <2>2 DEF HandedOver
  <2>3. CASE pc = "reverse" /\ e = Other(dir) /\ q = rev
    <3>1. e # dir BY <1>1, <2>3 DEF Other, Dirs
    <3>. QED BY <1>1, <1>4, <1>5, <1>6, <2>1, <2>3, <3>1 DEF HandedOver
  <2>. QED BY <2>2, <2>3
<1>8. ASSUME NEW j \in 1..(k - 1) PROVE Channels!Produced(dir, j, e) \subseteq Range(got[e])
  <2>1. CASE j <= done[dir]
    <3>1. j \in 1..done[dir] BY <1>1, <2>1
    <3>. QED BY <1>1, <3>1 DEF HandedOver, Delivered
  <2>2. CASE ~(j <= done[dir])
    <3>1. j \in (done[dir] + 1)..Handled(dir) /\ j < k BY <1>1, <1>3, <1>4, <2>2
    <3>2. ASSUME NEW x \in Channels!Produced(dir, j, e) PROVE x \in Range(got[e])
      <4>1. PICK i \in 1..Len(q) : x = q[i] BY <1>2, <3>1, <3>2 DEF Queued
      <4>2. x.k = j
        <5>1. j \in Nat BY <1>1, <3>1
        <5>. QED BY <1>1, <3>2, <5>1, ProducedIs
      <4>3. i # pos + 1 BY <3>1, <4>1, <4>2, <1>4
      <4>4. ~(pos + 1 < i)
        <5>1. SUFFICES ASSUME pos + 1 < i PROVE FALSE OBVIOUS
        <5>2. q[pos + 1].k < q[i].k BY <1>1, <1>2, <5>1 DEF Queued
        <5>3. k < j BY <4>1, <4>2, <5>2
        <5>. QED BY <3>1, <5>3, <1>4
      <4>5. i \in 1..pos BY <4>3, <4>4, <1>1
      <4>. QED BY <4>1, <4>5 DEF HandedOver
    <3>. QED BY <3>2
  <2>. QED BY <2>1, <2>2
<1>9. got' = [got EXCEPT ![e] = Append(@, item)] OBVIOUS
<1>. HIDE DEF item, k
<1>10. dir \in Channels!Dirs BY <1>1 DEF Channels!Dirs, Dirs
<1>. QED
  <2>1. pc # "closed" /\ UNCHANGED <<sent, (pc # "closed")>> BY <1>1
  <2>2. item \in Channels!Produced(dir, k, e) BY <1>3
  <2>3. \A j \in 1..(k - 1) : Channels!Produced(dir, j, e) \subseteq Range(got[e]) BY <1>8
  <2>4. k \in 1..Len(sent[dir]) BY <1>4
  <2>5. Channels!Range(got[e]) = Range(got[e]) BY DEF Channels!Range, Range
  <2>. QED
    BY <2>5, <1>7, <1>9, <1>10, <2>1, <2>2, <2>3, <2>4 DEF Channels!Deliver

LEMMA InitRefines == Init => Channels!Init
BY DEF Init, Channels!Init, Dirs, Channels!Dirs

LEMMA StepRefines ==
  ASSUME ProxyInv, [Next]_vars
  PROVE  [Channels!Next]_(Channels!chanVars)
<1>. USE DEF Channels!chanVars, streamVars, batchVars, peerVars, Begin
<1>0. Channels!Dirs = Dirs BY DEF Channels!Dirs, Dirs
<1>1. CASE UNCHANGED vars BY <1>1 DEF vars
<1>2. CASE DispatchPreferred BY <1>2 DEF DispatchPreferred
<1>3. CASE Probe BY <1>3 DEF Probe, Received
<1>4. ASSUME NEW d \in Dirs, Select(d) PROVE UNCHANGED Channels!chanVars
  BY <1>4 DEF Select, Received
<1>5. ASSUME NEW d \in Dirs, Disconnect(d) PROVE Channels!Close
  BY <1>5 DEF Disconnect, Teardown, Channels!Close
<1>6. CASE RejectMsg
  <2>1. Channels!Close BY <1>6 DEF RejectMsg, Teardown, Channels!Close
  <2>. QED BY <2>1 DEF Channels!Next
<1>7. CASE HandleMsg BY <1>7 DEF HandleMsg
<1>8. CASE FinishBatch BY <1>8 DEF FinishBatch
<1>9. CASE SendForward
  <2>1. dir \in Dirs BY DEF ProxyInv, Types
  <2>2. Channels!Deliver(dir) BY <1>9, <2>1, DeliverNext DEF SendForward, SendItem
  <2>. QED BY <1>0, <2>1, <2>2 DEF Channels!Next
<1>10. CASE ForwardEnds BY <1>10 DEF ForwardEnds
<1>11. CASE SendReverse
  <2>1. Other(dir) \in Dirs BY DEF Other, Dirs
  <2>2. Channels!Deliver(Other(dir)) BY <1>11, <2>1, DeliverNext DEF SendReverse, SendItem
  <2>. QED BY <1>0, <2>1, <2>2 DEF Channels!Next
<1>12. CASE ReverseEnds
  <2>1. UNCHANGED <<sent, got>> /\ pc' \in {"loop", "closed"} /\ pc = "reverse"
    BY <1>12 DEF ReverseEnds
  <2>2. CASE pc' = "loop" BY <2>1, <2>2
  <2>3. CASE pc' = "closed" BY <2>1, <2>3 DEF Channels!Next, Channels!Close
  <2>. QED BY <2>1, <2>2, <2>3
<1>13. ASSUME NEW d \in Dirs, NEW m \in Messages[d], PeerSend(d, m) PROVE Channels!Send(d, m)
  BY <1>13 DEF PeerSend, Channels!Send
<1>14. ASSUME NEW d \in Dirs, PeerRead(d) PROVE UNCHANGED Channels!chanVars
  BY <1>14 DEF PeerRead
<1>15. ASSUME NEW d \in Dirs, PeerClose(d) PROVE UNCHANGED Channels!chanVars
  BY <1>15 DEF PeerClose
<1>16. ASSUME NEW k \in pumps, PumpEnds(k) PROVE UNCHANGED Channels!chanVars
  BY <1>16 DEF PumpEnds
<1>17. ASSUME NEW d \in Dirs, Disconnect(d) PROVE Channels!Next BY <1>5, <1>17 DEF Channels!Next
<1>18. ASSUME NEW d \in Dirs, NEW m \in Messages[d], PeerSend(d, m) PROVE Channels!Next
  BY <1>0, <1>13, <1>18 DEF Channels!Next
<1>. HIDE DEF Channels!chanVars
<1>. QED
  BY <1>1, <1>2, <1>3, <1>4, <1>6, <1>7, <1>8, <1>9, <1>10, <1>11, <1>12, <1>14,
     <1>15, <1>16, <1>17, <1>18 DEF Next, Proxy

\* The connection loop implements the pair of channels: a peer is handed what the messages of
\* the other peer produce, in order, once, with their own descriptors, merged with the answers
\* to its own messages.
THEOREM ConnectionRelaysInOrder == Spec => RelaysInOrder
<1>1. Init => Channels!Init BY InitRefines
<1>2. ProxyInv /\ [Next]_vars => [Channels!Next]_(Channels!chanVars) BY StepRefines
<1>. QED BY <1>1, <1>2, ProxyInvariant, PTL DEF Spec, RelaysInOrder, Channels!Spec
=============================================================================
