------------------------- MODULE DmabufParamsProofs -------------------------
(***************************************************************************)
(* Proofs about DmabufParams for any number of params objects, buffers,    *)
(* planes of the guest GPU and requests in flight.                         *)
(***************************************************************************)
EXTENDS DmabufParams, FiniteSetTheorems, NaturalsInduction, WellFoundedInduction,
        SequenceTheorems, TLAPS

-----------------------------------------------------------------------------
(* The inductive invariant                                                 *)

Plane == [fd : Nat, idx : 0 .. 1, buf : Dmabufs, stride : Nat]
Create == [host : Nat, planes : Seq(Plane), sync : Seq(Nat)]
NativeBuffer == [planes : Seq(Dmabufs), sync : Seq(Nat), implicit : BOOLEAN,
                 state : {"idle", "queued", "held", "gone"}]
Request == [op : {"create_params", "destroy_params", "destroy_buffer"}, host : Nat]
             \cup [op : {"add"}, host : Nat, plane : Plane, fd : Nat]
             \cup [op : {"create", "create_immed"}, host : Nat, arg : Creates]
             \cup [op : {"commit"}, buffer : Nat]

TypeInv ==
  /\ map \in [ParamsIds -> Nat]
  /\ pending \in [ParamsIds -> Seq(Plane) \cup {Absent}]
  /\ creates \in SUBSET Create
  /\ buffers \in Seq(NativeBuffer)
  /\ queue \in Seq(Request)
  /\ open \in SUBSET Nat /\ IsFiniteSet(open)
  /\ gens \in Nat
  /\ writing \in SUBSET Dmabufs
  /\ life \in {"running", "fatal", "closed"}
  /\ waiting # None => /\ waiting.buffer \in 1 .. Len(buffers)
                       /\ waiting \in [buffer : Nat, plane : Nat]

\* Who holds the descriptor x.
InQueue(q, x) == \E i \in 1 .. Len(q) : q[i].op = "add" /\ q[i].fd = x
InPlanes(s, x) == s # Absent /\ \E i \in 1 .. Len(s) : s[i].fd = x
InSync(s, x) == \E i \in 1 .. Len(s) : s[i] = x

\* Every descriptor of fds has an owner, and one only.
Owned(q, pd, cs, bs, fds) ==
  /\ \A x \in fds : \/ InQueue(q, x)
                    \/ \E p \in ParamsIds : InPlanes(pd[p], x)
                    \/ \E c \in cs : InSync(c.sync, x)
                    \/ \E b \in 1 .. Len(bs) : InSync(bs[b].sync, x)
  /\ \A x : InQueue(q, x) =>
       /\ x \in fds
       /\ \A p \in ParamsIds : ~InPlanes(pd[p], x)
       /\ \A c \in cs : ~InSync(c.sync, x)
       /\ \A b \in 1 .. Len(bs) : ~InSync(bs[b].sync, x)
  /\ \A p \in ParamsIds : \A x : InPlanes(pd[p], x) =>
       /\ x \in fds
       /\ \A k \in ParamsIds : InPlanes(pd[k], x) => p = k
       /\ \A c \in cs : ~InSync(c.sync, x)
       /\ \A b \in 1 .. Len(bs) : ~InSync(bs[b].sync, x)
  /\ \A c \in cs : \A x : InSync(c.sync, x) =>
       /\ x \in fds
       /\ \A e \in cs : InSync(e.sync, x) => c = e
       /\ \A b \in 1 .. Len(bs) : ~InSync(bs[b].sync, x)
  /\ \A b \in 1 .. Len(bs) : \A x : InSync(bs[b].sync, x) =>
       /\ x \in fds
       /\ \A k \in 1 .. Len(bs) : InSync(bs[k].sync, x) => b = k

OwnInv == /\ Owned(queue, pending, creates, buffers, open)
          /\ life = "closed" => open = {}

\* The host once it has read the requests in flight.
Final == ToldAll(host, queue)
HostParams == [planes : SUBSET [idx : 0 .. 1, stride : Nat],
               state : {"open", "asked", "answered"}, gone : BOOLEAN]
Host == [params : Seq(HostParams), err : BOOLEAN, layout : BOOLEAN]
Reports == allocator # None /\ has_extended_virtgpu_resource_info(allocator)

\* A plane claims what a kernel that reports it says of the host's resource.
Fits(x) ==
  (/\ Reports /\ x.idx = 0
   /\ Layout[x.buf].virtgpu /\ Layout[x.buf].stride # 0) =>
     x.stride = Layout[x.buf].stride

\* What the host h will know of the params object of p.
KnownAs(h, p, n, us) ==
  /\ n \in 1 .. Len(h.params) /\ ~h.params[n].gone
  /\ p \notin us => h.params[n] = NewParams

Knows(h, mp, dy, us, gn) ==
  /\ h \in Host /\ ~h.err /\ (Reports => h.layout)
  /\ Len(h.params) = gn
  /\ \A p \in ParamsIds : mp[p] # 0 /\ p \notin dy => KnownAs(h, p, mp[p], us)

HeardInv ==
  /\ host \in Host /\ ~host.err /\ (Reports => host.layout)
  /\ life = "running" => Knows(Final, map, dying, used, gens)
  /\ \A p \in ParamsIds : map[p] \in 0 .. gens
  /\ \A p, k \in ParamsIds : map[p] # 0 /\ map[p] = map[k] => p = k
  /\ \A p \in ParamsIds : pending[p] # Absent =>
       \A i \in 1 .. Len(pending[p]) : Fits(pending[p][i])

\* Every plane has its synchronization descriptor, and there is one at least.
Whole(planes, sync) == Len(sync) = Len(planes) /\ Len(planes) > 0
Finished(b) == \A i \in 1 .. Len(b.planes) : b.planes[i] \notin writing
Unsynchronized(b) == \E i \in 1 .. Len(b.planes) : ~CanWait(b.planes[i])

FrameInv ==
  /\ \A c \in creates : Whole(c.planes, c.sync)
  /\ \A b \in 1 .. Len(buffers) :
       /\ buffers[b].state # "gone" => Whole(buffers[b].planes, buffers[b].sync)
       /\ buffers[b].implicit => Unsynchronized(buffers[b])
       /\ buffers[b].state \in {"queued", "held"} =>
            Finished(buffers[b]) \/ Unsynchronized(buffers[b])
  /\ \A i \in 1 .. Len(queue) : queue[i].op = "commit" =>
       queue[i].buffer \in 1 .. Len(buffers) /\ buffers[queue[i].buffer].state = "queued"
  /\ waiting # None =>
       LET b == buffers[waiting.buffer]
       IN  /\ b.state = "idle" /\ waiting.plane \in 1 .. Len(b.planes)
           /\ \A i \in 1 .. Len(b.planes) : i < waiting.plane => b.planes[i] \notin writing

DmabufInv == TypeInv /\ OwnInv /\ HeardInv /\ FrameInv

-----------------------------------------------------------------------------
(* The requests in flight, one after the other                             *)

LEMMA Least ==
  ASSUME NEW T, T \subseteq Nat, T # {}
  PROVE  \E m \in T : \A k \in T : m =< k
<1>. DEFINE Below == {ss \in Nat \X Nat : ss[1] < ss[2]}
<1>1. IsWellFoundedOn(Below, Nat)
  BY NatLessThanWellFounded DEF OpToRel
<1>2. PICK m \in T : \A k \in T : ~(<<k, m>> \in Below)
  BY <1>1, WFMin
<1>3. ASSUME NEW k \in T PROVE m =< k
  <2>1. k \in Nat /\ m \in Nat
    OBVIOUS
  <2>2. k < m => <<k, m>> \in Below
    BY <2>1
  <2>. QED
    BY <2>1, <2>2, <1>2
<1>. QED
  BY <1>3

\* A set that has 0 and with a number its successor has every number.
LEMMA Reaches ==
  ASSUME NEW P, 0 \in P, \A n \in Nat : n \in P => n + 1 \in P
  PROVE  \A n \in Nat : n \in P
<1>. DEFINE Bad == Nat \ P
<1>1. ASSUME Bad # {} PROVE FALSE
  <2>1. PICK m \in Bad : \A k \in Bad : m =< k
    <3>1. Bad \subseteq Nat OBVIOUS
    <3>. HIDE DEF Bad
    <3>. QED BY <1>1, <3>1, Least
  <2>2. m # 0 /\ m \in Nat OBVIOUS
  <2>3. m - 1 \in Nat /\ (m - 1) + 1 = m /\ ~(m =< m - 1) BY <2>2
  <2>4. m - 1 \in P BY <2>1, <2>3
  <2>. QED BY <2>3, <2>4
<1>. QED BY <1>1

\* The function ToldAll is the last value of.
Folded(h, q) ==
  CHOOSE f : f = [i \in 0 .. Len(q) |->
    IF i = 0 THEN h ELSE Told(f[i - 1], q[i])]
FoldedUpTo(f, h, q, m) ==
  f = [i \in 0 .. m |-> IF i = 0 THEN h ELSE Told(f[i - 1], q[i])]

LEMMA FoldedIs ==
  ASSUME NEW h, NEW q
  PROVE  ToldAll(h, q) = Folded(h, q)[Len(q)]
BY DEF ToldAll, Folded

LEMMA FoldStep ==
  ASSUME NEW h, NEW q, NEW m \in Nat, NEW g, FoldedUpTo(g, h, q, m)
  PROVE  \E f : FoldedUpTo(f, h, q, m + 1)
<1>. DEFINE f == [i \in 0 .. m + 1 |-> IF i = m + 1 THEN Told(g[m], q[m + 1])
                                       ELSE g[i]]
<1>1. \A i \in 0 .. m : f[i] = g[i]
  OBVIOUS
<1>2. f[m + 1] = Told(g[m], q[m + 1])
  OBVIOUS
<1>3. f = [i \in 0 .. m + 1 |-> f[i]] OBVIOUS
<1>. HIDE DEF f
<1>4. \A i \in 0 .. m + 1 :
        f[i] = IF i = 0 THEN h ELSE Told(f[i - 1], q[i])
  <2>. TAKE i \in 0 .. m + 1
  <2>1. CASE i = m + 1
    <3>1. i # 0 /\ i - 1 = m /\ m \in 0 .. m BY <2>1
    <3>2. f[i - 1] = g[m] BY <3>1, <1>1
    <3>. QED BY <2>1, <3>1, <3>2, <1>2
  <2>2. CASE i = 0
    <3>1. 0 \in 0 .. m OBVIOUS
    <3>2. g[0] = h BY <3>1 DEF FoldedUpTo
    <3>. QED BY <2>2, <3>1, <3>2, <1>1
  <2>3. CASE i # 0 /\ i # m + 1
    <3>1. i \in 0 .. m /\ i - 1 \in 0 .. m BY <2>3
    <3>2. g[i] = Told(g[i - 1], q[i]) BY <3>1, <2>3 DEF FoldedUpTo
    <3>3. f[i] = g[i] /\ f[i - 1] = g[i - 1] BY <3>1, <1>1
    <3>. QED BY <2>3, <3>2, <3>3
  <2>. QED BY <2>1, <2>2, <2>3
<1>5. FoldedUpTo(f, h, q, m + 1)
  BY <1>3, <1>4 DEF FoldedUpTo
<1>. QED BY <1>5

LEMMA FoldUnfolds ==
  ASSUME NEW h, NEW q, Len(q) \in Nat
  PROVE  /\ Folded(h, q)[0] = h
         /\ \A i \in 1 .. Len(q) :
              Folded(h, q)[i] = Told(Folded(h, q)[i - 1], q[i])
<1>. DEFINE P == {m \in Nat : \E f : FoldedUpTo(f, h, q, m)}
<1>1. 0 \in P
  <2>. DEFINE f == [i \in 0 .. 0 |-> h]
  <2>1. FoldedUpTo(f, h, q, 0) BY DEF FoldedUpTo
  <2>. HIDE DEF f
  <2>. QED BY <2>1
<1>2. \A n \in Nat : n \in P => n + 1 \in P
  BY FoldStep
<1>3. Len(q) \in P
  <2>. HIDE DEF P
  <2>. QED BY <1>1, <1>2, Reaches
<1>4. \E f : f = [i \in 0 .. Len(q) |->
                    IF i = 0 THEN h ELSE Told(f[i - 1], q[i])]
  BY <1>3 DEF FoldedUpTo
<1>. DEFINE g == Folded(h, q)
<1>5. g = [i \in 0 .. Len(q) |->
             IF i = 0 THEN h ELSE Told(g[i - 1], q[i])]
  BY <1>4 DEF Folded
<1>. HIDE DEF g
<1>6. 0 \in 0 .. Len(q) /\ \A i \in 1 .. Len(q) : i \in 0 .. Len(q) /\ i # 0
  OBVIOUS
<1>7. g[0] = h BY <1>5, <1>6
<1>8. \A i \in 1 .. Len(q) : g[i] = Told(g[i - 1], q[i])
  BY <1>5, <1>6
<1>. QED BY <1>7, <1>8 DEF g


\* A set of hosts that every request of q leaves in place holds the last one.
LEMMA ToldKeeps ==
  ASSUME NEW h, NEW q, Len(q) \in Nat, NEW P, h \in P,
         \A x \in P : \A i \in 1 .. Len(q) : Told(x, q[i]) \in P
  PROVE  ToldAll(h, q) \in P
<1>. DEFINE f == Folded(h, q)
            T == {n \in Nat : n =< Len(q) => f[n] \in P}
<1>1. f[0] = h /\ \A i \in 1 .. Len(q) : f[i] = Told(f[i - 1], q[i])
  BY FoldUnfolds
<1>2. ToldAll(h, q) = f[Len(q)]
  BY FoldedIs
<1>. HIDE DEF f
<1>3. 0 \in T BY <1>1
<1>4. \A n \in Nat : n \in T => n + 1 \in T
  <2>. SUFFICES ASSUME NEW n \in Nat, n \in T, n + 1 =< Len(q) PROVE f[n + 1] \in P
    OBVIOUS
  <2>1. n =< Len(q) /\ n + 1 \in 1 .. Len(q) /\ (n + 1) - 1 = n OBVIOUS
  <2>2. f[n] \in P BY <2>1
  <2>3. f[n + 1] = Told(f[n], q[n + 1]) BY <2>1, <1>1
  <2>. QED BY <2>1, <2>2, <2>3
<1>5. Len(q) \in T
  <2>. HIDE DEF T
  <2>. QED BY <1>3, <1>4, Reaches
<1>. QED BY <1>2, <1>5

LEMMA ToldEmpty ==
  ASSUME NEW h
  PROVE  ToldAll(h, <<>>) = h
<1>1. Len(<<>>) = 0 /\ Len(<<>>) \in Nat OBVIOUS
<1>2. Folded(h, <<>>)[0] = h BY <1>1, FoldUnfolds
<1>. QED BY <1>1, <1>2, FoldedIs

LEMMA ToldLast ==
  ASSUME NEW S, NEW q \in Seq(S), NEW m \in S, NEW h
  PROVE  ToldAll(h, Append(q, m)) = Told(ToldAll(h, q), m)
<1>. DEFINE r == Append(q, m)
            n == Len(q)
            f == Folded(h, q)
            g == Folded(h, r)
            T == {i \in Nat : i =< n => g[i] = f[i]}
<1>1. n \in Nat /\ Len(r) = n + 1 /\ Len(r) \in Nat OBVIOUS
<1>2. \A i \in 1 .. n : r[i] = q[i] OBVIOUS
<1>3. r[n + 1] = m OBVIOUS
<1>4. f[0] = h /\ \A i \in 1 .. n : f[i] = Told(f[i - 1], q[i])
  BY <1>1, FoldUnfolds
<1>5. g[0] = h /\ \A i \in 1 .. n + 1 : g[i] = Told(g[i - 1], r[i])
  <2>. HIDE DEF r
  <2>. QED BY <1>1, FoldUnfolds
<1>6. ToldAll(h, q) = f[n] /\ ToldAll(h, r) = g[n + 1]
  <2>. HIDE DEF r
  <2>. QED BY <1>1, FoldedIs
<1>. HIDE DEF f, g, r, n
<1>7. 0 \in T BY <1>4, <1>5
<1>8. \A i \in Nat : i \in T => i + 1 \in T
  <2>. SUFFICES ASSUME NEW i \in Nat, i \in T, i + 1 =< n PROVE g[i + 1] = f[i + 1]
    OBVIOUS
  <2>1. i =< n /\ i + 1 \in 1 .. n /\ i + 1 \in 1 .. n + 1 /\ (i + 1) - 1 = i BY <1>1
  <2>2. g[i] = f[i] BY <2>1
  <2>. QED BY <2>1, <2>2, <1>4, <1>5, <1>2
<1>9. n \in T
  <2>. HIDE DEF T
  <2>. QED BY <1>1, <1>7, <1>8, Reaches
<1>10. g[n] = f[n] BY <1>1, <1>9
<1>11. n + 1 \in 1 .. n + 1 /\ (n + 1) - 1 = n BY <1>1
<1>. QED BY <1>3, <1>5, <1>6, <1>10, <1>11 DEF r

-----------------------------------------------------------------------------
(* What the host makes of a request                                        *)

LEMMA RequestKinds ==
  ASSUME NEW m \in Request
  PROVE  /\ m.op \in {"create_params", "destroy_params", "destroy_buffer", "add", "create",
                      "create_immed", "commit"}
         /\ m.op # "commit" => m.host \in Nat
         /\ m.op = "add" => m.plane \in Plane /\ m.fd \in Nat
         /\ m.op \in {"create", "create_immed"} => m.arg \in Creates
         /\ m.op = "commit" => m.buffer \in Nat
BY DEF Request

LEMMA NotAbsent ==
  ASSUME NEW s \in Seq(Plane)
  PROVE  s # Absent
<1>1. SUFFICES ASSUME s = Absent PROVE FALSE
  OBVIOUS
<1>2. Len(s) = 1 /\ s[1] = None BY <1>1 DEF Absent
<1>3. s[1] \in Plane BY <1>2
<1>4. DOMAIN s[1] = {"fd", "idx", "buf", "stride"} BY <1>3 DEF Plane
<1>5. DOMAIN None = {"none"} BY DEF None
<1>. QED BY <1>2, <1>4, <1>5

LEMMA ToldFields ==
  ASSUME NEW h, NEW m
  PROVE  /\ Told(h, m).params = IF Accepts(h, m) THEN Track(h, m) ELSE h.params
         /\ Told(h, m).err = (h.err \/ ~Accepts(h, m))
         /\ Told(h, m).layout = (h.layout /\ LayoutTold(m))
BY DEF Told

LEMMA HostIs ==
  ASSUME NEW a \in Seq(HostParams), NEW b \in BOOLEAN, NEW c \in BOOLEAN
  PROVE  [params |-> a, err |-> b, layout |-> c] \in Host
BY DEF Host

LEMMA HostHas ==
  ASSUME NEW h \in Host
  PROVE  /\ h.params \in Seq(HostParams) /\ h.err \in BOOLEAN /\ h.layout \in BOOLEAN
         /\ Len(h.params) \in Nat /\ DOMAIN h.params = 1 .. Len(h.params)
         /\ \A n \in 1 .. Len(h.params) : h.params[n] \in HostParams
<1>1. h.params \in Seq(HostParams) /\ h.err \in BOOLEAN /\ h.layout \in BOOLEAN
  BY DEF Host
<1>. QED BY <1>1

LEMMA NewParamsIs ==
  NewParams \in HostParams /\ NewParams.state = "open" /\ NewParams.planes = {} /\ ~NewParams.gone
<1>1. {} \in SUBSET [idx : 0 .. 1, stride : Nat] OBVIOUS
<1>. QED BY <1>1 DEF NewParams, HostParams

\* A params object after one field changed.
LEMMA SetState ==
  ASSUME NEW x \in HostParams, NEW s \in {"open", "asked", "answered"}
  PROVE  /\ [x EXCEPT !.state = s] \in HostParams
         /\ [x EXCEPT !.state = s].state = s
         /\ [x EXCEPT !.state = s].planes = x.planes
         /\ [x EXCEPT !.state = s].gone = x.gone
BY DEF HostParams

LEMMA SetGone ==
  ASSUME NEW x \in HostParams
  PROVE  /\ [x EXCEPT !.gone = TRUE] \in HostParams
         /\ [x EXCEPT !.gone = TRUE].state = x.state
         /\ [x EXCEPT !.gone = TRUE].planes = x.planes
         /\ [x EXCEPT !.gone = TRUE].gone
BY DEF HostParams

LEMMA SetPlanes ==
  ASSUME NEW x \in HostParams, NEW i \in 0 .. 1, NEW s \in Nat
  PROVE  LET y == [x EXCEPT !.planes = @ \cup {[idx |-> i, stride |-> s]}]
         IN  /\ y \in HostParams
             /\ y.state = x.state
             /\ y.planes = x.planes \cup {[idx |-> i, stride |-> s]}
             /\ y.gone = x.gone
<1>1. [idx |-> i, stride |-> s] \in [idx : 0 .. 1, stride : Nat] OBVIOUS
<1>2. x.planes \in SUBSET [idx : 0 .. 1, stride : Nat] BY DEF HostParams
<1>. DEFINE z == x.planes \cup {[idx |-> i, stride |-> s]}
<1>3. z \in SUBSET [idx : 0 .. 1, stride : Nat] BY <1>1, <1>2
<1>4. [x EXCEPT !.planes = @ \cup {[idx |-> i, stride |-> s]}] = [x EXCEPT !.planes = z]
  OBVIOUS
<1>. HIDE DEF z
<1>5. /\ [x EXCEPT !.planes = z] \in HostParams
      /\ [x EXCEPT !.planes = z].state = x.state
      /\ [x EXCEPT !.planes = z].planes = z
      /\ [x EXCEPT !.planes = z].gone = x.gone
  BY <1>3 DEF HostParams
<1>. QED BY <1>4, <1>5 DEF z

\* The list of params objects after one of them changed.
LEMMA SetAt ==
  ASSUME NEW s \in Seq(HostParams), NEW n \in 1 .. Len(s), NEW y \in HostParams
  PROVE  /\ [s EXCEPT ![n] = y] \in Seq(HostParams)
         /\ Len([s EXCEPT ![n] = y]) = Len(s)
         /\ [s EXCEPT ![n] = y][n] = y
         /\ \A k \in 1 .. Len(s) : k # n => [s EXCEPT ![n] = y][k] = s[k]
BY ExceptSeq

LEMMA TrackType ==
  ASSUME NEW h \in Host, NEW m \in Request, Accepts(h, m)
  PROVE  Track(h, m) \in Seq(HostParams)
<1>0. /\ h.params \in Seq(HostParams) /\ DOMAIN h.params = 1 .. Len(h.params)
      /\ \A n \in 1 .. Len(h.params) : h.params[n] \in HostParams
  BY HostHas
<1>1. CASE m.op = "create_params"
  <2>1. Append(h.params, NewParams) \in Seq(HostParams)
    BY <1>0, NewParamsIs, AppendProperties
  <2>. QED BY <1>1, <2>1 DEF Track
<1>2. CASE m.op = "add"
  <2>1. m.host \in 1 .. Len(h.params) BY <1>2, <1>0 DEF Accepts, Takes, Lives
  <2>2. m.plane.idx \in 0 .. 1 /\ m.plane.stride \in Nat
    BY <1>2, RequestKinds DEF Plane
  <2>. DEFINE x == h.params[m.host]
              y == [x EXCEPT !.planes = @ \cup {[idx |-> m.plane.idx, stride |-> m.plane.stride]}]
  <2>3. y \in HostParams BY <2>1, <2>2, <1>0, SetPlanes
  <2>4. Track(h, m) = [h.params EXCEPT ![m.host] = y]
    BY <1>2 DEF Track
  <2>. HIDE DEF y
  <2>. QED BY <2>1, <2>3, <2>4, <1>0, SetAt
<1>3. ASSUME m.op = "create" \/ m.op = "create_immed" PROVE Track(h, m) \in Seq(HostParams)
  <2>1. m.host \in 1 .. Len(h.params) BY <1>3, <1>0 DEF Accepts, Takes, Lives
  <2>. DEFINE st == IF m.op = "create" THEN "asked" ELSE "answered"
              y == [h.params[m.host] EXCEPT !.state = st]
  <2>2. y \in HostParams
    <3>1. st \in {"open", "asked", "answered"} OBVIOUS
    <3>. HIDE DEF st
    <3>. QED BY <3>1, <2>1, <1>0, SetState
  <2>3. Track(h, m) = [h.params EXCEPT ![m.host] = y]
    BY <1>3 DEF Track
  <2>. HIDE DEF y
  <2>. QED BY <2>1, <2>2, <2>3, <1>0, SetAt
<1>4. CASE m.op = "destroy_params"
  <2>1. m.host \in 1 .. Len(h.params) BY <1>4, <1>0 DEF Accepts, Lives
  <2>. DEFINE y == [h.params[m.host] EXCEPT !.gone = TRUE]
  <2>2. y \in HostParams BY <2>1, <1>0, SetGone
  <2>3. Track(h, m) = [h.params EXCEPT ![m.host] = y]
    BY <1>4 DEF Track
  <2>. HIDE DEF y
  <2>. QED BY <2>1, <2>2, <2>3, <1>0, SetAt
<1>5. CASE m.op \in {"destroy_buffer", "commit"}
  BY <1>5, <1>0 DEF Track
<1>6. m.op \in {"create_params", "destroy_params", "destroy_buffer", "add", "create",
                "create_immed", "commit"}
  BY RequestKinds
<1>. QED BY <1>1, <1>2, <1>3, <1>4, <1>5, <1>6

LEMMA ToldType ==
  ASSUME NEW h \in Host, NEW m \in Request
  PROVE  Told(h, m) \in Host
<1>1. h.params \in Seq(HostParams) /\ h.err \in BOOLEAN /\ h.layout \in BOOLEAN
  BY HostHas
<1>. DEFINE a == IF Accepts(h, m) THEN Track(h, m) ELSE h.params
            b == (h.err \/ ~Accepts(h, m))
            c == (h.layout /\ LayoutTold(m))
<1>2. a \in Seq(HostParams) BY <1>1, TrackType
<1>3. b \in BOOLEAN /\ c \in BOOLEAN OBVIOUS
<1>4. Told(h, m) = [params |-> a, err |-> b, layout |-> c] BY DEF Told
<1>. HIDE DEF a, b, c
<1>. QED BY <1>2, <1>3, <1>4, HostIs

LEMMA ToldAllType ==
  ASSUME NEW h \in Host, NEW q \in Seq(Request)
  PROVE  ToldAll(h, q) \in Host
<1>1. Len(q) \in Nat /\ \A i \in 1 .. Len(q) : q[i] \in Request OBVIOUS
<1>2. \A x \in Host : \A i \in 1 .. Len(q) : Told(x, q[i]) \in Host
  BY <1>1, ToldType
<1>. QED BY <1>1, <1>2, ToldKeeps

-----------------------------------------------------------------------------
(* The requests of one operation, as the host takes them                    *)

LEMMA ToldCreateParams ==
  ASSUME NEW h \in Host, NEW n \in Nat
  PROVE  LET m == [op |-> "create_params", host |-> n]
         IN  /\ m \in Request
             /\ Told(h, m).params = Append(h.params, NewParams)
             /\ Told(h, m).err = h.err
             /\ Told(h, m).layout = h.layout
<1>. DEFINE m == [op |-> "create_params", host |-> n]
<1>1. m \in Request BY DEF Request
<1>2. m.op = "create_params" OBVIOUS
<1>. HIDE DEF m
<1>3. Accepts(h, m) BY <1>2 DEF Accepts
<1>4. Track(h, m) = Append(h.params, NewParams) BY <1>2 DEF Track
<1>5. LayoutTold(m) BY <1>2 DEF LayoutTold
<1>6. h.err \in BOOLEAN /\ h.layout \in BOOLEAN BY HostHas
<1>7. /\ Told(h, m).params = Append(h.params, NewParams)
      /\ Told(h, m).err = h.err
      /\ Told(h, m).layout = h.layout
  BY <1>3, <1>4, <1>5, <1>6, ToldFields
<1>. QED BY <1>1, <1>7 DEF m

LEMMA ToldDestroyParams ==
  ASSUME NEW h \in Host, NEW n \in 1 .. Len(h.params), ~h.params[n].gone
  PROVE  LET m == [op |-> "destroy_params", host |-> n]
         IN  /\ m \in Request
             /\ Told(h, m).params = [h.params EXCEPT ![n].gone = TRUE]
             /\ Told(h, m).err = h.err
             /\ Told(h, m).layout = h.layout
<1>. DEFINE m == [op |-> "destroy_params", host |-> n]
<1>0. DOMAIN h.params = 1 .. Len(h.params) /\ Len(h.params) \in Nat BY HostHas
<1>1. m \in Request BY <1>0 DEF Request
<1>2. m.op = "destroy_params" /\ m.host = n OBVIOUS
<1>. HIDE DEF m
<1>3. Accepts(h, m) BY <1>0, <1>2 DEF Accepts, Lives
<1>4. Track(h, m) = [h.params EXCEPT ![n].gone = TRUE] BY <1>2 DEF Track
<1>5. LayoutTold(m) BY <1>2 DEF LayoutTold
<1>6. h.err \in BOOLEAN /\ h.layout \in BOOLEAN BY HostHas
<1>7. /\ Told(h, m).params = [h.params EXCEPT ![n].gone = TRUE]
      /\ Told(h, m).err = h.err
      /\ Told(h, m).layout = h.layout
  BY <1>3, <1>4, <1>5, <1>6, ToldFields
<1>. QED BY <1>1, <1>7 DEF m

\* A commit and the destructor of a buffer leave what is known of params objects alone.
LEMMA ToldOther ==
  ASSUME NEW h \in Host, NEW m \in Request, m.op \in {"commit", "destroy_buffer"}
  PROVE  /\ Told(h, m).params = h.params
         /\ Told(h, m).err = h.err
         /\ Told(h, m).layout = h.layout
<1>3. Accepts(h, m) BY DEF Accepts
<1>4. Track(h, m) = h.params BY DEF Track
<1>5. LayoutTold(m) BY DEF LayoutTold
<1>6. h.err \in BOOLEAN /\ h.layout \in BOOLEAN BY HostHas
<1>. QED BY <1>3, <1>4, <1>5, <1>6, ToldFields

LEMMA ToldAdd ==
  ASSUME NEW h \in Host, NEW n \in 1 .. Len(h.params), NEW x \in Plane,
         ~h.params[n].gone, h.params[n].state = "open",
         \A q \in h.params[n].planes : q.idx # x.idx,
         Reports => h.layout, Fits(x)
  PROVE  LET m == [op |-> "add", host |-> n, plane |-> x, fd |-> x.fd]
         IN  /\ m \in Request
             /\ Told(h, m).params = [h.params EXCEPT ![n].planes =
                       @ \cup {[idx |-> x.idx, stride |-> x.stride]}]
             /\ Told(h, m).err = h.err
             /\ Reports => Told(h, m).layout
<1>. DEFINE m == [op |-> "add", host |-> n, plane |-> x, fd |-> x.fd]
<1>0. DOMAIN h.params = 1 .. Len(h.params) /\ Len(h.params) \in Nat BY HostHas
<1>1. m \in Request
  <2>1. x.fd \in Nat /\ n \in Nat BY <1>0 DEF Plane
  <2>. QED BY <2>1 DEF Request
<1>2. m.op = "add" /\ m.host = n /\ m.plane = x OBVIOUS
<1>. HIDE DEF m
<1>3. Accepts(h, m) BY <1>0, <1>2 DEF Accepts, Takes, Lives
<1>4. Track(h, m) = [h.params EXCEPT ![n].planes =
                       @ \cup {[idx |-> x.idx, stride |-> x.stride]}]
  BY <1>2 DEF Track
<1>5. Reports => LayoutTold(m)
  BY <1>2 DEF LayoutTold, Fits
<1>6. h.err \in BOOLEAN /\ h.layout \in BOOLEAN BY HostHas
<1>7. Told(h, m).params = [h.params EXCEPT ![n].planes =
                       @ \cup {[idx |-> x.idx, stride |-> x.stride]}]
  BY <1>3, <1>4, ToldFields
<1>8. Told(h, m).err = h.err BY <1>3, <1>6, ToldFields
<1>9. Reports => Told(h, m).layout BY <1>5, ToldFields
<1>. QED BY <1>1, <1>7, <1>8, <1>9 DEF m

LEMMA ToldCreate ==
  ASSUME NEW h \in Host, NEW n \in 1 .. Len(h.params), NEW c \in Creates, NEW immed \in BOOLEAN,
         ~h.params[n].gone, h.params[n].state = "open",
         {q.idx : q \in h.params[n].planes} = 0 .. (ExpectedPlanes(c.format) - 1),
         \A q \in h.params[n].planes : q.stride >= c.width
  PROVE  LET m == Message(c, immed, n)
         IN  /\ m \in Request
             /\ Told(h, m).params = [h.params EXCEPT ![n].state =
                  IF immed THEN "answered" ELSE "asked"]
             /\ Told(h, m).err = h.err
             /\ Told(h, m).layout = h.layout
<1>. DEFINE m == Message(c, immed, n)
<1>0. DOMAIN h.params = 1 .. Len(h.params) /\ Len(h.params) \in Nat BY HostHas
<1>1. m \in Request
  <2>1. n \in Nat BY <1>0
  <2>. QED BY <2>1 DEF Request, Message
<1>2. m.op = (IF immed THEN "create_immed" ELSE "create") /\ m.host = n /\ m.arg = c
  BY DEF Message
<1>. HIDE DEF m
<1>3. Accepts(h, m) BY <1>0, <1>2 DEF Accepts, Takes, Lives
<1>4. Track(h, m) = [h.params EXCEPT ![n].state = IF immed THEN "answered" ELSE "asked"]
  BY <1>2 DEF Track
<1>5. LayoutTold(m) BY <1>2 DEF LayoutTold
<1>6. h.err \in BOOLEAN /\ h.layout \in BOOLEAN BY HostHas
<1>7. /\ Told(h, m).params = [h.params EXCEPT ![n].state = IF immed THEN "answered" ELSE "asked"]
      /\ Told(h, m).err = h.err
      /\ Told(h, m).layout = h.layout
  BY <1>3, <1>4, <1>5, <1>6, ToldFields
<1>. QED BY <1>1, <1>7 DEF m

-----------------------------------------------------------------------------
(* An answer does not depend on the requests that are still in flight       *)

\* k is the host h after the params object g was answered.
AnswerTo(h, k, g) ==
  /\ h \in Host /\ k \in Host
  /\ k.err = h.err /\ k.layout = h.layout
  /\ g \in 1 .. Len(h.params) /\ Len(k.params) = Len(h.params)
  /\ h.params[g].state = "asked" /\ k.params[g].state = "answered"
  /\ k.params[g].gone = h.params[g].gone
  /\ \A n \in 1 .. Len(h.params) : n # g => k.params[n] = h.params[n]

LEMMA AnswerIs ==
  ASSUME NEW h \in Host, NEW g \in 1 .. Len(h.params), h.params[g].state = "asked"
  PROVE  AnswerTo(h, [h EXCEPT !.params[g].state = "answered"], g)
<1>. DEFINE x == h.params[g]
            y == [x EXCEPT !.state = "answered"]
            s == [h.params EXCEPT ![g] = y]
<1>1. /\ h.params \in Seq(HostParams) /\ h.err \in BOOLEAN /\ h.layout \in BOOLEAN
      /\ x \in HostParams
  BY HostHas
<1>2. y \in HostParams /\ y.state = "answered" /\ y.gone = x.gone
  BY <1>1, SetState
<1>3. [h EXCEPT !.params[g].state = "answered"] = [h EXCEPT !.params = s]
  OBVIOUS
<1>. HIDE DEF y
<1>4. /\ s \in Seq(HostParams) /\ Len(s) = Len(h.params) /\ s[g] = y
      /\ \A n \in 1 .. Len(h.params) : n # g => s[n] = h.params[n]
  BY <1>1, <1>2, SetAt
<1>. HIDE DEF s
<1>5. h = [params |-> h.params, err |-> h.err, layout |-> h.layout]
  BY DEF Host
<1>6. [h EXCEPT !.params = s] = [params |-> s, err |-> h.err, layout |-> h.layout]
  BY <1>5
<1>7. [params |-> s, err |-> h.err, layout |-> h.layout] \in Host
  BY <1>1, <1>4, HostIs
<1>. QED BY <1>1, <1>2, <1>3, <1>4, <1>6, <1>7 DEF AnswerTo

LEMMA AnswerAccepts ==
  ASSUME NEW h, NEW k, NEW g, AnswerTo(h, k, g), NEW m \in Request
  PROVE  /\ Accepts(k, m) = Accepts(h, m)
         /\ m.op \in {"add", "create", "create_immed"} /\ Accepts(h, m) => m.host # g
         /\ m.op \in {"add", "create", "create_immed", "destroy_params"} /\ Accepts(h, m) =>
              m.host \in 1 .. Len(h.params)
<1>1. /\ DOMAIN h.params = 1 .. Len(h.params) /\ DOMAIN k.params = 1 .. Len(k.params)
  BY HostHas DEF AnswerTo
<1>2. /\ g \in 1 .. Len(h.params) /\ Len(k.params) = Len(h.params)
      /\ h.params[g].state = "asked" /\ k.params[g].state = "answered"
      /\ k.params[g].gone = h.params[g].gone
      /\ \A n \in 1 .. Len(h.params) : n # g => k.params[n] = h.params[n]
  BY DEF AnswerTo
<1>3. Lives(k, m) = Lives(h, m)
  BY <1>1, <1>2 DEF Lives
<1>4. Takes(k, m) = Takes(h, m) /\ (Takes(h, m) => m.host # g /\ m.host \in 1 .. Len(h.params))
  BY <1>1, <1>2, <1>3 DEF Takes, Lives
<1>5. Takes(h, m) => k.params[m.host] = h.params[m.host]
  BY <1>4, <1>2
<1>6. m.op \in {"create_params", "destroy_params", "destroy_buffer", "add", "create",
                "create_immed", "commit"}
  BY RequestKinds
<1>7. CASE m.op \in {"create_params", "destroy_buffer", "commit"}
  BY <1>7 DEF Accepts
<1>8. CASE m.op = "destroy_params"
  <2>1. Accepts(k, m) = Lives(k, m) /\ Accepts(h, m) = Lives(h, m) BY <1>8 DEF Accepts
  <2>2. Lives(h, m) => m.host \in 1 .. Len(h.params) BY <1>1 DEF Lives
  <2>. QED BY <1>3, <1>8, <2>1, <2>2
<1>9. CASE m.op = "add"
  <2>. DEFINE Fresh(e) == \A q \in e.params[m.host].planes : q.idx # m.plane.idx
  <2>1. Accepts(k, m) = (Takes(k, m) /\ Fresh(k)) /\ Accepts(h, m) = (Takes(h, m) /\ Fresh(h))
    BY <1>9 DEF Accepts
  <2>2. Takes(h, m) => Fresh(k) = Fresh(h) BY <1>5
  <2>. HIDE DEF Fresh
  <2>. QED BY <1>4, <1>9, <2>1, <2>2
<1>10. CASE m.op \in {"create", "create_immed"}
  <2>. DEFINE Fresh(e) == /\ {q.idx : q \in e.params[m.host].planes} = 0..(ExpectedPlanes(m.arg.format) - 1)
                          /\ \A q \in e.params[m.host].planes : q.stride >= m.arg.width
  <2>1. Accepts(k, m) = (Takes(k, m) /\ Fresh(k)) /\ Accepts(h, m) = (Takes(h, m) /\ Fresh(h))
    BY <1>10 DEF Accepts
  <2>2. Takes(h, m) => Fresh(k) = Fresh(h) BY <1>5
  <2>. HIDE DEF Fresh
  <2>. QED BY <1>4, <1>10, <2>1, <2>2
<1>. QED BY <1>6, <1>7, <1>8, <1>9, <1>10

\* One object changed in the same way on both sides.
LEMMA AnswerSet ==
  ASSUME NEW s \in Seq(HostParams), NEW t \in Seq(HostParams), Len(t) = Len(s),
         NEW g \in 1 .. Len(s), \A n \in 1 .. Len(s) : n # g => t[n] = s[n],
         NEW i \in 1 .. Len(s), i # g, NEW y \in HostParams
  PROVE  LET a == [s EXCEPT ![i] = y]
             b == [t EXCEPT ![i] = y]
         IN  /\ Len(a) = Len(s) /\ Len(b) = Len(s) /\ a[g] = s[g] /\ b[g] = t[g]
             /\ \A n \in 1 .. Len(s) : n # g => b[n] = a[n]
<1>1. /\ Len([s EXCEPT ![i] = y]) = Len(s) /\ [s EXCEPT ![i] = y][i] = y
      /\ \A k \in 1 .. Len(s) : k # i => [s EXCEPT ![i] = y][k] = s[k]
  BY SetAt
<1>2. /\ Len([t EXCEPT ![i] = y]) = Len(t) /\ [t EXCEPT ![i] = y][i] = y
      /\ \A k \in 1 .. Len(t) : k # i => [t EXCEPT ![i] = y][k] = t[k]
  BY SetAt
<1>. DEFINE a == [s EXCEPT ![i] = y]
            b == [t EXCEPT ![i] = y]
<1>3. /\ Len(a) = Len(s) /\ a[i] = y /\ \A k \in 1 .. Len(s) : k # i => a[k] = s[k]
  BY <1>1
<1>4. /\ Len(b) = Len(s) /\ b[i] = y /\ \A k \in 1 .. Len(s) : k # i => b[k] = t[k]
  BY <1>2
<1>. HIDE DEF a, b
<1>5. /\ Len(a) = Len(s) /\ Len(b) = Len(s) /\ a[g] = s[g] /\ b[g] = t[g]
      /\ \A n \in 1 .. Len(s) : n # g => b[n] = a[n]
  BY <1>3, <1>4
<1>. QED BY <1>5 DEF a, b

\* The lists of params objects on both sides of an answer.
AnswerBetween(s, t, g) ==
  /\ g \in 1 .. Len(s) /\ Len(t) = Len(s)
  /\ s[g].state = "asked" /\ t[g].state = "answered" /\ t[g].gone = s[g].gone
  /\ \A n \in 1 .. Len(s) : n # g => t[n] = s[n]

LEMMA AnswerTrack ==
  ASSUME NEW h, NEW k, NEW g, AnswerTo(h, k, g), NEW m \in Request, Accepts(h, m)
  PROVE  AnswerBetween(Track(h, m), Track(k, m), g)
<1>. DEFINE s == h.params
            t == k.params
<1>1. /\ s \in Seq(HostParams) /\ t \in Seq(HostParams) /\ Len(s) \in Nat
      /\ \A n \in 1 .. Len(s) : s[n] \in HostParams
      /\ \A n \in 1 .. Len(s) : t[n] \in HostParams
  BY HostHas DEF AnswerTo
<1>2. AnswerBetween(s, t, g) BY DEF AnswerTo, AnswerBetween
<1>3. /\ m.op \in {"add", "create", "create_immed"} => m.host # g
      /\ m.op \in {"add", "create", "create_immed", "destroy_params"} => m.host \in 1 .. Len(s)
  BY AnswerAccepts
<1>4. m.op \in {"create_params", "destroy_params", "destroy_buffer", "add", "create",
                "create_immed", "commit"}
  BY RequestKinds
<1>5. CASE m.op = "create_params"
  <2>. DEFINE a == Append(s, NewParams)
              b == Append(t, NewParams)
  <2>1. Track(h, m) = a /\ Track(k, m) = b BY <1>5 DEF Track
  <2>2. /\ Len(a) = Len(s) + 1 /\ a[Len(s) + 1] = NewParams
        /\ \A n \in 1 .. Len(s) : a[n] = s[n]
    BY <1>1, NewParamsIs, AppendProperties
  <2>3. /\ Len(b) = Len(t) + 1 /\ b[Len(t) + 1] = NewParams
        /\ \A n \in 1 .. Len(t) : b[n] = t[n]
    BY <1>1, NewParamsIs, AppendProperties
  <2>. HIDE DEF a, b, s, t
  <2>. QED BY <1>1, <1>2, <2>1, <2>2, <2>3 DEF AnswerBetween
<1>6. CASE m.op \in {"destroy_buffer", "commit"}
  <2>1. Track(h, m) = s /\ Track(k, m) = t BY <1>6 DEF Track
  <2>. QED BY <1>2, <2>1
<1>7. CASE m.op \in {"add", "create", "create_immed"}
  <2>. DEFINE i == m.host
              x == s[i]
              y == CASE m.op = "add" ->
                          [x EXCEPT !.planes = @ \cup {[idx |-> m.plane.idx, stride |-> m.plane.stride]}]
                     [] m.op = "create" -> [x EXCEPT !.state = "asked"]
                     [] OTHER -> [x EXCEPT !.state = "answered"]
  <2>1. i \in 1 .. Len(s) /\ i # g /\ t[i] = s[i] /\ x \in HostParams
    BY <1>1, <1>2, <1>3, <1>7 DEF AnswerBetween
  <2>2. Track(h, m) = [s EXCEPT ![i] = y] BY <1>7 DEF Track
  <2>3. Track(k, m) = [t EXCEPT ![i] = y] BY <1>7, <2>1 DEF Track
  <2>4. y \in HostParams
    <3>1. CASE m.op = "add"
      <4>1. m.plane.idx \in 0 .. 1 /\ m.plane.stride \in Nat
        BY <3>1, RequestKinds DEF Plane
      <4>. DEFINE z == [x EXCEPT !.planes = @ \cup {[idx |-> m.plane.idx, stride |-> m.plane.stride]}]
      <4>2. z \in HostParams BY <2>1, <4>1, SetPlanes
      <4>3. y = z BY <3>1
      <4>. QED BY <4>2, <4>3
    <3>2. CASE m.op = "create"
      BY <3>2, <2>1, SetState
    <3>3. CASE m.op = "create_immed"
      BY <3>3, <2>1, SetState
    <3>. QED BY <1>7, <3>1, <3>2, <3>3
  <2>. HIDE DEF y, i, s, t
  <2>. DEFINE a == [s EXCEPT ![i] = y]
              b == [t EXCEPT ![i] = y]
  <2>5. /\ Len(a) = Len(s) /\ Len(b) = Len(s) /\ a[g] = s[g] /\ b[g] = t[g]
        /\ \A n \in 1 .. Len(s) : n # g => b[n] = a[n]
    BY <1>1, <1>2, <2>1, <2>4, AnswerSet DEF AnswerBetween
  <2>. HIDE DEF a, b
  <2>6. AnswerBetween(a, b, g)
    BY <1>2, <2>5 DEF AnswerBetween
  <2>. QED BY <2>2, <2>3, <2>6 DEF a, b
<1>8. CASE m.op = "destroy_params"
  <2>. DEFINE i == m.host
              x == [s[i] EXCEPT !.gone = TRUE]
              y == [t[i] EXCEPT !.gone = TRUE]
              a == [s EXCEPT ![i] = x]
              b == [t EXCEPT ![i] = y]
  <2>1. i \in 1 .. Len(s) /\ i \in 1 .. Len(t) BY <1>2, <1>3, <1>8 DEF AnswerBetween
  <2>2. Track(h, m) = a /\ Track(k, m) = b BY <1>8 DEF Track
  <2>3. x \in HostParams /\ x.state = s[i].state /\ x.gone
    BY <1>1, <2>1, SetGone
  <2>4. y \in HostParams /\ y.state = t[i].state /\ y.gone
    BY <1>1, <2>1, SetGone
  <2>5. i # g => x = y BY <1>2, <2>1 DEF AnswerBetween
  <2>. HIDE DEF x, y, i, s, t
  <2>6. /\ Len(a) = Len(s) /\ a[i] = x /\ \A n \in 1 .. Len(s) : n # i => a[n] = s[n]
    BY <1>1, <2>1, <2>3, SetAt
  <2>7. /\ Len(b) = Len(t) /\ b[i] = y /\ \A n \in 1 .. Len(t) : n # i => b[n] = t[n]
    BY <1>1, <2>1, <2>4, SetAt
  <2>8. x.gone = TRUE /\ y.gone = TRUE BY <2>3, <2>4 DEF HostParams
  <2>. HIDE DEF a, b
  <2>9. AnswerBetween(a, b, g)
    <3>1. CASE i = g
      BY <3>1, <1>2, <2>1, <2>3, <2>4, <2>6, <2>7, <2>8 DEF AnswerBetween
    <3>2. CASE i # g
      BY <3>2, <1>2, <2>1, <2>5, <2>6, <2>7 DEF AnswerBetween
    <3>. QED BY <3>1, <3>2
  <2>. QED BY <2>2, <2>9
<1>. QED BY <1>4, <1>5, <1>6, <1>7, <1>8

LEMMA AnswerTold ==
  ASSUME NEW h, NEW k, NEW g, AnswerTo(h, k, g), NEW m \in Request
  PROVE  AnswerTo(Told(h, m), Told(k, m), g)
<1>1. h \in Host /\ k \in Host /\ k.err = h.err /\ k.layout = h.layout
  BY DEF AnswerTo
<1>2. Told(h, m) \in Host /\ Told(k, m) \in Host
  BY <1>1, ToldType
<1>3. Accepts(k, m) = Accepts(h, m) BY AnswerAccepts
<1>4. Told(k, m).err = Told(h, m).err /\ Told(k, m).layout = Told(h, m).layout
  BY <1>1, <1>3, ToldFields
<1>5. AnswerBetween(Told(h, m).params, Told(k, m).params, g)
  <2>1. CASE Accepts(h, m)
    <3>1. Told(h, m).params = Track(h, m) /\ Told(k, m).params = Track(k, m)
      BY <1>3, <2>1, ToldFields
    <3>2. AnswerBetween(Track(h, m), Track(k, m), g)
      BY <2>1, AnswerTrack
    <3>. QED BY <3>1, <3>2
  <2>2. CASE ~Accepts(h, m)
    <3>1. Told(h, m).params = h.params /\ Told(k, m).params = k.params
      BY <1>3, <2>2, ToldFields
    <3>2. AnswerBetween(h.params, k.params, g) BY DEF AnswerTo, AnswerBetween
    <3>. QED BY <3>1, <3>2
  <2>. QED BY <2>1, <2>2
<1>. QED BY <1>2, <1>4, <1>5 DEF AnswerTo, AnswerBetween

LEMMA AnswerToldAll ==
  ASSUME NEW h, NEW k, NEW g, AnswerTo(h, k, g), NEW q \in Seq(Request)
  PROVE  AnswerTo(ToldAll(h, q), ToldAll(k, q), g)
<1>. DEFINE f == Folded(h, q)
            e == Folded(k, q)
            T == {n \in Nat : n =< Len(q) => AnswerTo(f[n], e[n], g)}
<1>0. Len(q) \in Nat /\ \A i \in 1 .. Len(q) : q[i] \in Request OBVIOUS
<1>1. f[0] = h /\ \A i \in 1 .. Len(q) : f[i] = Told(f[i - 1], q[i])
  BY <1>0, FoldUnfolds
<1>2. e[0] = k /\ \A i \in 1 .. Len(q) : e[i] = Told(e[i - 1], q[i])
  BY <1>0, FoldUnfolds
<1>3. ToldAll(h, q) = f[Len(q)] /\ ToldAll(k, q) = e[Len(q)]
  BY FoldedIs
<1>. HIDE DEF f, e
<1>4. 0 \in T BY <1>1, <1>2
<1>5. \A n \in Nat : n \in T => n + 1 \in T
  <2>. SUFFICES ASSUME NEW n \in Nat, n \in T, n + 1 =< Len(q)
                PROVE  AnswerTo(f[n + 1], e[n + 1], g)
    OBVIOUS
  <2>1. n =< Len(q) /\ n + 1 \in 1 .. Len(q) /\ (n + 1) - 1 = n BY <1>0
  <2>2. AnswerTo(f[n], e[n], g) BY <2>1
  <2>3. f[n + 1] = Told(f[n], q[n + 1]) /\ e[n + 1] = Told(e[n], q[n + 1])
    BY <2>1, <1>1, <1>2
  <2>4. q[n + 1] \in Request BY <1>0, <2>1
  <2>. QED BY <2>2, <2>3, <2>4, AnswerTold
<1>6. Len(q) \in T
  <2>. HIDE DEF T
  <2>. QED BY <1>0, <1>4, <1>5, Reaches
<1>. QED BY <1>0, <1>3, <1>6

-----------------------------------------------------------------------------
(* What the host will know, operation by operation                         *)

Injective(mp) == \A p, k \in ParamsIds : mp[p] # 0 /\ mp[p] = mp[k] => p = k

\* k is the host h after requests that were accepted and named the params object n only.
Touched(h, k, n) ==
  /\ k \in Host /\ k.err = h.err /\ (Reports /\ h.layout => k.layout)
  /\ Len(k.params) = Len(h.params)
  /\ k.params[n].gone = h.params[n].gone
  /\ \A i \in 1 .. Len(h.params) : i # n => k.params[i] = h.params[i]

LEMMA KnowsSame ==
  ASSUME NEW h, NEW k \in Host, NEW mp, NEW dy, NEW us, NEW gn, Knows(h, mp, dy, us, gn),
         k.params = h.params, k.err = h.err, k.layout = h.layout
  PROVE  Knows(k, mp, dy, us, gn)
BY DEF Knows, KnownAs

LEMMA KnowsTouched ==
  ASSUME NEW h, NEW k, NEW mp, NEW dy, NEW us, NEW gn, Knows(h, mp, dy, us, gn),
         Injective(mp), NEW p \in ParamsIds, mp[p] # 0, Touched(h, k, mp[p])
  PROVE  Knows(k, mp, dy, us \cup {p}, gn)
<1>1. k \in Host /\ ~k.err /\ (Reports => k.layout) /\ Len(k.params) = gn
  BY DEF Knows, Touched
<1>2. ASSUME NEW i \in ParamsIds, mp[i] # 0, i \notin dy
      PROVE  KnownAs(k, i, mp[i], us \cup {p})
  <2>1. KnownAs(h, i, mp[i], us) BY <1>2 DEF Knows
  <2>2. mp[i] \in 1 .. Len(k.params) BY <2>1 DEF Touched, KnownAs
  <2>3. CASE i = p
    BY <2>1, <2>2, <2>3 DEF Touched, KnownAs
  <2>4. CASE i # p
    <3>1. mp[i] # mp[p] BY <1>2, <2>4 DEF Injective
    <3>2. k.params[mp[i]] = h.params[mp[i]] BY <2>1, <3>1 DEF Touched, KnownAs
    <3>. QED BY <2>1, <2>2, <2>4, <3>2 DEF KnownAs
  <2>. QED BY <2>3, <2>4
<1>. QED BY <1>1, <1>2 DEF Knows

LEMMA KnowsAnswer ==
  ASSUME NEW h, NEW k, NEW mp, NEW dy, NEW us, NEW gn, Knows(h, mp, dy, us, gn),
         NEW g, AnswerTo(h, k, g)
  PROVE  Knows(k, mp, dy, us, gn)
<1>1. k \in Host /\ ~k.err /\ (Reports => k.layout) /\ Len(k.params) = gn
  BY DEF Knows, AnswerTo
<1>2. ASSUME NEW i \in ParamsIds, mp[i] # 0, i \notin dy
      PROVE  KnownAs(k, i, mp[i], us)
  <2>1. KnownAs(h, i, mp[i], us) BY <1>2 DEF Knows
  <2>2. mp[i] \in 1 .. Len(k.params) BY <2>1 DEF AnswerTo, KnownAs
  <2>3. CASE mp[i] = g
    <3>1. h.params[g].state = "asked" /\ k.params[g].gone = h.params[g].gone BY DEF AnswerTo
    <3>2. h.params[g] # NewParams BY <3>1, NewParamsIs
    <3>. QED BY <2>1, <2>2, <2>3, <3>1, <3>2 DEF KnownAs
  <2>4. CASE mp[i] # g
    <3>2. k.params[mp[i]] = h.params[mp[i]] BY <2>1, <2>4 DEF AnswerTo, KnownAs
    <3>. QED BY <2>1, <2>2, <3>2 DEF KnownAs
  <2>. QED BY <2>3, <2>4
<1>. QED BY <1>1, <1>2 DEF Knows

LEMMA KnowsNew ==
  ASSUME NEW h, NEW mp \in [ParamsIds -> Nat], NEW dy, NEW us, NEW gn \in Nat,
         Knows(h, mp, dy, us, gn), NEW p \in ParamsIds, NEW k,
         k = Told(h, [op |-> "create_params", host |-> gn + 1])
  PROVE  Knows(k, [mp EXCEPT ![p] = gn + 1], dy, us \ {p}, gn + 1)
<1>0. h \in Host /\ gn + 1 \in Nat BY DEF Knows
<1>. DEFINE m == [op |-> "create_params", host |-> gn + 1]
<1>1. /\ m \in Request /\ Told(h, m).params = Append(h.params, NewParams)
      /\ Told(h, m).err = h.err /\ Told(h, m).layout = h.layout
  BY <1>0, ToldCreateParams
<1>2. k \in Host BY <1>0, <1>1, ToldType
<1>3. h.params \in Seq(HostParams) /\ Len(h.params) = gn
  BY <1>0, HostHas DEF Knows
<1>4. /\ Len(k.params) = gn + 1 /\ k.params[gn + 1] = NewParams
      /\ \A n \in 1 .. gn : k.params[n] = h.params[n]
  <2>. DEFINE s == h.params
  <2>1. k.params = Append(s, NewParams) BY <1>1
  <2>2. s \in Seq(HostParams) /\ Len(s) = gn BY <1>3
  <2>. HIDE DEF s
  <2>3. /\ Len(Append(s, NewParams)) = gn + 1 /\ Append(s, NewParams)[gn + 1] = NewParams
        /\ \A n \in 1 .. gn : Append(s, NewParams)[n] = s[n]
    BY <2>2, NewParamsIs, AppendProperties
  <2>. QED BY <2>1, <2>3 DEF s
<1>5. ~k.err /\ (Reports => k.layout) BY <1>1 DEF Knows
<1>. DEFINE mp2 == [mp EXCEPT ![p] = gn + 1]
<1>6. ASSUME NEW i \in ParamsIds, mp2[i] # 0, i \notin dy
      PROVE  KnownAs(k, i, mp2[i], us \ {p})
  <2>1. CASE i = p
    <3>1. mp2[i] = gn + 1 BY <2>1
    <3>2. gn + 1 \in 1 .. Len(k.params) BY <1>4
    <3>. QED BY <3>1, <3>2, <1>4, NewParamsIs DEF KnownAs
  <2>2. CASE i # p
    <3>1. mp2[i] = mp[i] BY <2>2
    <3>2. KnownAs(h, i, mp[i], us) BY <1>6, <3>1 DEF Knows
    <3>3. mp[i] \in 1 .. gn BY <3>2, <1>3 DEF KnownAs
    <3>4. k.params[mp[i]] = h.params[mp[i]] /\ mp[i] \in 1 .. Len(k.params) BY <3>3, <1>4
    <3>. QED BY <2>2, <3>1, <3>2, <3>4 DEF KnownAs
  <2>. QED BY <2>1, <2>2
<1>. QED BY <1>2, <1>4, <1>5, <1>6 DEF Knows

LEMMA KnowsDestroyed ==
  ASSUME NEW h, NEW mp, NEW dy, NEW us, NEW gn,
         Knows(h, mp, dy, us, gn), Injective(mp), NEW p \in ParamsIds, mp[p] # 0, p \notin dy,
         NEW k, k = Told(h, [op |-> "destroy_params", host |-> mp[p]])
  PROVE  Knows(k, mp, dy \cup {p}, us \ {p}, gn)
<1>1. h \in Host /\ KnownAs(h, p, mp[p], us) BY DEF Knows
<1>. DEFINE n == mp[p]
            m == [op |-> "destroy_params", host |-> n]
<1>2. n \in 1 .. Len(h.params) /\ ~h.params[n].gone BY <1>1 DEF KnownAs
<1>3. /\ m \in Request /\ Told(h, m).params = [h.params EXCEPT ![n].gone = TRUE]
      /\ Told(h, m).err = h.err /\ Told(h, m).layout = h.layout
  BY <1>1, <1>2, ToldDestroyParams
<1>4. k \in Host BY <1>1, <1>3, ToldType
<1>5. h.params \in Seq(HostParams) /\ h.params[n] \in HostParams
  BY <1>1, <1>2, HostHas
<1>. DEFINE y == [h.params[n] EXCEPT !.gone = TRUE]
<1>6. y \in HostParams BY <1>5, SetGone
<1>7. k.params = [h.params EXCEPT ![n] = y] BY <1>3
<1>. HIDE DEF y
<1>8. /\ Len(k.params) = Len(h.params)
      /\ \A i \in 1 .. Len(h.params) : i # n => k.params[i] = h.params[i]
  BY <1>2, <1>5, <1>6, <1>7, SetAt
<1>9. ~k.err /\ (Reports => k.layout) /\ Len(k.params) = gn BY <1>3, <1>8 DEF Knows
<1>10. ASSUME NEW i \in ParamsIds, mp[i] # 0, i \notin dy \cup {p}
       PROVE  KnownAs(k, i, mp[i], us \ {p})
  <2>1. KnownAs(h, i, mp[i], us) BY <1>10 DEF Knows
  <2>2. mp[i] # n BY <1>10 DEF Injective
  <2>3. k.params[mp[i]] = h.params[mp[i]] /\ mp[i] \in 1 .. Len(k.params)
    BY <1>8, <2>1, <2>2 DEF KnownAs
  <2>. QED BY <1>10, <2>1, <2>3 DEF KnownAs
<1>. QED BY <1>4, <1>9, <1>10 DEF Knows

LEMMA KnowsForgotten ==
  ASSUME NEW h, NEW mp \in [ParamsIds -> Nat], NEW dy, NEW us, NEW gn,
         Knows(h, mp, dy, us, gn), NEW p \in ParamsIds
  PROVE  Knows(h, [mp EXCEPT ![p] = 0], dy \ {p}, us, gn)
BY DEF Knows

-----------------------------------------------------------------------------
(* The batch of a create                                                   *)

LEMMA ConcatAppend ==
  ASSUME NEW S, NEW q \in Seq(S), NEW s \in Seq(S), NEW x \in S
  PROVE  q \o Append(s, x) = Append(q \o s, x)
<1>. DEFINE a == Append(s, x)
            b == q \o s
            l == q \o a
            r == Append(b, x)
<1>1. /\ a \in Seq(S) /\ Len(a) = Len(s) + 1 /\ a[Len(s) + 1] = x
      /\ \A i \in 1 .. Len(s) : a[i] = s[i]
  BY AppendProperties
<1>2. /\ b \in Seq(S) /\ Len(b) = Len(q) + Len(s)
      /\ \A i \in 1 .. Len(q) + Len(s) : b[i] = IF i <= Len(q) THEN q[i] ELSE s[i - Len(q)]
  BY ConcatProperties
<1>. HIDE DEF a, b
<1>3. /\ l \in Seq(S) /\ Len(l) = Len(q) + Len(a)
      /\ \A i \in 1 .. Len(q) + Len(a) : l[i] = IF i <= Len(q) THEN q[i] ELSE a[i - Len(q)]
  BY <1>1, ConcatProperties
<1>4. /\ r \in Seq(S) /\ Len(r) = Len(b) + 1 /\ r[Len(b) + 1] = x
      /\ \A i \in 1 .. Len(b) : r[i] = b[i]
  BY <1>2, AppendProperties
<1>. HIDE DEF l, r
<1>5. Len(l) = Len(r) /\ Len(q) \in Nat /\ Len(s) \in Nat BY <1>1, <1>2, <1>3, <1>4
<1>6. \A i \in 1 .. Len(l) : l[i] = r[i]
  <2>. TAKE i \in 1 .. Len(l)
  <2>1. i \in Nat /\ i >= 1 /\ i <= Len(q) + Len(s) + 1 BY <1>1, <1>3, <1>5
  <2>2. CASE i <= Len(q)
    <3>1. l[i] = q[i] BY <1>1, <1>3, <1>5, <2>1, <2>2
    <3>2. b[i] = q[i] BY <1>2, <1>5, <2>1, <2>2
    <3>3. r[i] = b[i] BY <1>2, <1>4, <1>5, <2>1, <2>2
    <3>. QED BY <3>1, <3>2, <3>3
  <2>3. CASE i > Len(q) /\ i <= Len(q) + Len(s)
    <3>1. l[i] = a[i - Len(q)] BY <1>1, <1>3, <1>5, <2>1, <2>3
    <3>2. i - Len(q) \in 1 .. Len(s) BY <1>5, <2>1, <2>3
    <3>3. a[i - Len(q)] = s[i - Len(q)] BY <1>1, <3>2
    <3>4. b[i] = s[i - Len(q)] BY <1>2, <1>5, <2>1, <2>3
    <3>5. r[i] = b[i] BY <1>2, <1>4, <1>5, <2>1, <2>3
    <3>. QED BY <3>1, <3>3, <3>4, <3>5
  <2>4. CASE i = Len(q) + Len(s) + 1
    <3>1. l[i] = a[i - Len(q)] BY <1>1, <1>3, <1>5, <2>1, <2>4
    <3>2. i - Len(q) = Len(s) + 1 BY <1>5, <2>4
    <3>3. r[i] = x BY <1>2, <1>4, <2>4
    <3>. QED BY <1>1, <3>1, <3>2, <3>3
  <2>. QED BY <1>5, <2>1, <2>2, <2>3, <2>4
<1>7. l = r BY <1>3, <1>4, <1>5, <1>6, SeqEqual
<1>. QED BY <1>7 DEF l, r

LEMMA TouchedOnce ==
  ASSUME NEW h, NEW k, NEW l, NEW n, Touched(h, k, n), Touched(k, l, n)
  PROVE  Touched(h, l, n)
BY DEF Touched

LEMMA AddTouches ==
  ASSUME NEW h \in Host, NEW n \in 1 .. Len(h.params), NEW x \in Plane,
         ~h.params[n].gone, h.params[n].state = "open",
         \A q \in h.params[n].planes : q.idx # x.idx,
         Reports => h.layout, Fits(x),
         NEW k, k = Told(h, [op |-> "add", host |-> n, plane |-> x, fd |-> x.fd])
  PROVE  /\ Touched(h, k, n)
         /\ k.params[n].state = "open"
         /\ k.params[n].planes = h.params[n].planes \cup {[idx |-> x.idx, stride |-> x.stride]}
<1>. DEFINE m == [op |-> "add", host |-> n, plane |-> x, fd |-> x.fd]
            z == h.params[n]
            y == [z EXCEPT !.planes = @ \cup {[idx |-> x.idx, stride |-> x.stride]}]
<1>1. /\ m \in Request
      /\ Told(h, m).params = [h.params EXCEPT ![n].planes =
           @ \cup {[idx |-> x.idx, stride |-> x.stride]}]
      /\ Told(h, m).err = h.err
      /\ Reports => Told(h, m).layout
  BY ToldAdd
<1>2. k \in Host BY <1>1, ToldType
<1>3. h.params \in Seq(HostParams) /\ z \in HostParams BY HostHas
<1>4. x.idx \in 0 .. 1 /\ x.stride \in Nat BY DEF Plane
<1>5. /\ y \in HostParams /\ y.state = z.state /\ y.gone = z.gone
      /\ y.planes = z.planes \cup {[idx |-> x.idx, stride |-> x.stride]}
  BY <1>3, <1>4, SetPlanes
<1>6. k.params = [h.params EXCEPT ![n] = y] BY <1>1
<1>. HIDE DEF y
<1>7. /\ Len(k.params) = Len(h.params) /\ k.params[n] = y
      /\ \A i \in 1 .. Len(h.params) : i # n => k.params[i] = h.params[i]
  BY <1>3, <1>5, <1>6, SetAt
<1>. QED BY <1>1, <1>2, <1>5, <1>7 DEF Touched

LEMMA CreateTouches ==
  ASSUME NEW h \in Host, NEW n \in 1 .. Len(h.params), NEW c \in Creates, NEW immed \in BOOLEAN,
         ~h.params[n].gone, h.params[n].state = "open",
         {q.idx : q \in h.params[n].planes} = 0 .. (ExpectedPlanes(c.format) - 1),
         \A q \in h.params[n].planes : q.stride >= c.width,
         NEW k, k = Told(h, Message(c, immed, n))
  PROVE  Touched(h, k, n)
<1>. DEFINE m == Message(c, immed, n)
            z == h.params[n]
            st == IF immed THEN "answered" ELSE "asked"
            y == [z EXCEPT !.state = st]
<1>1. /\ m \in Request
      /\ Told(h, m).params = [h.params EXCEPT ![n].state = st]
      /\ Told(h, m).err = h.err
      /\ Told(h, m).layout = h.layout
  BY ToldCreate
<1>2. k \in Host BY <1>1, ToldType
<1>3. h.params \in Seq(HostParams) /\ z \in HostParams BY HostHas
<1>4. st \in {"open", "asked", "answered"} OBVIOUS
<1>. HIDE DEF st
<1>5. y \in HostParams /\ y.gone = z.gone
  BY <1>3, <1>4, SetState
<1>6. k.params = [h.params EXCEPT ![n] = y] BY <1>1
<1>. HIDE DEF y
<1>7. /\ Len(k.params) = Len(h.params) /\ k.params[n] = y
      /\ \A i \in 1 .. Len(h.params) : i # n => k.params[i] = h.params[i]
  BY <1>3, <1>5, <1>6, SetAt
<1>. QED BY <1>1, <1>2, <1>5, <1>7 DEF Touched

\* What valid_params establishes.
LEMMA ValidPlanes ==
  ASSUME NEW planes \in Seq(Plane), NEW c \in Creates, valid_params(planes, c)
  PROVE  /\ Len(planes) \in {1, 2} /\ Len(planes) = ExpectedPlanes(c.format)
         /\ \A i \in 1 .. Len(planes) : planes[i] \in Plane /\ planes[i].stride >= c.width
         /\ Len(planes) = 1 => planes[1].idx = 0
         /\ Len(planes) = 2 => {planes[1].idx, planes[2].idx} = 0 .. 1
<1>1. c.width > 0 /\ c.width \in Int BY DmabufAssumption DEF valid_params
<1>2. Len(planes) = ExpectedPlanes(c.format) /\ ExpectedPlanes(c.format) \in {1, 2}
  BY DEF valid_params, ExpectedPlanes
<1>3. \A i \in 1 .. Len(planes) : planes[i] \in Plane OBVIOUS
<1>4. ASSUME NEW i \in 1 .. Len(planes)
      PROVE  planes[i].stride >= c.width
  <2>1. valid_dmabuf_plane(c, planes[i]) BY DEF valid_params
  <2>. DEFINE row == dmabuf_plane_layout(c, planes[i].idx)
  <2>2. row # -1 /\ planes[i].stride >= row BY <2>1 DEF valid_dmabuf_plane
  <2>3. row \in {-1, c.width, 2 * c.width, 4 * c.width}
    BY DEF dmabuf_plane_layout
  <2>. HIDE DEF row
  <2>4. planes[i].stride \in Nat BY <1>3 DEF Plane
  <2>. QED BY <1>1, <2>2, <2>3, <2>4
<1>5. \A i \in 1 .. Len(planes) : planes[i].idx \in 0 .. 1 /\ planes[i].idx < ExpectedPlanes(c.format)
  BY <1>3 DEF Plane, valid_params
<1>6. Len(planes) = 1 => planes[1].idx = 0
  BY <1>2, <1>5
<1>7. Len(planes) = 2 => {planes[1].idx, planes[2].idx} = 0 .. 1
  <2>. HAVE Len(planes) = 2
  <2>1. 1 \in DOMAIN planes /\ 2 \in DOMAIN planes OBVIOUS
  <2>2. planes[1].idx # planes[2].idx BY <2>1 DEF valid_params
  <2>3. planes[1].idx \in 0 .. 1 /\ planes[2].idx \in 0 .. 1 BY <1>5
  <2>. QED BY <2>2, <2>3
<1>. QED BY <1>2, <1>3, <1>4, <1>6, <1>7

AddOf(n, x) == [op |-> "add", host |-> n, plane |-> x, fd |-> x.fd]

LEMMA AppendIs ==
  ASSUME NEW S, NEW s \in Seq(S), NEW x \in S
  PROVE  /\ Append(s, x) \in Seq(S) /\ Len(Append(s, x)) = Len(s) + 1
         /\ Append(s, x)[Len(s) + 1] = x
         /\ \A i \in 1 .. Len(s) : Append(s, x)[i] = s[i]
BY AppendProperties

LEMMA BatchOf ==
  ASSUME NEW q \in Seq(Request), NEW planes \in Seq(Plane), NEW c \in Creates,
         NEW immed \in BOOLEAN, NEW n \in Nat
  PROVE  /\ \A i \in 1 .. Len(planes) : AddOf(n, planes[i]) \in Request
         /\ Message(c, immed, n) \in Request
         /\ Len(planes) = 1 => q \o HostMessages(planes, c, immed, n) =
              Append(Append(q, AddOf(n, planes[1])), Message(c, immed, n))
         /\ Len(planes) = 2 => q \o HostMessages(planes, c, immed, n) =
              Append(Append(Append(q, AddOf(n, planes[1])), AddOf(n, planes[2])),
                     Message(c, immed, n))
<1>1. \A i \in 1 .. Len(planes) : AddOf(n, planes[i]) \in Request
  <2>. TAKE i \in 1 .. Len(planes)
  <2>1. planes[i] \in Plane OBVIOUS
  <2>2. planes[i].fd \in Nat BY <2>1 DEF Plane
  <2>. QED BY <2>1, <2>2 DEF Request, AddOf
<1>2. Message(c, immed, n) \in Request
  BY DEF Request, Message
<1>. DEFINE s == [i \in DOMAIN planes |-> AddOf(n, planes[i])]
            m == Message(c, immed, n)
<1>3. HostMessages(planes, c, immed, n) = Append(s, m)
  BY DEF HostMessages, AddOf
<1>4. DOMAIN planes = 1 .. Len(planes) /\ Len(planes) \in Nat OBVIOUS
<1>5. s \in Seq(Request)
  <2>1. s = [i \in 1 .. Len(planes) |-> AddOf(n, planes[i])] BY <1>4
  <2>. QED BY <2>1, <1>1, <1>4
<1>. HIDE DEF m
<1>6. q \o HostMessages(planes, c, immed, n) = Append(q \o s, m)
  <2>. HIDE DEF s
  <2>. QED BY <1>2, <1>3, <1>5, ConcatAppend DEF m
<1>7. <<>> \in Seq(Request) /\ q \o <<>> = q OBVIOUS
<1>. DEFINE a == AddOf(n, planes[1])
            b == AddOf(n, planes[2])
<1>8. Len(planes) = 1 => q \o s = Append(q, a)
  <2>. HAVE Len(planes) = 1
  <2>1. a \in Request BY <1>1
  <2>2. s = Append(<<>>, a) BY <1>4
  <2>. HIDE DEF s, a
  <2>3. q \o Append(<<>>, a) = Append(q \o <<>>, a) BY <1>7, <2>1, ConcatAppend
  <2>. QED BY <1>7, <2>2, <2>3
<1>9. Len(planes) = 2 => q \o s = Append(Append(q, a), b)
  <2>. HAVE Len(planes) = 2
  <2>1. a \in Request /\ b \in Request BY <1>1
  <2>. DEFINE e == Append(<<>>, a)
  <2>2. s = Append(e, b)
    <3>1. s = [i \in 1 .. 2 |-> AddOf(n, planes[i])] BY <1>4
    <3>2. s[1] = a /\ s[2] = b BY <1>4
    <3>3. Len(s) = 2 BY <1>5, <3>1
    <3>. HIDE DEF s, a, b
    <3>4. e \in Seq(Request) /\ Len(e) = 1 /\ e[1] = a BY <1>7, <2>1, AppendProperties
    <3>. DEFINE d == Append(e, b)
    <3>. HIDE DEF e
    <3>5. d \in Seq(Request) /\ Len(d) = 2 /\ d[1] = a /\ d[2] = b
      <4>1. /\ d \in Seq(Request) /\ Len(d) = Len(e) + 1 /\ d[Len(e) + 1] = b
            /\ \A i \in 1 .. Len(e) : d[i] = e[i]
        <5>1. e \in Seq(Request) /\ b \in Request BY <2>1, <3>4
        <5>. QED BY ONLY <5>1, AppendIs DEF d
      <4>. HIDE DEF d
      <4>. QED BY <3>4, <4>1
    <3>. HIDE DEF d
    <3>6. \A i \in 1 .. Len(s) : s[i] = d[i] BY <3>2, <3>3, <3>5
    <3>7. s = d BY <1>5, <3>3, <3>5, <3>6, SeqEqual
    <3>. QED BY <3>7 DEF d
  <2>3. e \in Seq(Request) BY <1>7, <2>1, AppendProperties
  <2>. HIDE DEF s, a, b
  <2>4. q \o e = Append(q \o <<>>, a) BY <1>7, <2>1, ConcatAppend
  <2>. HIDE DEF e
  <2>5. q \o Append(e, b) = Append(q \o e, b) BY <2>1, <2>3, ConcatAppend
  <2>. QED BY <1>7, <2>2, <2>4, <2>5
<1>. HIDE DEF s, a, b
<1>. QED BY <1>1, <1>2, <1>6, <1>8, <1>9 DEF a, b, m

LEMMA BatchTold ==
  ASSUME NEW h \in Host, NEW q \in Seq(Request), NEW planes \in Seq(Plane), NEW c \in Creates,
         NEW immed \in BOOLEAN, NEW n \in 1 .. Len(ToldAll(h, q).params),
         ToldAll(h, q).params[n] = NewParams, valid_params(planes, c),
         Reports => ToldAll(h, q).layout, \A i \in 1 .. Len(planes) : Fits(planes[i])
  PROVE  LET r == q \o HostMessages(planes, c, immed, n)
         IN  /\ r \in Seq(Request)
             /\ Touched(ToldAll(h, q), ToldAll(h, r), n)
<1>. DEFINE f == ToldAll(h, q)
            r == q \o HostMessages(planes, c, immed, n)
            a == AddOf(n, planes[1])
            b == AddOf(n, planes[2])
            m == Message(c, immed, n)
            qa == Append(q, a)
            qb == Append(qa, b)
            fa == Told(f, a)
            fb == Told(fa, b)
<1>1. f \in Host BY ToldAllType
<1>2. n \in Nat /\ n \in 1 .. Len(f.params) /\ f.params[n] = NewParams /\ (Reports => f.layout)
  BY <1>1, HostHas
<1>. HIDE DEF f
<1>3. /\ Len(planes) \in {1, 2} /\ Len(planes) = ExpectedPlanes(c.format)
      /\ \A i \in 1 .. Len(planes) : planes[i] \in Plane /\ planes[i].stride >= c.width
      /\ Len(planes) = 1 => planes[1].idx = 0
      /\ Len(planes) = 2 => {planes[1].idx, planes[2].idx} = 0 .. 1
  BY ValidPlanes
<1>4. /\ \A i \in 1 .. Len(planes) : AddOf(n, planes[i]) \in Request
      /\ m \in Request
      /\ Len(planes) = 1 => r = Append(Append(q, AddOf(n, planes[1])), m)
      /\ Len(planes) = 2 => r = Append(Append(Append(q, AddOf(n, planes[1])), AddOf(n, planes[2])), m)
  BY <1>2, BatchOf
<1>. HIDE DEF r, m
<1>5. planes[1] \in Plane /\ planes[1].stride >= c.width /\ a \in Request /\ Fits(planes[1])
  BY <1>3, <1>4
<1>6. NewParams.state = "open" /\ NewParams.planes = {} /\ ~NewParams.gone
  BY NewParamsIs
<1>7. /\ Touched(f, fa, n) /\ fa.params[n].state = "open"
      /\ fa.params[n].planes = {[idx |-> planes[1].idx, stride |-> planes[1].stride]}
  <2>. DEFINE x == planes[1]
  <2>1. /\ Touched(f, fa, n) /\ fa.params[n].state = "open"
        /\ fa.params[n].planes = f.params[n].planes \cup {[idx |-> x.idx, stride |-> x.stride]}
    <3>1. /\ \A q1 \in f.params[n].planes : q1.idx # x.idx
          /\ ~f.params[n].gone /\ f.params[n].state = "open"
      BY <1>2, <1>6
    <3>2. fa = Told(f, [op |-> "add", host |-> n, plane |-> x, fd |-> x.fd])
      BY DEF AddOf
    <3>3. x \in Plane /\ Fits(x) BY <1>5
    <3>. HIDE DEF x, fa
    <3>. QED BY <1>1, <1>2, <3>1, <3>2, <3>3, AddTouches
  <2>. QED BY <2>1, <1>2, <1>6
<1>8. qa \in Seq(Request) /\ ToldAll(h, qa) = fa
  BY <1>5, AppendProperties, ToldLast DEF f
<1>. HIDE DEF fa, a, qa
<1>9. /\ fa \in Host /\ Len(fa.params) = Len(f.params) /\ ~fa.params[n].gone
      /\ Reports => fa.layout
  BY <1>2, <1>6, <1>7 DEF Touched
<1>10. CASE Len(planes) = 1
  <2>1. {q1.idx : q1 \in fa.params[n].planes} = 0 .. (ExpectedPlanes(c.format) - 1)
    <3>1. ExpectedPlanes(c.format) = 1 /\ planes[1].idx = 0 BY <1>3, <1>10
    <3>. QED BY <3>1, <1>7
  <2>2. \A q1 \in fa.params[n].planes : q1.stride >= c.width BY <1>5, <1>7
  <2>. DEFINE fm == Told(fa, m)
  <2>3. Touched(fa, fm, n)
    BY <1>2, <1>7, <1>9, <2>1, <2>2, CreateTouches DEF m
  <2>4. r = Append(qa, m) BY <1>4, <1>10 DEF qa, a
  <2>5. r \in Seq(Request) /\ ToldAll(h, r) = fm
    BY <1>4, <1>8, <2>4, AppendProperties, ToldLast
  <2>. HIDE DEF fm
  <2>6. Touched(f, fm, n) BY <1>7, <2>3, TouchedOnce
  <2>. QED BY <2>5, <2>6 DEF f, r
<1>11. CASE Len(planes) = 2
  <2>0. planes[2] \in Plane /\ planes[2].stride >= c.width /\ b \in Request /\ Fits(planes[2])
    BY <1>3, <1>4, <1>11
  <2>1. planes[1].idx # planes[2].idx /\ {planes[1].idx, planes[2].idx} = 0 .. 1
        /\ ExpectedPlanes(c.format) = 2
    <3>. DEFINE u == planes[1].idx
                v == planes[2].idx
    <3>1. {u, v} = 0 .. 1 /\ ExpectedPlanes(c.format) = 2 BY <1>3, <1>11
    <3>. HIDE DEF u, v
    <3>a. 0 \in 0 .. 1 /\ 1 \in 0 .. 1 OBVIOUS
    <3>2. 0 \in {u, v} /\ 1 \in {u, v} BY <3>1, <3>a, Zenon
    <3>3. u # v BY <3>2
    <3>. QED BY <3>1, <3>3 DEF u, v
  <2>2. \A q1 \in fa.params[n].planes : q1.idx # planes[2].idx BY <1>7, <2>1
  <2>3. /\ Touched(fa, fb, n) /\ fb.params[n].state = "open"
        /\ fb.params[n].planes = {[idx |-> planes[1].idx, stride |-> planes[1].stride],
                                  [idx |-> planes[2].idx, stride |-> planes[2].stride]}
    <3>. DEFINE x == planes[2]
    <3>1. /\ Touched(fa, fb, n) /\ fb.params[n].state = "open"
          /\ fb.params[n].planes = fa.params[n].planes \cup {[idx |-> x.idx, stride |-> x.stride]}
      BY <1>2, <1>7, <1>9, <2>0, <2>2, AddTouches DEF AddOf
    <3>. QED BY <3>1, <1>7
  <2>4. qb \in Seq(Request) /\ ToldAll(h, qb) = fb
    BY <1>8, <2>0, AppendProperties, ToldLast
  <2>. HIDE DEF fb, b, qb
  <2>5. fb \in Host /\ Len(fb.params) = Len(f.params) /\ ~fb.params[n].gone
    BY <1>9, <2>3 DEF Touched
  <2>6. {q1.idx : q1 \in fb.params[n].planes} = 0 .. (ExpectedPlanes(c.format) - 1)
    BY <2>1, <2>3
  <2>7. \A q1 \in fb.params[n].planes : q1.stride >= c.width BY <1>5, <2>0, <2>3
  <2>. DEFINE fm == Told(fb, m)
  <2>8. Touched(fb, fm, n)
    BY <1>2, <2>3, <2>5, <2>6, <2>7, CreateTouches DEF m
  <2>9. r = Append(qb, m) BY <1>4, <1>11 DEF qa, a, qb, b
  <2>10. r \in Seq(Request) /\ ToldAll(h, r) = fm
    BY <1>4, <2>4, <2>9, AppendProperties, ToldLast
  <2>. HIDE DEF fm
  <2>11. Touched(f, fm, n) BY <1>7, <2>3, <2>8, TouchedOnce
  <2>. QED BY <2>10, <2>11 DEF f, r
<1>. QED BY <1>3, <1>10, <1>11

-----------------------------------------------------------------------------
(* Fresh descriptors                                                       *)

LEMMA LowestIs ==
  ASSUME NEW S, S \subseteq Nat, S # {}
  PROVE  Lowest(S) \in S
<1>1. \E n \in S : \A k \in S : n =< k BY Least
<1>. QED BY <1>1 DEF Lowest

\* A number above the taken ones is always left.
LEMMA SomeFree ==
  ASSUME NEW T, IsFiniteSet(T), NEW m \in Nat, Cardinality(T) < m
  PROVE  /\ Lowest((1 .. m) \ T) \in Nat
         /\ Lowest((1 .. m) \ T) \notin T
<1>1. Cardinality(1 .. m) = m /\ IsFiniteSet(1 .. m)
  BY FS_Interval
<1>2. ASSUME (1 .. m) \ T = {} PROVE FALSE
  <2>1. 1 .. m \subseteq T BY <1>2
  <2>2. Cardinality(1 .. m) =< Cardinality(T) BY <2>1, FS_Subset
  <2>3. Cardinality(T) \in Nat BY FS_CardinalityType
  <2>. QED BY <1>1, <2>2, <2>3
<1>3. Lowest((1 .. m) \ T) \in (1 .. m) \ T
  BY <1>2, LowestIs
<1>. QED BY <1>3

FreeUpTo(n) ==
  CHOOSE f : f = [k \in 0 .. n |-> IF k = 0 THEN <<>>
    ELSE Append(f[k - 1], Lowest((1 .. (Cardinality(open) + n)) \ (open \cup Range(f[k - 1]))))]

LEMMA DupIs ==
  ASSUME NEW n \in {1, 2}, open \in SUBSET Nat, IsFiniteSet(open)
  PROVE  /\ Dup(n) \in Seq(Nat) /\ Len(Dup(n)) = n
         /\ \A i \in 1 .. n : Dup(n)[i] \in Nat /\ Dup(n)[i] \notin open
         /\ \A i, k \in 1 .. n : Dup(n)[i] = Dup(n)[k] => i = k
<1>. DEFINE m == Cardinality(open) + n
            Low(s) == Lowest((1 .. m) \ (open \cup Range(s)))
            Grow(s) == Append(s, Low(s))
            a1 == Grow(<<>>)
            a2 == Grow(a1)
            f == [k \in 0 .. n |-> IF k = 0 THEN <<>> ELSE IF k = 1 THEN a1 ELSE a2]
            e == FreeUpTo(n)
<1>1. Cardinality(open) \in Nat /\ m \in Nat
  BY FS_CardinalityType
<1>2. Dup(n) = e[n]
  BY DEF Dup, FreeUpTo
<1>3. e = CHOOSE h : h = [k \in 0 .. n |-> IF k = 0 THEN <<>> ELSE Grow(h[k - 1])]
  BY DEF FreeUpTo
<1>. HIDE DEF Grow
<1>4. f = [k \in 0 .. n |-> IF k = 0 THEN <<>> ELSE Grow(f[k - 1])]
  <2>. DEFINE y(k) == IF k = 0 THEN <<>> ELSE Grow(f[k - 1])
  <2>0. f = [k \in 0 .. n |-> f[k]] OBVIOUS
  <2>1. 0 \in 0 .. n /\ 1 \in 0 .. n /\ (n = 2 => 2 \in 0 .. n) OBVIOUS
  <2>2. f[0] = <<>> /\ f[1] = a1 /\ (n = 2 => f[2] = a2) BY <2>1
  <2>. HIDE DEF f
  <2>3. \A k \in 0 .. n : f[k] = y(k)
    <3>. TAKE k \in 0 .. n
    <3>1. CASE k = 0 BY <2>2, <3>1
    <3>2. CASE k = 1
      <4>1. y(k) = Grow(f[0]) BY <3>2
      <4>. QED BY <2>2, <3>2, <4>1
    <3>3. CASE k = 2
      <4>1. y(k) = Grow(f[1]) /\ n = 2 BY <3>3
      <4>. QED BY <2>2, <3>3, <4>1
    <3>. QED BY <3>1, <3>2, <3>3
  <2>. QED BY <2>0, <2>3
<1>. HIDE DEF f, e
<1>5. e = [k \in 0 .. n |-> IF k = 0 THEN <<>> ELSE Grow(e[k - 1])]
  BY <1>3, <1>4
<1>6. e[0] = <<>> /\ e[1] = a1 /\ (n = 2 => e[2] = a2)
  <2>1. 0 \in 0 .. n /\ 1 \in 0 .. n /\ (n = 2 => 2 \in 0 .. n) OBVIOUS
  <2>2. e[0] = <<>> BY <1>5, <2>1
  <2>3. e[1] = Grow(e[0]) BY <1>5, <2>1
  <2>4. n = 2 => e[2] = Grow(e[1]) BY <1>5, <2>1
  <2>. QED BY <2>2, <2>3, <2>4
<1>. HIDE DEF m, Low
<1>7. Range(<<>>) = {} BY DEF Range
<1>. DEFINE x1 == Low(<<>>)
            x2 == Low(a1)
<1>8. x1 \in Nat /\ x1 \notin open
  <2>1. x1 = Lowest((1 .. m) \ open) BY <1>7 DEF Low
  <2>2. Cardinality(open) < m BY <1>1 DEF m
  <2>. QED BY <1>1, <2>1, <2>2, SomeFree
<1>9. a1 \in Seq(Nat) /\ Len(a1) = 1 /\ a1[1] = x1
  <2>1. a1 = Append(<<>>, x1) BY DEF Grow
  <2>. HIDE DEF x1, a1
  <2>2. Append(<<>>, x1) = <<x1>> OBVIOUS
  <2>. QED BY <1>8, <2>1, <2>2
<1>10. Range(a1) = {x1}
  <2>. HIDE DEF x1, a1
  <2>. QED BY <1>9 DEF Range
<1>11. ASSUME n = 2 PROVE x2 \in Nat /\ x2 \notin open \cup {x1}
  <2>. DEFINE T == open \cup {x1}
  <2>0. x2 = Lowest((1 .. m) \ (open \cup T)) BY <1>10 DEF Low
  <2>1. IsFiniteSet(T) /\ Cardinality(T) = Cardinality(open) + 1
    <3>. HIDE DEF x1
    <3>. QED BY <1>8, FS_AddElement
  <2>2. Cardinality(T) < m BY <1>1, <1>11, <2>1 DEF m
  <2>3. open \cup T = T OBVIOUS
  <2>. HIDE DEF T
  <2>4. Lowest((1 .. m) \ T) \in Nat /\ Lowest((1 .. m) \ T) \notin T
    BY <1>1, <2>1, <2>2, SomeFree
  <2>. QED BY <2>0, <2>3, <2>4 DEF T
<1>12. n = 2 => a2 \in Seq(Nat) /\ Len(a2) = 2 /\ a2[1] = x1 /\ a2[2] = x2
  <2>. HAVE n = 2
  <2>1. a2 = Append(a1, x2) BY DEF Grow
  <2>2. x2 \in Nat BY <1>11
  <2>. HIDE DEF x1, x2, a1, a2
  <2>3. Append(a1, x2) \in Seq(Nat) /\ Len(Append(a1, x2)) = Len(a1) + 1
        /\ Append(a1, x2)[Len(a1) + 1] = x2
        /\ \A i \in 1 .. Len(a1) : Append(a1, x2)[i] = a1[i]
    <3>1. a1 \in Seq(Nat) BY <1>9
    <3>. QED BY ONLY <3>1, <2>2, AppendIs
  <2>. QED BY <1>9, <2>1, <2>3
<1>. HIDE DEF x1, x2, a1, a2
<1>13. CASE n = 1
  BY <1>2, <1>6, <1>8, <1>9, <1>13
<1>14. CASE n = 2
  <2>1. Dup(n) = a2 BY <1>2, <1>6, <1>14
  <2>2. \A i \in 1 .. n : a2[i] = IF i = 1 THEN x1 ELSE x2 BY <1>12, <1>14
  <2>. QED BY <1>8, <1>11, <1>12, <1>14, <2>1, <2>2
<1>. QED BY <1>13, <1>14

-----------------------------------------------------------------------------
(* Ownership, operation by operation                                       *)

HasOwner(q, pd, cs, bs, x) ==
  \/ InQueue(q, x)
  \/ \E p \in ParamsIds : InPlanes(pd[p], x)
  \/ \E c \in cs : InSync(c.sync, x)
  \/ \E b \in 1 .. Len(bs) : InSync(bs[b].sync, x)

LEMMA OwnedHas ==
  ASSUME NEW q, NEW pd, NEW cs, NEW bs, NEW fds, Owned(q, pd, cs, bs, fds)
  PROVE  \A x : x \in fds <=> HasOwner(q, pd, cs, bs, x)
BY DEF Owned, HasOwner

\* The owners of the first tuple hold no more than those of the second.
HoldLess(q2, pd2, cs2, bs2, q, pd, cs, bs) ==
  /\ \A x : InQueue(q2, x) => InQueue(q, x)
  /\ \A p \in ParamsIds : \A x : InPlanes(pd2[p], x) => InPlanes(pd[p], x)
  /\ cs2 \subseteq cs
  /\ Len(bs2) = Len(bs)
  /\ \A b \in 1 .. Len(bs) : \A x : InSync(bs2[b].sync, x) => InSync(bs[b].sync, x)

\* The open descriptors are those with an owner.
Exact(q, pd, cs, bs, fds) == \A x : x \in fds <=> HasOwner(q, pd, cs, bs, x)

\* Owners give descriptors up, and these are closed.
LEMMA OwnedDrop ==
  ASSUME NEW q, NEW pd, NEW cs, NEW bs, NEW fds, Owned(q, pd, cs, bs, fds),
         NEW q2, NEW pd2, NEW cs2, NEW bs2, NEW fds2,
         HoldLess(q2, pd2, cs2, bs2, q, pd, cs, bs), Exact(q2, pd2, cs2, bs2, fds2)
  PROVE  Owned(q2, pd2, cs2, bs2, fds2)
<1>1. \A x \in fds2 : \/ InQueue(q2, x)
                      \/ \E p \in ParamsIds : InPlanes(pd2[p], x)
                      \/ \E c \in cs2 : InSync(c.sync, x)
                      \/ \E b \in 1 .. Len(bs2) : InSync(bs2[b].sync, x)
  BY DEF HasOwner, Exact
<1>2. \A x : InQueue(q2, x) =>
       /\ x \in fds2
       /\ \A p \in ParamsIds : ~InPlanes(pd2[p], x)
       /\ \A c \in cs2 : ~InSync(c.sync, x)
       /\ \A b \in 1 .. Len(bs2) : ~InSync(bs2[b].sync, x)
  BY DEF HasOwner, Owned, Exact, HoldLess
<1>3. \A p \in ParamsIds : \A x : InPlanes(pd2[p], x) =>
       /\ x \in fds2
       /\ \A k \in ParamsIds : InPlanes(pd2[k], x) => p = k
       /\ \A c \in cs2 : ~InSync(c.sync, x)
       /\ \A b \in 1 .. Len(bs2) : ~InSync(bs2[b].sync, x)
  BY DEF HasOwner, Owned, Exact, HoldLess
<1>4. \A c \in cs2 : \A x : InSync(c.sync, x) =>
       /\ x \in fds2
       /\ \A e \in cs2 : InSync(e.sync, x) => c = e
       /\ \A b \in 1 .. Len(bs2) : ~InSync(bs2[b].sync, x)
  BY DEF HasOwner, Owned, Exact, HoldLess
<1>5. \A b \in 1 .. Len(bs2) : \A x : InSync(bs2[b].sync, x) =>
       /\ x \in fds2
       /\ \A k \in 1 .. Len(bs2) : InSync(bs2[k].sync, x) => b = k
  BY DEF HasOwner, Owned, Exact, HoldLess
<1>. QED BY <1>1, <1>2, <1>3, <1>4, <1>5 DEF Owned

\* The planes of p go into the queue.
LEMMA OwnedQueued ==
  ASSUME NEW q, NEW pd, NEW cs, NEW bs, NEW fds, Owned(q, pd, cs, bs, fds),
         NEW p \in ParamsIds, NEW q2, NEW pd2,
         \A x : InQueue(q2, x) <=> InQueue(q, x) \/ InPlanes(pd[p], x),
         \A k \in ParamsIds : k # p => pd2[k] = pd[k], pd2[p] = Absent
  PROVE  Owned(q2, pd2, cs, bs, fds)
<1>0. \A x : ~InPlanes(pd2[p], x) BY DEF InPlanes
<1>1. \A x \in fds : \/ InQueue(q2, x)
                     \/ \E k \in ParamsIds : InPlanes(pd2[k], x)
                     \/ \E c \in cs : InSync(c.sync, x)
                     \/ \E b \in 1 .. Len(bs) : InSync(bs[b].sync, x)
  BY DEF Owned
<1>2. \A x : InQueue(q2, x) =>
       /\ x \in fds
       /\ \A k \in ParamsIds : ~InPlanes(pd2[k], x)
       /\ \A c \in cs : ~InSync(c.sync, x)
       /\ \A b \in 1 .. Len(bs) : ~InSync(bs[b].sync, x)
  BY <1>0 DEF Owned
<1>3. \A i \in ParamsIds : \A x : InPlanes(pd2[i], x) =>
       /\ x \in fds
       /\ \A k \in ParamsIds : InPlanes(pd2[k], x) => i = k
       /\ \A c \in cs : ~InSync(c.sync, x)
       /\ \A b \in 1 .. Len(bs) : ~InSync(bs[b].sync, x)
  BY <1>0 DEF Owned
<1>. QED BY <1>1, <1>2, <1>3 DEF Owned

\* The descriptors of a create go to the buffer that came of it.
LEMMA OwnedRegistered ==
  ASSUME NEW q, NEW pd, NEW cs, NEW bs, NEW fds, Owned(q, pd, cs, bs, fds),
         NEW c \in cs, NEW bs2, Len(bs) \in Nat, Len(bs2) = Len(bs) + 1,
         \A b \in 1 .. Len(bs) : bs2[b] = bs[b], bs2[Len(bs) + 1].sync = c.sync
  PROVE  Owned(q, pd, cs \ {c}, bs2, fds)
<1>. DEFINE n == Len(bs) + 1
<1>0. /\ n \in Nat /\ n \in 1 .. Len(bs2) /\ n \notin 1 .. Len(bs)
      /\ \A b \in 1 .. Len(bs2) : b = n \/ b \in 1 .. Len(bs)
      /\ \A b \in 1 .. Len(bs) : b \in 1 .. Len(bs2)
  OBVIOUS
<1>a. bs2[n].sync = c.sync OBVIOUS
<1>. HIDE DEF n
<1>1. \A x \in fds : \/ InQueue(q, x)
                     \/ \E p \in ParamsIds : InPlanes(pd[p], x)
                     \/ \E e \in cs \ {c} : InSync(e.sync, x)
                     \/ \E b \in 1 .. Len(bs2) : InSync(bs2[b].sync, x)
  <2>. TAKE x \in fds
  <2>1. \/ InQueue(q, x)
        \/ \E p \in ParamsIds : InPlanes(pd[p], x)
        \/ \E e \in cs : InSync(e.sync, x)
        \/ \E b \in 1 .. Len(bs) : InSync(bs[b].sync, x)
    BY DEF Owned
  <2>2. CASE \E e \in cs : InSync(e.sync, x)
    BY <1>0, <1>a, <2>2
  <2>3. CASE \E b \in 1 .. Len(bs) : InSync(bs[b].sync, x)
    BY <1>0, <2>3
  <2>. QED BY <2>1, <2>2, <2>3
<1>2. \A x : InQueue(q, x) =>
       /\ x \in fds
       /\ \A p \in ParamsIds : ~InPlanes(pd[p], x)
       /\ \A e \in cs \ {c} : ~InSync(e.sync, x)
       /\ \A b \in 1 .. Len(bs2) : ~InSync(bs2[b].sync, x)
  BY <1>0, <1>a DEF Owned
<1>3. \A p \in ParamsIds : \A x : InPlanes(pd[p], x) =>
       /\ x \in fds
       /\ \A k \in ParamsIds : InPlanes(pd[k], x) => p = k
       /\ \A e \in cs \ {c} : ~InSync(e.sync, x)
       /\ \A b \in 1 .. Len(bs2) : ~InSync(bs2[b].sync, x)
  BY <1>0, <1>a DEF Owned
<1>4. \A d \in cs \ {c} : \A x : InSync(d.sync, x) =>
       /\ x \in fds
       /\ \A e \in cs \ {c} : InSync(e.sync, x) => d = e
       /\ \A b \in 1 .. Len(bs2) : ~InSync(bs2[b].sync, x)
  BY <1>0, <1>a DEF Owned
<1>5. \A b \in 1 .. Len(bs2) : \A x : InSync(bs2[b].sync, x) =>
       /\ x \in fds
       /\ \A k \in 1 .. Len(bs2) : InSync(bs2[k].sync, x) => b = k
  BY <1>0, <1>a DEF Owned
<1>. QED BY <1>1, <1>2, <1>3, <1>4, <1>5 DEF Owned

\* A plane with a fresh descriptor.
LEMMA OwnedPlane ==
  ASSUME NEW q, NEW pd, NEW cs, NEW bs, NEW fds, Owned(q, pd, cs, bs, fds),
         NEW p \in ParamsIds, NEW fd, fd \notin fds, NEW pd2,
         \A x : InPlanes(pd2[p], x) <=> InPlanes(pd[p], x) \/ x = fd,
         \A k \in ParamsIds : k # p => pd2[k] = pd[k]
  PROVE  Owned(q, pd2, cs, bs, fds \cup {fd})
<1>0. \A k \in ParamsIds : \A x : InPlanes(pd2[k], x) =>
        InPlanes(pd[k], x) \/ (k = p /\ x = fd)
  OBVIOUS
<1>a. \A x : HasOwner(q, pd, cs, bs, x) => x \in fds BY OwnedHas
<1>1. \A x \in fds \cup {fd} :
        \/ InQueue(q, x)
        \/ \E k \in ParamsIds : InPlanes(pd2[k], x)
        \/ \E c \in cs : InSync(c.sync, x)
        \/ \E b \in 1 .. Len(bs) : InSync(bs[b].sync, x)
  <2>. TAKE x \in fds \cup {fd}
  <2>1. CASE x = fd BY <2>1
  <2>2. CASE x \in fds
    <3>1. \/ InQueue(q, x)
          \/ \E k \in ParamsIds : InPlanes(pd[k], x)
          \/ \E c \in cs : InSync(c.sync, x)
          \/ \E b \in 1 .. Len(bs) : InSync(bs[b].sync, x)
      BY <2>2 DEF Owned
    <3>2. ASSUME NEW k \in ParamsIds, InPlanes(pd[k], x) PROVE InPlanes(pd2[k], x)
      BY <3>2
    <3>. QED BY <3>1, <3>2
  <2>. QED BY <2>1, <2>2
<1>2. \A x : InQueue(q, x) =>
       /\ x \in fds \cup {fd}
       /\ \A k \in ParamsIds : ~InPlanes(pd2[k], x)
       /\ \A c \in cs : ~InSync(c.sync, x)
       /\ \A b \in 1 .. Len(bs) : ~InSync(bs[b].sync, x)
  BY <1>0 DEF Owned
<1>3. \A i \in ParamsIds : \A x : InPlanes(pd2[i], x) =>
       /\ x \in fds \cup {fd}
       /\ \A k \in ParamsIds : InPlanes(pd2[k], x) => i = k
       /\ \A c \in cs : ~InSync(c.sync, x)
       /\ \A b \in 1 .. Len(bs) : ~InSync(bs[b].sync, x)
  <2>. SUFFICES ASSUME NEW i \in ParamsIds, NEW x, InPlanes(pd2[i], x)
                PROVE  /\ x \in fds \cup {fd}
                       /\ \A k \in ParamsIds : InPlanes(pd2[k], x) => i = k
                       /\ \A c \in cs : ~InSync(c.sync, x)
                       /\ \A b \in 1 .. Len(bs) : ~InSync(bs[b].sync, x)
    OBVIOUS
  <2>1. CASE x = fd
    <3>1. ~HasOwner(q, pd, cs, bs, x) BY <1>a, <2>1
    <3>2. \A k \in ParamsIds : InPlanes(pd2[k], x) => k = p BY <1>0, <3>1 DEF HasOwner
    <3>. QED BY <2>1, <3>1, <3>2 DEF HasOwner
  <2>2. CASE x # fd
    <3>1. \A k \in ParamsIds : InPlanes(pd2[k], x) => InPlanes(pd[k], x) BY <1>0, <2>2
    <3>. QED BY <3>1 DEF Owned
  <2>. QED BY <2>1, <2>2
<1>4. \A c \in cs : \A x : InSync(c.sync, x) =>
       /\ x \in fds \cup {fd}
       /\ \A e \in cs : InSync(e.sync, x) => c = e
       /\ \A b \in 1 .. Len(bs) : ~InSync(bs[b].sync, x)
  BY DEF Owned
<1>5. \A b \in 1 .. Len(bs) : \A x : InSync(bs[b].sync, x) =>
       /\ x \in fds \cup {fd}
       /\ \A k \in 1 .. Len(bs) : InSync(bs[k].sync, x) => b = k
  BY DEF Owned
<1>. QED BY <1>1, <1>2, <1>3, <1>4, <1>5 DEF Owned

\* A create with fresh synchronization descriptors.
LEMMA OwnedCreate ==
  ASSUME NEW q, NEW pd, NEW cs, NEW bs, NEW fds, Owned(q, pd, cs, bs, fds),
         NEW c, \A x : InSync(c.sync, x) => x \notin fds,
         NEW fds2, \A x : x \in fds2 <=> x \in fds \/ InSync(c.sync, x)
  PROVE  Owned(q, pd, cs \cup {c}, bs, fds2)
<1>a. \A x : HasOwner(q, pd, cs, bs, x) <=> x \in fds BY OwnedHas
<1>b. \A x : InSync(c.sync, x) => ~HasOwner(q, pd, cs, bs, x) BY <1>a
<1>1. \A x \in fds2 :
        \/ InQueue(q, x)
        \/ \E p \in ParamsIds : InPlanes(pd[p], x)
        \/ \E e \in cs \cup {c} : InSync(e.sync, x)
        \/ \E b \in 1 .. Len(bs) : InSync(bs[b].sync, x)
  BY <1>a DEF HasOwner
<1>2. \A x : InQueue(q, x) =>
       /\ x \in fds2
       /\ \A p \in ParamsIds : ~InPlanes(pd[p], x)
       /\ \A e \in cs \cup {c} : ~InSync(e.sync, x)
       /\ \A b \in 1 .. Len(bs) : ~InSync(bs[b].sync, x)
  BY <1>b DEF Owned, HasOwner
<1>3. \A p \in ParamsIds : \A x : InPlanes(pd[p], x) =>
       /\ x \in fds2
       /\ \A k \in ParamsIds : InPlanes(pd[k], x) => p = k
       /\ \A e \in cs \cup {c} : ~InSync(e.sync, x)
       /\ \A b \in 1 .. Len(bs) : ~InSync(bs[b].sync, x)
  BY <1>b DEF Owned, HasOwner
<1>4. \A d \in cs \cup {c} : \A x : InSync(d.sync, x) =>
       /\ x \in fds2
       /\ \A e \in cs \cup {c} : InSync(e.sync, x) => d = e
       /\ \A b \in 1 .. Len(bs) : ~InSync(bs[b].sync, x)
  BY <1>b DEF Owned, HasOwner
<1>5. \A b \in 1 .. Len(bs) : \A x : InSync(bs[b].sync, x) =>
       /\ x \in fds2
       /\ \A k \in 1 .. Len(bs) : InSync(bs[k].sync, x) => b = k
  BY DEF Owned
<1>. QED BY <1>1, <1>2, <1>3, <1>4, <1>5 DEF Owned

\* A buffer with fresh synchronization descriptors.
LEMMA OwnedBuffer ==
  ASSUME NEW q, NEW pd, NEW cs, NEW bs, NEW fds, Owned(q, pd, cs, bs, fds),
         NEW s, \A x : InSync(s, x) => x \notin fds,
         NEW fds2, \A x : x \in fds2 <=> x \in fds \/ InSync(s, x),
         NEW bs2, Len(bs) \in Nat, Len(bs2) = Len(bs) + 1,
         \A b \in 1 .. Len(bs) : bs2[b] = bs[b], bs2[Len(bs) + 1].sync = s
  PROVE  Owned(q, pd, cs, bs2, fds2)
<1>. DEFINE n == Len(bs) + 1
<1>0. /\ n \in Nat /\ n \in 1 .. Len(bs2) /\ n \notin 1 .. Len(bs)
      /\ \A b \in 1 .. Len(bs2) : b = n \/ b \in 1 .. Len(bs)
      /\ \A b \in 1 .. Len(bs) : b \in 1 .. Len(bs2)
  OBVIOUS
<1>c. bs2[n].sync = s OBVIOUS
<1>. HIDE DEF n
<1>a. \A x : HasOwner(q, pd, cs, bs, x) <=> x \in fds BY OwnedHas
<1>b. \A x : InSync(s, x) => ~HasOwner(q, pd, cs, bs, x) BY <1>a
<1>d. \A b \in 1 .. Len(bs2) : \A x : InSync(bs2[b].sync, x) =>
        \/ b = n /\ InSync(s, x)
        \/ b \in 1 .. Len(bs) /\ InSync(bs[b].sync, x)
  BY <1>0, <1>c
<1>1. \A x \in fds2 :
        \/ InQueue(q, x)
        \/ \E p \in ParamsIds : InPlanes(pd[p], x)
        \/ \E e \in cs : InSync(e.sync, x)
        \/ \E b \in 1 .. Len(bs2) : InSync(bs2[b].sync, x)
  <2>. TAKE x \in fds2
  <2>1. CASE InSync(s, x) BY <1>0, <1>c, <2>1
  <2>2. CASE x \in fds
    <3>1. HasOwner(q, pd, cs, bs, x) BY <1>a, <2>2
    <3>2. ASSUME NEW b \in 1 .. Len(bs), InSync(bs[b].sync, x)
          PROVE  b \in 1 .. Len(bs2) /\ InSync(bs2[b].sync, x)
      BY <1>0, <3>2
    <3>. QED BY <3>1, <3>2 DEF HasOwner
  <2>. QED BY <2>1, <2>2
<1>2. \A x : InQueue(q, x) =>
       /\ x \in fds2
       /\ \A p \in ParamsIds : ~InPlanes(pd[p], x)
       /\ \A e \in cs : ~InSync(e.sync, x)
       /\ \A b \in 1 .. Len(bs2) : ~InSync(bs2[b].sync, x)
  BY <1>b, <1>d DEF Owned, HasOwner
<1>3. \A p \in ParamsIds : \A x : InPlanes(pd[p], x) =>
       /\ x \in fds2
       /\ \A k \in ParamsIds : InPlanes(pd[k], x) => p = k
       /\ \A e \in cs : ~InSync(e.sync, x)
       /\ \A b \in 1 .. Len(bs2) : ~InSync(bs2[b].sync, x)
  BY <1>b, <1>d DEF Owned, HasOwner
<1>4. \A d \in cs : \A x : InSync(d.sync, x) =>
       /\ x \in fds2
       /\ \A e \in cs : InSync(e.sync, x) => d = e
       /\ \A b \in 1 .. Len(bs2) : ~InSync(bs2[b].sync, x)
  BY <1>b, <1>d DEF Owned, HasOwner
<1>5. \A b \in 1 .. Len(bs2) : \A x : InSync(bs2[b].sync, x) =>
       /\ x \in fds2
       /\ \A k \in 1 .. Len(bs2) : InSync(bs2[k].sync, x) => b = k
  <2>. SUFFICES ASSUME NEW b \in 1 .. Len(bs2), NEW x, InSync(bs2[b].sync, x)
                PROVE  /\ x \in fds2
                       /\ \A k \in 1 .. Len(bs2) : InSync(bs2[k].sync, x) => b = k
    OBVIOUS
  <2>1. CASE InSync(s, x)
    <3>1. \A k \in 1 .. Len(bs2) : InSync(bs2[k].sync, x) => k = n
      BY <1>b, <1>d, <2>1 DEF HasOwner
    <3>. QED BY <2>1, <3>1
  <2>2. CASE ~InSync(s, x)
    <3>1. \A k \in 1 .. Len(bs2) : InSync(bs2[k].sync, x) =>
            k \in 1 .. Len(bs) /\ InSync(bs[k].sync, x)
      BY <1>d, <2>2
    <3>. QED BY <3>1 DEF Owned
  <2>. QED BY <2>1, <2>2
<1>. QED BY <1>1, <1>2, <1>3, <1>4, <1>5 DEF Owned

LEMMA FdsIs ==
  ASSUME NEW s \in Seq(Plane)
  PROVE  \A x : x \in Fds(s) <=> InPlanes(s, x)
<1>1. s # Absent BY NotAbsent
<1>2. DOMAIN s = 1 .. Len(s) OBVIOUS
<1>. QED BY <1>1, <1>2 DEF Fds, InPlanes

LEMMA SyncIs ==
  ASSUME NEW s \in Seq(Nat)
  PROVE  \A x : x \in Range(s) <=> InSync(s, x)
<1>1. DOMAIN s = 1 .. Len(s) OBVIOUS
<1>. QED BY <1>1 DEF Range, InSync

LEMMA HeldIs ==
  ASSUME NEW S, S \subseteq Create
  PROVE  \A x : x \in Held(S) <=> \E c \in S : InSync(c.sync, x)
<1>1. \A c \in S : c.sync \in Seq(Nat) BY DEF Create
<1>2. \A c \in S : \A x : x \in Range(c.sync) <=> InSync(c.sync, x) BY <1>1, SyncIs
<1>. QED BY <1>2 DEF Held

LEMMA QueueFdsIs ==
  ASSUME queue \in Seq(Request)
  PROVE  \A x : x \in QueueFds <=> InQueue(queue, x)
<1>1. DOMAIN queue = 1 .. Len(queue) OBVIOUS
<1>. QED BY <1>1 DEF QueueFds, InQueue

LEMMA PendingFdsIs ==
  ASSUME pending \in [ParamsIds -> Seq(Plane) \cup {Absent}]
  PROVE  \A x : x \in PendingFds <=> \E p \in ParamsIds : InPlanes(pending[p], x)
<1>1. ASSUME NEW p \in ParamsIds, NEW x
      PROVE  x \in (IF pending[p] = Absent THEN {} ELSE Fds(pending[p])) <=> InPlanes(pending[p], x)
  <2>1. CASE pending[p] = Absent BY <2>1 DEF InPlanes
  <2>2. CASE pending[p] # Absent
    <3>1. pending[p] \in Seq(Plane) BY <2>2
    <3>. QED BY <2>2, <3>1, FdsIs
  <2>. QED BY <2>1, <2>2
<1>. QED BY <1>1 DEF PendingFds

LEMMA SyncFdsIs ==
  ASSUME TypeInv
  PROVE  \A x : x \in SyncFds <=> \/ \E c \in creates : InSync(c.sync, x)
                                  \/ \E b \in 1 .. Len(buffers) : InSync(buffers[b].sync, x)
<1>1. \A x : x \in Held(creates) <=> \E c \in creates : InSync(c.sync, x)
  BY HeldIs DEF TypeInv
<1>2. DOMAIN buffers = 1 .. Len(buffers) BY DEF TypeInv
<1>3. \A b \in 1 .. Len(buffers) : buffers[b].sync \in Seq(Nat)
  <2>. TAKE b \in 1 .. Len(buffers)
  <2>1. buffers[b] \in NativeBuffer BY DEF TypeInv
  <2>. QED BY <2>1 DEF NativeBuffer
<1>4. \A b \in 1 .. Len(buffers) : \A x : x \in Range(buffers[b].sync) <=> InSync(buffers[b].sync, x)
  BY <1>3, SyncIs
<1>. QED BY <1>1, <1>2, <1>4 DEF SyncFds

LEMMA OwnImplies ==
  ASSUME TypeInv, OwnInv
  PROVE  DescriptorsOwned
<1>1. \A x : x \in QueueFds <=> InQueue(queue, x) BY QueueFdsIs DEF TypeInv
<1>2. \A x : x \in PendingFds <=> \E p \in ParamsIds : InPlanes(pending[p], x)
  BY PendingFdsIs DEF TypeInv
<1>3. \A x : x \in SyncFds <=> \/ \E c \in creates : InSync(c.sync, x)
                               \/ \E b \in 1 .. Len(buffers) : InSync(buffers[b].sync, x)
  BY SyncFdsIs
<1>4. DOMAIN buffers = 1 .. Len(buffers) BY DEF TypeInv
<1>5. \A b \in 1 .. Len(buffers) : \A x : x \in Range(buffers[b].sync) <=> InSync(buffers[b].sync, x)
  <2>. TAKE b \in 1 .. Len(buffers)
  <2>1. buffers[b] \in NativeBuffer BY DEF TypeInv
  <2>2. buffers[b].sync \in Seq(Nat) BY <2>1 DEF NativeBuffer
  <2>. QED BY <2>2, SyncIs
<1>6. \A c \in creates : \A x : x \in Range(c.sync) <=> InSync(c.sync, x)
  <2>. TAKE c \in creates
  <2>1. c.sync \in Seq(Nat) BY DEF TypeInv, Create
  <2>. QED BY <2>1, SyncIs
<1>7. Owned(queue, pending, creates, buffers, open) /\ (life = "closed" => open = {})
  BY DEF OwnInv
<1>8. \A x : x \in open <=> HasOwner(queue, pending, creates, buffers, x)
  BY <1>7, OwnedHas
<1>9. open = QueueFds \cup PendingFds \cup SyncFds
  BY <1>1, <1>2, <1>3, <1>8 DEF HasOwner
<1>10. QueueFds \cap PendingFds = {} /\ (QueueFds \cup PendingFds) \cap SyncFds = {}
  BY <1>1, <1>2, <1>3, <1>7 DEF Owned
<1>11. \A c \in creates, b \in DOMAIN buffers : Range(c.sync) \cap Range(buffers[b].sync) = {}
  BY <1>4, <1>5, <1>6, <1>7 DEF Owned
<1>12. \A b, k \in DOMAIN buffers : b # k => Range(buffers[b].sync) \cap Range(buffers[k].sync) = {}
  <2>. SUFFICES ASSUME NEW b \in DOMAIN buffers, NEW k \in DOMAIN buffers, NEW x,
                       x \in Range(buffers[b].sync), x \in Range(buffers[k].sync)
                PROVE  b = k
    OBVIOUS
  <2>1. b \in 1 .. Len(buffers) /\ k \in 1 .. Len(buffers) BY <1>4
  <2>2. InSync(buffers[b].sync, x) /\ InSync(buffers[k].sync, x) BY <1>5, <2>1
  <2>. QED BY <1>7, <2>1, <2>2 DEF Owned
<1>. QED BY <1>7, <1>9, <1>10, <1>11, <1>12 DEF DescriptorsOwned

-----------------------------------------------------------------------------
(* Types                                                                   *)

LEMMA BufferIs ==
  ASSUME NEW planes \in Seq(Plane), NEW sync \in Seq(Nat)
  PROVE  LET b == Buffer(planes, sync)
         IN  /\ b \in NativeBuffer /\ b.sync = sync /\ ~b.implicit /\ b.state = "idle"
             /\ Len(b.planes) = Len(planes)
             /\ \A i \in 1 .. Len(planes) : b.planes[i] = planes[i].buf
<1>. DEFINE b == Buffer(planes, sync)
            s == [i \in DOMAIN planes |-> planes[i].buf]
<1>0. DOMAIN planes = 1 .. Len(planes) /\ Len(planes) \in Nat OBVIOUS
<1>1. \A i \in 1 .. Len(planes) : planes[i] \in Plane OBVIOUS
<1>2. \A i \in 1 .. Len(planes) : planes[i].buf \in Dmabufs BY <1>1 DEF Plane
<1>3. s \in Seq(Dmabufs) /\ Len(s) = Len(planes) /\ \A i \in 1 .. Len(planes) : s[i] = planes[i].buf
  <2>1. s = [i \in 1 .. Len(planes) |-> planes[i].buf] BY <1>0
  <2>. QED BY <1>0, <1>2, <2>1
<1>4. b = [planes |-> s, sync |-> sync, implicit |-> FALSE, state |-> "idle"] BY DEF Buffer
<1>. HIDE DEF b, s
<1>5. b \in NativeBuffer /\ b.planes = s /\ b.sync = sync /\ ~b.implicit /\ b.state = "idle"
  BY <1>3, <1>4 DEF NativeBuffer
<1>. QED BY <1>3, <1>5 DEF b

LEMMA BuffersHave ==
  ASSUME TypeInv
  PROVE  /\ Len(buffers) \in Nat /\ DOMAIN buffers = 1 .. Len(buffers)
         /\ \A b \in 1 .. Len(buffers) : /\ buffers[b] \in NativeBuffer
                                         /\ buffers[b].planes \in Seq(Dmabufs)
                                         /\ buffers[b].sync \in Seq(Nat)
<1>1. buffers \in Seq(NativeBuffer) BY DEF TypeInv
<1>2. Len(buffers) \in Nat /\ DOMAIN buffers = 1 .. Len(buffers) BY <1>1
<1>3. \A b \in 1 .. Len(buffers) : buffers[b] \in NativeBuffer BY <1>1
<1>. QED BY <1>2, <1>3 DEF NativeBuffer

\* The list of buffers grows by one, or one of them is replaced.
LEMMA BufferAdded ==
  ASSUME TypeInv, NEW b \in NativeBuffer, buffers' = Append(buffers, b)
  PROVE  /\ buffers' \in Seq(NativeBuffer) /\ Len(buffers') = Len(buffers) + 1
         /\ buffers'[Len(buffers) + 1] = b
         /\ \A i \in 1 .. Len(buffers) : buffers'[i] = buffers[i]
<1>1. buffers \in Seq(NativeBuffer) BY DEF TypeInv
<1>2. /\ Append(buffers, b) \in Seq(NativeBuffer) /\ Len(Append(buffers, b)) = Len(buffers) + 1
      /\ Append(buffers, b)[Len(buffers) + 1] = b
      /\ \A i \in 1 .. Len(buffers) : Append(buffers, b)[i] = buffers[i]
  BY ONLY <1>1, AppendIs, b \in NativeBuffer
<1>. QED BY <1>2

LEMMA BufferReplaced ==
  ASSUME TypeInv, NEW n \in 1 .. Len(buffers), NEW b \in NativeBuffer,
         buffers' = [buffers EXCEPT ![n] = b]
  PROVE  /\ buffers' \in Seq(NativeBuffer) /\ Len(buffers') = Len(buffers)
         /\ buffers'[n] = b
         /\ \A i \in 1 .. Len(buffers) : i # n => buffers'[i] = buffers[i]
<1>1. buffers \in Seq(NativeBuffer) BY DEF TypeInv
<1>2. /\ [buffers EXCEPT ![n] = b] \in Seq(NativeBuffer)
      /\ Len([buffers EXCEPT ![n] = b]) = Len(buffers)
      /\ [buffers EXCEPT ![n] = b][n] = b
      /\ \A i \in 1 .. Len(buffers) : i # n => [buffers EXCEPT ![n] = b][i] = buffers[i]
  BY <1>1, ExceptSeq
<1>. QED BY <1>2

LEMMA GoneIs ==
  Gone \in NativeBuffer /\ Gone.sync = <<>> /\ Gone.state = "gone" /\ ~Gone.implicit
<1>1. <<>> \in Seq(Dmabufs) /\ <<>> \in Seq(Nat) OBVIOUS
<1>. QED BY <1>1 DEF Gone, NativeBuffer

LEMMA QueueAdded ==
  ASSUME queue \in Seq(Request), NEW m \in Request, queue' = Append(queue, m)
  PROVE  /\ queue' \in Seq(Request) /\ Len(queue') = Len(queue) + 1
         /\ queue'[Len(queue) + 1] = m
         /\ \A i \in 1 .. Len(queue) : queue'[i] = queue[i]
         /\ Len(queue) \in Nat
<1>2. /\ Append(queue, m) \in Seq(Request) /\ Len(Append(queue, m)) = Len(queue) + 1
      /\ Append(queue, m)[Len(queue) + 1] = m
      /\ \A i \in 1 .. Len(queue) : Append(queue, m)[i] = queue[i]
  BY ONLY queue \in Seq(Request), m \in Request, AppendIs
<1>3. Len(queue) \in Nat OBVIOUS
<1>. QED BY <1>2, <1>3

LEMMA TypeInit ==
  ASSUME Init
  PROVE  TypeInv
<1>1. <<>> \in Seq(NativeBuffer) /\ <<>> \in Seq(Request) OBVIOUS
<1>2. IsFiniteSet({}) BY FS_EmptySet
<1>. QED BY <1>1, <1>2 DEF Init, TypeInv

\* Nothing that is typed changes, except what the conclusion lists.
LEMMA TypeKept ==
  ASSUME TypeInv, UNCHANGED waiting,
         map' \in [ParamsIds -> Nat],
         pending' \in [ParamsIds -> Seq(Plane) \cup {Absent}],
         creates' \in SUBSET Create, buffers' \in Seq(NativeBuffer),
         Len(buffers') >= Len(buffers), queue' \in Seq(Request),
         open' \in SUBSET Nat, IsFiniteSet(open'), gens' \in Nat,
         writing' \in SUBSET Dmabufs, life' \in {"running", "fatal", "closed"}
  PROVE  TypeInv'
<1>1. waiting # None => waiting.buffer \in 1 .. Len(buffers) /\ waiting \in [buffer : Nat, plane : Nat]
  BY DEF TypeInv
<1>2. Len(buffers) \in Nat /\ Len(buffers') \in Nat BY BuffersHave
<1>3. waiting' # None => /\ waiting'.buffer \in 1 .. Len(buffers')
                         /\ waiting' \in [buffer : Nat, plane : Nat]
  BY <1>1, <1>2
<1>. QED BY <1>3 DEF TypeInv

\* The typed facts of this state, for the steps that leave a variable alone.
LEMMA TypeOld ==
  ASSUME TypeInv
  PROVE  /\ map \in [ParamsIds -> Nat]
         /\ pending \in [ParamsIds -> Seq(Plane) \cup {Absent}]
         /\ creates \in SUBSET Create /\ buffers \in Seq(NativeBuffer)
         /\ queue \in Seq(Request) /\ open \in SUBSET Nat /\ IsFiniteSet(open)
         /\ gens \in Nat /\ writing \in SUBSET Dmabufs
         /\ life \in {"running", "fatal", "closed"}
         /\ Len(buffers) \in Nat
BY BuffersHave DEF TypeInv

LEMMA Closing ==
  ASSUME TypeInv, NEW S
  PROVE  open \ S \in SUBSET Nat /\ IsFiniteSet(open \ S)
<1>1. open \ S \in SUBSET open OBVIOUS
<1>. QED BY <1>1, FS_Subset DEF TypeInv

LEMMA Opening ==
  ASSUME TypeInv, NEW s \in Seq(Nat), Len(s) \in {1, 2}
  PROVE  open \cup Range(s) \in SUBSET Nat /\ IsFiniteSet(open \cup Range(s))
<1>1. open \in SUBSET Nat /\ IsFiniteSet(open) BY DEF TypeInv
<1>2. DOMAIN s = 1 .. Len(s) /\ \A i \in 1 .. Len(s) : s[i] \in Nat OBVIOUS
<1>3. \A x \in Range(s) : x \in Nat BY <1>2 DEF Range
<1>4. IsFiniteSet(open \cup {s[1]}) BY <1>1, FS_AddElement
<1>5. IsFiniteSet((open \cup {s[1]}) \cup {s[2]}) BY <1>4, FS_AddElement
<1>6. CASE Len(s) = 1
  <2>1. Range(s) = {s[1]} BY <1>2, <1>6 DEF Range
  <2>. QED BY <1>1, <1>3, <1>4, <2>1
<1>7. CASE Len(s) = 2
  <2>1. Range(s) = {s[1], s[2]} BY <1>2, <1>7 DEF Range
  <2>2. open \cup Range(s) = (open \cup {s[1]}) \cup {s[2]} BY <2>1
  <2>. QED BY <1>1, <1>3, <1>5, <2>2
<1>. QED BY <1>6, <1>7

LEMMA PlaneStrideType ==
  ASSUME NEW d \in Dmabufs, NEW idx, NEW s \in Strides
  PROVE  PlaneStride(d, idx, s) \in Nat
BY DmabufAssumption DEF PlaneStride, apply_dmabuf_plane0_fixup

LEMMA CreateParamsType ==
  ASSUME TypeInv, NEW p \in ParamsIds, CreateParams(p)
  PROVE  TypeInv'
<1>1. /\ map' = [map EXCEPT ![p] = gens + 1] /\ gens' = gens + 1
      /\ pending' = [pending EXCEPT ![p] = <<>>]
      /\ queue' = Append(queue, [op |-> "create_params", host |-> gens + 1])
      /\ open' = IF pending[p] = Absent THEN open ELSE open \ Fds(pending[p])
      /\ UNCHANGED <<creates, buffers, waiting, writing, life>>
  BY DEF CreateParams
<1>2. gens + 1 \in Nat BY TypeOld
<1>3. [op |-> "create_params", host |-> gens + 1] \in Request BY <1>2 DEF Request
<1>4. queue' \in Seq(Request) BY <1>1, <1>3, TypeOld, QueueAdded
<1>5. <<>> \in Seq(Plane) OBVIOUS
<1>6. pending' \in [ParamsIds -> Seq(Plane) \cup {Absent}] BY <1>1, <1>5, TypeOld
<1>7. map' \in [ParamsIds -> Nat] BY <1>1, <1>2, TypeOld
<1>8. open' \in SUBSET Nat /\ IsFiniteSet(open') BY <1>1, TypeOld, Closing
<1>. QED BY <1>1, <1>2, <1>4, <1>6, <1>7, <1>8, TypeOld, TypeKept

\* The step of OnAdd that keeps a plane.
KeepPlane(p, d, idx, stride) ==
  /\ pending[p] # Absent
  /\ LET fd == Dup(1)[1] IN
     /\ pending' = [pending EXCEPT ![p] = Append(@, [fd |-> fd, idx |-> idx, buf |-> d,
                      stride |-> PlaneStride(d, idx, stride)])]
     /\ open' = open \cup {fd}
  /\ UNCHANGED <<map, dying, used, creates, orphaned, buffers, queue>>

LEMMA AddCases ==
  ASSUME NEW p, NEW d, NEW idx \in 0 .. 2, NEW s, OnAdd(p, d, idx, s)
  PROVE  /\ map[p] # 0 /\ p \notin dying
         /\ \/ (Fatal \/ Alive) /\ UNCHANGED mine
            \/ Alive /\ KeepPlane(p, d, idx, s) /\ idx \in 0 .. 1 /\ p \notin used
BY DEF OnAdd, KeepPlane, AddRefused

LEMMA NewPlane ==
  ASSUME TypeInv, NEW p \in ParamsIds, NEW d \in Dmabufs, NEW idx \in 0 .. 1, NEW s \in Strides,
         KeepPlane(p, d, idx, s)
  PROVE  \E fd \in Nat :
           LET y == [fd |-> fd, idx |-> idx, buf |-> d, stride |-> PlaneStride(d, idx, s)]
           IN  /\ fd \notin open /\ open' = open \cup {fd} /\ y \in Plane
               /\ pending[p] \in Seq(Plane) /\ pending[p] # Absent
               /\ pending' = [pending EXCEPT ![p] = Append(pending[p], y)]
               /\ Append(pending[p], y) \in Seq(Plane)
               /\ Append(pending[p], y) # Absent
               /\ Len(Append(pending[p], y)) = Len(pending[p]) + 1
               /\ Append(pending[p], y)[Len(pending[p]) + 1] = y
               /\ \A i \in 1 .. Len(pending[p]) : Append(pending[p], y)[i] = pending[p][i]
<1>. DEFINE fd == Dup(1)[1]
            y == [fd |-> fd, idx |-> idx, buf |-> d, stride |-> PlaneStride(d, idx, s)]
            t == pending[p]
<1>1. fd \in Nat /\ fd \notin open
  <2>1. 1 \in {1, 2} /\ open \in SUBSET Nat /\ IsFiniteSet(open) BY DEF TypeInv
  <2>2. \A i \in 1 .. 1 : Dup(1)[i] \in Nat /\ Dup(1)[i] \notin open BY ONLY <2>1, DupIs
  <2>. QED BY <2>2
<1>2. PlaneStride(d, idx, s) \in Nat BY PlaneStrideType
<1>3. t # Absent /\ pending' = [pending EXCEPT ![p] = Append(t, y)]
      /\ open' = open \cup {fd}
  BY DEF KeepPlane
<1>4. t \in Seq(Plane) BY <1>3 DEF TypeInv
<1>. HIDE DEF fd
<1>5. y \in Plane BY <1>1, <1>2 DEF Plane
<1>. DEFINE a == Append(t, y)
<1>. HIDE DEF y, t
<1>6. /\ a \in Seq(Plane) /\ Len(a) = Len(t) + 1 /\ a[Len(t) + 1] = y
      /\ \A i \in 1 .. Len(t) : a[i] = t[i]
  BY <1>4, <1>5, AppendIs
<1>7. a # Absent BY <1>6, NotAbsent
<1>. HIDE DEF a
<1>8. pending' = [pending EXCEPT ![p] = a] BY <1>3 DEF a
<1>. QED BY <1>1, <1>3, <1>4, <1>5, <1>6, <1>7, <1>8 DEF y, t, a

LEMMA AddType ==
  ASSUME TypeInv, NEW p \in ParamsIds, NEW d \in Dmabufs, NEW idx \in 0 .. 2, NEW s \in Strides,
         OnAdd(p, d, idx, s)
  PROVE  TypeInv'
<1>1. CASE (Fatal \/ Alive) /\ UNCHANGED mine
  <2>1. /\ UNCHANGED <<map, pending, creates, buffers, queue, open, gens, writing, waiting>>
        /\ life' \in {"fatal", life}
    BY <1>1 DEF Fatal, Alive, mine
  <2>. QED BY <2>1, TypeOld, TypeKept
<1>2. CASE Alive /\ KeepPlane(p, d, idx, s) /\ idx \in 0 .. 1
  <2>1. UNCHANGED <<map, creates, buffers, queue, gens, writing, waiting, life>>
    BY <1>2 DEF Alive, KeepPlane
  <2>2. PICK fd \in Nat :
           LET y == [fd |-> fd, idx |-> idx, buf |-> d, stride |-> PlaneStride(d, idx, s)]
           IN  /\ open' = open \cup {fd}
               /\ pending' = [pending EXCEPT ![p] = Append(pending[p], y)]
               /\ Append(pending[p], y) \in Seq(Plane)
    BY <1>2, NewPlane
  <2>3. pending' \in [ParamsIds -> Seq(Plane) \cup {Absent}] BY <2>2, TypeOld
  <2>4. open' \in SUBSET Nat /\ IsFiniteSet(open') BY <2>2, TypeOld, FS_AddElement
  <2>. QED BY <2>1, <2>3, <2>4, TypeOld, TypeKept
<1>. QED BY <1>1, <1>2, AddCases

LEMMA DestroyParamsType ==
  ASSUME TypeInv, NEW p \in ParamsIds, OnDestroyParams(p)
  PROVE  TypeInv'
<1>1. /\ pending' = [pending EXCEPT ![p] = Absent]
      /\ queue' = Append(queue, [op |-> "destroy_params", host |-> map[p]])
      /\ creates' = creates \ {c \in creates : c.host = map[p]}
      /\ UNCHANGED <<map, buffers, gens, writing, waiting, life>>
  BY DEF OnDestroyParams, Alive
<1>2. open' = open \ (Held({c \in creates : c.host = map[p]}) \cup
                      (IF pending[p] = Absent THEN {} ELSE Fds(pending[p])))
  BY DEF OnDestroyParams
<1>3. map[p] \in Nat BY TypeOld
<1>4. [op |-> "destroy_params", host |-> map[p]] \in Request BY <1>3 DEF Request
<1>5. queue' \in Seq(Request) BY <1>1, <1>4, TypeOld, QueueAdded
<1>6. open' \in SUBSET Nat /\ IsFiniteSet(open') BY <1>2, Closing
<1>7. pending' \in [ParamsIds -> Seq(Plane) \cup {Absent}] BY <1>1, TypeOld
<1>8. creates' \in SUBSET Create BY <1>1, TypeOld
<1>. QED BY <1>1, <1>5, <1>6, <1>7, <1>8, TypeOld, TypeKept

\* OnCreate gives up the planes of p and the connection with them.
Rejects(p) ==
  /\ Fatal
  /\ pending' = [pending EXCEPT ![p] = Absent]
  /\ open' = open \ (IF pending[p] = Absent THEN {} ELSE Fds(pending[p]))
  /\ UNCHANGED <<map, dying, used, creates, orphaned, buffers, queue>>

\* OnCreate sends the batch.
Sends(p, c, immed, sync) ==
  /\ Alive
  /\ p \notin used /\ pending[p] # Absent /\ valid_params(pending[p], c)
  /\ sync = Dup(Len(pending[p]))
  /\ pending' = [pending EXCEPT ![p] = Absent]
  /\ queue' = queue \o HostMessages(pending[p], c, immed, map[p])
  /\ used' = used \cup {p}
  /\ open' = open \cup Range(sync)
  /\ UNCHANGED <<map, dying, orphaned>>
  /\ immed => buffers' = Append(buffers, Buffer(pending[p], sync)) /\ UNCHANGED creates
  /\ ~immed => /\ creates' = creates \cup {[host |-> map[p], planes |-> pending[p], sync |-> sync]}
               /\ UNCHANGED buffers

LEMMA CreateCases ==
  ASSUME NEW p, NEW c, NEW immed \in BOOLEAN, OnCreate(p, c, immed)
  PROVE  /\ map[p] # 0 /\ p \notin dying
         /\ \/ (Fatal \/ Alive) /\ UNCHANGED mine
            \/ Rejects(p)
            \/ Sends(p, c, immed, Dup(Len(pending[p])))
<1>. DEFINE First == p \in used
            Second == p \notin used /\ immed /\ pending[p] = Absent
            Third == p \notin used /\ ~(immed /\ pending[p] = Absent) /\ ~valid_params(pending[p], c)
<1>0. map[p] # 0 /\ p \notin dying BY DEF OnCreate
<1>1. CASE First
  BY <1>0, <1>1 DEF OnCreate
<1>2. CASE Second
  BY <1>0, <1>2 DEF OnCreate
<1>3. CASE Third
  <2>1. RejectCreate(p) BY <1>3 DEF OnCreate
  <2>2. Rejects(p) BY <2>1 DEF RejectCreate, discard_pending_params, Rejects
  <2>. QED BY <1>0, <2>2
<1>4. CASE ~First /\ ~Second /\ ~Third
  <2>1. process_params(p, c, immed) BY <1>4 DEF OnCreate
  <2>2. valid_params(pending[p], c) BY <1>4
  <2>3. pending[p] # Absent BY <2>2 DEF valid_params
  <2>4. Sends(p, c, immed, Dup(Len(pending[p]))) \/ Rejects(p)
    BY <1>4, <2>1, <2>2, <2>3 DEF process_params, SyncPlanes, Sends, Rejects
  <2>. QED BY <1>0, <2>4
<1>. QED BY <1>1, <1>2, <1>3, <1>4

LEMMA SendsHas ==
  ASSUME TypeInv, NEW p \in ParamsIds, NEW c \in Creates, NEW immed \in BOOLEAN,
         NEW sync, Sends(p, c, immed, sync)
  PROVE  /\ pending[p] \in Seq(Plane) /\ Len(pending[p]) \in {1, 2}
         /\ sync \in Seq(Nat) /\ Len(sync) = Len(pending[p])
         /\ \A x : InSync(sync, x) => x \notin open
         /\ \A x : x \in open' <=> x \in open \/ InSync(sync, x)
         /\ map[p] \in Nat
<1>1. pending[p] \in Seq(Plane) BY DEF Sends, TypeInv
<1>2. Len(pending[p]) \in {1, 2} BY <1>1, ValidPlanes DEF Sends
<1>. DEFINE n == Len(pending[p])
<1>3. open \in SUBSET Nat /\ IsFiniteSet(open) BY DEF TypeInv
<1>. HIDE DEF n
<1>4. /\ Dup(n) \in Seq(Nat) /\ Len(Dup(n)) = n
      /\ \A i \in 1 .. n : Dup(n)[i] \in Nat /\ Dup(n)[i] \notin open
  BY <1>2, <1>3, DupIs DEF n
<1>5. sync = Dup(n) BY DEF Sends, n
<1>6. \A x : InSync(sync, x) => x \notin open BY <1>4, <1>5 DEF InSync
<1>7. \A x : x \in Range(sync) <=> InSync(sync, x) BY <1>4, <1>5, SyncIs
<1>8. open' = open \cup Range(sync) BY DEF Sends
<1>9. map[p] \in Nat BY DEF TypeInv
<1>. QED BY <1>1, <1>2, <1>4, <1>5, <1>6, <1>7, <1>8, <1>9 DEF n

LEMMA CreateType ==
  ASSUME TypeInv, NEW p \in ParamsIds, NEW c \in Creates, NEW immed \in BOOLEAN, OnCreate(p, c, immed)
  PROVE  TypeInv'
<1>1. CASE (Fatal \/ Alive) /\ UNCHANGED mine
  <2>1. /\ UNCHANGED <<map, pending, creates, buffers, queue, open, gens, writing, waiting>>
        /\ life' \in {"fatal", life}
    BY <1>1 DEF Fatal, Alive, mine
  <2>. QED BY <2>1, TypeOld, TypeKept
<1>2. CASE Rejects(p)
  <2>1. /\ UNCHANGED <<map, creates, buffers, queue, gens, writing, waiting>>
        /\ life' = "fatal" /\ pending' = [pending EXCEPT ![p] = Absent]
    BY <1>2 DEF Rejects, Fatal
  <2>2. open' \in SUBSET Nat /\ IsFiniteSet(open') BY <1>2, Closing DEF Rejects
  <2>3. pending' \in [ParamsIds -> Seq(Plane) \cup {Absent}] BY <2>1, TypeOld
  <2>. QED BY <2>1, <2>2, <2>3, TypeOld, TypeKept
<1>3. ASSUME NEW sync, Sends(p, c, immed, sync) PROVE TypeInv'
  <2>1. /\ pending[p] \in Seq(Plane) /\ Len(pending[p]) \in {1, 2}
        /\ sync \in Seq(Nat) /\ Len(sync) = Len(pending[p]) /\ map[p] \in Nat
    BY <1>3, SendsHas
  <2>2. /\ UNCHANGED <<map, gens, writing, waiting, life>>
        /\ pending' = [pending EXCEPT ![p] = Absent]
        /\ queue' = queue \o HostMessages(pending[p], c, immed, map[p])
        /\ open' = open \cup Range(sync)
    BY <1>3 DEF Sends, Alive
  <2>3. open' \in SUBSET Nat /\ IsFiniteSet(open') BY <2>1, <2>2, Opening
  <2>4. pending' \in [ParamsIds -> Seq(Plane) \cup {Absent}] BY <2>2, TypeOld
  <2>5. queue' \in Seq(Request)
    <3>. DEFINE planes == pending[p]
                n == map[p]
    <3>1. queue \in Seq(Request) /\ planes \in Seq(Plane) /\ n \in Nat /\ Len(planes) \in {1, 2}
      BY <2>1, TypeOld
    <3>2. queue' = queue \o HostMessages(planes, c, immed, n) BY <2>2
    <3>. HIDE DEF planes, n
    <3>3. /\ \A i \in 1 .. Len(planes) : AddOf(n, planes[i]) \in Request
          /\ Message(c, immed, n) \in Request
          /\ Len(planes) = 1 => queue \o HostMessages(planes, c, immed, n) =
               Append(Append(queue, AddOf(n, planes[1])), Message(c, immed, n))
          /\ Len(planes) = 2 => queue \o HostMessages(planes, c, immed, n) =
               Append(Append(Append(queue, AddOf(n, planes[1])), AddOf(n, planes[2])),
                      Message(c, immed, n))
      BY <3>1, BatchOf
    <3>. DEFINE a == AddOf(n, planes[1])
                b == AddOf(n, planes[2])
                m == Message(c, immed, n)
                qa == Append(queue, a)
                qb == Append(qa, b)
    <3>4. a \in Request /\ m \in Request /\ (Len(planes) = 2 => b \in Request)
      BY <3>1, <3>3
    <3>5. /\ Len(planes) = 1 => queue' = Append(qa, m)
          /\ Len(planes) = 2 => queue' = Append(qb, m)
      BY <3>2, <3>3
    <3>. HIDE DEF a, b, m, qb
    <3>6. qa \in Seq(Request) BY ONLY <3>1, <3>4, AppendIs
    <3>. HIDE DEF qa
    <3>7. Append(qa, m) \in Seq(Request) BY ONLY <3>4, <3>6, AppendIs
    <3>8. ASSUME Len(planes) = 2 PROVE Append(qb, m) \in Seq(Request)
      <4>1. b \in Request BY <3>4, <3>8
      <4>2. qb \in Seq(Request) BY ONLY <4>1, <3>6, AppendIs DEF qb
      <4>. QED BY ONLY <3>4, <4>2, AppendIs
    <3>. QED BY <3>1, <3>5, <3>7, <3>8
  <2>6. CASE immed
    <3>1. buffers' = Append(buffers, Buffer(pending[p], sync)) /\ UNCHANGED creates
      BY <1>3, <2>6 DEF Sends
    <3>2. Buffer(pending[p], sync) \in NativeBuffer BY <2>1, BufferIs
    <3>3. buffers' \in Seq(NativeBuffer) /\ Len(buffers') = Len(buffers) + 1
      BY <3>1, <3>2, BufferAdded
    <3>. QED BY <2>2, <2>3, <2>4, <2>5, <3>1, <3>3, TypeOld, TypeKept
  <2>7. CASE ~immed
    <3>1. /\ creates' = creates \cup {[host |-> map[p], planes |-> pending[p], sync |-> sync]}
          /\ UNCHANGED buffers
      BY <1>3, <2>7 DEF Sends
    <3>2. [host |-> map[p], planes |-> pending[p], sync |-> sync] \in Create
      BY <2>1 DEF Create
    <3>3. creates' \in SUBSET Create BY <3>1, <3>2, TypeOld
    <3>. QED BY <2>2, <2>3, <2>4, <2>5, <3>1, <3>3, TypeOld, TypeKept
  <2>. QED BY <2>6, <2>7
<1>. QED BY <1>1, <1>2, <1>3, CreateCases

LEMMA FlushType ==
  ASSUME TypeInv, Flush
  PROVE  TypeInv'
<1>1. /\ open' = open \ QueueFds /\ queue' = <<>>
      /\ buffers' = [b \in DOMAIN buffers |->
           IF b \in Committed THEN [buffers[b] EXCEPT !.state = "held"] ELSE buffers[b]]
      /\ UNCHANGED <<map, pending, creates, waiting, gens, writing, life>>
  BY DEF Flush
<1>2. /\ Len(buffers) \in Nat /\ DOMAIN buffers = 1 .. Len(buffers)
      /\ \A b \in 1 .. Len(buffers) : buffers[b] \in NativeBuffer
  BY BuffersHave
<1>3. \A b \in 1 .. Len(buffers) : [buffers[b] EXCEPT !.state = "held"] \in NativeBuffer
  BY <1>2 DEF NativeBuffer
<1>4. buffers' \in [1 .. Len(buffers) -> NativeBuffer] BY <1>1, <1>2, <1>3
<1>5. buffers' \in Seq(NativeBuffer) /\ Len(buffers') = Len(buffers) BY <1>2, <1>4
<1>6. <<>> \in Seq(Request) OBVIOUS
<1>7. open' \in SUBSET Nat /\ IsFiniteSet(open') BY <1>1, Closing
<1>. QED BY <1>1, <1>2, <1>5, <1>6, <1>7, TypeOld, TypeKept

LEMMA DeleteIdType ==
  ASSUME TypeInv, NEW p \in ParamsIds, DeleteId(p)
  PROVE  TypeInv'
<1>1. /\ map' = [map EXCEPT ![p] = 0]
      /\ UNCHANGED <<pending, creates, buffers, queue, open, waiting, gens, writing, life>>
  BY DEF DeleteId, Alive
<1>2. map' \in [ParamsIds -> Nat] BY <1>1, TypeOld
<1>. QED BY <1>1, <1>2, TypeOld, TypeKept

\* The two outcomes of the created event.
Destroyed(g) ==
  /\ g \in orphaned /\ orphaned' = orphaned \ {g}
  /\ queue' = Append(queue, [op |-> "destroy_buffer", host |-> g])
  /\ UNCHANGED <<creates, buffers>>
Registered(g, c) ==
  /\ c.host = g /\ creates' = creates \ {c}
  /\ buffers' = Append(buffers, Buffer(c.planes, c.sync))
  /\ UNCHANGED <<orphaned, queue>>

LEMMA CreatedCases ==
  ASSUME NEW g, OnCreated(g)
  PROVE  /\ host.params[g].state = "asked" /\ Answered(g) /\ Idle
         /\ UNCHANGED <<machine, allocator, map, dying, pending, used, waiting, open, gens, writing, life>>
         /\ Destroyed(g) \/ \E c \in creates : Registered(g, c)
BY DEF OnCreated, Destroyed, Registered

LEMMA RegisteredHas ==
  ASSUME TypeInv, NEW g, NEW c \in creates, Registered(g, c)
  PROVE  /\ c.planes \in Seq(Plane) /\ c.sync \in Seq(Nat)
         /\ Buffer(c.planes, c.sync) \in NativeBuffer
         /\ buffers' \in Seq(NativeBuffer) /\ Len(buffers') = Len(buffers) + 1
         /\ buffers'[Len(buffers) + 1] = Buffer(c.planes, c.sync)
         /\ \A i \in 1 .. Len(buffers) : buffers'[i] = buffers[i]
<1>1. c \in Create BY DEF TypeInv
<1>2. c.planes \in Seq(Plane) /\ c.sync \in Seq(Nat) BY <1>1 DEF Create
<1>3. Buffer(c.planes, c.sync) \in NativeBuffer BY <1>2, BufferIs
<1>4. buffers' = Append(buffers, Buffer(c.planes, c.sync)) BY DEF Registered
<1>. QED BY <1>2, <1>3, <1>4, BufferAdded

LEMMA CreatedType ==
  ASSUME TypeInv, NEW g \in Nat, OnCreated(g)
  PROVE  TypeInv'
<1>0. UNCHANGED <<map, pending, waiting, open, gens, writing, life>> BY CreatedCases
<1>1. CASE Destroyed(g)
  <2>1. [op |-> "destroy_buffer", host |-> g] \in Request BY DEF Request
  <2>2. /\ queue' = Append(queue, [op |-> "destroy_buffer", host |-> g])
        /\ UNCHANGED <<creates, buffers>>
    BY <1>1 DEF Destroyed
  <2>3. queue' \in Seq(Request) BY <2>1, <2>2, TypeOld, QueueAdded
  <2>. QED BY <1>0, <2>2, <2>3, TypeOld, TypeKept
<1>2. ASSUME NEW c \in creates, Registered(g, c) PROVE TypeInv'
  <2>1. buffers' \in Seq(NativeBuffer) /\ Len(buffers') = Len(buffers) + 1
    BY <1>2, RegisteredHas
  <2>2. creates' = creates \ {c} /\ UNCHANGED queue BY <1>2 DEF Registered
  <2>3. creates' \in SUBSET Create BY <2>2, TypeOld
  <2>. QED BY <1>0, <2>1, <2>2, <2>3, TypeOld, TypeKept
<1>. QED BY <1>1, <1>2, CreatedCases

LEMMA FailedType ==
  ASSUME TypeInv, NEW g, OnFailed(g)
  PROVE  TypeInv'
<1>1. /\ creates' = creates \ {c \in creates : c.host = g}
      /\ open' = open \ Held({c \in creates : c.host = g})
      /\ UNCHANGED <<map, pending, buffers, queue, waiting, gens, writing, life>>
  BY DEF OnFailed
<1>2. open' \in SUBSET Nat /\ IsFiniteSet(open') BY <1>1, Closing
<1>3. creates' \in SUBSET Create BY <1>1, TypeOld
<1>. QED BY <1>1, <1>2, <1>3, TypeOld, TypeKept

LEMMA ReleaseHas ==
  ASSUME TypeInv, NEW b \in 1 .. Len(buffers), OnRelease(b)
  PROVE  LET y == [buffers[b] EXCEPT !.state = "idle"]
         IN  /\ y \in NativeBuffer /\ buffers' = [buffers EXCEPT ![b] = y]
             /\ y.sync = buffers[b].sync /\ y.planes = buffers[b].planes
             /\ y.implicit = buffers[b].implicit /\ y.state = "idle"
<1>1. buffers[b] \in NativeBuffer BY BuffersHave
<1>2. buffers' = [buffers EXCEPT ![b].state = "idle"] BY DEF OnRelease
<1>. QED BY <1>1, <1>2 DEF NativeBuffer

LEMMA ReleaseType ==
  ASSUME TypeInv, NEW b \in 1 .. Len(buffers), OnRelease(b)
  PROVE  TypeInv'
<1>1. UNCHANGED <<map, pending, creates, queue, open, waiting, gens, writing, life>>
  BY DEF OnRelease, Alive
<1>2. buffers' \in Seq(NativeBuffer) /\ Len(buffers') = Len(buffers)
  <2>. DEFINE y == [buffers[b] EXCEPT !.state = "idle"]
  <2>1. y \in NativeBuffer /\ buffers' = [buffers EXCEPT ![b] = y] BY ReleaseHas
  <2>. HIDE DEF y
  <2>. QED BY <2>1, BufferReplaced
<1>. QED BY <1>1, <1>2, TypeOld, TypeKept

LEMMA RemoveType ==
  ASSUME TypeInv, NEW b \in 1 .. Len(buffers), RemoveBuffer(b)
  PROVE  TypeInv'
<1>1. /\ UNCHANGED <<map, pending, creates, queue, waiting, gens, writing, life>>
      /\ open' = open \ Range(buffers[b].sync)
      /\ buffers' = [buffers EXCEPT ![b] = Gone]
  BY DEF RemoveBuffer, Alive
<1>2. buffers' \in Seq(NativeBuffer) /\ Len(buffers') = Len(buffers)
  BY <1>1, GoneIs, BufferReplaced
<1>3. open' \in SUBSET Nat /\ IsFiniteSet(open') BY <1>1, Closing
<1>. QED BY <1>1, <1>2, <1>3, TypeOld, TypeKept

LEMMA QueueCommitHas ==
  ASSUME TypeInv, NEW b \in 1 .. Len(buffers), NEW imp \in BOOLEAN, QueueCommit(b, imp)
  PROVE  LET y == [buffers[b] EXCEPT !.state = "queued", !.implicit = imp]
             m == [op |-> "commit", buffer |-> b]
         IN  /\ y \in NativeBuffer /\ buffers' = [buffers EXCEPT ![b] = y]
             /\ y.sync = buffers[b].sync /\ y.planes = buffers[b].planes
             /\ y.implicit = imp /\ y.state = "queued"
             /\ m \in Request /\ queue' = Append(queue, m)
             /\ UNCHANGED <<map, dying, pending, used, creates, orphaned, open>>
<1>1. buffers[b] \in NativeBuffer /\ b \in Nat BY BuffersHave
<1>2. /\ buffers' = [buffers EXCEPT ![b].state = "queued", ![b].implicit = imp]
      /\ queue' = Append(queue, [op |-> "commit", buffer |-> b])
      /\ UNCHANGED <<map, dying, pending, used, creates, orphaned, open>>
  BY DEF QueueCommit
<1>. DEFINE y == [buffers[b] EXCEPT !.state = "queued", !.implicit = imp]
<1>3. buffers' = [buffers EXCEPT ![b] = y] BY <1>1, <1>2, BuffersHave
<1>4. /\ y \in NativeBuffer /\ y.sync = buffers[b].sync /\ y.planes = buffers[b].planes
      /\ y.implicit = imp /\ y.state = "queued"
  BY <1>1 DEF NativeBuffer
<1>5. [op |-> "commit", buffer |-> b] \in Request BY <1>1 DEF Request
<1>. HIDE DEF y
<1>. QED BY <1>2, <1>3, <1>4, <1>5 DEF y

LEMMA QueueCommitType ==
  ASSUME TypeInv, NEW b \in 1 .. Len(buffers), NEW imp \in BOOLEAN, QueueCommit(b, imp)
  PROVE  /\ buffers' \in Seq(NativeBuffer) /\ Len(buffers') = Len(buffers)
         /\ queue' \in Seq(Request)
         /\ UNCHANGED <<map, pending, creates, open>>
<1>. DEFINE y == [buffers[b] EXCEPT !.state = "queued", !.implicit = imp]
            m == [op |-> "commit", buffer |-> b]
<1>1. /\ y \in NativeBuffer /\ buffers' = [buffers EXCEPT ![b] = y]
      /\ m \in Request /\ queue' = Append(queue, m)
      /\ UNCHANGED <<map, pending, creates, open>>
  BY QueueCommitHas
<1>. HIDE DEF y, m
<1>. QED BY <1>1, BufferReplaced, QueueAdded, TypeOld

LEMMA CommitType ==
  ASSUME TypeInv, NEW b \in 1 .. Len(buffers), OnCommit(b)
  PROVE  TypeInv'
<1>1. CASE QueueCommit(b, TRUE) /\ Alive
  <2>1. UNCHANGED <<gens, writing, life, waiting>> BY <1>1 DEF Alive
  <2>2. /\ buffers' \in Seq(NativeBuffer) /\ Len(buffers') = Len(buffers)
        /\ queue' \in Seq(Request) /\ UNCHANGED <<map, pending, creates, open>>
    BY <1>1, QueueCommitType
  <2>. QED BY <2>1, <2>2, TypeOld, TypeKept
<1>2. CASE /\ waiting' = [buffer |-> b, plane |-> 1]
           /\ UNCHANGED <<mine, machine, allocator, gens, host, writing, life>>
  <2>1. b \in Nat BY BuffersHave
  <2>2. waiting' \in [buffer : Nat, plane : Nat] /\ waiting'.buffer = b BY <1>2, <2>1
  <2>3. UNCHANGED <<map, pending, creates, buffers, queue, open, gens, writing, life>>
    BY <1>2 DEF mine
  <2>. QED BY <2>2, <2>3 DEF TypeInv
<1>. QED BY <1>1, <1>2 DEF OnCommit

LEMMA WaitType ==
  ASSUME TypeInv, Wait
  PROVE  TypeInv'
<1>0. waiting # None => waiting.buffer \in 1 .. Len(buffers) /\ waiting \in [buffer : Nat, plane : Nat]
  BY DEF TypeInv
<1>1. ASSUME waiting # None, NEW imp \in BOOLEAN, QueueCommit(waiting.buffer, imp), waiting' = None,
             UNCHANGED <<gens, writing, life>>
      PROVE  TypeInv'
  <2>1. /\ buffers' \in Seq(NativeBuffer) /\ Len(buffers') = Len(buffers)
        /\ queue' \in Seq(Request) /\ UNCHANGED <<map, pending, creates, open>>
    BY <1>0, <1>1, QueueCommitType
  <2>. QED BY <1>1, <2>1 DEF TypeInv
<1>2. CASE Synchronized
  <2>1. waiting # None /\ UNCHANGED <<gens, writing, life>> BY <1>2 DEF Synchronized
  <2>2. CASE waiting' = None /\ QueueCommit(waiting.buffer, FALSE)
    BY <1>1, <2>1, <2>2
  <2>3. CASE waiting' = [waiting EXCEPT !.plane = @ + 1] /\ UNCHANGED mine
    <3>1. waiting' \in [buffer : Nat, plane : Nat] /\ waiting'.buffer = waiting.buffer
      BY <1>0, <2>1, <2>3
    <3>2. UNCHANGED <<map, pending, creates, buffers, queue, open>> BY <2>3 DEF mine
    <3>. QED BY <1>0, <2>1, <3>1, <3>2 DEF TypeInv
  <2>. QED BY <1>2, <2>2, <2>3 DEF Synchronized
<1>3. CASE ImplicitSyncFallback
  <2>1. waiting # None /\ QueueCommit(waiting.buffer, TRUE) /\ waiting' = None
        /\ UNCHANGED <<gens, writing, life>>
    BY <1>3 DEF ImplicitSyncFallback
  <2>. QED BY <1>1, <2>1
<1>4. CASE WaitError
  <2>1. waiting' = None /\ life' = "fatal"
        /\ UNCHANGED <<map, pending, creates, buffers, queue, open, gens, writing>>
    BY <1>4 DEF WaitError, mine
  <2>. QED BY <2>1 DEF TypeInv
<1>. QED BY <1>2, <1>3, <1>4 DEF Wait

LEMMA GpuType ==
  ASSUME TypeInv, NEW d \in Dmabufs, GpuStart(d) \/ GpuEnd(d)
  PROVE  TypeInv'
<1>1. /\ UNCHANGED <<map, pending, creates, buffers, queue, open, gens, life, waiting>>
      /\ writing' \in {writing \cup {d}, writing \ {d}}
  BY DEF GpuStart, GpuEnd, mine
<1>2. writing' \in SUBSET Dmabufs BY <1>1, TypeOld
<1>. QED BY <1>1, <1>2, TypeOld, TypeKept

LEMMA TeardownType ==
  ASSUME TypeInv, Teardown
  PROVE  TypeInv'
<1>1. /\ life' = "closed" /\ open' = open \ (QueueFds \cup PendingFds \cup SyncFds)
      /\ queue' = <<>> /\ pending' = [p \in ParamsIds |-> Absent] /\ creates' = {}
      /\ buffers' = [b \in DOMAIN buffers |-> Gone]
      /\ UNCHANGED <<map, waiting, gens, writing>>
  BY DEF Teardown
<1>2. Len(buffers) \in Nat /\ DOMAIN buffers = 1 .. Len(buffers) BY BuffersHave
<1>3. buffers' \in [1 .. Len(buffers) -> NativeBuffer] BY <1>1, <1>2, GoneIs
<1>4. buffers' \in Seq(NativeBuffer) /\ Len(buffers') = Len(buffers) BY <1>2, <1>3
<1>5. <<>> \in Seq(Request) /\ pending' \in [ParamsIds -> Seq(Plane) \cup {Absent}] BY <1>1
<1>6. open' \in SUBSET Nat /\ IsFiniteSet(open') BY <1>1, Closing
<1>. QED BY <1>1, <1>2, <1>4, <1>5, <1>6, TypeOld, TypeKept

-----------------------------------------------------------------------------
(* Ownership, action by action                                             *)

LEMMA OwnedSame ==
  ASSUME NEW q, NEW pd, NEW cs, NEW bs, NEW fds, Owned(q, pd, cs, bs, fds),
         NEW q2, \A x : InQueue(q2, x) <=> InQueue(q, x),
         NEW bs2, Len(bs2) = Len(bs), \A b \in 1 .. Len(bs) : bs2[b].sync = bs[b].sync
  PROVE  Owned(q2, pd, cs, bs2, fds)
BY DEF Owned

LEMMA QueueAppend ==
  ASSUME NEW q \in Seq(Request), NEW m \in Request
  PROVE  /\ m.op # "add" => \A x : InQueue(Append(q, m), x) <=> InQueue(q, x)
         /\ m.op = "add" => \A x : InQueue(Append(q, m), x) <=> InQueue(q, x) \/ x = m.fd
<1>. DEFINE r == Append(q, m)
            n == Len(q)
<1>1. /\ Len(r) = n + 1 /\ r[n + 1] = m
      /\ \A i \in 1 .. n : r[i] = q[i]
  BY AppendIs
<1>2. n \in Nat OBVIOUS
<1>. HIDE DEF r
<1>3. \A x : InQueue(r, x) <=> InQueue(q, x) \/ (m.op = "add" /\ m.fd = x)
  <2>. TAKE x
  <2>1. ASSUME InQueue(r, x) PROVE InQueue(q, x) \/ (m.op = "add" /\ m.fd = x)
    <3>1. PICK i \in 1 .. n + 1 : r[i].op = "add" /\ r[i].fd = x BY <1>1, <2>1 DEF InQueue
    <3>2. CASE i = n + 1 BY <1>1, <3>1, <3>2
    <3>3. CASE i \in 1 .. n BY <1>1, <3>1, <3>3 DEF InQueue
    <3>. QED BY <1>2, <3>2, <3>3
  <2>2. ASSUME InQueue(q, x) PROVE InQueue(r, x)
    <3>1. PICK i \in 1 .. n : q[i].op = "add" /\ q[i].fd = x BY <2>2 DEF InQueue
    <3>2. i \in 1 .. n + 1 /\ r[i] = q[i] BY <1>1, <1>2
    <3>. QED BY <1>1, <3>1, <3>2 DEF InQueue
  <2>3. ASSUME m.op = "add", m.fd = x PROVE InQueue(r, x)
    <3>1. n + 1 \in 1 .. n + 1 BY <1>2
    <3>. QED BY <1>1, <2>3, <3>1 DEF InQueue
  <2>. QED BY <2>1, <2>2, <2>3
<1>. QED BY <1>3 DEF r

LEMMA PlanesAppend ==
  ASSUME NEW s \in Seq(Plane), NEW y \in Plane
  PROVE  \A x : InPlanes(Append(s, y), x) <=> InPlanes(s, x) \/ x = y.fd
<1>. DEFINE r == Append(s, y)
            n == Len(s)
<1>1. /\ r \in Seq(Plane) /\ Len(r) = n + 1 /\ r[n + 1] = y
      /\ \A i \in 1 .. n : r[i] = s[i]
  BY AppendIs
<1>2. n \in Nat OBVIOUS
<1>3. s # Absent /\ r # Absent
  <2>. HIDE DEF r
  <2>. QED BY <1>1, NotAbsent
<1>. HIDE DEF r
<1>4. \A x : InPlanes(r, x) <=> InPlanes(s, x) \/ y.fd = x
  <2>. TAKE x
  <2>1. ASSUME InPlanes(r, x) PROVE InPlanes(s, x) \/ y.fd = x
    <3>1. PICK i \in 1 .. n + 1 : r[i].fd = x BY <1>1, <2>1 DEF InPlanes
    <3>2. CASE i = n + 1 BY <1>1, <3>1, <3>2
    <3>3. CASE i \in 1 .. n BY <1>1, <1>3, <3>1, <3>3 DEF InPlanes
    <3>. QED BY <1>2, <3>2, <3>3
  <2>2. ASSUME InPlanes(s, x) PROVE InPlanes(r, x)
    <3>1. PICK i \in 1 .. n : s[i].fd = x BY <2>2 DEF InPlanes
    <3>2. i \in 1 .. n + 1 /\ r[i] = s[i] BY <1>1, <1>2
    <3>. QED BY <1>1, <1>3, <3>1, <3>2 DEF InPlanes
  <2>3. ASSUME y.fd = x PROVE InPlanes(r, x)
    <3>1. n + 1 \in 1 .. n + 1 BY <1>2
    <3>. QED BY <1>1, <1>3, <2>3, <3>1 DEF InPlanes
  <2>. QED BY <2>1, <2>2, <2>3
<1>. QED BY <1>4 DEF r

LEMMA BatchQueue ==
  ASSUME NEW q \in Seq(Request), NEW planes \in Seq(Plane), NEW c \in Creates,
         NEW immed \in BOOLEAN, NEW n \in Nat, Len(planes) \in {1, 2}
  PROVE  LET r == q \o HostMessages(planes, c, immed, n)
         IN  /\ \A x : InQueue(r, x) <=> InQueue(q, x) \/ InPlanes(planes, x)
             /\ \A i \in 1 .. Len(r) : r[i].op = "commit" =>
                  \E k \in 1 .. Len(q) : q[k] = r[i]
<1>. DEFINE r == q \o HostMessages(planes, c, immed, n)
            a == AddOf(n, planes[1])
            b == AddOf(n, planes[2])
            m == Message(c, immed, n)
            qa == Append(q, a)
            qb == Append(qa, b)
            Same(s) == \A i \in 1 .. Len(s) : s[i].op = "commit" => \E k \in 1 .. Len(q) : q[k] = s[i]
<1>1. /\ \A i \in 1 .. Len(planes) : AddOf(n, planes[i]) \in Request
      /\ m \in Request
      /\ Len(planes) = 1 => r = Append(Append(q, AddOf(n, planes[1])), m)
      /\ Len(planes) = 2 => r = Append(Append(Append(q, AddOf(n, planes[1])), AddOf(n, planes[2])), m)
  BY BatchOf
<1>2. a \in Request /\ a.op = "add" /\ a.fd = planes[1].fd
  BY <1>1 DEF AddOf
<1>3. Len(planes) = 2 => b \in Request /\ b.op = "add" /\ b.fd = planes[2].fd
  BY <1>1 DEF AddOf
<1>4. m.op \in {"create", "create_immed"} BY DEF Message
<1>5. planes # Absent BY NotAbsent
<1>. HIDE DEF r, a, b, m
<1>6. ASSUME NEW s \in Seq(Request), Same(s), NEW y \in Request, y.op # "commit"
      PROVE  Append(s, y) \in Seq(Request) /\ Same(Append(s, y))
  <2>. DEFINE t == Append(s, y)
  <2>1. /\ t \in Seq(Request) /\ Len(t) = Len(s) + 1 /\ t[Len(s) + 1] = y
        /\ \A i \in 1 .. Len(s) : t[i] = s[i]
    BY AppendIs
  <2>2. Len(s) \in Nat OBVIOUS
  <2>. HIDE DEF t
  <2>3. ASSUME NEW i \in 1 .. Len(t), t[i].op = "commit" PROVE \E k \in 1 .. Len(q) : q[k] = t[i]
    <3>1. i # Len(s) + 1 BY <1>6, <2>1, <2>3
    <3>2. i \in 1 .. Len(s) BY <2>1, <2>2, <3>1
    <3>. QED BY <1>6, <2>1, <2>3, <3>2
  <2>. QED BY <2>1, <2>3 DEF t
<1>7. Same(q) OBVIOUS
<1>. HIDE DEF Same
<1>8. qa \in Seq(Request) /\ Same(qa) BY <1>2, <1>6, <1>7
<1>9. \A x : InQueue(qa, x) <=> InQueue(q, x) \/ x = planes[1].fd
  BY <1>2, QueueAppend
<1>. HIDE DEF qa
<1>10. CASE Len(planes) = 1
  <2>1. r = Append(qa, m) BY <1>1, <1>10 DEF qa, a
  <2>2. Same(r) BY <1>1, <1>4, <1>6, <1>8, <2>1
  <2>3. \A x : InQueue(r, x) <=> InQueue(qa, x) BY <1>1, <1>4, <1>8, <2>1, QueueAppend
  <2>4. \A x : InPlanes(planes, x) <=> x = planes[1].fd BY <1>5, <1>10 DEF InPlanes
  <2>. QED BY <1>9, <2>2, <2>3, <2>4 DEF Same, r
<1>11. CASE Len(planes) = 2
  <2>0. b \in Request /\ b.op = "add" /\ b.fd = planes[2].fd BY <1>3, <1>11
  <2>1. qb \in Seq(Request) /\ Same(qb) BY <1>6, <1>8, <2>0
  <2>2. \A x : InQueue(qb, x) <=> InQueue(qa, x) \/ x = planes[2].fd BY <1>8, <2>0, QueueAppend
  <2>. HIDE DEF qb
  <2>3. r = Append(qb, m) BY <1>1, <1>11 DEF qb, b, qa, a
  <2>4. Same(r) BY <1>1, <1>4, <1>6, <2>1, <2>3
  <2>5. \A x : InQueue(r, x) <=> InQueue(qb, x) BY <1>1, <1>4, <2>1, <2>3, QueueAppend
  <2>6. \A x : InPlanes(planes, x) <=> x = planes[1].fd \/ x = planes[2].fd
    BY <1>5, <1>11 DEF InPlanes
  <2>. QED BY <1>9, <2>2, <2>4, <2>5, <2>6 DEF Same, r
<1>. QED BY <1>10, <1>11

\* What is closed with the pending planes of p.
Closed(p) == IF pending[p] = Absent THEN {} ELSE Fds(pending[p])

LEMMA ClosedIs ==
  ASSUME TypeInv, NEW p \in ParamsIds
  PROVE  \A x : x \in Closed(p) <=> InPlanes(pending[p], x)
<1>1. CASE pending[p] = Absent BY <1>1 DEF Closed, InPlanes
<1>2. CASE pending[p] # Absent
  <2>1. pending[p] \in Seq(Plane) BY <1>2 DEF TypeInv
  <2>. QED BY <1>2, <2>1, FdsIs DEF Closed
<1>. QED BY <1>1, <1>2

\* The planes of p are dropped, and the creates of a set with them.
LEMMA DropOwned ==
  ASSUME TypeInv, OwnInv, NEW p \in ParamsIds, NEW own, own \subseteq creates,
         NEW pd, \A k \in ParamsIds : k # p => pd[k] = pending[k],
         \A x : ~InPlanes(pd[p], x),
         NEW q, \A x : InQueue(q, x) <=> InQueue(queue, x),
         NEW fds, fds = (open \ Held(own)) \ Closed(p)
  PROVE  Owned(q, pd, creates \ own, buffers, fds)
<1>1. Owned(queue, pending, creates, buffers, open) BY DEF OwnInv
<1>2. own \subseteq Create BY DEF TypeInv
<1>3. \A x : x \in fds <=> /\ x \in open /\ ~InPlanes(pending[p], x)
                           /\ ~\E c \in own : InSync(c.sync, x)
  BY <1>2, HeldIs, ClosedIs
<1>4. \A x : x \in open <=> HasOwner(queue, pending, creates, buffers, x)
  BY <1>1, OwnedHas
<1>5. \A x : x \in fds <=> HasOwner(q, pd, creates \ own, buffers, x)
  <2>. TAKE x
  <2>1. ASSUME x \in fds PROVE HasOwner(q, pd, creates \ own, buffers, x)
    <3>1. HasOwner(queue, pending, creates, buffers, x) BY <1>3, <1>4, <2>1
    <3>. QED BY <1>3, <2>1, <3>1 DEF HasOwner
  <2>2. ASSUME HasOwner(q, pd, creates \ own, buffers, x) PROVE x \in fds
    <3>1. HasOwner(queue, pending, creates, buffers, x) BY <2>2 DEF HasOwner
    <3>2. x \in open BY <1>4, <3>1
    <3>3. CASE InQueue(q, x) BY <1>1, <1>3, <3>2, <3>3 DEF Owned
    <3>4. CASE \E k \in ParamsIds : InPlanes(pd[k], x)
      <4>1. PICK k \in ParamsIds : InPlanes(pd[k], x) BY <3>4
      <4>2. k # p /\ InPlanes(pending[k], x) BY <4>1
      <4>. QED BY <1>1, <1>3, <3>2, <4>2 DEF Owned
    <3>5. CASE \E c \in creates \ own : InSync(c.sync, x)
      <4>1. PICK c \in creates \ own : InSync(c.sync, x) BY <3>5
      <4>2. ~InPlanes(pending[p], x) BY <1>1, <4>1 DEF Owned
      <4>3. \A e \in own : ~InSync(e.sync, x) BY <1>1, <4>1 DEF Owned
      <4>. QED BY <1>3, <3>2, <4>2, <4>3
    <3>6. CASE \E b \in 1 .. Len(buffers) : InSync(buffers[b].sync, x)
      <4>1. PICK b \in 1 .. Len(buffers) : InSync(buffers[b].sync, x) BY <3>6
      <4>2. ~InPlanes(pending[p], x) BY <1>1, <4>1 DEF Owned
      <4>3. \A e \in own : ~InSync(e.sync, x) BY <1>1, <4>1 DEF Owned
      <4>. QED BY <1>3, <3>2, <4>2, <4>3
    <3>. QED BY <2>2, <3>3, <3>4, <3>5, <3>6 DEF HasOwner
  <2>. QED BY <2>1, <2>2
<1>6. \A x : InQueue(q, x) => InQueue(queue, x) OBVIOUS
<1>7. \A k \in ParamsIds : \A x : InPlanes(pd[k], x) => InPlanes(pending[k], x) OBVIOUS
<1>. DEFINE cs == creates \ own
            bs == buffers
<1>8. cs \subseteq creates /\ Len(bs) = Len(buffers)
      /\ \A b \in 1 .. Len(buffers) : \A x : InSync(bs[b].sync, x) => InSync(buffers[b].sync, x)
  OBVIOUS
<1>9. \A x : x \in fds <=> HasOwner(q, pd, cs, bs, x) BY <1>5
<1>10. HoldLess(q, pd, cs, bs, queue, pending, creates, buffers)
  BY <1>6, <1>7, <1>8 DEF HoldLess
<1>11. Exact(q, pd, cs, bs, fds) BY <1>9 DEF Exact
<1>. HIDE DEF cs, bs
<1>12. Owned(q, pd, cs, bs, fds) BY ONLY <1>1, <1>10, <1>11, OwnedDrop
<1>. QED BY <1>12 DEF cs, bs

LEMMA CreateParamsOwn ==
  ASSUME TypeInv, OwnInv, NEW p \in ParamsIds, CreateParams(p)
  PROVE  OwnInv'
<1>1. /\ pending' = [pending EXCEPT ![p] = <<>>]
      /\ queue' = Append(queue, [op |-> "create_params", host |-> gens + 1])
      /\ open' = IF pending[p] = Absent THEN open ELSE open \ Fds(pending[p])
      /\ life' = "running"
      /\ UNCHANGED <<creates, buffers>>
  BY DEF CreateParams, Idle
<1>2. gens + 1 \in Nat BY TypeOld
<1>3. [op |-> "create_params", host |-> gens + 1] \in Request BY <1>2 DEF Request
<1>4. \A x : InQueue(queue', x) <=> InQueue(queue, x) BY <1>1, <1>3, TypeOld, QueueAppend
<1>5. open' = (open \ Held({})) \ Closed(p) BY <1>1 DEF Held, Closed
<1>6. \A x : ~InPlanes(pending'[p], x)
  <2>1. pending'[p] = <<>> BY <1>1, TypeOld
  <2>2. Len(<<>>) = 0 OBVIOUS
  <2>. QED BY <2>1, <2>2 DEF InPlanes
<1>7. \A k \in ParamsIds : k # p => pending'[k] = pending[k] BY <1>1, TypeOld
<1>8. Owned(queue', pending', creates \ {}, buffers, open')
  BY <1>4, <1>5, <1>6, <1>7, DropOwned
<1>9. creates \ {} = creates OBVIOUS
<1>. QED BY <1>1, <1>8, <1>9 DEF OwnInv

LEMMA AddOwn ==
  ASSUME TypeInv, OwnInv, NEW p \in ParamsIds, NEW d \in Dmabufs, NEW idx \in 0 .. 2, NEW s \in Strides,
         OnAdd(p, d, idx, s)
  PROVE  OwnInv'
<1>0. life = "running" BY DEF OnAdd, Idle
<1>1. CASE (Fatal \/ Alive) /\ UNCHANGED mine
  BY <1>0, <1>1 DEF Fatal, Alive, mine, OwnInv
<1>2. CASE Alive /\ KeepPlane(p, d, idx, s) /\ idx \in 0 .. 1
  <2>1. UNCHANGED <<creates, buffers, queue, life>> BY <1>2 DEF Alive, KeepPlane
  <2>2. PICK fd \in Nat :
           LET y == [fd |-> fd, idx |-> idx, buf |-> d, stride |-> PlaneStride(d, idx, s)]
           IN  /\ fd \notin open /\ open' = open \cup {fd} /\ y \in Plane
               /\ pending[p] \in Seq(Plane)
               /\ pending' = [pending EXCEPT ![p] = Append(pending[p], y)]
    BY <1>2, NewPlane
  <2>. DEFINE y == [fd |-> fd, idx |-> idx, buf |-> d, stride |-> PlaneStride(d, idx, s)]
  <2>3. \A x : InPlanes(Append(pending[p], y), x) <=> InPlanes(pending[p], x) \/ x = y.fd
    BY <2>2, PlanesAppend
  <2>4. y.fd = fd OBVIOUS
  <2>5. pending' = [pending EXCEPT ![p] = Append(pending[p], y)] BY <2>2
  <2>. HIDE DEF y
  <2>6. pending'[p] = Append(pending[p], y) BY <2>5, TypeOld
  <2>7. \A x : InPlanes(pending'[p], x) <=> InPlanes(pending[p], x) \/ x = fd
    BY <2>3, <2>4, <2>6
  <2>8. \A k \in ParamsIds : k # p => pending'[k] = pending[k] BY <2>5, TypeOld
  <2>9. Owned(queue, pending, creates, buffers, open) /\ fd \notin open BY <2>2 DEF OwnInv
  <2>10. Owned(queue, pending', creates, buffers, open \cup {fd})
    BY ONLY <2>7, <2>8, <2>9, p \in ParamsIds, OwnedPlane
  <2>. QED BY <1>0, <2>1, <2>2, <2>10 DEF OwnInv
<1>. QED BY <1>1, <1>2, AddCases

LEMMA DestroyParamsOwn ==
  ASSUME TypeInv, OwnInv, NEW p \in ParamsIds, OnDestroyParams(p)
  PROVE  OwnInv'
<1>. DEFINE own == {c \in creates : c.host = map[p]}
<1>1. /\ pending' = [pending EXCEPT ![p] = Absent]
      /\ queue' = Append(queue, [op |-> "destroy_params", host |-> map[p]])
      /\ creates' = creates \ own
      /\ open' = (open \ Held(own)) \ Closed(p)
      /\ UNCHANGED buffers /\ life' = "running"
  BY DEF OnDestroyParams, Alive, Idle, Closed
<1>2. own \subseteq creates OBVIOUS
<1>. HIDE DEF own
<1>3. map[p] \in Nat BY TypeOld
<1>4. [op |-> "destroy_params", host |-> map[p]] \in Request BY <1>3 DEF Request
<1>5. \A x : InQueue(queue', x) <=> InQueue(queue, x) BY <1>1, <1>4, TypeOld, QueueAppend
<1>6. \A x : ~InPlanes(pending'[p], x) BY <1>1, TypeOld DEF InPlanes
<1>7. \A k \in ParamsIds : k # p => pending'[k] = pending[k] BY <1>1, TypeOld
<1>8. Owned(queue', pending', creates \ own, buffers, open')
  BY <1>1, <1>2, <1>5, <1>6, <1>7, DropOwned
<1>. QED BY <1>1, <1>8 DEF OwnInv

LEMMA CreateOwn ==
  ASSUME TypeInv, OwnInv, NEW p \in ParamsIds, NEW c \in Creates, NEW immed \in BOOLEAN,
         OnCreate(p, c, immed)
  PROVE  OwnInv'
<1>0. life = "running" BY DEF OnCreate, Idle
<1>1. CASE (Fatal \/ Alive) /\ UNCHANGED mine
  BY <1>0, <1>1 DEF Fatal, Alive, mine, OwnInv
<1>2. CASE Rejects(p)
  <2>1. /\ pending' = [pending EXCEPT ![p] = Absent]
        /\ open' = open \ Closed(p)
        /\ life' = "fatal"
        /\ UNCHANGED <<creates, buffers, queue>>
    BY <1>2 DEF Rejects, Fatal, Closed
  <2>2. open' = (open \ Held({})) \ Closed(p) BY <2>1 DEF Held
  <2>3. \A x : ~InPlanes(pending'[p], x) BY <2>1, TypeOld DEF InPlanes
  <2>4. \A k \in ParamsIds : k # p => pending'[k] = pending[k] BY <2>1, TypeOld
  <2>5. Owned(queue, pending', creates \ {}, buffers, open')
    BY <2>2, <2>3, <2>4, DropOwned
  <2>6. creates \ {} = creates OBVIOUS
  <2>. QED BY <2>1, <2>5, <2>6 DEF OwnInv
<1>3. ASSUME NEW sync, Sends(p, c, immed, sync) PROVE OwnInv'
  <2>1. /\ pending[p] \in Seq(Plane) /\ Len(pending[p]) \in {1, 2}
        /\ sync \in Seq(Nat)
        /\ \A x : InSync(sync, x) => x \notin open
        /\ \A x : x \in open' <=> x \in open \/ InSync(sync, x)
        /\ map[p] \in Nat
    BY <1>3, SendsHas
  <2>2. /\ life' = life
        /\ pending' = [pending EXCEPT ![p] = Absent]
        /\ queue' = queue \o HostMessages(pending[p], c, immed, map[p])
    BY <1>3 DEF Sends, Alive
  <2>3. \A x : InQueue(queue', x) <=> InQueue(queue, x) \/ InPlanes(pending[p], x)
    <3>. DEFINE planes == pending[p]
                n == map[p]
    <3>1. queue \in Seq(Request) /\ planes \in Seq(Plane) /\ n \in Nat /\ Len(planes) \in {1, 2}
      BY <2>1, TypeOld
    <3>2. queue' = queue \o HostMessages(planes, c, immed, n) BY <2>2
    <3>. HIDE DEF planes, n
    <3>3. \A x : InQueue(queue \o HostMessages(planes, c, immed, n), x) <=>
                   InQueue(queue, x) \/ InPlanes(planes, x)
      BY <3>1, BatchQueue
    <3>. QED BY <3>2, <3>3 DEF planes
  <2>4. \A k \in ParamsIds : k # p => pending'[k] = pending[k] BY <2>2, TypeOld
  <2>5. pending'[p] = Absent BY <2>2, TypeOld
  <2>6. Owned(queue, pending, creates, buffers, open) BY DEF OwnInv
  <2>7. Owned(queue', pending', creates, buffers, open)
    BY <2>3, <2>4, <2>5, <2>6, OwnedQueued
  <2>8. CASE immed
    <3>1. buffers' = Append(buffers, Buffer(pending[p], sync)) /\ UNCHANGED creates
      BY <1>3, <2>8 DEF Sends
    <3>2. Buffer(pending[p], sync) \in NativeBuffer /\ Buffer(pending[p], sync).sync = sync
      BY <2>1, BufferIs
    <3>3. /\ Len(buffers') = Len(buffers) + 1
          /\ buffers'[Len(buffers) + 1] = Buffer(pending[p], sync)
          /\ \A i \in 1 .. Len(buffers) : buffers'[i] = buffers[i]
          /\ Len(buffers) \in Nat
      BY <3>1, <3>2, BufferAdded, TypeOld
    <3>4. Owned(queue', pending', creates, buffers', open')
      BY <2>1, <2>7, <3>2, <3>3, OwnedBuffer
    <3>. QED BY <1>0, <2>2, <3>1, <3>4 DEF OwnInv
  <2>9. CASE ~immed
    <3>. DEFINE e == [host |-> map[p], planes |-> pending[p], sync |-> sync]
    <3>1. creates' = creates \cup {e} /\ UNCHANGED buffers
      BY <1>3, <2>9 DEF Sends
    <3>2. e.sync = sync OBVIOUS
    <3>. HIDE DEF e
    <3>3. /\ \A x : InSync(e.sync, x) => x \notin open
          /\ \A x : x \in open' <=> x \in open \/ InSync(e.sync, x)
      BY <2>1, <3>2
    <3>4. Owned(queue', pending', creates \cup {e}, buffers, open')
      BY <2>7, <3>3, OwnedCreate
    <3>. QED BY <1>0, <2>2, <3>1, <3>4 DEF OwnInv
  <2>. QED BY <2>8, <2>9
<1>. QED BY <1>1, <1>2, <1>3, CreateCases

LEMMA FlushOwn ==
  ASSUME TypeInv, OwnInv, Flush
  PROVE  OwnInv'
<1>1. /\ open' = open \ QueueFds /\ queue' = <<>>
      /\ buffers' = [b \in DOMAIN buffers |->
           IF b \in Committed THEN [buffers[b] EXCEPT !.state = "held"] ELSE buffers[b]]
      /\ life = "running" /\ UNCHANGED <<pending, creates, life>>
  BY DEF Flush, Idle
<1>2. /\ Len(buffers) \in Nat /\ DOMAIN buffers = 1 .. Len(buffers)
      /\ \A b \in 1 .. Len(buffers) : buffers[b] \in NativeBuffer
  BY BuffersHave
<1>3. Len(buffers') = Len(buffers) BY <1>1, <1>2
<1>4. \A b \in 1 .. Len(buffers) : buffers'[b].sync = buffers[b].sync
  <2>. TAKE b \in 1 .. Len(buffers)
  <2>1. buffers'[b] = IF b \in Committed THEN [buffers[b] EXCEPT !.state = "held"] ELSE buffers[b]
    BY <1>1, <1>2
  <2>2. [buffers[b] EXCEPT !.state = "held"].sync = buffers[b].sync BY <1>2 DEF NativeBuffer
  <2>. QED BY <2>1, <2>2
<1>5. Owned(queue, pending, creates, buffers, open) BY DEF OwnInv
<1>6. \A x : x \in QueueFds <=> InQueue(queue, x) BY QueueFdsIs, TypeOld
<1>7. \A x : ~InQueue(queue', x)
  <2>1. Len(<<>>) = 0 OBVIOUS
  <2>. QED BY <1>1, <2>1 DEF InQueue
<1>8. HoldLess(queue', pending, creates, buffers', queue, pending, creates, buffers)
  BY <1>3, <1>4, <1>7 DEF HoldLess
<1>9. \A x : x \in open <=> HasOwner(queue, pending, creates, buffers, x) BY <1>5, OwnedHas
<1>10. \A x : HasOwner(queue', pending, creates, buffers', x) <=>
               HasOwner(queue, pending, creates, buffers, x) /\ ~InQueue(queue, x)
  <2>. TAKE x
  <2>1. InQueue(queue, x) => /\ \A p \in ParamsIds : ~InPlanes(pending[p], x)
                             /\ \A c \in creates : ~InSync(c.sync, x)
                             /\ \A b \in 1 .. Len(buffers) : ~InSync(buffers[b].sync, x)
    BY <1>5 DEF Owned
  <2>. QED BY <1>3, <1>4, <1>7, <2>1 DEF HasOwner
<1>11. Exact(queue', pending, creates, buffers', open')
  BY <1>1, <1>6, <1>9, <1>10 DEF Exact
<1>12. Owned(queue', pending, creates, buffers', open')
  BY <1>5, <1>8, <1>11, OwnedDrop
<1>. QED BY <1>1, <1>12 DEF OwnInv

LEMMA DeleteIdOwn ==
  ASSUME OwnInv, NEW p \in ParamsIds, DeleteId(p)
  PROVE  OwnInv'
<1>1. UNCHANGED <<pending, creates, buffers, queue, open, life>> BY DEF DeleteId, Alive
<1>. QED BY <1>1 DEF OwnInv

LEMMA CreatedOwn ==
  ASSUME TypeInv, OwnInv, NEW g \in Nat, OnCreated(g)
  PROVE  OwnInv'
<1>0. UNCHANGED <<pending, open, life>> BY CreatedCases
<1>1. Owned(queue, pending, creates, buffers, open) BY DEF OwnInv
<1>2. CASE Destroyed(g)
  <2>1. [op |-> "destroy_buffer", host |-> g] \in Request BY DEF Request
  <2>2. /\ queue' = Append(queue, [op |-> "destroy_buffer", host |-> g])
        /\ UNCHANGED <<creates, buffers>>
    BY <1>2 DEF Destroyed
  <2>3. \A x : InQueue(queue', x) <=> InQueue(queue, x) BY <2>1, <2>2, TypeOld, QueueAppend
  <2>4. Owned(queue', pending, creates, buffers, open) BY <1>1, <2>3, OwnedSame
  <2>. QED BY <1>0, <2>2, <2>4 DEF OwnInv
<1>3. ASSUME NEW c \in creates, Registered(g, c) PROVE OwnInv'
  <2>1. /\ c.planes \in Seq(Plane) /\ c.sync \in Seq(Nat)
        /\ Len(buffers') = Len(buffers) + 1
        /\ buffers'[Len(buffers) + 1] = Buffer(c.planes, c.sync)
        /\ \A i \in 1 .. Len(buffers) : buffers'[i] = buffers[i]
    BY <1>3, RegisteredHas
  <2>2. Buffer(c.planes, c.sync).sync = c.sync BY <2>1, BufferIs
  <2>3. creates' = creates \ {c} /\ UNCHANGED queue BY <1>3 DEF Registered
  <2>4. Len(buffers) \in Nat BY TypeOld
  <2>5. Owned(queue, pending, creates \ {c}, buffers', open)
    BY <1>1, <2>1, <2>2, <2>4, OwnedRegistered
  <2>. QED BY <1>0, <2>3, <2>5 DEF OwnInv
<1>. QED BY <1>2, <1>3, CreatedCases

LEMMA FailedOwn ==
  ASSUME TypeInv, OwnInv, NEW g, OnFailed(g)
  PROVE  OwnInv'
<1>. DEFINE own == {c \in creates : c.host = g}
            cs == creates \ own
<1>1. /\ creates' = cs /\ open' = open \ Held(own)
      /\ life = "running" /\ UNCHANGED <<pending, buffers, queue, life>>
  BY DEF OnFailed, Idle
<1>2. own \subseteq creates /\ own \subseteq Create BY TypeOld
<1>. HIDE DEF own
<1>3. \A x : x \in Held(own) <=> \E c \in own : InSync(c.sync, x) BY <1>2, HeldIs
<1>4. Owned(queue, pending, creates, buffers, open) BY DEF OwnInv
<1>5. \A x : x \in open <=> HasOwner(queue, pending, creates, buffers, x) BY <1>4, OwnedHas
<1>6. HoldLess(queue, pending, cs, buffers, queue, pending, creates, buffers) BY DEF HoldLess
<1>7. \A x : HasOwner(queue, pending, cs, buffers, x) <=>
         HasOwner(queue, pending, creates, buffers, x) /\ ~\E c \in own : InSync(c.sync, x)
  <2>. TAKE x
  <2>1. ASSUME NEW c \in own, InSync(c.sync, x)
        PROVE  ~HasOwner(queue, pending, cs, buffers, x)
    BY <1>2, <1>4, <2>1 DEF Owned, HasOwner
  <2>. QED BY <2>1 DEF HasOwner
<1>8. Exact(queue, pending, cs, buffers, open') BY <1>1, <1>3, <1>5, <1>7 DEF Exact
<1>. HIDE DEF cs
<1>9. Owned(queue, pending, cs, buffers, open') BY <1>4, <1>6, <1>8, OwnedDrop
<1>. QED BY <1>1, <1>9 DEF OwnInv

LEMMA ReleaseOwn ==
  ASSUME TypeInv, OwnInv, NEW b \in 1 .. Len(buffers), OnRelease(b)
  PROVE  OwnInv'
<1>. DEFINE y == [buffers[b] EXCEPT !.state = "idle"]
<1>1. UNCHANGED <<pending, creates, queue, open, life>> BY DEF OnRelease, Alive
<1>2. y \in NativeBuffer /\ buffers' = [buffers EXCEPT ![b] = y] /\ y.sync = buffers[b].sync
  BY ReleaseHas
<1>. HIDE DEF y
<1>3. /\ Len(buffers') = Len(buffers) /\ buffers'[b] = y
      /\ \A i \in 1 .. Len(buffers) : i # b => buffers'[i] = buffers[i]
  BY <1>2, BufferReplaced
<1>4. \A i \in 1 .. Len(buffers) : buffers'[i].sync = buffers[i].sync BY <1>2, <1>3
<1>5. Owned(queue, pending, creates, buffers, open) BY DEF OwnInv
<1>6. Owned(queue, pending, creates, buffers', open) BY <1>3, <1>4, <1>5, OwnedSame
<1>. QED BY <1>1, <1>6 DEF OwnInv

LEMMA RemoveOwn ==
  ASSUME TypeInv, OwnInv, NEW b \in 1 .. Len(buffers), RemoveBuffer(b)
  PROVE  OwnInv'
<1>1. /\ UNCHANGED <<pending, creates, queue, life>> /\ life = "running"
      /\ open' = open \ Range(buffers[b].sync)
      /\ buffers' = [buffers EXCEPT ![b] = Gone]
  BY DEF RemoveBuffer, Alive, Idle
<1>2. /\ Len(buffers') = Len(buffers) /\ buffers'[b] = Gone
      /\ \A i \in 1 .. Len(buffers) : i # b => buffers'[i] = buffers[i]
  BY <1>1, GoneIs, BufferReplaced
<1>3. \A x : x \in Range(buffers[b].sync) <=> InSync(buffers[b].sync, x)
  BY BuffersHave, SyncIs
<1>4. \A x : ~InSync(buffers'[b].sync, x)
  <2>1. Len(<<>>) = 0 OBVIOUS
  <2>. QED BY <1>2, <2>1, GoneIs DEF InSync
<1>5. Owned(queue, pending, creates, buffers, open) BY DEF OwnInv
<1>6. \A x : x \in open <=> HasOwner(queue, pending, creates, buffers, x) BY <1>5, OwnedHas
<1>7. HoldLess(queue, pending, creates, buffers', queue, pending, creates, buffers)
  BY <1>2, <1>4 DEF HoldLess
<1>8. \A x : HasOwner(queue, pending, creates, buffers', x) <=>
         HasOwner(queue, pending, creates, buffers, x) /\ ~InSync(buffers[b].sync, x)
  <2>. TAKE x
  <2>1. ASSUME InSync(buffers[b].sync, x) PROVE ~HasOwner(queue, pending, creates, buffers', x)
    BY <1>2, <1>4, <1>5, <2>1 DEF Owned, HasOwner
  <2>2. ASSUME ~InSync(buffers[b].sync, x)
        PROVE  \A i \in 1 .. Len(buffers) : InSync(buffers'[i].sync, x) <=> InSync(buffers[i].sync, x)
    BY <1>2, <1>4, <2>2
  <2>3. ASSUME HasOwner(queue, pending, creates, buffers', x)
        PROVE  HasOwner(queue, pending, creates, buffers, x)
    BY <1>7, <2>3 DEF HasOwner, HoldLess
  <2>. QED BY <1>2, <2>1, <2>2, <2>3 DEF HasOwner
<1>9. Exact(queue, pending, creates, buffers', open') BY <1>1, <1>3, <1>6, <1>8 DEF Exact
<1>10. Owned(queue, pending, creates, buffers', open') BY <1>5, <1>7, <1>9, OwnedDrop
<1>. QED BY <1>1, <1>10 DEF OwnInv

LEMMA QueueCommitOwn ==
  ASSUME TypeInv, OwnInv, NEW b \in 1 .. Len(buffers), NEW imp \in BOOLEAN, QueueCommit(b, imp)
  PROVE  Owned(queue', pending', creates', buffers', open')
<1>. DEFINE y == [buffers[b] EXCEPT !.state = "queued", !.implicit = imp]
            m == [op |-> "commit", buffer |-> b]
<1>1. /\ y \in NativeBuffer /\ buffers' = [buffers EXCEPT ![b] = y] /\ y.sync = buffers[b].sync
      /\ m \in Request /\ queue' = Append(queue, m)
      /\ UNCHANGED <<pending, creates, open>>
  BY QueueCommitHas
<1>2. m.op = "commit" OBVIOUS
<1>. HIDE DEF y, m
<1>3. /\ Len(buffers') = Len(buffers) /\ buffers'[b] = y
      /\ \A i \in 1 .. Len(buffers) : i # b => buffers'[i] = buffers[i]
  BY <1>1, BufferReplaced
<1>4. \A i \in 1 .. Len(buffers) : buffers'[i].sync = buffers[i].sync BY <1>1, <1>3
<1>5. \A x : InQueue(queue', x) <=> InQueue(queue, x) BY <1>1, <1>2, TypeOld, QueueAppend
<1>6. Owned(queue, pending, creates, buffers, open) BY DEF OwnInv
<1>7. Owned(queue', pending, creates, buffers', open) BY <1>3, <1>4, <1>5, <1>6, OwnedSame
<1>. QED BY <1>1, <1>7

LEMMA CommitOwn ==
  ASSUME TypeInv, OwnInv, NEW b \in 1 .. Len(buffers), OnCommit(b)
  PROVE  OwnInv'
<1>0. life = "running" /\ life' = life BY DEF OnCommit, Idle, Alive
<1>1. CASE QueueCommit(b, TRUE)
  BY <1>0, <1>1, QueueCommitOwn DEF OwnInv
<1>2. CASE UNCHANGED mine
  BY <1>0, <1>2 DEF mine, OwnInv
<1>. QED BY <1>1, <1>2 DEF OnCommit

LEMMA WaitOwn ==
  ASSUME TypeInv, OwnInv, Wait
  PROVE  OwnInv'
<1>0. life = "running" /\ life' \in {"running", "fatal"}
  BY DEF Wait, Synchronized, ImplicitSyncFallback, WaitError
<1>1. waiting # None => waiting.buffer \in 1 .. Len(buffers) BY DEF TypeInv
<1>2. ASSUME waiting # None, NEW imp \in BOOLEAN, QueueCommit(waiting.buffer, imp)
      PROVE  OwnInv'
  BY <1>0, <1>1, <1>2, QueueCommitOwn DEF OwnInv
<1>3. CASE UNCHANGED mine
  BY <1>0, <1>3 DEF mine, OwnInv
<1>. QED BY <1>2, <1>3 DEF Wait, Synchronized, ImplicitSyncFallback, WaitError

LEMMA GpuOwn ==
  ASSUME OwnInv, NEW d \in Dmabufs, GpuStart(d) \/ GpuEnd(d)
  PROVE  OwnInv'
<1>1. UNCHANGED <<mine, life>> BY DEF GpuStart, GpuEnd
<1>. QED BY <1>1 DEF mine, OwnInv

LEMMA TeardownOwn ==
  ASSUME TypeInv, OwnInv, Teardown
  PROVE  OwnInv'
<1>1. /\ open' = open \ (QueueFds \cup PendingFds \cup SyncFds)
      /\ queue' = <<>> /\ pending' = [p \in ParamsIds |-> Absent] /\ creates' = {}
      /\ buffers' = [b \in DOMAIN buffers |-> Gone]
  BY DEF Teardown
<1>2. open = QueueFds \cup PendingFds \cup SyncFds BY OwnImplies DEF DescriptorsOwned
<1>3. open' = {} BY <1>1, <1>2
<1>4. Len(<<>>) = 0 OBVIOUS
<1>5. \A x : ~InQueue(queue', x) BY <1>1, <1>4 DEF InQueue
<1>6. \A p \in ParamsIds : \A x : ~InPlanes(pending'[p], x) BY <1>1 DEF InPlanes
<1>7. Len(buffers) \in Nat /\ DOMAIN buffers = 1 .. Len(buffers) BY BuffersHave
<1>8. Len(buffers') = Len(buffers) BY <1>1, <1>7
<1>9. \A b \in 1 .. Len(buffers') : \A x : ~InSync(buffers'[b].sync, x)
  <2>1. \A b \in 1 .. Len(buffers') : buffers'[b] = Gone BY <1>1, <1>7, <1>8
  <2>. QED BY <1>4, <2>1, GoneIs DEF InSync
<1>10. Owned(queue', pending', creates', buffers', open')
  BY <1>1, <1>3, <1>5, <1>6, <1>9 DEF Owned
<1>. QED BY <1>3, <1>10 DEF OwnInv

-----------------------------------------------------------------------------
(* What the host has heard, action by action                               *)

LEMMA HeardFrom ==
  ASSUME UNCHANGED allocator,
         host' \in Host, ~host'.err, Reports => host'.layout,
         life' = "running" => Knows(ToldAll(host', queue'), map', dying', used', gens'),
         \A p \in ParamsIds : map'[p] \in 0 .. gens',
         Injective(map'),
         \A p \in ParamsIds : pending'[p] # Absent =>
           \A i \in 1 .. Len(pending'[p]) : Fits(pending'[p][i])
  PROVE  HeardInv'
<1>1. Reports' = Reports BY DEF Reports
<1>2. \A x : Fits(x)' = Fits(x) BY <1>1 DEF Fits
<1>3. life' = "running" => Knows(Final, map, dying, used, gens)'
  BY <1>1 DEF Knows, KnownAs, Final
<1>4. (\A p \in ParamsIds : pending[p] # Absent =>
         \A i \in 1 .. Len(pending[p]) : Fits(pending[p][i]))'
  BY <1>1 DEF Fits
<1>. QED BY <1>1, <1>3, <1>4 DEF HeardInv, Injective

LEMMA HeardHas ==
  ASSUME HeardInv
  PROVE  /\ host \in Host /\ ~host.err /\ (Reports => host.layout)
         /\ life = "running" => Knows(ToldAll(host, queue), map, dying, used, gens)
         /\ \A p \in ParamsIds : map[p] \in 0 .. gens
         /\ Injective(map)
         /\ \A p \in ParamsIds : pending[p] # Absent =>
              \A i \in 1 .. Len(pending[p]) : Fits(pending[p][i])
BY DEF HeardInv, Final, Injective

LEMMA HeardInit ==
  ASSUME Init
  PROVE  HeardInv
<1>1. /\ host = [params |-> <<>>, err |-> FALSE, layout |-> TRUE] /\ queue = <<>>
      /\ map = [p \in ParamsIds |-> 0] /\ gens = 0
      /\ pending = [p \in ParamsIds |-> Absent]
  BY DEF Init
<1>2. host \in Host /\ ~host.err /\ host.layout /\ Len(host.params) = 0
  <2>1. <<>> \in Seq(HostParams) /\ Len(<<>>) = 0 OBVIOUS
  <2>. QED BY <1>1, <2>1, HostIs
<1>3. Final = host BY <1>1, ToldEmpty DEF Final
<1>4. Knows(Final, map, dying, used, gens) BY <1>1, <1>2, <1>3 DEF Knows
<1>. QED BY <1>1, <1>2, <1>4 DEF HeardInv

\* Steps that end the connection, or leave everything the host hears alone.
LEMMA HeardSilent ==
  ASSUME TypeInv, HeardInv, UNCHANGED <<allocator, host, map, gens>>,
         \/ life' # "running"
         \/ UNCHANGED <<queue, dying, used, life>>,
         \A p \in ParamsIds : pending'[p] \in {Absent, pending[p]}
  PROVE  HeardInv'
<1>1. /\ host \in Host /\ ~host.err /\ (Reports => host.layout)
      /\ life = "running" => Knows(ToldAll(host, queue), map, dying, used, gens)
      /\ \A p \in ParamsIds : map[p] \in 0 .. gens
      /\ Injective(map)
      /\ \A p \in ParamsIds : pending[p] # Absent =>
           \A i \in 1 .. Len(pending[p]) : Fits(pending[p][i])
  BY HeardHas
<1>2. life' = "running" => Knows(ToldAll(host', queue'), map', dying', used', gens')
  BY <1>1
<1>3. \A p \in ParamsIds : pending'[p] # Absent =>
        \A i \in 1 .. Len(pending'[p]) : Fits(pending'[p][i])
  BY <1>1
<1>4. /\ host' \in Host /\ ~host'.err /\ (Reports => host'.layout)
      /\ \A p \in ParamsIds : map'[p] \in 0 .. gens'
      /\ Injective(map') /\ UNCHANGED allocator
  BY <1>1
<1>. QED BY <1>2, <1>3, <1>4, HeardFrom

\* A request about a buffer is one more that the host accepts.
LEMMA HeardBufferRequest ==
  ASSUME TypeInv, HeardInv, UNCHANGED <<allocator, host, map, gens, dying, used, pending>>,
         life = "running",
         NEW m \in Request, m.op \in {"commit", "destroy_buffer"}, queue' = Append(queue, m)
  PROVE  HeardInv'
<1>1. /\ host \in Host /\ ~host.err /\ (Reports => host.layout)
      /\ life = "running" => Knows(ToldAll(host, queue), map, dying, used, gens)
      /\ \A p \in ParamsIds : map[p] \in 0 .. gens
      /\ Injective(map)
      /\ \A p \in ParamsIds : pending[p] # Absent =>
           \A i \in 1 .. Len(pending[p]) : Fits(pending[p][i])
  BY HeardHas
<1>. DEFINE f == ToldAll(host, queue)
            e == ToldAll(host, Append(queue, m))
<1>2. queue \in Seq(Request) BY TypeOld
<1>3. f \in Host BY <1>1, <1>2, ToldAllType
<1>4. e = Told(f, m) BY <1>2, ToldLast
<1>. HIDE DEF f
<1>5. e.params = f.params /\ e.err = f.err /\ e.layout = f.layout /\ e \in Host
  BY <1>3, <1>4, ToldOther, ToldType
<1>6. Knows(f, map, dying, used, gens) BY <1>1 DEF f
<1>7. Knows(e, map, dying, used, gens)
  <2>. HIDE DEF e
  <2>. QED BY <1>5, <1>6, KnowsSame
<1>8. Knows(ToldAll(host', queue'), map', dying', used', gens') BY <1>7
<1>. QED BY <1>1, <1>8, HeardFrom

LEMMA CreateParamsHeard ==
  ASSUME TypeInv, HeardInv, NEW p \in ParamsIds, CreateParams(p)
  PROVE  HeardInv'
<1>1. /\ host \in Host /\ ~host.err /\ (Reports => host.layout)
      /\ life = "running" => Knows(ToldAll(host, queue), map, dying, used, gens)
      /\ \A k \in ParamsIds : map[k] \in 0 .. gens
      /\ Injective(map)
      /\ \A k \in ParamsIds : pending[k] # Absent =>
           \A i \in 1 .. Len(pending[k]) : Fits(pending[k][i])
  BY HeardHas
<1>. DEFINE m == [op |-> "create_params", host |-> gens + 1]
            f == ToldAll(host, queue)
            e == ToldAll(host, Append(queue, m))
<1>2. /\ map' = [map EXCEPT ![p] = gens + 1] /\ gens' = gens + 1
      /\ pending' = [pending EXCEPT ![p] = <<>>]
      /\ used' = used \ {p} /\ dying' = dying
      /\ queue' = Append(queue, m)
      /\ life = "running" /\ UNCHANGED <<allocator, host>>
  BY DEF CreateParams, Idle
<1>3. queue \in Seq(Request) /\ gens \in Nat /\ map \in [ParamsIds -> Nat] BY TypeOld
<1>4. m \in Request BY <1>3 DEF Request
<1>5. e = Told(f, m) BY <1>3, <1>4, ToldLast
<1>6. Knows(f, map, dying, used, gens) BY <1>1, <1>2
<1>. HIDE DEF f, e
<1>7. Knows(e, [map EXCEPT ![p] = gens + 1], dying, used \ {p}, gens + 1)
  BY <1>3, <1>5, <1>6, KnowsNew
<1>8. Knows(ToldAll(host', queue'), map', dying', used', gens')
  BY <1>2, <1>7 DEF e
<1>9. \A k \in ParamsIds : map'[k] \in 0 .. gens' BY <1>1, <1>2, <1>3
<1>10. Injective(map')
  <2>. SUFFICES ASSUME NEW i \in ParamsIds, NEW k \in ParamsIds, map'[i] # 0, map'[i] = map'[k]
                PROVE  i = k
    BY DEF Injective
  <2>1. \A j \in ParamsIds : map'[j] = IF j = p THEN gens + 1 ELSE map[j] BY <1>2, <1>3
  <2>2. \A j \in ParamsIds : map[j] # gens + 1 BY <1>1, <1>3
  <2>. QED BY <1>1, <2>1, <2>2 DEF Injective
<1>11. \A k \in ParamsIds : pending'[k] # Absent =>
         \A i \in 1 .. Len(pending'[k]) : Fits(pending'[k][i])
  <2>. TAKE k \in ParamsIds
  <2>1. CASE k = p
    <3>1. pending'[k] = <<>> BY <1>2, <2>1, TypeOld
    <3>2. Len(<<>>) = 0 OBVIOUS
    <3>. QED BY <3>1, <3>2
  <2>2. CASE k # p
    <3>1. pending'[k] = pending[k] BY <1>2, <2>2, TypeOld
    <3>. QED BY <1>1, <3>1
  <2>. QED BY <2>1, <2>2
<1>12. host' \in Host /\ ~host'.err /\ (Reports => host'.layout) BY <1>1, <1>2
<1>. QED BY <1>2, <1>8, <1>9, <1>10, <1>11, <1>12, HeardFrom

LEMMA AddHeard ==
  ASSUME TypeInv, HeardInv, NEW p \in ParamsIds, NEW d \in Dmabufs, NEW idx \in 0 .. 2,
         NEW s \in Strides, OnAdd(p, d, idx, s)
  PROVE  HeardInv'
<1>0. life = "running" BY DEF OnAdd, Idle
<1>1. CASE (Fatal \/ Alive) /\ UNCHANGED mine
  <2>1. /\ UNCHANGED <<allocator, host, map, gens, pending, queue, dying, used>>
        /\ life' = "fatal" \/ life' = life
    BY <1>1 DEF Fatal, Alive, mine
  <2>2. \A k \in ParamsIds : pending'[k] \in {Absent, pending[k]} BY <2>1
  <2>3. life' # "running" \/ UNCHANGED <<queue, dying, used, life>> BY <2>1
  <2>. QED BY <2>1, <2>2, <2>3, HeardSilent
<1>2. CASE Alive /\ KeepPlane(p, d, idx, s) /\ idx \in 0 .. 1
  <2>1. UNCHANGED <<allocator, host, map, gens, queue, dying, used, life>>
    BY <1>2 DEF Alive, KeepPlane
  <2>2. /\ host \in Host /\ ~host.err /\ (Reports => host.layout)
        /\ life = "running" => Knows(ToldAll(host, queue), map, dying, used, gens)
        /\ \A k \in ParamsIds : map[k] \in 0 .. gens
        /\ Injective(map)
        /\ \A k \in ParamsIds : pending[k] # Absent =>
             \A i \in 1 .. Len(pending[k]) : Fits(pending[k][i])
    BY HeardHas
  <2>3. PICK fd \in Nat :
           LET y == [fd |-> fd, idx |-> idx, buf |-> d, stride |-> PlaneStride(d, idx, s)]
           IN  /\ pending[p] \in Seq(Plane) /\ pending[p] # Absent
               /\ pending' = [pending EXCEPT ![p] = Append(pending[p], y)]
               /\ Len(Append(pending[p], y)) = Len(pending[p]) + 1
               /\ Append(pending[p], y)[Len(pending[p]) + 1] = y
               /\ \A i \in 1 .. Len(pending[p]) : Append(pending[p], y)[i] = pending[p][i]
    BY <1>2, NewPlane
  <2>. DEFINE y == [fd |-> fd, idx |-> idx, buf |-> d, stride |-> PlaneStride(d, idx, s)]
              t == pending[p]
              a == Append(t, y)
  <2>4. Fits(y)
    <3>1. y.idx = idx /\ y.buf = d /\ y.stride = PlaneStride(d, idx, s) OBVIOUS
    <3>. HIDE DEF y
    <3>2. SUFFICES ASSUME Reports, idx = 0, Layout[d].virtgpu, Layout[d].stride # 0
                   PROVE  PlaneStride(d, idx, s) = Layout[d].stride
      BY <3>1 DEF Fits
    <3>. QED BY <3>2 DEF Reports, PlaneStride, apply_dmabuf_plane0_fixup
  <2>5. /\ t \in Seq(Plane) /\ t # Absent /\ pending' = [pending EXCEPT ![p] = a]
        /\ Len(a) = Len(t) + 1 /\ a[Len(t) + 1] = y
        /\ \A i \in 1 .. Len(t) : a[i] = t[i]
    BY <2>3
  <2>6. \A i \in 1 .. Len(t) : Fits(t[i]) BY <2>2, <2>5
  <2>7. Len(t) \in Nat BY <2>5
  <2>8. pending'[p] = a /\ \A k \in ParamsIds : k # p => pending'[k] = pending[k]
    <3>1. pending \in [ParamsIds -> Seq(Plane) \cup {Absent}] BY TypeOld
    <3>. HIDE DEF a, t, y
    <3>. QED BY <2>5, <3>1
  <2>. HIDE DEF a, t, y
  <2>9. \A i \in 1 .. Len(a) : Fits(a[i])
    <3>. TAKE i \in 1 .. Len(a)
    <3>1. i = Len(t) + 1 \/ i \in 1 .. Len(t) BY <2>5, <2>7
    <3>. QED BY <2>4, <2>5, <2>6, <3>1
  <2>10. \A k \in ParamsIds : pending'[k] # Absent =>
           \A i \in 1 .. Len(pending'[k]) : Fits(pending'[k][i])
    BY <2>2, <2>8, <2>9
  <2>11. /\ life' = "running" => Knows(ToldAll(host', queue'), map', dying', used', gens')
         /\ host' \in Host /\ ~host'.err /\ (Reports => host'.layout)
         /\ \A k \in ParamsIds : map'[k] \in 0 .. gens'
         /\ Injective(map') /\ UNCHANGED allocator
    BY <2>1, <2>2
  <2>. QED BY <2>10, <2>11, HeardFrom
<1>. QED BY <1>1, <1>2, AddCases

LEMMA DestroyParamsHeard ==
  ASSUME TypeInv, HeardInv, NEW p \in ParamsIds, OnDestroyParams(p)
  PROVE  HeardInv'
<1>1. /\ host \in Host /\ ~host.err /\ (Reports => host.layout)
      /\ life = "running" => Knows(ToldAll(host, queue), map, dying, used, gens)
      /\ \A k \in ParamsIds : map[k] \in 0 .. gens
      /\ Injective(map)
      /\ \A k \in ParamsIds : pending[k] # Absent =>
           \A i \in 1 .. Len(pending[k]) : Fits(pending[k][i])
  BY HeardHas
<1>. DEFINE m == [op |-> "destroy_params", host |-> map[p]]
            f == ToldAll(host, queue)
            e == ToldAll(host, Append(queue, m))
<1>2. /\ pending' = [pending EXCEPT ![p] = Absent]
      /\ used' = used \ {p} /\ dying' = dying \cup {p}
      /\ queue' = Append(queue, m)
      /\ life = "running" /\ map[p] # 0 /\ p \notin dying
      /\ UNCHANGED <<allocator, host, map, gens>>
  BY DEF OnDestroyParams, Alive, Idle
<1>3. queue \in Seq(Request) /\ map[p] \in Nat BY TypeOld
<1>4. m \in Request BY <1>3 DEF Request
<1>5. e = Told(f, m) BY <1>3, <1>4, ToldLast
<1>6. Knows(f, map, dying, used, gens) BY <1>1, <1>2
<1>. HIDE DEF f, e
<1>7. Knows(e, map, dying \cup {p}, used \ {p}, gens)
  BY <1>1, <1>2, <1>5, <1>6, KnowsDestroyed
<1>8. Knows(ToldAll(host', queue'), map', dying', used', gens')
  BY <1>2, <1>7 DEF e
<1>9. \A k \in ParamsIds : pending'[k] # Absent =>
         \A i \in 1 .. Len(pending'[k]) : Fits(pending'[k][i])
  <2>1. \A k \in ParamsIds : pending'[k] = IF k = p THEN Absent ELSE pending[k]
    BY <1>2, TypeOld
  <2>. QED BY <1>1, <2>1
<1>10. /\ host' \in Host /\ ~host'.err /\ (Reports => host'.layout)
       /\ \A k \in ParamsIds : map'[k] \in 0 .. gens'
       /\ Injective(map') /\ UNCHANGED allocator
  BY <1>1, <1>2
<1>. QED BY <1>8, <1>9, <1>10, HeardFrom

LEMMA CreateHeard ==
  ASSUME TypeInv, HeardInv, NEW p \in ParamsIds, NEW c \in Creates, NEW immed \in BOOLEAN,
         OnCreate(p, c, immed)
  PROVE  HeardInv'
<1>0. life = "running" /\ map[p] # 0 /\ p \notin dying BY DEF OnCreate, Idle
<1>1. CASE (Fatal \/ Alive) /\ UNCHANGED mine
  <2>1. /\ UNCHANGED <<allocator, host, map, gens, pending, queue, dying, used>>
        /\ life' = "fatal" \/ life' = life
    BY <1>1 DEF Fatal, Alive, mine
  <2>2. \A k \in ParamsIds : pending'[k] \in {Absent, pending[k]} BY <2>1
  <2>3. life' # "running" \/ UNCHANGED <<queue, dying, used, life>> BY <2>1
  <2>. QED BY <2>1, <2>2, <2>3, HeardSilent
<1>2. CASE Rejects(p)
  <2>1. /\ pending' = [pending EXCEPT ![p] = Absent] /\ life' = "fatal"
        /\ UNCHANGED <<allocator, host, map, gens>>
    BY <1>2 DEF Rejects, Fatal
  <2>2. \A k \in ParamsIds : pending'[k] \in {Absent, pending[k]} BY <2>1, TypeOld
  <2>3. life' # "running" BY <2>1
  <2>. QED BY <2>1, <2>2, <2>3, HeardSilent
<1>3. ASSUME NEW sync, Sends(p, c, immed, sync) PROVE HeardInv'
  <2>1. /\ host \in Host /\ ~host.err /\ (Reports => host.layout)
        /\ life = "running" => Knows(ToldAll(host, queue), map, dying, used, gens)
        /\ \A k \in ParamsIds : map[k] \in 0 .. gens
        /\ Injective(map)
        /\ \A k \in ParamsIds : pending[k] # Absent =>
             \A i \in 1 .. Len(pending[k]) : Fits(pending[k][i])
    BY HeardHas
  <2>2. pending[p] \in Seq(Plane) BY <1>3, SendsHas
  <2>3. /\ p \notin used /\ pending[p] # Absent /\ valid_params(pending[p], c)
        /\ pending' = [pending EXCEPT ![p] = Absent]
        /\ queue' = queue \o HostMessages(pending[p], c, immed, map[p])
        /\ used' = used \cup {p}
        /\ UNCHANGED <<allocator, host, map, dying, gens>>
    BY <1>3 DEF Sends, Alive
  <2>. DEFINE planes == pending[p]
              n == map[p]
              f == ToldAll(host, queue)
              r == queue \o HostMessages(planes, c, immed, n)
              e == ToldAll(host, r)
  <2>4. Knows(f, map, dying, used, gens) BY <1>0, <2>1
  <2>5. n \in 1 .. Len(f.params) /\ f.params[n] = NewParams /\ (Reports => f.layout)
    BY <1>0, <2>3, <2>4 DEF Knows, KnownAs
  <2>6. /\ planes \in Seq(Plane) /\ valid_params(planes, c) /\ queue \in Seq(Request)
        /\ \A i \in 1 .. Len(planes) : Fits(planes[i])
    BY <2>1, <2>2, <2>3, TypeOld
  <2>7. queue' = r BY <2>3
  <2>. HIDE DEF planes, r
  <2>8. Touched(f, e, n)
    <3>. HIDE DEF n
    <3>1. Touched(ToldAll(host, queue), ToldAll(host, queue \o HostMessages(planes, c, immed, n)), n)
      BY <2>1, <2>5, <2>6, BatchTold
    <3>. QED BY <3>1 DEF r
  <2>. HIDE DEF f, e
  <2>9. Knows(e, map, dying, used \cup {p}, gens)
    BY <1>0, <2>1, <2>4, <2>8, KnowsTouched
  <2>10. Knows(ToldAll(host', queue'), map', dying', used', gens')
    BY <2>3, <2>7, <2>9 DEF e
  <2>11. \A k \in ParamsIds : pending'[k] # Absent =>
           \A i \in 1 .. Len(pending'[k]) : Fits(pending'[k][i])
    <3>1. \A k \in ParamsIds : pending'[k] = IF k = p THEN Absent ELSE pending[k]
      BY <2>3, TypeOld
    <3>. QED BY <2>1, <3>1
  <2>12. /\ host' \in Host /\ ~host'.err /\ (Reports => host'.layout)
         /\ \A k \in ParamsIds : map'[k] \in 0 .. gens'
         /\ Injective(map') /\ UNCHANGED allocator
    BY <2>1, <2>3
  <2>. QED BY <2>10, <2>11, <2>12, HeardFrom
<1>. QED BY <1>1, <1>2, <1>3, CreateCases

LEMMA FlushHeard ==
  ASSUME TypeInv, HeardInv, Flush
  PROVE  HeardInv'
<1>. DEFINE f == ToldAll(host, queue)
<1>1. /\ host' = f /\ queue' = <<>> /\ life = "running" /\ life' = life
      /\ UNCHANGED <<allocator, map, gens, dying, used, pending>>
  BY DEF Flush, Idle
<1>2. /\ life = "running" => Knows(f, map, dying, used, gens)
      /\ \A p \in ParamsIds : map[p] \in 0 .. gens
      /\ Injective(map)
      /\ \A p \in ParamsIds : pending[p] # Absent =>
           \A i \in 1 .. Len(pending[p]) : Fits(pending[p][i])
  BY HeardHas
<1>. HIDE DEF f
<1>3. Knows(f, map, dying, used, gens) BY <1>1, <1>2
<1>4. f \in Host /\ ~f.err /\ (Reports => f.layout) BY <1>3 DEF Knows
<1>5. ToldAll(host', queue') = f BY <1>1, ToldEmpty
<1>6. life' = "running" => Knows(ToldAll(host', queue'), map', dying', used', gens')
  BY <1>1, <1>3, <1>5
<1>7. /\ host' \in Host /\ ~host'.err /\ (Reports => host'.layout)
      /\ \A p \in ParamsIds : map'[p] \in 0 .. gens'
      /\ Injective(map') /\ UNCHANGED allocator
      /\ \A p \in ParamsIds : pending'[p] # Absent =>
           \A i \in 1 .. Len(pending'[p]) : Fits(pending'[p][i])
  BY <1>1, <1>2, <1>4
<1>. QED BY <1>6, <1>7, HeardFrom

LEMMA DeleteIdHeard ==
  ASSUME TypeInv, HeardInv, NEW p \in ParamsIds, DeleteId(p)
  PROVE  HeardInv'
<1>. DEFINE f == ToldAll(host, queue)
<1>1. /\ map' = [map EXCEPT ![p] = 0] /\ dying' = dying \ {p}
      /\ UNCHANGED <<allocator, host, queue, life, gens, used, pending>>
  BY DEF DeleteId, Alive
<1>2. /\ host \in Host /\ ~host.err /\ (Reports => host.layout)
      /\ life = "running" => Knows(f, map, dying, used, gens)
      /\ \A k \in ParamsIds : map[k] \in 0 .. gens
      /\ Injective(map)
      /\ \A k \in ParamsIds : pending[k] # Absent =>
           \A i \in 1 .. Len(pending[k]) : Fits(pending[k][i])
  BY HeardHas
<1>3. map \in [ParamsIds -> Nat] /\ gens \in Nat BY TypeOld
<1>. HIDE DEF f
<1>4. life = "running" => Knows(f, [map EXCEPT ![p] = 0], dying \ {p}, used, gens)
  BY <1>2, <1>3, KnowsForgotten
<1>5. life' = "running" => Knows(ToldAll(host', queue'), map', dying', used', gens')
  BY <1>1, <1>4 DEF f
<1>6. \A k \in ParamsIds : map'[k] = IF k = p THEN 0 ELSE map[k] BY <1>1, <1>3
<1>7. \A k \in ParamsIds : map'[k] \in 0 .. gens' BY <1>1, <1>2, <1>3, <1>6
<1>8. Injective(map') BY <1>2, <1>6 DEF Injective
<1>9. /\ host' \in Host /\ ~host'.err /\ (Reports => host'.layout) /\ UNCHANGED allocator
      /\ \A k \in ParamsIds : pending'[k] # Absent =>
           \A i \in 1 .. Len(pending'[k]) : Fits(pending'[k][i])
  BY <1>1, <1>2
<1>. QED BY <1>5, <1>7, <1>8, <1>9, HeardFrom

\* The answer to a create, whatever is still in flight behind it.
LEMMA AnswerHeard ==
  ASSUME TypeInv, HeardInv, NEW g \in 1 .. Len(host.params), host.params[g].state = "asked",
         Answered(g), life = "running"
  PROVE  /\ Knows(ToldAll(host', queue), map, dying, used, gens)
         /\ host' \in Host /\ ~host'.err /\ (Reports => host'.layout)
<1>1. /\ host \in Host /\ ~host.err /\ (Reports => host.layout)
      /\ Knows(ToldAll(host, queue), map, dying, used, gens)
  BY HeardHas
<1>2. AnswerTo(host, host', g) BY <1>1, AnswerIs DEF Answered
<1>3. queue \in Seq(Request) BY TypeOld
<1>4. AnswerTo(ToldAll(host, queue), ToldAll(host', queue), g)
  <2>. DEFINE h == host'
  <2>1. AnswerTo(host, h, g) BY <1>2
  <2>. HIDE DEF h
  <2>2. AnswerTo(ToldAll(host, queue), ToldAll(h, queue), g) BY <1>3, <2>1, AnswerToldAll
  <2>. QED BY <2>2 DEF h
<1>5. Knows(ToldAll(host', queue), map, dying, used, gens)
  <2>. DEFINE a == ToldAll(host, queue)
              b == ToldAll(host', queue)
  <2>1. Knows(a, map, dying, used, gens) /\ AnswerTo(a, b, g) BY <1>1, <1>4
  <2>. HIDE DEF a, b
  <2>2. Knows(b, map, dying, used, gens) BY <2>1, KnowsAnswer
  <2>. QED BY <2>2 DEF b
<1>. QED BY <1>1, <1>2, <1>5 DEF AnswerTo

\* What is left to say once the answer is known.
LEMMA AnsweredHeard ==
  ASSUME TypeInv, HeardInv, UNCHANGED <<allocator, map, gens, dying, used, pending>>,
         host' \in Host, ~host'.err, Reports => host'.layout,
         Knows(ToldAll(host', queue'), map, dying, used, gens)
  PROVE  HeardInv'
<1>1. /\ \A k \in ParamsIds : map[k] \in 0 .. gens
      /\ Injective(map)
      /\ \A k \in ParamsIds : pending[k] # Absent =>
           \A i \in 1 .. Len(pending[k]) : Fits(pending[k][i])
  BY HeardHas
<1>2. life' = "running" => Knows(ToldAll(host', queue'), map', dying', used', gens')
  OBVIOUS
<1>3. /\ \A p \in ParamsIds : map'[p] \in 0 .. gens'
      /\ Injective(map') /\ UNCHANGED allocator
      /\ \A p \in ParamsIds : pending'[p] # Absent =>
           \A i \in 1 .. Len(pending'[p]) : Fits(pending'[p][i])
  BY <1>1
<1>. QED BY <1>2, <1>3, HeardFrom

LEMMA CreatedHeard ==
  ASSUME TypeInv, HeardInv, NEW g \in 1 .. Len(host.params), OnCreated(g)
  PROVE  HeardInv'
<1>1. /\ host.params[g].state = "asked" /\ Answered(g) /\ life = "running"
      /\ UNCHANGED <<allocator, map, gens, dying, used, pending>>
  BY CreatedCases DEF Idle
<1>2. /\ Knows(ToldAll(host', queue), map, dying, used, gens)
      /\ host' \in Host /\ ~host'.err /\ (Reports => host'.layout)
  BY <1>1, AnswerHeard
<1>3. CASE Destroyed(g)
  <2>. DEFINE m == [op |-> "destroy_buffer", host |-> g]
              a == ToldAll(host', queue)
              b == ToldAll(host', Append(queue, m))
              h == host'
  <2>0. host \in Host BY HeardHas
  <2>1. g \in Nat BY <2>0, HostHas
  <2>2. m \in Request /\ m.op = "destroy_buffer" /\ queue \in Seq(Request)
    BY <2>1, TypeOld DEF Request
  <2>3. queue' = Append(queue, m) BY <1>3 DEF Destroyed
  <2>. HIDE DEF m
  <2>4. b = Told(a, m)
    <3>1. ToldAll(h, Append(queue, m)) = Told(ToldAll(h, queue), m)
      <4>. HIDE DEF h
      <4>. QED BY <2>2, ToldLast
    <3>. QED BY <3>1
  <2>5. Knows(a, map, dying, used, gens) BY <1>2
  <2>6. b = ToldAll(host', queue') BY <2>3
  <2>. HIDE DEF a, b
  <2>7. a \in Host BY <2>5 DEF Knows
  <2>8. b.params = a.params /\ b.err = a.err /\ b.layout = a.layout /\ b \in Host
    BY <2>2, <2>4, <2>7, ToldOther, ToldType
  <2>9. Knows(b, map, dying, used, gens) BY <2>5, <2>8, KnowsSame
  <2>10. Knows(ToldAll(host', queue'), map, dying, used, gens) BY <2>6, <2>9
  <2>. QED BY <1>1, <1>2, <2>10, AnsweredHeard
<1>4. ASSUME NEW c \in creates, Registered(g, c) PROVE HeardInv'
  <2>1. queue' = queue BY <1>4 DEF Registered
  <2>2. Knows(ToldAll(host', queue'), map, dying, used, gens) BY <1>2, <2>1
  <2>. QED BY <1>1, <1>2, <2>2, AnsweredHeard
<1>. QED BY <1>3, <1>4, CreatedCases

LEMMA FailedHeard ==
  ASSUME TypeInv, HeardInv, NEW g \in 1 .. Len(host.params), OnFailed(g)
  PROVE  HeardInv'
<1>1. /\ host.params[g].state = "asked" /\ Answered(g) /\ life = "running"
      /\ UNCHANGED <<allocator, map, gens, dying, used, pending, queue>>
  BY DEF OnFailed, Idle
<1>2. /\ Knows(ToldAll(host', queue), map, dying, used, gens)
      /\ host' \in Host /\ ~host'.err /\ (Reports => host'.layout)
  BY <1>1, AnswerHeard
<1>3. Knows(ToldAll(host', queue'), map, dying, used, gens) BY <1>1, <1>2
<1>. QED BY <1>1, <1>2, <1>3, AnsweredHeard

LEMMA ReleaseHeard ==
  ASSUME TypeInv, HeardInv, NEW b, OnRelease(b) \/ RemoveBuffer(b)
  PROVE  HeardInv'
<1>1. UNCHANGED <<allocator, host, map, gens, queue, dying, used, life, pending>>
  BY DEF OnRelease, RemoveBuffer, Alive
<1>2. \A k \in ParamsIds : pending'[k] \in {Absent, pending[k]} BY <1>1
<1>. QED BY <1>1, <1>2, HeardSilent

LEMMA QueueCommitHeard ==
  ASSUME TypeInv, HeardInv, NEW b \in 1 .. Len(buffers), NEW imp \in BOOLEAN, QueueCommit(b, imp),
         life = "running", UNCHANGED <<allocator, host, gens>>
  PROVE  HeardInv'
<1>. DEFINE m == [op |-> "commit", buffer |-> b]
<1>1. /\ m \in Request /\ queue' = Append(queue, m)
      /\ UNCHANGED <<map, dying, pending, used>>
  BY QueueCommitHas
<1>2. m.op = "commit" OBVIOUS
<1>. HIDE DEF m
<1>. QED BY <1>1, <1>2, HeardBufferRequest

LEMMA CommitHeard ==
  ASSUME TypeInv, HeardInv, NEW b \in 1 .. Len(buffers), OnCommit(b)
  PROVE  HeardInv'
<1>1. life = "running" /\ UNCHANGED <<allocator, host, gens, life>>
  BY DEF OnCommit, Idle, Alive
<1>2. CASE QueueCommit(b, TRUE) BY <1>1, <1>2, QueueCommitHeard
<1>3. CASE UNCHANGED mine
  <2>1. UNCHANGED <<map, queue, dying, used, pending>> BY <1>3 DEF mine
  <2>2. \A k \in ParamsIds : pending'[k] \in {Absent, pending[k]} BY <2>1
  <2>. QED BY <1>1, <2>1, <2>2, HeardSilent
<1>. QED BY <1>2, <1>3 DEF OnCommit

LEMMA WaitHeard ==
  ASSUME TypeInv, HeardInv, Wait
  PROVE  HeardInv'
<1>1. /\ life = "running" /\ UNCHANGED <<allocator, host, gens>>
      /\ life' = life \/ life' = "fatal"
  BY DEF Wait, Synchronized, ImplicitSyncFallback, WaitError
<1>2. waiting # None => waiting.buffer \in 1 .. Len(buffers) BY DEF TypeInv
<1>3. ASSUME waiting # None, NEW imp \in BOOLEAN, QueueCommit(waiting.buffer, imp)
      PROVE  HeardInv'
  BY <1>1, <1>2, <1>3, QueueCommitHeard
<1>4. CASE UNCHANGED mine
  <2>1. UNCHANGED <<map, queue, dying, used, pending>> BY <1>4 DEF mine
  <2>2. \A k \in ParamsIds : pending'[k] \in {Absent, pending[k]} BY <2>1
  <2>3. life' # "running" \/ UNCHANGED <<queue, dying, used, life>> BY <1>1, <2>1
  <2>4. UNCHANGED <<allocator, host, map, gens>> BY <1>1, <2>1
  <2>. QED BY <2>2, <2>3, <2>4, HeardSilent
<1>. QED BY <1>3, <1>4 DEF Wait, Synchronized, ImplicitSyncFallback, WaitError

LEMMA GpuHeard ==
  ASSUME TypeInv, HeardInv, NEW d, GpuStart(d) \/ GpuEnd(d)
  PROVE  HeardInv'
<1>1. UNCHANGED <<allocator, host, map, gens, queue, dying, used, life, pending>>
  BY DEF GpuStart, GpuEnd, mine
<1>2. \A k \in ParamsIds : pending'[k] \in {Absent, pending[k]} BY <1>1
<1>. QED BY <1>1, <1>2, HeardSilent

LEMMA TeardownHeard ==
  ASSUME TypeInv, HeardInv, Teardown
  PROVE  HeardInv'
<1>1. /\ UNCHANGED <<allocator, host, map, gens>> /\ life' = "closed"
      /\ pending' = [p \in ParamsIds |-> Absent]
  BY DEF Teardown
<1>2. \A k \in ParamsIds : pending'[k] \in {Absent, pending[k]} BY <1>1
<1>3. life' # "running" BY <1>1
<1>. QED BY <1>1, <1>2, <1>3, HeardSilent

-----------------------------------------------------------------------------
(* Frames wait for the guest GPU, action by action                         *)

\* A buffer in its place: whole while it lives, and finished once it is handed over.
Unsynced(b) == \E i \in 1 .. Len(b.planes) : ~CanWait(b.planes[i])
Over(b, wr) == \A i \in 1 .. Len(b.planes) : b.planes[i] \notin wr
FrameOf(b, wr) ==
  /\ b.state # "gone" => Whole(b.planes, b.sync)
  /\ b.implicit => Unsynced(b)
  /\ b.state \in {"queued", "held"} => Over(b, wr) \/ Unsynced(b)

CommitsQueued(q, bs) ==
  \A i \in 1 .. Len(q) : q[i].op = "commit" =>
    q[i].buffer \in 1 .. Len(bs) /\ bs[q[i].buffer].state = "queued"

WaitsFor(w, b, wr) ==
  /\ b.state = "idle" /\ w.plane \in 1 .. Len(b.planes)
  /\ \A i \in 1 .. Len(b.planes) : i < w.plane => b.planes[i] \notin wr

LEMMA FrameHas ==
  ASSUME FrameInv
  PROVE  /\ \A c \in creates : Whole(c.planes, c.sync)
         /\ \A b \in 1 .. Len(buffers) : FrameOf(buffers[b], writing)
         /\ CommitsQueued(queue, buffers)
         /\ waiting # None => WaitsFor(waiting, buffers[waiting.buffer], writing)
BY DEF FrameInv, FrameOf, CommitsQueued, WaitsFor, Unsynced, Over, Unsynchronized, Finished

\* What CanWait depends on, the machine and the node chosen at start, never changes.
LEMMA FrameFrom ==
  ASSUME UNCHANGED <<machine, allocator>>,
         \A c \in creates' : Whole(c.planes, c.sync),
         \A b \in 1 .. Len(buffers') : FrameOf(buffers'[b], writing'),
         CommitsQueued(queue', buffers'),
         waiting' # None => WaitsFor(waiting', buffers'[waiting'.buffer], writing')
  PROVE  FrameInv'
<1>1. \A d : CanWait(d)' <=> CanWait(d) BY DEF CanWait, VirtgpuWait
<1>2. \A b \in 1 .. Len(buffers') :
       /\ buffers'[b].state # "gone" => Whole(buffers'[b].planes, buffers'[b].sync)
       /\ buffers'[b].implicit => Unsynchronized(buffers[b])'
       /\ buffers'[b].state \in {"queued", "held"} =>
            Finished(buffers[b])' \/ Unsynchronized(buffers[b])'
  BY <1>1 DEF FrameOf, Unsynced, Over, Unsynchronized, Finished
<1>. QED BY <1>2 DEF FrameInv, CommitsQueued, WaitsFor

LEMMA FrameInit ==
  ASSUME Init
  PROVE  FrameInv
<1>1. creates = {} /\ buffers = <<>> /\ queue = <<>> /\ waiting = None BY DEF Init
<1>2. Len(<<>>) = 0 OBVIOUS
<1>. QED BY <1>1, <1>2 DEF FrameInv

\* Steps that leave the buffers, the GPU and the wait alone and queue no commit.
LEMMA FrameSilent ==
  ASSUME TypeInv, FrameInv, UNCHANGED <<machine, allocator, buffers, writing>>,
         waiting' \in {None, waiting},
         \A c \in creates' : c \in creates \/ Whole(c.planes, c.sync),
         \A i \in 1 .. Len(queue') : queue'[i].op = "commit" =>
           \E k \in 1 .. Len(queue) : queue[k] = queue'[i]
  PROVE  FrameInv'
<1>1. /\ \A c \in creates : Whole(c.planes, c.sync)
      /\ \A b \in 1 .. Len(buffers) : FrameOf(buffers[b], writing)
      /\ CommitsQueued(queue, buffers)
      /\ waiting # None => WaitsFor(waiting, buffers[waiting.buffer], writing)
  BY FrameHas
<1>2. CommitsQueued(queue', buffers') BY <1>1 DEF CommitsQueued
<1>3. \A c \in creates' : Whole(c.planes, c.sync) BY <1>1
<1>4. \A b \in 1 .. Len(buffers') : FrameOf(buffers'[b], writing') BY <1>1
<1>5. waiting' # None => WaitsFor(waiting', buffers'[waiting'.buffer], writing') BY <1>1
<1>. QED BY <1>2, <1>3, <1>4, <1>5, FrameFrom

\* A request that is no commit.
LEMMA NoCommitAppended ==
  ASSUME TypeInv, NEW m \in Request, m.op # "commit", queue' = Append(queue, m)
  PROVE  \A i \in 1 .. Len(queue') : queue'[i].op = "commit" =>
           \E k \in 1 .. Len(queue) : queue[k] = queue'[i]
<1>1. queue \in Seq(Request) BY TypeOld
<1>2. /\ Len(queue') = Len(queue) + 1 /\ queue'[Len(queue) + 1] = m
      /\ \A i \in 1 .. Len(queue) : queue'[i] = queue[i]
  BY <1>1, AppendIs
<1>3. Len(queue) \in Nat BY <1>1
<1>. QED BY <1>2, <1>3

\* The buffer b becomes y, which keeps its place in no queue.
LEMMA FrameReplaced ==
  ASSUME TypeInv, FrameInv, UNCHANGED <<machine, allocator, writing, creates, queue>>,
         waiting = None, waiting' = None,
         NEW b \in 1 .. Len(buffers), buffers[b].state # "queued",
         NEW y \in NativeBuffer, buffers' = [buffers EXCEPT ![b] = y], FrameOf(y, writing)
  PROVE  FrameInv'
<1>1. /\ \A c \in creates : Whole(c.planes, c.sync)
      /\ \A i \in 1 .. Len(buffers) : FrameOf(buffers[i], writing)
      /\ CommitsQueued(queue, buffers)
  BY FrameHas
<1>2. /\ Len(buffers') = Len(buffers) /\ buffers'[b] = y
      /\ \A i \in 1 .. Len(buffers) : i # b => buffers'[i] = buffers[i]
  BY BufferReplaced
<1>3. \A i \in 1 .. Len(buffers') : FrameOf(buffers'[i], writing')
  <2>. TAKE i \in 1 .. Len(buffers')
  <2>1. CASE i = b BY <1>2, <2>1
  <2>2. CASE i # b BY <1>1, <1>2, <2>2
  <2>. QED BY <2>1, <2>2
<1>4. CommitsQueued(queue', buffers') BY <1>1, <1>2 DEF CommitsQueued
<1>. QED BY <1>1, <1>3, <1>4, FrameFrom

LEMMA CreateParamsFrame ==
  ASSUME TypeInv, FrameInv, NEW p \in ParamsIds, CreateParams(p)
  PROVE  FrameInv'
<1>1. /\ UNCHANGED <<machine, allocator, buffers, writing, waiting, creates>>
      /\ queue' = Append(queue, [op |-> "create_params", host |-> gens + 1])
  BY DEF CreateParams
<1>2. [op |-> "create_params", host |-> gens + 1] \in Request BY TypeOld DEF Request
<1>. QED BY <1>1, <1>2, NoCommitAppended, FrameSilent

LEMMA AddFrame ==
  ASSUME TypeInv, FrameInv, NEW p \in ParamsIds, NEW d \in Dmabufs, NEW idx \in 0 .. 2,
         NEW s \in Strides, OnAdd(p, d, idx, s)
  PROVE  FrameInv'
<1>1. UNCHANGED <<machine, allocator, buffers, writing, waiting, creates, queue>>
  BY AddCases DEF Fatal, Alive, mine, KeepPlane
<1>. QED BY <1>1, FrameSilent

LEMMA DestroyParamsFrame ==
  ASSUME TypeInv, FrameInv, NEW p \in ParamsIds, OnDestroyParams(p)
  PROVE  FrameInv'
<1>1. /\ UNCHANGED <<machine, allocator, buffers, writing, waiting>>
      /\ \A c \in creates' : c \in creates
      /\ queue' = Append(queue, [op |-> "destroy_params", host |-> map[p]])
  BY DEF OnDestroyParams, Alive
<1>2. [op |-> "destroy_params", host |-> map[p]] \in Request BY TypeOld DEF Request
<1>. QED BY <1>1, <1>2, NoCommitAppended, FrameSilent
\* A buffer is registered, with its planes whole.
LEMMA FrameRegistered ==
  ASSUME TypeInv, FrameInv, UNCHANGED <<machine, allocator, writing>>,
         waiting = None, waiting' = None,
         NEW planes \in Seq(Plane), NEW sync \in Seq(Nat), Whole(planes, sync),
         buffers' = Append(buffers, Buffer(planes, sync)),
         \A c \in creates' : c \in creates,
         \A i \in 1 .. Len(queue') : queue'[i].op = "commit" =>
           \E k \in 1 .. Len(queue) : queue[k] = queue'[i]
  PROVE  FrameInv'
<1>. DEFINE y == Buffer(planes, sync)
<1>1. /\ y \in NativeBuffer /\ y.sync = sync /\ ~y.implicit /\ y.state = "idle"
      /\ Len(y.planes) = Len(planes)
  BY BufferIs
<1>2. /\ \A c \in creates : Whole(c.planes, c.sync)
      /\ \A i \in 1 .. Len(buffers) : FrameOf(buffers[i], writing)
      /\ CommitsQueued(queue, buffers)
  BY FrameHas
<1>. HIDE DEF y
<1>3. /\ Len(buffers') = Len(buffers) + 1 /\ buffers'[Len(buffers) + 1] = y
      /\ \A i \in 1 .. Len(buffers) : buffers'[i] = buffers[i]
  <2>1. buffers' = Append(buffers, y) BY DEF y
  <2>. QED BY <1>1, <2>1, BufferAdded
<1>4. Len(buffers) \in Nat BY TypeOld
<1>5. FrameOf(y, writing) BY <1>1 DEF FrameOf, Whole
<1>6. \A i \in 1 .. Len(buffers') : FrameOf(buffers'[i], writing')
  <2>. TAKE i \in 1 .. Len(buffers')
  <2>1. i = Len(buffers) + 1 \/ i \in 1 .. Len(buffers) BY <1>3, <1>4
  <2>. QED BY <1>2, <1>3, <1>5, <2>1
<1>7. CommitsQueued(queue', buffers')
  <2>. SUFFICES ASSUME NEW i \in 1 .. Len(queue'), queue'[i].op = "commit"
                PROVE  /\ queue'[i].buffer \in 1 .. Len(buffers')
                       /\ buffers'[queue'[i].buffer].state = "queued"
    BY DEF CommitsQueued
  <2>1. PICK k \in 1 .. Len(queue) : queue[k] = queue'[i] OBVIOUS
  <2>2. queue'[i].buffer \in 1 .. Len(buffers) /\ buffers[queue'[i].buffer].state = "queued"
    BY <1>2, <2>1 DEF CommitsQueued
  <2>. QED BY <1>3, <1>4, <2>2
<1>8. \A c \in creates' : Whole(c.planes, c.sync) BY <1>2
<1>. QED BY <1>6, <1>7, <1>8, FrameFrom

LEMMA CreateFrame ==
  ASSUME TypeInv, FrameInv, NEW p \in ParamsIds, NEW c \in Creates, NEW immed \in BOOLEAN,
         OnCreate(p, c, immed)
  PROVE  FrameInv'
<1>0. waiting = None BY DEF OnCreate, Idle
<1>1. CASE (Fatal \/ Alive) /\ UNCHANGED mine
  <2>1. UNCHANGED <<machine, allocator, buffers, writing, waiting, creates, queue>>
    BY <1>1 DEF Fatal, Alive, mine
  <2>. QED BY <2>1, FrameSilent
<1>2. CASE Rejects(p)
  <2>1. UNCHANGED <<machine, allocator, buffers, writing, waiting, creates, queue>>
    BY <1>2 DEF Rejects, Fatal
  <2>. QED BY <2>1, FrameSilent
<1>3. ASSUME NEW sync, Sends(p, c, immed, sync) PROVE FrameInv'
  <2>. DEFINE planes == pending[p]
              n == map[p]
  <2>1. /\ planes \in Seq(Plane) /\ Len(planes) \in {1, 2}
        /\ sync \in Seq(Nat) /\ Len(sync) = Len(planes) /\ n \in Nat
    BY <1>3, SendsHas
  <2>2. /\ UNCHANGED <<machine, allocator, writing, waiting>>
        /\ queue' = queue \o HostMessages(planes, c, immed, n)
        /\ immed => buffers' = Append(buffers, Buffer(planes, sync)) /\ UNCHANGED creates
        /\ ~immed => /\ creates' = creates \cup {[host |-> n, planes |-> planes, sync |-> sync]}
                     /\ UNCHANGED buffers
    BY <1>3 DEF Sends, Alive
  <2>. HIDE DEF planes, n
  <2>3. Whole(planes, sync) BY <2>1 DEF Whole
  <2>4. \A i \in 1 .. Len(queue') : queue'[i].op = "commit" =>
          \E k \in 1 .. Len(queue) : queue[k] = queue'[i]
    <3>1. queue \in Seq(Request) BY TypeOld
    <3>. QED BY <2>1, <2>2, <3>1, BatchQueue
  <2>5. CASE immed BY <1>0, <2>1, <2>2, <2>3, <2>4, <2>5, FrameRegistered
  <2>6. CASE ~immed
    <3>1. \A e \in creates' : e \in creates \/ Whole(e.planes, e.sync) BY <2>2, <2>3, <2>6
    <3>. QED BY <2>2, <2>4, <2>6, <3>1, FrameSilent
  <2>. QED BY <2>5, <2>6
<1>. QED BY <1>1, <1>2, <1>3, CreateCases

LEMMA FlushFrame ==
  ASSUME TypeInv, FrameInv, Flush
  PROVE  FrameInv'
<1>1. /\ UNCHANGED <<machine, allocator, writing, waiting, creates>> /\ waiting = None
      /\ queue' = <<>>
      /\ buffers' = [b \in DOMAIN buffers |->
           IF b \in Committed THEN [buffers[b] EXCEPT !.state = "held"] ELSE buffers[b]]
  BY DEF Flush, Idle
<1>2. /\ \A c \in creates : Whole(c.planes, c.sync)
      /\ \A i \in 1 .. Len(buffers) : FrameOf(buffers[i], writing)
      /\ CommitsQueued(queue, buffers)
  BY FrameHas
<1>3. /\ Len(buffers) \in Nat /\ DOMAIN buffers = 1 .. Len(buffers)
      /\ \A b \in 1 .. Len(buffers) : buffers[b] \in NativeBuffer
  BY BuffersHave
<1>4. Len(buffers') = Len(buffers) BY <1>1, <1>3
<1>5. queue \in Seq(Request) BY TypeOld
<1>6. \A b \in Committed : buffers[b].state = "queued"
  <2>1. DOMAIN queue = 1 .. Len(queue) BY <1>5
  <2>. QED BY <1>2, <2>1 DEF Committed, CommitsQueued
<1>7. \A b \in 1 .. Len(buffers') : FrameOf(buffers'[b], writing')
  <2>. TAKE b \in 1 .. Len(buffers')
  <2>1. CASE b \in Committed
    <3>. DEFINE y == [buffers[b] EXCEPT !.state = "held"]
    <3>1. buffers'[b] = y /\ buffers[b].state = "queued" /\ buffers[b] \in NativeBuffer
      BY <1>1, <1>3, <1>4, <1>6, <2>1
    <3>2. /\ y.state = "held" /\ y.planes = buffers[b].planes /\ y.sync = buffers[b].sync
          /\ y.implicit = buffers[b].implicit
      BY <3>1 DEF NativeBuffer
    <3>3. FrameOf(buffers[b], writing) BY <1>2, <1>4
    <3>. HIDE DEF y
    <3>4. FrameOf(y, writing) BY <3>1, <3>2, <3>3 DEF FrameOf, Unsynced, Over
    <3>. QED BY <1>1, <3>1, <3>4
  <2>2. CASE b \notin Committed
    <3>1. buffers'[b] = buffers[b] BY <1>1, <1>3, <1>4, <2>2
    <3>. QED BY <1>1, <1>2, <1>4, <3>1
  <2>. QED BY <2>1, <2>2
<1>8. CommitsQueued(queue', buffers')
  <2>1. Len(<<>>) = 0 OBVIOUS
  <2>. QED BY <1>1, <2>1 DEF CommitsQueued
<1>. QED BY <1>1, <1>2, <1>7, <1>8, FrameFrom

LEMMA DeleteIdFrame ==
  ASSUME TypeInv, FrameInv, NEW p, DeleteId(p)
  PROVE  FrameInv'
<1>1. UNCHANGED <<machine, allocator, buffers, writing, waiting, creates, queue>>
  BY DEF DeleteId, Alive
<1>. QED BY <1>1, FrameSilent

LEMMA CreatedFrame ==
  ASSUME TypeInv, FrameInv, NEW g \in Nat, OnCreated(g)
  PROVE  FrameInv'
<1>1. waiting = None /\ UNCHANGED <<machine, allocator, writing, waiting>>
  BY CreatedCases DEF Idle
<1>2. CASE Destroyed(g)
  <2>1. [op |-> "destroy_buffer", host |-> g] \in Request BY DEF Request
  <2>2. /\ queue' = Append(queue, [op |-> "destroy_buffer", host |-> g])
        /\ UNCHANGED <<creates, buffers>>
    BY <1>2 DEF Destroyed
  <2>. QED BY <1>1, <2>1, <2>2, NoCommitAppended, FrameSilent
<1>3. ASSUME NEW c \in creates, Registered(g, c) PROVE FrameInv'
  <2>1. c.planes \in Seq(Plane) /\ c.sync \in Seq(Nat) BY <1>3, RegisteredHas
  <2>2. Whole(c.planes, c.sync) BY FrameHas
  <2>3. /\ buffers' = Append(buffers, Buffer(c.planes, c.sync))
        /\ \A e \in creates' : e \in creates
        /\ UNCHANGED queue
    BY <1>3 DEF Registered
  <2>4. \A i \in 1 .. Len(queue') : queue'[i].op = "commit" =>
          \E k \in 1 .. Len(queue) : queue[k] = queue'[i]
    BY <2>3
  <2>. QED BY <1>1, <2>1, <2>2, <2>3, <2>4, FrameRegistered
<1>. QED BY <1>2, <1>3, CreatedCases

LEMMA FailedFrame ==
  ASSUME TypeInv, FrameInv, NEW g, OnFailed(g)
  PROVE  FrameInv'
<1>1. /\ UNCHANGED <<machine, allocator, buffers, writing, waiting, queue>>
      /\ \A c \in creates' : c \in creates
  BY DEF OnFailed
<1>. QED BY <1>1, FrameSilent

LEMMA ReleaseFrame ==
  ASSUME TypeInv, FrameInv, NEW b \in 1 .. Len(buffers), OnRelease(b)
  PROVE  FrameInv'
<1>. DEFINE y == [buffers[b] EXCEPT !.state = "idle"]
<1>1. /\ UNCHANGED <<machine, allocator, writing, creates, queue>>
      /\ waiting = None /\ waiting' = None /\ buffers[b].state = "held"
  BY DEF OnRelease, Alive, Idle
<1>2. /\ y \in NativeBuffer /\ buffers' = [buffers EXCEPT ![b] = y]
      /\ y.sync = buffers[b].sync /\ y.planes = buffers[b].planes
      /\ y.implicit = buffers[b].implicit /\ y.state = "idle"
  BY ReleaseHas
<1>. HIDE DEF y
<1>3. FrameOf(buffers[b], writing) BY FrameHas
<1>4. FrameOf(y, writing) BY <1>1, <1>2, <1>3 DEF FrameOf, Unsynced
<1>. QED BY <1>1, <1>2, <1>4, FrameReplaced

LEMMA RemoveFrame ==
  ASSUME TypeInv, FrameInv, NEW b \in 1 .. Len(buffers), RemoveBuffer(b)
  PROVE  FrameInv'
<1>1. /\ UNCHANGED <<machine, allocator, writing, creates, queue>>
      /\ waiting = None /\ waiting' = None /\ buffers[b].state = "idle"
      /\ buffers' = [buffers EXCEPT ![b] = Gone]
  BY DEF RemoveBuffer, Alive, Idle
<1>2. Gone \in NativeBuffer /\ FrameOf(Gone, writing) BY GoneIs DEF FrameOf
<1>. QED BY <1>1, <1>2, FrameReplaced

\* A commit is queued for an idle buffer whose planes are finished, or cannot be waited for.
LEMMA QueueCommitFrame ==
  ASSUME TypeInv, FrameInv, NEW b \in 1 .. Len(buffers), NEW imp \in BOOLEAN, QueueCommit(b, imp),
         UNCHANGED <<machine, allocator, writing>>, waiting' = None,
         buffers[b].state = "idle",
         Over(buffers[b], writing) \/ Unsynced(buffers[b]),
         imp => Unsynced(buffers[b])
  PROVE  FrameInv'
<1>. DEFINE y == [buffers[b] EXCEPT !.state = "queued", !.implicit = imp]
            m == [op |-> "commit", buffer |-> b]
<1>1. /\ y \in NativeBuffer /\ buffers' = [buffers EXCEPT ![b] = y]
      /\ y.sync = buffers[b].sync /\ y.planes = buffers[b].planes
      /\ y.implicit = imp /\ y.state = "queued"
      /\ m \in Request /\ queue' = Append(queue, m)
      /\ UNCHANGED creates
  BY QueueCommitHas
<1>2. m.op = "commit" /\ m.buffer = b OBVIOUS
<1>. HIDE DEF y, m
<1>3. /\ \A c \in creates : Whole(c.planes, c.sync)
      /\ \A i \in 1 .. Len(buffers) : FrameOf(buffers[i], writing)
      /\ CommitsQueued(queue, buffers)
  BY FrameHas
<1>4. /\ Len(buffers') = Len(buffers) /\ buffers'[b] = y
      /\ \A i \in 1 .. Len(buffers) : i # b => buffers'[i] = buffers[i]
  BY <1>1, BufferReplaced
<1>5. FrameOf(y, writing)
  <2>1. FrameOf(buffers[b], writing) BY <1>3
  <2>. QED BY <1>1, <2>1 DEF FrameOf, Unsynced, Over
<1>6. \A i \in 1 .. Len(buffers') : FrameOf(buffers'[i], writing')
  <2>. TAKE i \in 1 .. Len(buffers')
  <2>1. CASE i = b BY <1>4, <1>5, <2>1
  <2>2. CASE i # b BY <1>3, <1>4, <2>2
  <2>. QED BY <2>1, <2>2
<1>7. CommitsQueued(queue', buffers')
  <2>1. queue \in Seq(Request) BY TypeOld
  <2>2. /\ Len(queue') = Len(queue) + 1 /\ queue'[Len(queue) + 1] = m
        /\ \A i \in 1 .. Len(queue) : queue'[i] = queue[i]
    BY <1>1, <2>1, AppendIs
  <2>3. Len(queue) \in Nat BY <2>1
  <2>4. SUFFICES ASSUME NEW i \in 1 .. Len(queue'), queue'[i].op = "commit"
                 PROVE  /\ queue'[i].buffer \in 1 .. Len(buffers')
                        /\ buffers'[queue'[i].buffer].state = "queued"
    BY DEF CommitsQueued
  <2>5. CASE i = Len(queue) + 1 BY <1>1, <1>2, <1>4, <2>2, <2>5
  <2>6. CASE i \in 1 .. Len(queue)
    <3>1. queue[i].buffer \in 1 .. Len(buffers) /\ buffers[queue[i].buffer].state = "queued"
      BY <1>3, <2>2, <2>4, <2>6 DEF CommitsQueued
    <3>. QED BY <1>1, <1>4, <2>2, <2>6, <3>1
  <2>. QED BY <2>2, <2>3, <2>5, <2>6
<1>. QED BY <1>1, <1>3, <1>6, <1>7, FrameFrom

LEMMA CommitFrame ==
  ASSUME TypeInv, FrameInv, NEW b \in 1 .. Len(buffers), OnCommit(b)
  PROVE  FrameInv'
<1>0. /\ UNCHANGED <<machine, allocator, writing>> /\ waiting = None
      /\ buffers[b].state = "idle"
  BY DEF OnCommit, Idle, Alive
<1>1. FrameOf(buffers[b], writing) BY FrameHas
<1>2. CASE buffers[b].implicit
  <2>1. QueueCommit(b, TRUE) /\ waiting' = waiting BY <1>2 DEF OnCommit, Alive
  <2>2. Unsynced(buffers[b]) BY <1>1, <1>2 DEF FrameOf
  <2>. QED BY <1>0, <2>1, <2>2, QueueCommitFrame
<1>3. CASE ~buffers[b].implicit
  <2>1. waiting' = [buffer |-> b, plane |-> 1] /\ UNCHANGED <<creates, buffers, queue>>
    BY <1>3 DEF OnCommit, mine
  <2>2. waiting'.buffer = b /\ waiting'.plane = 1 BY <2>1
  <2>3. 1 \in 1 .. Len(buffers[b].planes)
    <3>1. Len(buffers[b].planes) > 0 BY <1>0, <1>1 DEF FrameOf, Whole
    <3>2. Len(buffers[b].planes) \in Nat BY BuffersHave
    <3>. QED BY <3>1, <3>2
  <2>4. WaitsFor(waiting', buffers[b], writing)
    BY <1>0, <2>2, <2>3 DEF WaitsFor
  <2>5. /\ \A c \in creates : Whole(c.planes, c.sync)
        /\ \A i \in 1 .. Len(buffers) : FrameOf(buffers[i], writing)
        /\ CommitsQueued(queue, buffers)
    BY FrameHas
  <2>. QED BY <1>0, <2>1, <2>2, <2>4, <2>5, FrameFrom
<1>. QED BY <1>2, <1>3

LEMMA WaitFrame ==
  ASSUME TypeInv, FrameInv, Wait
  PROVE  FrameInv'
<1>. DEFINE n == waiting.buffer
            b == buffers[n]
            k == waiting.plane
<1>1. waiting # None /\ UNCHANGED <<machine, allocator, writing>>
  BY DEF Wait, Synchronized, ImplicitSyncFallback, WaitError, WaitFails
<1>2. n \in 1 .. Len(buffers) /\ waiting \in [buffer : Nat, plane : Nat]
  BY <1>1 DEF TypeInv
<1>3. /\ \A c \in creates : Whole(c.planes, c.sync)
      /\ \A i \in 1 .. Len(buffers) : FrameOf(buffers[i], writing)
      /\ CommitsQueued(queue, buffers)
      /\ WaitsFor(waiting, b, writing)
  BY <1>1, FrameHas
<1>4. /\ b.state = "idle" /\ k \in 1 .. Len(b.planes)
      /\ \A i \in 1 .. Len(b.planes) : i < k => b.planes[i] \notin writing
  BY <1>3 DEF WaitsFor
<1>5. Len(b.sync) = Len(b.planes) /\ Len(b.planes) \in Nat
  <2>1. FrameOf(b, writing) BY <1>2, <1>3
  <2>2. Len(b.planes) \in Nat BY <1>2, BuffersHave
  <2>. QED BY <1>4, <2>1, <2>2 DEF FrameOf, Whole
<1>6. WaitedPlane = b.planes[k] /\ (LastPlane <=> k = Len(b.sync)) BY DEF WaitedPlane, LastPlane
<1>7. CASE Synchronized /\ LastPlane
  <2>1. QueueCommit(n, FALSE) /\ waiting' = None /\ b.planes[k] \notin writing
    BY <1>6, <1>7 DEF Synchronized
  <2>2. Over(b, writing)
    <3>1. \A i \in 1 .. Len(b.planes) : i < k \/ i = k BY <1>4, <1>5, <1>6, <1>7
    <3>. QED BY <1>4, <2>1, <3>1 DEF Over
  <2>. HIDE DEF n
  <2>. QED BY <1>1, <1>2, <1>4, <2>1, <2>2, QueueCommitFrame
<1>8. CASE Synchronized /\ ~LastPlane
  <2>1. /\ waiting' = [waiting EXCEPT !.plane = waiting.plane + 1]
        /\ UNCHANGED <<creates, buffers, queue>> /\ b.planes[k] \notin writing
    BY <1>6, <1>8 DEF Synchronized, mine
  <2>2. waiting'.buffer = n /\ waiting'.plane = k + 1 BY <1>2, <2>1
  <2>3. k + 1 \in 1 .. Len(b.planes) BY <1>4, <1>5, <1>6, <1>8
  <2>4. \A i \in 1 .. Len(b.planes) : i < k + 1 => b.planes[i] \notin writing
    <3>1. \A i \in 1 .. Len(b.planes) : i < k + 1 => i < k \/ i = k BY <1>4, <1>5
    <3>. QED BY <1>4, <2>1, <3>1
  <2>5. WaitsFor(waiting', b, writing) BY <1>4, <2>2, <2>3, <2>4 DEF WaitsFor
  <2>6. WaitsFor(waiting', buffers'[waiting'.buffer], writing')
    BY <1>1, <2>1, <2>2, <2>5
  <2>. QED BY <1>1, <1>3, <2>1, <2>6, FrameFrom
<1>9. CASE ImplicitSyncFallback
  <2>1. QueueCommit(n, TRUE) /\ waiting' = None /\ ~CanWait(b.planes[k])
    BY <1>6, <1>9 DEF ImplicitSyncFallback
  <2>2. Unsynced(b) BY <1>4, <2>1 DEF Unsynced
  <2>. HIDE DEF n
  <2>. QED BY <1>1, <1>2, <1>4, <2>1, <2>2, QueueCommitFrame
<1>10. CASE WaitError
  <2>1. waiting' = None /\ UNCHANGED <<creates, buffers, queue>>
    BY <1>10 DEF WaitError, mine
  <2>. QED BY <1>1, <2>1, FrameSilent
<1>. QED BY <1>7, <1>8, <1>9, <1>10 DEF Wait
LEMMA GpuFrame ==
  ASSUME TypeInv, FrameInv, NEW d \in Dmabufs, GpuStart(d) \/ GpuEnd(d)
  PROVE  FrameInv'
<1>1. /\ \A c \in creates : Whole(c.planes, c.sync)
      /\ \A i \in 1 .. Len(buffers) : FrameOf(buffers[i], writing)
      /\ CommitsQueued(queue, buffers)
      /\ waiting # None => WaitsFor(waiting, buffers[waiting.buffer], writing)
  BY FrameHas
<1>2. UNCHANGED <<machine, allocator, creates, buffers, queue, waiting>>
  BY DEF GpuStart, GpuEnd, mine
<1>3. \A b \in 1 .. Len(buffers) :
        /\ buffers[b].state \in {"queued", "held"} /\ Over(buffers[b], writing) =>
             Over(buffers[b], writing')
        /\ waiting # None /\ waiting.buffer = b =>
             \A i \in 1 .. Len(buffers[b].planes) : buffers[b].planes[i] \in writing' =>
               buffers[b].planes[i] \in writing
  <2>1. CASE GpuEnd(d)
    <3>1. writing' \subseteq writing BY <2>1 DEF GpuEnd
    <3>. QED BY <3>1 DEF Over
  <2>2. CASE GpuStart(d)
    <3>. TAKE b \in 1 .. Len(buffers)
    <3>1. DOMAIN buffers = 1 .. Len(buffers) BY BuffersHave
    <3>2. writing' = writing \cup {d} /\ ~InUse(d) BY <2>2 DEF GpuStart
    <3>3. \A i \in 1 .. Len(buffers[b].planes) :
            buffers[b].planes[i] \in Range(buffers[b].planes)
      <4>1. buffers[b].planes \in Seq(Dmabufs) BY BuffersHave
      <4>2. DOMAIN buffers[b].planes = 1 .. Len(buffers[b].planes) BY <4>1
      <4>. QED BY <4>2 DEF Range
    <3>4. \/ buffers[b].state \in {"queued", "held"}
          \/ waiting # None /\ waiting.buffer = b
          => \A i \in 1 .. Len(buffers[b].planes) : buffers[b].planes[i] # d
      BY <3>1, <3>2, <3>3 DEF InUse
    <3>. QED BY <3>2, <3>4 DEF Over
  <2>. QED BY <2>1, <2>2
<1>4. \A b \in 1 .. Len(buffers') : FrameOf(buffers'[b], writing')
  BY <1>1, <1>2, <1>3 DEF FrameOf
<1>5. waiting' # None => WaitsFor(waiting', buffers'[waiting'.buffer], writing')
  <2>1. waiting # None => waiting.buffer \in 1 .. Len(buffers) BY DEF TypeInv
  <2>. QED BY <1>1, <1>2, <1>3, <2>1 DEF WaitsFor
<1>. QED BY <1>1, <1>2, <1>4, <1>5, FrameFrom

LEMMA TeardownFrame ==
  ASSUME TypeInv, FrameInv, Teardown
  PROVE  FrameInv'
<1>1. /\ UNCHANGED <<machine, allocator, waiting>> /\ waiting = None
      /\ queue' = <<>> /\ creates' = {}
      /\ buffers' = [b \in DOMAIN buffers |-> Gone]
  BY DEF Teardown
<1>2. Len(buffers) \in Nat /\ DOMAIN buffers = 1 .. Len(buffers) BY BuffersHave
<1>3. Len(buffers') = Len(buffers) BY <1>1, <1>2
<1>4. \A b \in 1 .. Len(buffers') : buffers'[b] = Gone BY <1>1, <1>2, <1>3
<1>5. \A b \in 1 .. Len(buffers') : FrameOf(buffers'[b], writing')
  BY <1>4, GoneIs DEF FrameOf
<1>6. CommitsQueued(queue', buffers')
  <2>1. Len(<<>>) = 0 OBVIOUS
  <2>. QED BY <1>1, <2>1 DEF CommitsQueued
<1>. QED BY <1>1, <1>5, <1>6, FrameFrom

-----------------------------------------------------------------------------
(* The invariant and the theorems                                          *)

LEMMA OwnInit ==
  ASSUME Init
  PROVE  OwnInv
<1>1. /\ queue = <<>> /\ pending = [p \in ParamsIds |-> Absent]
      /\ creates = {} /\ buffers = <<>> /\ open = {}
  BY DEF Init
<1>2. Len(<<>>) = 0 OBVIOUS
<1>3. \A x : ~InQueue(queue, x) BY <1>1, <1>2 DEF InQueue
<1>4. \A p \in ParamsIds : \A x : ~InPlanes(pending[p], x) BY <1>1 DEF InPlanes
<1>5. Owned(queue, pending, creates, buffers, open) BY <1>1, <1>2, <1>3, <1>4 DEF Owned
<1>. QED BY <1>1, <1>5 DEF OwnInv

LEMMA StutterKeeps ==
  ASSUME DmabufInv, UNCHANGED vars
  PROVE  DmabufInv'
<1>1. /\ UNCHANGED <<machine, allocator, map, dying, pending, used, creates, orphaned>>
      /\ UNCHANGED <<buffers, queue, open, waiting, gens, host, writing, life>>
  BY DEF vars, mine
<1>2. TypeInv /\ OwnInv /\ HeardInv /\ FrameInv BY DEF DmabufInv
<1>3. TypeInv' BY <1>1, <1>2 DEF TypeInv
<1>4. OwnInv' BY <1>1, <1>2 DEF OwnInv
<1>5. \A p \in ParamsIds : pending'[p] \in {Absent, pending[p]} BY <1>1
<1>6. HeardInv' BY <1>1, <1>2, <1>5, HeardSilent
<1>7. FrameInv' BY <1>1, <1>2, FrameSilent
<1>. QED BY <1>3, <1>4, <1>6, <1>7 DEF DmabufInv

LEMMA InitEstablishes == Init => DmabufInv
BY TypeInit, OwnInit, HeardInit, FrameInit DEF DmabufInv

LEMMA NextKeeps ==
  ASSUME DmabufInv, Next
  PROVE  DmabufInv'
<1>1. TypeInv /\ OwnInv /\ HeardInv /\ FrameInv BY DEF DmabufInv
<1>2. host \in Host BY <1>1 DEF HeardInv
<1>3. DOMAIN buffers = 1 .. Len(buffers) BY <1>1, BuffersHave
<1>4. ASSUME NEW p \in ParamsIds, CreateParams(p) PROVE DmabufInv'
  BY <1>1, <1>4, CreateParamsType, CreateParamsOwn, CreateParamsHeard, CreateParamsFrame
     DEF DmabufInv
<1>5. ASSUME NEW p \in ParamsIds, OnDestroyParams(p) PROVE DmabufInv'
  BY <1>1, <1>5, DestroyParamsType, DestroyParamsOwn, DestroyParamsHeard, DestroyParamsFrame
     DEF DmabufInv
<1>6. ASSUME NEW p \in ParamsIds, DeleteId(p) PROVE DmabufInv'
  BY <1>1, <1>6, DeleteIdType, DeleteIdOwn, DeleteIdHeard, DeleteIdFrame DEF DmabufInv
<1>7. ASSUME NEW p \in ParamsIds, NEW d \in Dmabufs, NEW idx \in 0 .. 2, NEW s \in Strides,
             OnAdd(p, d, idx, s)
      PROVE  DmabufInv'
  BY <1>1, <1>7, AddType, AddOwn, AddHeard, AddFrame DEF DmabufInv
<1>8. ASSUME NEW p \in ParamsIds, NEW c \in Creates, NEW immed \in BOOLEAN, OnCreate(p, c, immed)
      PROVE  DmabufInv'
  BY <1>1, <1>8, CreateType, CreateOwn, CreateHeard, CreateFrame DEF DmabufInv
<1>9. ASSUME NEW g \in 1 .. Len(host.params), OnCreated(g) \/ OnFailed(g) PROVE DmabufInv'
  <2>1. g \in Nat BY <1>2, HostHas
  <2>2. CASE OnCreated(g)
    BY <1>1, <2>1, <2>2, CreatedType, CreatedOwn, CreatedHeard, CreatedFrame DEF DmabufInv
  <2>3. CASE OnFailed(g)
    BY <1>1, <2>1, <2>3, FailedType, FailedOwn, FailedHeard, FailedFrame DEF DmabufInv
  <2>. QED BY <1>9, <2>2, <2>3
<1>10. ASSUME NEW b \in 1 .. Len(buffers), OnRelease(b) PROVE DmabufInv'
  BY <1>1, <1>10, ReleaseType, ReleaseOwn, ReleaseHeard, ReleaseFrame DEF DmabufInv
<1>11. ASSUME NEW b \in 1 .. Len(buffers), RemoveBuffer(b) PROVE DmabufInv'
  BY <1>1, <1>11, RemoveType, RemoveOwn, ReleaseHeard, RemoveFrame DEF DmabufInv
<1>12. ASSUME NEW b \in 1 .. Len(buffers), OnCommit(b) PROVE DmabufInv'
  BY <1>1, <1>12, CommitType, CommitOwn, CommitHeard, CommitFrame DEF DmabufInv
<1>13. ASSUME NEW d \in Dmabufs, GpuStart(d) \/ GpuEnd(d) PROVE DmabufInv'
  BY <1>1, <1>13, GpuType, GpuOwn, GpuHeard, GpuFrame DEF DmabufInv
<1>14. ASSUME Flush PROVE DmabufInv'
  BY <1>1, <1>14, FlushType, FlushOwn, FlushHeard, FlushFrame DEF DmabufInv
<1>15. ASSUME Wait PROVE DmabufInv'
  BY <1>1, <1>15, WaitType, WaitOwn, WaitHeard, WaitFrame DEF DmabufInv
<1>16. ASSUME Teardown PROVE DmabufInv'
  BY <1>1, <1>16, TeardownType, TeardownOwn, TeardownHeard, TeardownFrame DEF DmabufInv
<1>17. ASSUME Ended PROVE DmabufInv' BY <1>17, StutterKeeps DEF Ended
<1>. QED BY <1>3, <1>4, <1>5, <1>6, <1>7, <1>8, <1>9, <1>10, <1>11, <1>12, <1>13, <1>14, <1>15,
            <1>16, <1>17 DEF Next

\* The invariant of the params objects, the buffers and the waits (linux_dmabuf.rs,
\* compositor.rs): descriptors, what the host was told, and frames.
THEOREM DmabufInvariant == Spec => []DmabufInv
<1>1. DmabufInv /\ [Next]_vars => DmabufInv' BY NextKeeps, StutterKeeps
<1>. QED BY InitEstablishes, <1>1, PTL DEF Spec

\* Every descriptor the proxy opened has one owner, and none is left after teardown,
\* whatever fails half-way (pending_params, pending_native_creates, sync_fds, Drop for Context).
THEOREM DescriptorsAreOwned == Spec => []DescriptorsOwned
<1>1. DmabufInv => DescriptorsOwned BY OwnImplies DEF DmabufInv
<1>. QED BY <1>1, DmabufInvariant, PTL

\* The compositor accepts every params request it receives, for any number of params objects
\* and whatever is in flight (valid_params, process_params), and with a kernel that reports
\* resource layouts plane 0 carries the host's stride (apply_dmabuf_plane0_fixup).
THEOREM HostAcceptsParams == Spec => []HostAccepts
<1>1. DmabufInv => HostAccepts BY DEF DmabufInv, HeardInv, HostAccepts, Reports
<1>. QED BY <1>1, DmabufInvariant, PTL

\* A committed native buffer holds no plane the guest GPU still writes, unless one of its planes
\* has neither an exported fence nor the virtio-gpu wait (wait_for_native_buffer).
THEOREM FramesAreFinished == Spec => []NoUnfinishedFrame
<1>1. ASSUME DmabufInv PROVE NoUnfinishedFrame
  <2>1. TypeInv /\ FrameInv BY <1>1 DEF DmabufInv
  <2>2. \A b \in 1 .. Len(buffers) : FrameOf(buffers[b], writing) BY <2>1, FrameHas
  <2>3. DOMAIN buffers = 1 .. Len(buffers) BY <2>1, BuffersHave
  <2>4. \A b \in 1 .. Len(buffers) : DOMAIN buffers[b].planes = 1 .. Len(buffers[b].planes)
    <3>1. \A b \in 1 .. Len(buffers) : buffers[b].planes \in Seq(Dmabufs) BY <2>1, BuffersHave
    <3>. QED BY <3>1
  <2>. QED BY <2>2, <2>3, <2>4 DEF NoUnfinishedFrame, FrameOf, Over, Unsynced
<1>. QED BY <1>1, DmabufInvariant, PTL

=============================================================================
