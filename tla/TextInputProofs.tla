-------------------------- MODULE TextInputProofs --------------------------
(***************************************************************************)
(* Proofs about TextInput for any number of text inputs, callbacks and     *)
(* events in flight.  The invariant follows each host object through the   *)
(* two streams: between a deactivate and the done of its sync nothing the  *)
(* object sent is still on its way once the done is read.                  *)
(***************************************************************************)
EXTENDS TextInput, FiniteSetTheorems, NaturalsInduction, WellFoundedInduction,
        SequenceTheorems, TLAPS

-----------------------------------------------------------------------------
(* The inductive invariant                                                 *)

Is(q, i, op, x) == q[i].op = op /\ q[i].id = x
Has(q, op, x) == \E i \in 1 .. Len(q) : Is(q, i, op, x)
Once(q, op, x) ==
  \A i, j \in 1 .. Len(q) : Is(q, i, op, x) /\ Is(q, j, op, x) => i = j

\* What an IME event is about.
Kinds == {"preedit", "commit", "delete", "region", "confirm"}
Concerns(e, h) == e.op \in Kinds /\ e.id = h
NoEvents(q, h) == \A i \in 1 .. Len(q) : ~Concerns(q[i], h)

\* The host object h, at activation m, emits nothing until it is activated once more.
Calm(r, m, h) == m = 0 /\ ~Has(r, "activate", h)
Quiet(r, q, m, h) == Calm(r, m, h) /\ NoEvents(q, h)

\* The deactivate is behind every activate and before the sync.
Closing(r, m, h, cb) ==
  \/ Calm(r, m, h)
  \/ \E d \in 1 .. Len(r) :
       /\ Is(r, d, "deactivate", h)
       /\ \A i \in 1 .. Len(r) : /\ Is(r, i, "activate", h) => i < d
                                 /\ Is(r, i, "sync", cb) => d < i

\* The answer to the sync is behind every event of the host object.
Closed(r, q, m, h, cb) ==
  \A n \in 1 .. Len(q) :
    Is(q, n, "done", cb) =>
      Calm(r, m, h) /\ \A i \in 1 .. Len(q) : Concerns(q[i], h) => i < n

Cleared(t) == t.current_preedit = 0 /\ t.pending_deletes = <<>>
Wanted(t) == t.committed_enabled /\ t.active_surface # None

\* What the host object has sent, and what the input keeps, is of activation n.
Current(t, q, m, n) ==
  /\ \A i \in 1 .. Len(q) : Concerns(q[i], t.host_v1_id) => q[i].gen = n
  /\ m \in {0, n}
  /\ t.current_preedit \in {0, n}
  /\ \A i \in 1 .. Len(t.pending_deletes) : t.pending_deletes[i] = n

Drains(g, t, b, r, q, m, cb) ==
  /\ b[cb] = <<g, t.host_v1_id>>
  /\ Closing(r, m, t.host_v1_id, cb)
  /\ Closed(r, q, m, t.host_v1_id, cb)

\* A text input g in state t: barriers b, requests r and events q in flight,
\* the host object at activation m, and n activations sent to it.
InputOk(g, t, b, r, q, m, n, s) ==
  /\ t.host_activation = Active => Current(t, q, m, n)
  /\ t.host_activation # Active => Cleared(t)
  /\ t.host_activation = Inactive /\ s = "live" => Quiet(r, q, m, t.host_v1_id)
  /\ \A cb \in Callbacks :
       t.host_activation = Draining(cb) => Drains(g, t, b, r, q, m, cb)

\* A callback: free, asked for, answered, or waiting for its delete_id.
CallbackOk(cb, tracked, barrier, r, q) ==
  /\ cb \notin tracked =>
       ~Has(r, "sync", cb) /\ ~Has(q, "done", cb) /\ ~Has(q, "delete_id", cb)
  /\ barrier # None <=> Has(r, "sync", cb) \/ Has(q, "done", cb)
  /\ Has(r, "sync", cb) => ~Has(q, "done", cb) /\ ~Has(q, "delete_id", cb)
  /\ Once(r, "sync", cb) /\ Once(q, "done", cb) /\ Once(q, "delete_id", cb)
  /\ \A i, j \in 1 .. Len(q) :
       Is(q, i, "done", cb) /\ Is(q, j, "delete_id", cb) => i < j

\* The values a handler works on.
States == {t \in TextInputState : Len(t.pending_deletes) =< MaxDeletes}
Contexts ==
  [inputs : [TextInputs -> States \cup {None}],
   barriers : [Callbacks -> (TextInputs \X HostInputs) \cup {None}],
   cbTracked : SUBSET Callbacks, activated : [HostInputs -> Nat],
   queue : Seq(Request)]

\* The input, as it stands in c.
InputAt(c, g, q, hg, s) ==
  LET t == c.inputs[g]
  IN  InputOk(g, t, c.barriers, c.queue, q, hg[t.host_v1_id],
              c.activated[t.host_v1_id], s)

CallbacksOk(c, q) ==
  \A cb \in Callbacks : CallbackOk(cb, c.cbTracked, c.barriers[cb], c.queue, q)

\* Host objects are never shared nor used again.
HostsOk(c, q, hg, un) ==
  /\ \A f, g \in TextInputs :
       c.inputs[f] # None /\ c.inputs[g] # None /\ f # g
         => c.inputs[f].host_v1_id # c.inputs[g].host_v1_id
  /\ \A g \in TextInputs : c.inputs[g] # None => c.inputs[g].host_v1_id \notin un
  /\ \A h \in un : Quiet(c.queue, q, hg[h], h)

EnabledOk(c) ==
  \A f, g \in TextInputs :
    c.inputs[f] # None /\ c.inputs[g] # None /\ f # g =>
      ~(c.inputs[f].committed_enabled /\ c.inputs[g].committed_enabled)

\* Everything of the bridge but the inputs of E, which an operation is changing.
Good(c, q, hg, s, un, E) ==
  /\ c \in Contexts
  /\ \A g \in TextInputs \ E : c.inputs[g] # None => InputAt(c, g, q, hg, s)
  /\ CallbacksOk(c, q)
  /\ HostsOk(c, q, hg, un)
  /\ EnabledOk(c)

\* An active input is one that is wanted.
Settled(c, g) ==
  c.inputs[g] # None /\ HostIsActive(c.inputs[g]) => Wanted(c.inputs[g])

\* The editor state held and in flight is of the period p it was set in.
StatesOk(r) ==
  \A i \in 1 .. Len(r) : r[i].op = "state" => r[i].text \in {None, r[i].period}
EditorOk(c, p) ==
  /\ \A g \in TextInputs : c.inputs[g] # None => c.inputs[g].pending_text \in {None, p}
  /\ StatesOk(c.queue)

BridgeInv ==
  /\ TypeOK
  /\ Good(Ctx, toProxy, hostGen, seat, unusedHost, {})
  /\ \A g \in TextInputs : Settled(Ctx, g)
  /\ EditorOk(Ctx, period)

-----------------------------------------------------------------------------
(* Requests and events one at a time                                       *)

LEMMA AppendIs ==
  ASSUME NEW S, NEW q \in Seq(S), NEW x \in S
  PROVE  /\ Append(q, x) \in Seq(S)
         /\ Len(Append(q, x)) = Len(q) + 1 /\ Len(q) \in Nat
         /\ \A i \in 1 .. Len(q) : Append(q, x)[i] = q[i]
         /\ Append(q, x)[Len(q) + 1] = x
BY AppendProperties, LenProperties

LEMMA TailIs ==
  ASSUME NEW S, NEW q \in Seq(S), q # <<>>
  PROVE  /\ Tail(q) \in Seq(S) /\ Head(q) = q[1] /\ Head(q) \in S
         /\ Len(q) \in Nat /\ Len(q) > 0 /\ Len(Tail(q)) = Len(q) - 1
         /\ \A i \in 1 .. Len(q) - 1 : Tail(q)[i] = q[i + 1]
BY HeadTailProperties, LenProperties

LEMMA PairIs ==
  ASSUME NEW S, NEW q \in Seq(S), NEW x \in S, NEW y \in S
  PROVE  q \o <<x>> = Append(q, x) /\ q \o <<x, y>> = Append(Append(q, x), y)
OBVIOUS

\* The streams after one more element.
LEMMA HasAppend ==
  ASSUME NEW S, NEW q \in Seq(S), NEW x \in S, NEW op, NEW y
  PROVE  Has(Append(q, x), op, y) <=> Has(q, op, y) \/ (x.op = op /\ x.id = y)
<1>. DEFINE r == Append(q, x)
<1>1. /\ Len(r) = Len(q) + 1 /\ Len(q) \in Nat
      /\ \A i \in 1 .. Len(q) : r[i] = q[i]
      /\ r[Len(q) + 1] = x
  BY AppendIs
<1>. HIDE DEF r
<1>2. \A i \in 1 .. Len(r) : i \in 1 .. Len(q) \/ i = Len(q) + 1
  BY <1>1
<1>. QED BY <1>1, <1>2 DEF Has, Is

LEMMA HasTail ==
  ASSUME NEW S, NEW q \in Seq(S), q # <<>>, NEW op, NEW y
  PROVE  /\ Has(Tail(q), op, y) => Has(q, op, y)
         /\ Has(q, op, y) => Has(Tail(q), op, y) \/ (Head(q).op = op /\ Head(q).id = y)
         /\ Head(q).op = op /\ Head(q).id = y => Has(q, op, y)
         /\ Once(q, op, y) => /\ Once(Tail(q), op, y)
                              /\ Head(q).op = op /\ Head(q).id = y => ~Has(Tail(q), op, y)
<1>1. /\ Len(q) \in Nat /\ Len(q) > 0 /\ Len(Tail(q)) = Len(q) - 1 /\ Head(q) = q[1]
      /\ \A i \in 1 .. Len(q) - 1 : Tail(q)[i] = q[i + 1]
  BY TailIs
<1>2. \A i \in 1 .. Len(q) : i = 1 \/ \E j \in 1 .. Len(q) - 1 : i = j + 1
  <2>. TAKE i \in 1 .. Len(q)
  <2>1. i # 1 => i - 1 \in 1 .. Len(q) - 1 /\ i = (i - 1) + 1
    BY <1>1
  <2>. QED BY <2>1
<1>3. \A j \in 1 .. Len(q) - 1 : j + 1 \in 1 .. Len(q) /\ j + 1 # 1 /\ j \in 1 .. Len(Tail(q))
  BY <1>1
<1>4. 1 \in 1 .. Len(q) BY <1>1
<1>5. Has(Tail(q), op, y) => Has(q, op, y)
  BY <1>1, <1>3 DEF Has, Is
<1>6. Has(q, op, y) => Has(Tail(q), op, y) \/ (Head(q).op = op /\ Head(q).id = y)
  BY <1>1, <1>2, <1>3 DEF Has, Is
<1>7. Head(q).op = op /\ Head(q).id = y => Has(q, op, y)
  BY <1>1, <1>4 DEF Has, Is
<1>8. ASSUME Once(q, op, y) PROVE Once(Tail(q), op, y)
  <2>1. ASSUME NEW i \in 1 .. Len(Tail(q)), NEW j \in 1 .. Len(Tail(q)),
               Is(Tail(q), i, op, y), Is(Tail(q), j, op, y) PROVE i = j
    <3>1. i + 1 \in 1 .. Len(q) /\ j + 1 \in 1 .. Len(q) BY <1>1
    <3>2. i + 1 = j + 1 BY <3>1, <1>8, <2>1, <1>1 DEF Once, Is
    <3>. QED BY <3>2
  <2>. QED BY <2>1 DEF Once
<1>9. ASSUME Once(q, op, y), Head(q).op = op, Head(q).id = y PROVE ~Has(Tail(q), op, y)
  <2>1. ASSUME NEW j \in 1 .. Len(Tail(q)), Is(Tail(q), j, op, y) PROVE FALSE
    <3>1. j + 1 \in 1 .. Len(q) /\ j + 1 # 1 BY <1>1
    <3>. QED BY <3>1, <1>9, <2>1, <1>1, <1>4 DEF Once, Is
  <2>. QED BY <2>1 DEF Has
<1>. QED BY <1>5, <1>6, <1>7, <1>8, <1>9

LEMMA OnceAppend ==
  ASSUME NEW S, NEW q \in Seq(S), NEW x \in S, NEW op, NEW y, Once(q, op, y),
         ~(x.op = op /\ x.id = y) \/ ~Has(q, op, y)
  PROVE  Once(Append(q, x), op, y)
<1>. DEFINE r == Append(q, x)
<1>1. /\ Len(r) = Len(q) + 1 /\ Len(q) \in Nat
      /\ \A i \in 1 .. Len(q) : r[i] = q[i]
      /\ r[Len(q) + 1] = x
  BY AppendIs
<1>. HIDE DEF r
<1>2. \A i \in 1 .. Len(r) : i \in 1 .. Len(q) \/ i = Len(q) + 1
  BY <1>1
<1>3. Once(r, op, y)
  BY <1>1, <1>2 DEF Once, Has, Is
<1>. QED BY <1>3 DEF r

LEMMA NoEventsAppend ==
  ASSUME NEW S, NEW q \in Seq(S), NEW x \in S, NEW h
  PROVE  NoEvents(Append(q, x), h) <=> NoEvents(q, h) /\ ~Concerns(x, h)
<1>. DEFINE r == Append(q, x)
<1>1. /\ Len(r) = Len(q) + 1 /\ Len(q) \in Nat
      /\ \A i \in 1 .. Len(q) : r[i] = q[i]
      /\ r[Len(q) + 1] = x
  BY AppendIs
<1>. HIDE DEF r
<1>2. \A i \in 1 .. Len(r) : i \in 1 .. Len(q) \/ i = Len(q) + 1
  BY <1>1
<1>3. \A i \in 1 .. Len(q) : i \in 1 .. Len(r)
  BY <1>1
<1>4. Len(q) + 1 \in 1 .. Len(r)
  BY <1>1
<1>. QED BY <1>1, <1>2, <1>3, <1>4 DEF NoEvents

LEMMA StatesAppend ==
  ASSUME NEW S, NEW q \in Seq(S), NEW x \in S, StatesOk(q),
         x.op = "state" => x.text \in {None, x.period}
  PROVE  StatesOk(Append(q, x))
<1>. DEFINE r == Append(q, x)
<1>1. /\ Len(r) = Len(q) + 1 /\ Len(q) \in Nat
      /\ \A i \in 1 .. Len(q) : r[i] = q[i]
      /\ r[Len(q) + 1] = x
  BY AppendIs
<1>. HIDE DEF r
<1>2. \A i \in 1 .. Len(r) : i \in 1 .. Len(q) \/ i = Len(q) + 1
  BY <1>1
<1>3. StatesOk(r) BY <1>1, <1>2 DEF StatesOk
<1>. QED BY <1>3 DEF r

LEMMA StatesTail ==
  ASSUME NEW S, NEW q \in Seq(S), q # <<>>, StatesOk(q)
  PROVE  StatesOk(Tail(q))
<1>1. /\ Len(q) \in Nat /\ Len(Tail(q)) = Len(q) - 1
      /\ \A i \in 1 .. Len(q) - 1 : Tail(q)[i] = q[i + 1]
  BY TailIs
<1>2. \A j \in 1 .. Len(q) - 1 : j + 1 \in 1 .. Len(q)
  BY <1>1
<1>. QED BY <1>1, <1>2 DEF StatesOk

LEMMA NoEventsTail ==
  ASSUME NEW S, NEW q \in Seq(S), q # <<>>, NEW h, NoEvents(q, h)
  PROVE  NoEvents(Tail(q), h)
<1>1. /\ Len(q) \in Nat /\ Len(Tail(q)) = Len(q) - 1
      /\ \A i \in 1 .. Len(q) - 1 : Tail(q)[i] = q[i + 1]
  BY TailIs
<1>2. \A j \in 1 .. Len(q) - 1 : j + 1 \in 1 .. Len(q)
  BY <1>1
<1>. QED BY <1>1, <1>2 DEF NoEvents

-----------------------------------------------------------------------------
(* A request is queued                                                     *)

\* The request is not an activate of h.
Spares(x, h) == ~(x.op = "activate" /\ x.id = h)

LEMMA QuietQueued ==
  ASSUME NEW r \in Seq(Request), NEW x \in Request, NEW m, NEW h, Spares(x, h)
  PROVE  /\ Calm(r, m, h) <=> Calm(Append(r, x), m, h)
         /\ \A q : Quiet(r, q, m, h) => Quiet(Append(r, x), q, m, h)
<1>1. Has(Append(r, x), "activate", h) <=> Has(r, "activate", h)
  BY HasAppend DEF Spares
<1>. QED BY <1>1 DEF Calm, Quiet

LEMMA ClosingQueued ==
  ASSUME NEW r \in Seq(Request), NEW x \in Request, NEW m, NEW h, NEW cb, Spares(x, h),
         Closing(r, m, h, cb)
  PROVE  Closing(Append(r, x), m, h, cb)
<1>. DEFINE p == Append(r, x)
<1>1. /\ Len(p) = Len(r) + 1 /\ Len(r) \in Nat
      /\ \A i \in 1 .. Len(r) : p[i] = r[i]
      /\ p[Len(r) + 1] = x
  BY AppendIs
<1>2. CASE Calm(r, m, h)
  BY <1>2, QuietQueued DEF Closing
<1>3. CASE ~Calm(r, m, h)
  <2>1. PICK d \in 1 .. Len(r) :
               /\ Is(r, d, "deactivate", h)
               /\ \A i \in 1 .. Len(r) : /\ Is(r, i, "activate", h) => i < d
                                         /\ Is(r, i, "sync", cb) => d < i
    BY <1>3 DEF Closing
  <2>. HIDE DEF p
  <2>2. d \in 1 .. Len(p) /\ Is(p, d, "deactivate", h)
    BY <1>1, <2>1 DEF Is
  <2>3. ASSUME NEW i \in 1 .. Len(p)
        PROVE  /\ Is(p, i, "activate", h) => i < d
               /\ Is(p, i, "sync", cb) => d < i
    <3>1. CASE i \in 1 .. Len(r)
      BY <3>1, <1>1, <2>1 DEF Is
    <3>2. CASE i = Len(r) + 1
      BY <3>2, <1>1, <2>1 DEF Is, Spares
    <3>. QED BY <3>1, <3>2, <1>1
  <2>4. Closing(p, m, h, cb) BY <2>2, <2>3 DEF Closing
  <2>. QED BY <2>4 DEF p
<1>. QED BY <1>2, <1>3

LEMMA InputQueued ==
  ASSUME NEW r \in Seq(Request), NEW x \in Request,
         NEW g, NEW t, NEW b, NEW q, NEW m, NEW n, NEW s,
         InputOk(g, t, b, r, q, m, n, s), Spares(x, t.host_v1_id)
  PROVE  InputOk(g, t, b, Append(r, x), q, m, n, s)
<1>. DEFINE p == Append(r, x)
            h == t.host_v1_id
<1>1. (Calm(r, m, h) <=> Calm(p, m, h)) /\ (Quiet(r, q, m, h) => Quiet(p, q, m, h))
  BY QuietQueued
<1>2. \A cb : Closing(r, m, h, cb) => Closing(p, m, h, cb)
  BY ClosingQueued
<1>3. \A cb : Closed(r, q, m, h, cb) => Closed(p, q, m, h, cb)
  BY <1>1 DEF Closed
<1>4. \A cb : Drains(g, t, b, r, q, m, cb) => Drains(g, t, b, p, q, m, cb)
  BY <1>2, <1>3 DEF Drains
<1>. HIDE DEF p
<1>5. InputOk(g, t, b, p, q, m, n, s)
  BY <1>1, <1>4 DEF InputOk
<1>. QED BY <1>5 DEF p

LEMMA CallbackQueued ==
  ASSUME NEW r \in Seq(Request), NEW x \in Request, NEW cb, NEW tracked, NEW b, NEW q,
         CallbackOk(cb, tracked, b, r, q), ~(x.op = "sync" /\ x.id = cb)
  PROVE  CallbackOk(cb, tracked, b, Append(r, x), q)
<1>1. Has(Append(r, x), "sync", cb) <=> Has(r, "sync", cb)
  BY HasAppend
<1>2. Once(r, "sync", cb) => Once(Append(r, x), "sync", cb)
  BY OnceAppend
<1>. QED BY <1>1, <1>2 DEF CallbackOk

\* A sync on a callback that was free.
LEMMA CallbackAsked ==
  ASSUME NEW r \in Seq(Request), NEW x \in Request, NEW cb, NEW tracked, NEW b, NEW q,
         NEW b2, CallbackOk(cb, tracked, b, r, q), cb \notin tracked,
         x.op = "sync", x.id = cb, b2 # None
  PROVE  CallbackOk(cb, tracked \cup {cb}, b2, Append(r, x), q)
<1>1. Has(Append(r, x), "sync", cb)
  BY HasAppend
<1>2. Once(r, "sync", cb) /\ ~Has(r, "sync", cb)
  BY DEF CallbackOk
<1>3. Once(Append(r, x), "sync", cb)
  BY <1>2, OnceAppend
<1>. QED BY <1>1, <1>3 DEF CallbackOk

-----------------------------------------------------------------------------
(* The host reads a request                                                *)

\* What the host makes of it: the activation of its object h, and its answers.
Reads(x, h, m, n) == IF x.op = "activate" /\ x.id = h THEN n
                     ELSE IF x.op = "deactivate" /\ x.id = h THEN 0 ELSE m
Answers(x, q) ==
  IF x.op = "sync" THEN Append(Append(q, Req("done", x.id)), Req("delete_id", x.id)) ELSE q

LEMMA AnswersIs ==
  ASSUME NEW x \in Request, NEW q \in Seq(Event)
  PROVE  /\ Answers(x, q) \in Seq(Event)
         /\ Len(q) \in Nat /\ Len(Answers(x, q)) >= Len(q)
         /\ \A i \in 1 .. Len(q) : Answers(x, q)[i] = q[i]
         /\ x.op # "sync" => Answers(x, q) = q
         /\ x.op = "sync" =>
              /\ x.id \in Callbacks
              /\ Len(Answers(x, q)) = Len(q) + 2
              /\ Answers(x, q)[Len(q) + 1] = Req("done", x.id)
              /\ Answers(x, q)[Len(q) + 2] = Req("delete_id", x.id)
<1>1. CASE x.op = "sync"
  <2>1. x.id \in Callbacks /\ Req("done", x.id) \in Event /\ Req("delete_id", x.id) \in Event
    BY <1>1 DEF Request, Req, Event
  <2>. DEFINE q1 == Append(q, Req("done", x.id))
              q2 == Append(q1, Req("delete_id", x.id))
  <2>2. /\ q1 \in Seq(Event) /\ Len(q1) = Len(q) + 1 /\ Len(q) \in Nat
        /\ \A i \in 1 .. Len(q) : q1[i] = q[i]
        /\ q1[Len(q) + 1] = Req("done", x.id)
    BY <2>1, AppendIs
  <2>. HIDE DEF q1
  <2>3. /\ q2 \in Seq(Event) /\ Len(q2) = Len(q1) + 1
        /\ \A i \in 1 .. Len(q1) : q2[i] = q1[i]
        /\ q2[Len(q1) + 1] = Req("delete_id", x.id)
    BY <2>1, <2>2, AppendIs
  <2>4. Answers(x, q) = q2 BY <1>1 DEF Answers, q1
  <2>. HIDE DEF q2
  <2>. QED BY <1>1, <2>1, <2>2, <2>3, <2>4
<1>2. CASE x.op # "sync"
  BY <1>2, LenProperties DEF Answers
<1>. QED BY <1>1, <1>2

\* The answers are no IME events.
LEMMA AnswersConcern ==
  ASSUME NEW x \in Request, NEW q \in Seq(Event), NEW h,
         NEW i \in 1 .. Len(Answers(x, q)), Concerns(Answers(x, q)[i], h)
  PROVE  i \in 1 .. Len(q) /\ Concerns(q[i], h)
<1>. DEFINE p == Answers(x, q)
<1>1. /\ Len(q) \in Nat
      /\ \A k \in 1 .. Len(q) : p[k] = q[k]
      /\ x.op # "sync" => p = q
      /\ x.op = "sync" => /\ Len(p) = Len(q) + 2
                          /\ p[Len(q) + 1] = Req("done", x.id)
                          /\ p[Len(q) + 2] = Req("delete_id", x.id)
  BY AnswersIs
<1>. HIDE DEF p
<1>2. p[i].op \in Kinds BY DEF Concerns, p
<1>3. Req("done", x.id).op \notin Kinds /\ Req("delete_id", x.id).op \notin Kinds
  BY DEF Req, Kinds
<1>4. i \in 1 .. Len(q)
  <2>1. CASE x.op = "sync"
    <3>1. i # Len(q) + 1 /\ i # Len(q) + 2 BY <1>1, <1>2, <1>3, <2>1
    <3>2. i \in 1 .. Len(q) + 2 BY <1>1, <2>1 DEF p
    <3>. QED BY <3>1, <3>2, <1>1
  <2>2. CASE x.op # "sync"
    BY <2>2, <1>1 DEF p
  <2>. QED BY <2>1, <2>2
<1>. QED BY <1>1, <1>4 DEF p

LEMMA CalmRead ==
  ASSUME NEW r \in Seq(Request), r # <<>>, NEW m, NEW n, NEW h, Calm(r, m, h)
  PROVE  Calm(Tail(r), Reads(Head(r), h, m, n), h)
<1>1. ~Has(Tail(r), "activate", h) /\ ~(Head(r).op = "activate" /\ Head(r).id = h)
  BY HasTail DEF Calm
<1>. QED BY <1>1 DEF Calm, Reads

LEMMA QuietRead ==
  ASSUME NEW r \in Seq(Request), r # <<>>, NEW q \in Seq(Event), NEW m, NEW n, NEW h,
         Quiet(r, q, m, h)
  PROVE  Quiet(Tail(r), Answers(Head(r), q), Reads(Head(r), h, m, n), h)
<1>1. Calm(Tail(r), Reads(Head(r), h, m, n), h)
  BY CalmRead DEF Quiet
<1>2. Head(r) \in Request BY TailIs
<1>3. NoEvents(Answers(Head(r), q), h)
  BY <1>2, AnswersConcern DEF NoEvents, Quiet
<1>. QED BY <1>1, <1>3 DEF Quiet

LEMMA ClosingRead ==
  ASSUME NEW r \in Seq(Request), r # <<>>, NEW m, NEW n, NEW h, NEW cb,
         Closing(r, m, h, cb)
  PROVE  /\ Closing(Tail(r), Reads(Head(r), h, m, n), h, cb)
         /\ Head(r).op = "sync" /\ Head(r).id = cb => Calm(r, m, h)
<1>1. /\ Len(r) \in Nat /\ Len(r) > 0 /\ Len(Tail(r)) = Len(r) - 1 /\ Head(r) = r[1]
      /\ \A i \in 1 .. Len(r) - 1 : Tail(r)[i] = r[i + 1]
  BY TailIs
<1>2. CASE Calm(r, m, h)
  BY <1>2, CalmRead DEF Closing
<1>3. CASE ~Calm(r, m, h)
  <2>1. PICK d \in 1 .. Len(r) :
               /\ Is(r, d, "deactivate", h)
               /\ \A i \in 1 .. Len(r) : /\ Is(r, i, "activate", h) => i < d
                                         /\ Is(r, i, "sync", cb) => d < i
    BY <1>3 DEF Closing
  <2>2. ~(Head(r).op = "sync" /\ Head(r).id = cb)
    <3>1. 1 \in 1 .. Len(r) /\ ~(d < 1) BY <1>1
    <3>. QED BY <3>1, <2>1, <1>1 DEF Is
  <2>3. CASE d = 1
    <3>1. Reads(Head(r), h, m, n) = 0
      BY <2>1, <2>3, <1>1 DEF Is, Reads
    <3>2. ASSUME NEW i \in 1 .. Len(Tail(r)), Is(Tail(r), i, "activate", h) PROVE FALSE
      <4>1. i + 1 \in 1 .. Len(r) /\ ~(i + 1 < 1) BY <1>1
      <4>2. Is(r, i + 1, "activate", h) BY <3>2, <1>1 DEF Is
      <4>. QED BY <4>1, <4>2, <2>1, <2>3
    <3>3. Calm(Tail(r), Reads(Head(r), h, m, n), h)
      BY <3>1, <3>2 DEF Calm, Has
    <3>. QED BY <3>3, <2>2 DEF Closing
  <2>4. CASE d # 1
    <3>1. d - 1 \in 1 .. Len(Tail(r)) /\ Is(Tail(r), d - 1, "deactivate", h)
      <4>1. d - 1 \in 1 .. Len(r) - 1 /\ (d - 1) + 1 = d BY <2>4, <1>1
      <4>. QED BY <4>1, <1>1, <2>1 DEF Is
    <3>2. ASSUME NEW i \in 1 .. Len(Tail(r))
          PROVE  /\ Is(Tail(r), i, "activate", h) => i < d - 1
                 /\ Is(Tail(r), i, "sync", cb) => d - 1 < i
      <4>1. i + 1 \in 1 .. Len(r) /\ i \in 1 .. Len(r) - 1 BY <1>1
      <4>2. Tail(r)[i] = r[i + 1] BY <4>1, <1>1
      <4>3. Is(Tail(r), i, "activate", h) => i + 1 < d
        BY <4>1, <4>2, <2>1 DEF Is
      <4>4. Is(Tail(r), i, "sync", cb) => d < i + 1
        BY <4>1, <4>2, <2>1 DEF Is
      <4>. QED BY <4>1, <4>3, <4>4
    <3>3. Closing(Tail(r), Reads(Head(r), h, m, n), h, cb)
      BY <3>1, <3>2 DEF Closing
    <3>. QED BY <3>3, <2>2
  <2>. QED BY <2>3, <2>4
<1>. QED BY <1>2, <1>3

LEMMA ClosedRead ==
  ASSUME NEW r \in Seq(Request), r # <<>>, NEW q \in Seq(Event), NEW m, NEW n, NEW h,
         NEW cb, Closing(r, m, h, cb), Closed(r, q, m, h, cb)
  PROVE  Closed(Tail(r), Answers(Head(r), q), Reads(Head(r), h, m, n), h, cb)
<1>. DEFINE x == Head(r)
            p == Answers(x, q)
<1>1. x \in Request BY TailIs
<1>2. /\ Len(q) \in Nat
      /\ \A k \in 1 .. Len(q) : p[k] = q[k]
      /\ x.op # "sync" => p = q
      /\ x.op = "sync" => /\ Len(p) = Len(q) + 2
                          /\ p[Len(q) + 1] = Req("done", x.id)
                          /\ p[Len(q) + 2] = Req("delete_id", x.id)
  BY <1>1, AnswersIs
<1>3. \A i \in 1 .. Len(p) : Concerns(p[i], h) => i \in 1 .. Len(q) /\ Concerns(q[i], h)
  BY <1>1, AnswersConcern
<1>4. x.op = "sync" /\ x.id = cb => Calm(r, m, h)
  BY ClosingRead
<1>5. Calm(r, m, h) => Calm(Tail(r), Reads(x, h, m, n), h)
  BY CalmRead
<1>. HIDE DEF x, p
<1>6. ASSUME NEW k \in 1 .. Len(p), Is(p, k, "done", cb)
      PROVE  Calm(r, m, h) /\ \A i \in 1 .. Len(p) : Concerns(p[i], h) => i < k
  <2>1. CASE k \in 1 .. Len(q)
    <3>1. Is(q, k, "done", cb) BY <2>1, <1>2, <1>6 DEF Is
    <3>. QED BY <2>1, <3>1, <1>3 DEF Closed
  <2>2. CASE k \notin 1 .. Len(q)
    <3>1. x.op = "sync" BY <2>2, <1>2, <1>6
    <3>2. k = Len(q) + 1 \/ k = Len(q) + 2
      BY <3>1, <1>2, <1>6, <2>2
    <3>3. x.id = cb
      BY <3>1, <3>2, <1>2, <1>6 DEF Is, Req
    <3>4. \A i \in 1 .. Len(p) : Concerns(p[i], h) => i < k
      BY <3>2, <1>3, <1>2
    <3>. QED BY <3>1, <3>3, <3>4, <1>4
  <2>. QED BY <2>1, <2>2
<1>7. Closed(Tail(r), p, Reads(x, h, m, n), h, cb)
  BY <1>5, <1>6 DEF Closed
<1>. QED BY <1>7 DEF p, x

LEMMA InputRead ==
  ASSUME NEW r \in Seq(Request), r # <<>>, NEW q \in Seq(Event),
         NEW g, NEW t, NEW b, NEW m, NEW n, NEW s, InputOk(g, t, b, r, q, m, n, s)
  PROVE  InputOk(g, t, b, Tail(r), Answers(Head(r), q),
                 Reads(Head(r), t.host_v1_id, m, n), n, s)
<1>. DEFINE x == Head(r)
            h == t.host_v1_id
            p == Answers(x, q)
            m2 == Reads(x, h, m, n)
<1>1. x \in Request BY TailIs
<1>2. ASSUME Current(t, q, m, n) PROVE Current(t, p, m2, n)
  <2>1. \A i \in 1 .. Len(p) : Concerns(p[i], h) => i \in 1 .. Len(q) /\ Concerns(q[i], h)
    BY <1>1, AnswersConcern
  <2>2. \A k \in 1 .. Len(q) : p[k] = q[k]
    BY <1>1, AnswersIs
  <2>3. m2 \in {0, n} BY <1>2 DEF Current, Reads
  <2>. HIDE DEF p, m2
  <2>. QED BY <1>2, <2>1, <2>2, <2>3 DEF Current
<1>3. Quiet(r, q, m, h) => Quiet(Tail(r), p, m2, h)
  BY QuietRead
<1>4. ASSUME NEW cb, Drains(g, t, b, r, q, m, cb) PROVE Drains(g, t, b, Tail(r), p, m2, cb)
  <2>1. Closing(r, m, h, cb) /\ Closed(r, q, m, h, cb) BY <1>4 DEF Drains
  <2>2. Closing(Tail(r), m2, h, cb) BY <2>1, ClosingRead
  <2>3. Closed(Tail(r), p, m2, h, cb) BY <2>1, ClosedRead
  <2>. QED BY <1>4, <2>2, <2>3 DEF Drains
<1>. HIDE DEF p, m2, x
<1>5. InputOk(g, t, b, Tail(r), p, m2, n, s)
  BY <1>2, <1>3, <1>4 DEF InputOk
<1>. QED BY <1>5 DEF p, m2, x

LEMMA CallbackRead ==
  ASSUME NEW r \in Seq(Request), r # <<>>, NEW q \in Seq(Event),
         NEW cb, NEW tracked, NEW b, CallbackOk(cb, tracked, b, r, q)
  PROVE  CallbackOk(cb, tracked, b, Tail(r), Answers(Head(r), q))
<1>. DEFINE x == Head(r)
            d == Req("done", x.id)
            e == Req("delete_id", x.id)
            q1 == Append(q, d)
            q2 == Append(q1, e)
<1>1. x \in Request BY TailIs
<1>2. /\ Has(Tail(r), "sync", cb) => Has(r, "sync", cb)
      /\ Has(r, "sync", cb) => Has(Tail(r), "sync", cb) \/ (x.op = "sync" /\ x.id = cb)
      /\ Once(Tail(r), "sync", cb)
      /\ x.op = "sync" /\ x.id = cb => ~Has(Tail(r), "sync", cb) /\ Has(r, "sync", cb)
  BY HasTail DEF CallbackOk
<1>3. CASE x.op # "sync"
  <2>1. Answers(x, q) = q BY <1>3 DEF Answers
  <2>. HIDE DEF x
  <2>2. CallbackOk(cb, tracked, b, Tail(r), q)
    BY <1>2, <1>3 DEF CallbackOk
  <2>. QED BY <2>1, <2>2 DEF x
<1>4. CASE x.op = "sync"
  <2>1. x.id \in Callbacks /\ d \in Event /\ e \in Event
    BY <1>1, <1>4 DEF Request, Event, Req
  <2>2. /\ q1 \in Seq(Event) /\ Len(q1) = Len(q) + 1 /\ Len(q) \in Nat
        /\ \A i \in 1 .. Len(q) : q1[i] = q[i]
        /\ q1[Len(q) + 1] = d
    BY <2>1, AppendIs
  <2>3. /\ Len(q2) = Len(q1) + 1
        /\ \A i \in 1 .. Len(q1) : q2[i] = q1[i]
        /\ q2[Len(q1) + 1] = e
    BY <2>1, <2>2, AppendIs
  <2>4. \A op, y : /\ Has(q1, op, y) <=> Has(q, op, y) \/ (d.op = op /\ d.id = y)
                   /\ Has(q2, op, y) <=> Has(q1, op, y) \/ (e.op = op /\ e.id = y)
    <3>1. \A op, y : Has(q1, op, y) <=> Has(q, op, y) \/ (d.op = op /\ d.id = y)
      BY <2>1, HasAppend
    <3>2. \A op, y : Has(q2, op, y) <=> Has(q1, op, y) \/ (e.op = op /\ e.id = y)
      <4>. HIDE DEF q1, e, d
      <4>. QED BY <2>1, <2>2, HasAppend
    <3>. HIDE DEF q1, q2, d, e
    <3>. QED BY <3>1, <3>2
  <2>5. d.op = "done" /\ d.id = x.id /\ e.op = "delete_id" /\ e.id = x.id
    BY DEF Req
  <2>6. Answers(x, q) = q2 BY <1>4 DEF Answers
  <2>7. x.id = cb => ~Has(q, "done", cb) /\ ~Has(q, "delete_id", cb)
    BY <1>2, <1>4 DEF CallbackOk
  <2>8. Once(q, "done", cb) /\ Once(q, "delete_id", cb) BY DEF CallbackOk
  <2>. HIDE DEF d, e, x
  <2>9. Once(q1, "done", cb) /\ Once(q1, "delete_id", cb)
    BY <2>1, <2>5, <2>7, <2>8, OnceAppend
  <2>10. ~(e.op = "delete_id" /\ e.id = cb) \/ ~Has(q1, "delete_id", cb)
    BY <2>4, <2>5, <2>7
  <2>11. Once(q2, "done", cb) /\ Once(q2, "delete_id", cb)
    <3>. HIDE DEF q1
    <3>. QED BY <2>1, <2>2, <2>5, <2>9, <2>10, OnceAppend
  <2>. HIDE DEF q1, q2
  <2>12. ASSUME NEW i \in 1 .. Len(q2), NEW j \in 1 .. Len(q2),
                Is(q2, i, "done", cb), Is(q2, j, "delete_id", cb)
         PROVE  i < j
    <3>1. CASE x.id = cb
      <4>1. i \notin 1 .. Len(q)
        BY <3>1, <2>2, <2>3, <2>7, <2>12 DEF Has, Is
      <4>2. i # Len(q) + 2 BY <2>2, <2>3, <2>5, <2>12 DEF Is
      <4>3. j \notin 1 .. Len(q)
        BY <3>1, <2>2, <2>3, <2>7, <2>12 DEF Has, Is
      <4>4. j # Len(q) + 1 BY <2>2, <2>3, <2>5, <2>12 DEF Is
      <4>. QED BY <4>1, <4>2, <4>3, <4>4, <2>2, <2>3
    <3>2. CASE x.id # cb
      <4>1. i # Len(q) + 1 /\ i # Len(q) + 2 /\ j # Len(q) + 1 /\ j # Len(q) + 2
        BY <3>2, <2>2, <2>3, <2>5, <2>12 DEF Is
      <4>2. i \in 1 .. Len(q) /\ j \in 1 .. Len(q) BY <4>1, <2>2, <2>3
      <4>3. Is(q, i, "done", cb) /\ Is(q, j, "delete_id", cb)
        BY <4>2, <2>2, <2>3, <2>12 DEF Is
      <4>. QED BY <4>2, <4>3 DEF CallbackOk
    <3>. QED BY <3>1, <3>2
  <2>13. CallbackOk(cb, tracked, b, Tail(r), q2)
    <3>1. /\ Has(q2, "done", cb) <=> Has(q, "done", cb) \/ x.id = cb
          /\ Has(q2, "delete_id", cb) <=> Has(q, "delete_id", cb) \/ x.id = cb
      BY <2>4, <2>5
    <3>2. cb \notin tracked => x.id # cb
      BY <1>2, <1>4 DEF CallbackOk
    <3>. QED BY <3>1, <3>2, <1>2, <1>4, <2>11, <2>12 DEF CallbackOk
  <2>. QED BY <2>6, <2>13 DEF x
<1>. QED BY <1>3, <1>4

-----------------------------------------------------------------------------
(* The proxy reads an event                                                *)

LEMMA ClosedConsumed ==
  ASSUME NEW q \in Seq(Event), q # <<>>, NEW r, NEW m, NEW h, NEW cb, Closed(r, q, m, h, cb)
  PROVE  /\ Closed(r, Tail(q), m, h, cb)
         /\ Head(q).op = "done" /\ Head(q).id = cb => Quiet(r, Tail(q), m, h)
<1>1. /\ Len(q) \in Nat /\ Len(q) > 0 /\ Len(Tail(q)) = Len(q) - 1 /\ Head(q) = q[1]
      /\ \A i \in 1 .. Len(q) - 1 : Tail(q)[i] = q[i + 1]
  BY TailIs
<1>2. \A i \in 1 .. Len(Tail(q)) : i + 1 \in 1 .. Len(q) /\ Tail(q)[i] = q[i + 1] /\ ~(i + 1 < 1)
  BY <1>1
<1>3. ASSUME NEW k \in 1 .. Len(Tail(q)), Is(Tail(q), k, "done", cb)
      PROVE  Calm(r, m, h) /\ \A i \in 1 .. Len(Tail(q)) : Concerns(Tail(q)[i], h) => i < k
  <2>1. k + 1 \in 1 .. Len(q) /\ Is(q, k + 1, "done", cb)
    BY <1>2, <1>3 DEF Is
  <2>2. Calm(r, m, h) /\ \A i \in 1 .. Len(q) : Concerns(q[i], h) => i < k + 1
    BY <2>1 DEF Closed
  <2>3. \A i \in 1 .. Len(Tail(q)) : Concerns(Tail(q)[i], h) => i + 1 < k + 1
    BY <1>2, <2>2
  <2>4. \A i \in 1 .. Len(Tail(q)) : i + 1 < k + 1 => i < k
    BY <1>1
  <2>. QED BY <2>2, <2>3, <2>4
<1>4. ASSUME Head(q).op = "done", Head(q).id = cb PROVE Quiet(r, Tail(q), m, h)
  <2>1. 1 \in 1 .. Len(q) /\ Is(q, 1, "done", cb)
    BY <1>1, <1>4 DEF Is
  <2>2. Calm(r, m, h) /\ \A i \in 1 .. Len(q) : Concerns(q[i], h) => i < 1
    BY <2>1 DEF Closed
  <2>. QED BY <2>2, <1>2 DEF Quiet, NoEvents
<1>. QED BY <1>3, <1>4 DEF Closed

LEMMA CurrentConsumed ==
  ASSUME NEW q \in Seq(Event), q # <<>>, NEW t, NEW m, NEW n, Current(t, q, m, n)
  PROVE  /\ Current(t, Tail(q), m, n)
         /\ Concerns(Head(q), t.host_v1_id) => Head(q).gen = n
<1>1. /\ Len(q) \in Nat /\ Len(q) > 0 /\ Len(Tail(q)) = Len(q) - 1 /\ Head(q) = q[1]
      /\ \A i \in 1 .. Len(q) - 1 : Tail(q)[i] = q[i + 1]
  BY TailIs
<1>2. \A i \in 1 .. Len(Tail(q)) : i + 1 \in 1 .. Len(q) /\ Tail(q)[i] = q[i + 1]
  BY <1>1
<1>3. 1 \in 1 .. Len(q) BY <1>1
<1>. QED BY <1>1, <1>2, <1>3 DEF Current

LEMMA InputConsumed ==
  ASSUME NEW q \in Seq(Event), q # <<>>, NEW r, NEW g, NEW t, NEW b, NEW m, NEW n, NEW s,
         InputOk(g, t, b, r, q, m, n, s)
  PROVE  InputOk(g, t, b, r, Tail(q), m, n, s)
<1>1. Current(t, q, m, n) => Current(t, Tail(q), m, n)
  BY CurrentConsumed
<1>2. Quiet(r, q, m, t.host_v1_id) => Quiet(r, Tail(q), m, t.host_v1_id)
  BY NoEventsTail DEF Quiet
<1>3. \A cb : Drains(g, t, b, r, q, m, cb) => Drains(g, t, b, r, Tail(q), m, cb)
  BY ClosedConsumed DEF Drains
<1>. QED BY <1>1, <1>2, <1>3 DEF InputOk

LEMMA CallbackConsumed ==
  ASSUME NEW q \in Seq(Event), q # <<>>, NEW r, NEW cb, NEW tracked, NEW b,
         CallbackOk(cb, tracked, b, r, q)
  PROVE  /\ Head(q).id # cb \/ Head(q).op \notin {"done", "delete_id"} =>
              CallbackOk(cb, tracked, b, r, Tail(q))
         /\ Head(q).id = cb /\ Head(q).op = "done" =>
              b # None /\ CallbackOk(cb, tracked, None, r, Tail(q))
         /\ Head(q).id = cb /\ Head(q).op = "delete_id" =>
              CallbackOk(cb, tracked \ {cb}, b, r, Tail(q))
<1>. DEFINE x == Head(q)
<1>1. /\ Len(q) \in Nat /\ Len(q) > 0 /\ Len(Tail(q)) = Len(q) - 1 /\ x = q[1]
      /\ \A i \in 1 .. Len(q) - 1 : Tail(q)[i] = q[i + 1]
  BY TailIs
<1>2. \A i \in 1 .. Len(Tail(q)) : i + 1 \in 1 .. Len(q) /\ Tail(q)[i] = q[i + 1] /\ i \in Nat
  BY <1>1
<1>3. \A op : /\ Has(Tail(q), op, cb) => Has(q, op, cb)
              /\ Has(q, op, cb) => Has(Tail(q), op, cb) \/ (x.op = op /\ x.id = cb)
              /\ x.op = op /\ x.id = cb => Has(q, op, cb)
              /\ Once(q, op, cb) => /\ Once(Tail(q), op, cb)
                                    /\ x.op = op /\ x.id = cb => ~Has(Tail(q), op, cb)
  BY HasTail
<1>4. Once(q, "done", cb) /\ Once(q, "delete_id", cb)
  BY DEF CallbackOk
<1>5. ASSUME NEW i \in 1 .. Len(Tail(q)), NEW j \in 1 .. Len(Tail(q)),
             Is(Tail(q), i, "done", cb), Is(Tail(q), j, "delete_id", cb)
      PROVE  i < j
  <2>1. i + 1 \in 1 .. Len(q) /\ j + 1 \in 1 .. Len(q)
        /\ Is(q, i + 1, "done", cb) /\ Is(q, j + 1, "delete_id", cb)
    BY <1>2, <1>5 DEF Is
  <2>2. i + 1 < j + 1 BY <2>1 DEF CallbackOk
  <2>. QED BY <2>2
<1>. HIDE DEF x
<1>6. x.id # cb \/ x.op \notin {"done", "delete_id"} => CallbackOk(cb, tracked, b, r, Tail(q))
  BY <1>3, <1>4, <1>5 DEF CallbackOk
<1>7. x.id = cb /\ x.op = "done" => b # None /\ CallbackOk(cb, tracked, None, r, Tail(q))
  BY <1>3, <1>4, <1>5 DEF CallbackOk
<1>8. ASSUME x.id = cb, x.op = "delete_id" PROVE CallbackOk(cb, tracked \ {cb}, b, r, Tail(q))
  <2>1. Has(q, "delete_id", cb) /\ ~Has(Tail(q), "delete_id", cb)
    BY <1>3, <1>4, <1>8
  <2>2. ~Has(r, "sync", cb) BY <2>1 DEF CallbackOk
  <2>3. ~Has(Tail(q), "done", cb)
    <3>1. ASSUME NEW i \in 1 .. Len(Tail(q)), Is(Tail(q), i, "done", cb) PROVE FALSE
      <4>1. i + 1 \in 1 .. Len(q) /\ Is(q, i + 1, "done", cb)
        BY <1>2, <3>1 DEF Is
      <4>2. 1 \in 1 .. Len(q) /\ Is(q, 1, "delete_id", cb)
        BY <1>1, <1>8 DEF Is
      <4>3. i + 1 < 1 BY <4>1, <4>2 DEF CallbackOk
      <4>. QED BY <4>3, <1>2
    <3>. QED BY <3>1 DEF Has
  <2>. QED BY <2>1, <2>2, <2>3, <1>3, <1>4, <1>5, <1>8 DEF CallbackOk
<1>. QED BY <1>6, <1>7, <1>8 DEF x

-----------------------------------------------------------------------------
(* The host emits an IME event                                             *)

LEMMA QuietEmitted ==
  ASSUME NEW q \in Seq(Event), NEW e \in Event, NEW r, NEW m, NEW h, Quiet(r, q, m, h),
         e.op \in Kinds, e.id = h => m # 0
  PROVE  Quiet(r, Append(q, e), m, h)
<1>1. ~Concerns(e, h) BY DEF Quiet, Calm, Concerns
<1>2. NoEvents(Append(q, e), h) BY <1>1, NoEventsAppend DEF Quiet
<1>. QED BY <1>2 DEF Quiet

LEMMA InputEmitted ==
  ASSUME NEW q \in Seq(Event), NEW e \in Event, NEW r, NEW g, NEW t, NEW b, NEW m, NEW n,
         NEW s, InputOk(g, t, b, r, q, m, n, s), e.op \in Kinds,
         e.id = t.host_v1_id => m # 0 /\ e.gen = m
  PROVE  InputOk(g, t, b, r, Append(q, e), m, n, s)
<1>. DEFINE p == Append(q, e)
            h == t.host_v1_id
<1>1. /\ Len(p) = Len(q) + 1 /\ Len(q) \in Nat
      /\ \A i \in 1 .. Len(q) : p[i] = q[i]
      /\ p[Len(q) + 1] = e
  BY AppendIs
<1>2. Quiet(r, q, m, h) => Quiet(r, p, m, h)
  BY QuietEmitted
<1>. HIDE DEF p
<1>3. \A i \in 1 .. Len(p) : i \in 1 .. Len(q) \/ i = Len(q) + 1
  BY <1>1
<1>4. ASSUME Current(t, q, m, n) PROVE Current(t, p, m, n)
  <2>1. ASSUME NEW i \in 1 .. Len(p), Concerns(p[i], h) PROVE p[i].gen = n
    <3>1. CASE i \in 1 .. Len(q)
      BY <3>1, <1>1, <1>4, <2>1 DEF Current
    <3>2. CASE i = Len(q) + 1
      BY <3>2, <1>1, <1>4, <2>1 DEF Current, Concerns
    <3>. QED BY <3>1, <3>2, <1>3
  <2>. QED BY <2>1, <1>4 DEF Current
<1>5. ASSUME NEW cb, Closed(r, q, m, h, cb) PROVE Closed(r, p, m, h, cb)
  <2>1. ASSUME NEW k \in 1 .. Len(p), Is(p, k, "done", cb)
        PROVE  Calm(r, m, h) /\ \A i \in 1 .. Len(p) : Concerns(p[i], h) => i < k
    <3>1. k \in 1 .. Len(q)
      <4>1. e.op # "done" BY DEF Kinds
      <4>. QED BY <4>1, <2>1, <1>1, <1>3 DEF Is
    <3>2. Calm(r, m, h) /\ \A i \in 1 .. Len(q) : Concerns(q[i], h) => i < k
      BY <3>1, <2>1, <1>5, <1>1 DEF Closed, Is
    <3>3. ~Concerns(e, h) BY <3>2 DEF Calm, Concerns
    <3>4. ASSUME NEW i \in 1 .. Len(p), Concerns(p[i], h) PROVE i < k
      BY <3>2, <3>3, <3>4, <1>1, <1>3
    <3>. QED BY <3>2, <3>4
  <2>. QED BY <2>1 DEF Closed
<1>6. \A cb : Drains(g, t, b, r, q, m, cb) => Drains(g, t, b, r, p, m, cb)
  BY <1>5 DEF Drains
<1>7. InputOk(g, t, b, r, p, m, n, s)
  BY <1>2, <1>4, <1>6 DEF InputOk
<1>. QED BY <1>7 DEF p

LEMMA CallbackEmitted ==
  ASSUME NEW q \in Seq(Event), NEW e \in Event, NEW r, NEW cb, NEW tracked, NEW b,
         CallbackOk(cb, tracked, b, r, q), e.op \in Kinds
  PROVE  CallbackOk(cb, tracked, b, r, Append(q, e))
<1>. DEFINE p == Append(q, e)
<1>0. e.op # "done" /\ e.op # "delete_id" BY DEF Kinds
<1>1. /\ Len(p) = Len(q) + 1 /\ Len(q) \in Nat
      /\ \A i \in 1 .. Len(q) : p[i] = q[i]
      /\ p[Len(q) + 1] = e
  BY AppendIs
<1>2. /\ Has(p, "done", cb) <=> Has(q, "done", cb)
      /\ Has(p, "delete_id", cb) <=> Has(q, "delete_id", cb)
  BY <1>0, HasAppend
<1>3. Once(q, "done", cb) /\ Once(q, "delete_id", cb)
  BY DEF CallbackOk
<1>4. Once(p, "done", cb) /\ Once(p, "delete_id", cb)
  BY <1>0, <1>3, OnceAppend
<1>. HIDE DEF p
<1>5. \A i \in 1 .. Len(p) : i \in 1 .. Len(q) \/ i = Len(q) + 1
  BY <1>1
<1>6. ASSUME NEW i \in 1 .. Len(p), NEW j \in 1 .. Len(p),
             Is(p, i, "done", cb), Is(p, j, "delete_id", cb)
      PROVE  i < j
  <2>1. i \in 1 .. Len(q) /\ j \in 1 .. Len(q)
    BY <1>0, <1>1, <1>5, <1>6 DEF Is
  <2>2. Is(q, i, "done", cb) /\ Is(q, j, "delete_id", cb)
    BY <2>1, <1>1, <1>6 DEF Is
  <2>. QED BY <2>1, <2>2 DEF CallbackOk
<1>7. CallbackOk(cb, tracked, b, r, p)
  BY <1>2, <1>4, <1>6 DEF CallbackOk
<1>. QED BY <1>7 DEF p

-----------------------------------------------------------------------------
(* update_host_activation                                                  *)

LEMMA ActivationsDiffer ==
  /\ Active # Inactive
  /\ \A cb : Draining(cb) # Active /\ Draining(cb) # Inactive
  /\ \A cb, cc : Draining(cb) = Draining(cc) => cb = cc
  /\ Active \in Activation /\ Inactive \in Activation
  /\ \A cb \in Callbacks : Draining(cb) \in Activation
<1>1. /\ \A cb : "callback" \in DOMAIN Draining(cb)
      /\ "callback" \notin DOMAIN Active /\ "callback" \notin DOMAIN Inactive
      /\ \A cb : Draining(cb).callback = cb
  BY DEF Active, Inactive, Draining
<1>2. Active # Inactive
  BY DEF Active, Inactive
<1>. QED BY <1>1, <1>2 DEF Activation

LEMMA NoneIsNoInput ==
  /\ \A t \in States : t # None
  /\ \A x \in TextInputs \X HostInputs : x # None
BY NoneAssumption DEF States

\* With the inputs of c fixed, only the input's own entry of barriers matters.
LEMMA InputBarriers ==
  ASSUME NEW g, NEW t, NEW b, NEW b2, NEW r, NEW q, NEW m, NEW n, NEW s,
         InputOk(g, t, b, r, q, m, n, s),
         \A cb \in Callbacks : t.host_activation = Draining(cb) => b2[cb] = b[cb]
  PROVE  InputOk(g, t, b2, r, q, m, n, s)
BY DEF InputOk, Drains

LEMMA GoodJoin ==
  ASSUME NEW c, NEW q, NEW hg, NEW s, NEW un, NEW g \in TextInputs,
         Good(c, q, hg, s, un, {g}), c.inputs[g] # None => InputAt(c, g, q, hg, s)
  PROVE  Good(c, q, hg, s, un, {})
BY DEF Good

\* Replacing one part of a context.
LEMMA WithPart ==
  ASSUME NEW c \in Contexts
  PROVE  /\ \A i \in [TextInputs -> States \cup {None}] :
              LET d == [c EXCEPT !.inputs = i]
              IN  /\ d \in Contexts /\ d.inputs = i /\ d.barriers = c.barriers
                  /\ d.cbTracked = c.cbTracked /\ d.activated = c.activated /\ d.queue = c.queue
         /\ \A b \in [Callbacks -> (TextInputs \X HostInputs) \cup {None}] :
              LET d == [c EXCEPT !.barriers = b]
              IN  /\ d \in Contexts /\ d.barriers = b /\ d.inputs = c.inputs
                  /\ d.cbTracked = c.cbTracked /\ d.activated = c.activated /\ d.queue = c.queue
         /\ \A k \in SUBSET Callbacks :
              LET d == [c EXCEPT !.cbTracked = k]
              IN  /\ d \in Contexts /\ d.cbTracked = k /\ d.inputs = c.inputs
                  /\ d.barriers = c.barriers /\ d.activated = c.activated /\ d.queue = c.queue
         /\ \A v \in [HostInputs -> Nat] :
              LET d == [c EXCEPT !.activated = v]
              IN  /\ d \in Contexts /\ d.activated = v /\ d.inputs = c.inputs
                  /\ d.barriers = c.barriers /\ d.cbTracked = c.cbTracked /\ d.queue = c.queue
         /\ \A r \in Seq(Request) :
              LET d == [c EXCEPT !.queue = r]
              IN  /\ d \in Contexts /\ d.queue = r /\ d.inputs = c.inputs
                  /\ d.barriers = c.barriers /\ d.cbTracked = c.cbTracked
                  /\ d.activated = c.activated
BY DEF Contexts

\* The input g gets the activation a.
ReActivated(c, g, a) == [c.inputs EXCEPT ![g] = [@ EXCEPT !.host_activation = a]]

LEMMA ReActivatedIs ==
  ASSUME NEW c \in Contexts, NEW g \in TextInputs, c.inputs[g] # None, NEW a \in Activation
  PROVE  /\ ReActivated(c, g, a) \in [TextInputs -> States \cup {None}]
         /\ \A f \in TextInputs :
              /\ f # g => ReActivated(c, g, a)[f] = c.inputs[f]
              /\ ReActivated(c, g, a)[f] # None <=> c.inputs[f] # None
         /\ ReActivated(c, g, a)[g] = [c.inputs[g] EXCEPT !.host_activation = a]
         /\ c.inputs[g] \in States
<1>1. c.inputs \in [TextInputs -> States \cup {None}] /\ c.inputs[g] \in States
  BY DEF Contexts
<1>2. [c.inputs[g] EXCEPT !.host_activation = a] \in States
  BY <1>1 DEF States, TextInputState
<1>3. [c.inputs[g] EXCEPT !.host_activation = a] # None
  BY <1>2, NoneIsNoInput
<1>. QED BY <1>1, <1>2, <1>3 DEF ReActivated

\* What the state t of an input and the one with another activation share.
LEMMA SameBut ==
  ASSUME NEW t \in States, NEW a
  PROVE  LET u == [t EXCEPT !.host_activation = a]
         IN  /\ u.host_activation = a
             /\ u.host_v1_id = t.host_v1_id /\ t.host_v1_id \in HostInputs
             /\ u.committed_enabled = t.committed_enabled
             /\ u.active_surface = t.active_surface
             /\ u.current_preedit = t.current_preedit
             /\ u.pending_deletes = t.pending_deletes
             /\ u.pending_text = t.pending_text
BY DEF States, TextInputState

\* The hosts and the enabled inputs are what they were.
LEMMA SameHosts ==
  ASSUME NEW c \in Contexts, NEW d, NEW g \in TextInputs, c.inputs[g] # None,
         NEW a \in Activation, d.inputs = ReActivated(c, g, a)
  PROVE  /\ \A f \in TextInputs :
              /\ d.inputs[f] # None <=> c.inputs[f] # None
              /\ c.inputs[f] # None =>
                   /\ d.inputs[f].host_v1_id = c.inputs[f].host_v1_id
                   /\ c.inputs[f].host_v1_id \in HostInputs
                   /\ d.inputs[f].committed_enabled = c.inputs[f].committed_enabled
                   /\ d.inputs[f].pending_text = c.inputs[f].pending_text
         /\ EnabledOk(c) => EnabledOk(d)
<1>1. /\ \A f \in TextInputs : /\ f # g => d.inputs[f] = c.inputs[f]
                               /\ d.inputs[f] # None <=> c.inputs[f] # None
      /\ d.inputs[g] = [c.inputs[g] EXCEPT !.host_activation = a]
      /\ c.inputs[g] \in States
  BY ReActivatedIs
<1>2. \A f \in TextInputs : c.inputs[f] # None => c.inputs[f] \in States
  BY DEF Contexts
<1>3. \A f \in TextInputs : c.inputs[f] # None => c.inputs[f].host_v1_id \in HostInputs
  BY <1>2 DEF States, TextInputState
<1>4. /\ d.inputs[g].host_v1_id = c.inputs[g].host_v1_id
      /\ d.inputs[g].committed_enabled = c.inputs[g].committed_enabled
      /\ d.inputs[g].pending_text = c.inputs[g].pending_text
  BY <1>1, SameBut
<1>5. \A f \in TextInputs : c.inputs[f] # None =>
        /\ d.inputs[f].host_v1_id = c.inputs[f].host_v1_id
        /\ d.inputs[f].committed_enabled = c.inputs[f].committed_enabled
        /\ d.inputs[f].pending_text = c.inputs[f].pending_text
  BY <1>1, <1>4
<1>. QED BY <1>1, <1>3, <1>5 DEF EnabledOk

\* An input activated or deactivated, a request queued.
LEMMA SetActivationIs ==
  ASSUME NEW c \in Contexts, NEW g \in TextInputs, c.inputs[g] # None, NEW a \in Activation
  PROVE  /\ SetActivation(c, g, a) = [c EXCEPT !.inputs = ReActivated(c, g, a)]
         /\ SetActivation(c, g, a) \in Contexts
         /\ SetActivation(c, g, a).inputs = ReActivated(c, g, a)
         /\ SetActivation(c, g, a).barriers = c.barriers
         /\ SetActivation(c, g, a).cbTracked = c.cbTracked
         /\ SetActivation(c, g, a).activated = c.activated
         /\ SetActivation(c, g, a).queue = c.queue
<1>1. SetActivation(c, g, a) = [c EXCEPT !.inputs = ReActivated(c, g, a)]
  BY DEF SetActivation, ReActivated
<1>2. ReActivated(c, g, a) \in [TextInputs -> States \cup {None}]
  BY ReActivatedIs
<1>. QED BY <1>1, <1>2, WithPart

LEMMA QueueIs ==
  ASSUME NEW c \in Contexts, NEW x \in Request
  PROVE  /\ Queue(c, <<x>>) \in Contexts
         /\ Queue(c, <<x>>).queue = Append(c.queue, x)
         /\ Queue(c, <<x>>).inputs = c.inputs
         /\ Queue(c, <<x>>).barriers = c.barriers
         /\ Queue(c, <<x>>).cbTracked = c.cbTracked
         /\ Queue(c, <<x>>).activated = c.activated
<1>1. c.queue \in Seq(Request) BY DEF Contexts
<1>2. c.queue \o <<x>> = Append(c.queue, x) /\ Append(c.queue, x) \in Seq(Request)
  BY <1>1, PairIs, AppendIs
<1>. DEFINE r == Append(c.queue, x)
<1>3. Queue(c, <<x>>) = [c EXCEPT !.queue = r]
  BY <1>2 DEF Queue
<1>4. r \in Seq(Request) BY <1>2
<1>. HIDE DEF r
<1>5. LET d == [c EXCEPT !.queue = r]
      IN  /\ d \in Contexts /\ d.queue = r /\ d.inputs = c.inputs
          /\ d.barriers = c.barriers /\ d.cbTracked = c.cbTracked
          /\ d.activated = c.activated
  BY <1>4, WithPart
<1>. QED BY <1>3, <1>5 DEF r

LEMMA QueueTwo ==
  ASSUME NEW c \in Contexts, NEW x \in Request, NEW y \in Request
  PROVE  Queue(c, <<x, y>>) = Queue(Queue(c, <<x>>), <<y>>)
<1>1. c.queue \in Seq(Request) BY DEF Contexts
<1>2. c.queue \o <<x, y>> = (c.queue \o <<x>>) \o <<y>>
  <2>. DEFINE r == Append(c.queue, x)
  <2>1. r \in Seq(Request) BY <1>1, AppendIs
  <2>2. c.queue \o <<x>> = r /\ c.queue \o <<x, y>> = Append(r, y)
    BY <1>1, PairIs
  <2>. HIDE DEF r
  <2>3. r \o <<y>> = Append(r, y) BY <2>1, PairIs
  <2>. QED BY <2>2, <2>3
<1>3. Queue(c, <<x>>).queue = c.queue \o <<x>>
  BY DEF Queue, Contexts
<1>. QED BY <1>2, <1>3 DEF Queue

\* ActivateHost, and the request.
Activated(c, g) == Queue(ActivateHost(c, g), <<Req("activate", c.inputs[g].host_v1_id)>>)

LEMMA ActivatedIs ==
  ASSUME NEW c \in Contexts, NEW g \in TextInputs, c.inputs[g] # None
  PROVE  LET d == Activated(c, g)
             h == c.inputs[g].host_v1_id
         IN  /\ d.inputs = ReActivated(c, g, Active)
             /\ d.barriers = c.barriers /\ d.cbTracked = c.cbTracked
             /\ d.activated = [c.activated EXCEPT ![h] = @ + 1]
             /\ d.queue = Append(c.queue, Req("activate", h))
             /\ Req("activate", h) \in Request /\ h \in HostInputs
             /\ d \in Contexts
<1>. DEFINE d == Activated(c, g)
            h == c.inputs[g].host_v1_id
            c1 == SetActivation(c, g, Active)
            v == [c.activated EXCEPT ![h] = @ + 1]
            c2 == [c1 EXCEPT !.activated = v]
<1>1. c.inputs[g] \in States /\ c.activated \in [HostInputs -> Nat]
  BY DEF Contexts
<1>2. h \in HostInputs BY <1>1 DEF States, TextInputState
<1>3. Req("activate", h) \in Request BY <1>2 DEF Req, Request
<1>4. /\ c1 \in Contexts /\ c1.inputs = ReActivated(c, g, Active)
      /\ c1.barriers = c.barriers /\ c1.cbTracked = c.cbTracked
      /\ c1.activated = c.activated /\ c1.queue = c.queue
  BY SetActivationIs, ActivationsDiffer
<1>5. v \in [HostInputs -> Nat] BY <1>1, <1>2
<1>6. d = Queue(c2, <<Req("activate", h)>>)
  BY <1>4 DEF Activated, ActivateHost
<1>. HIDE DEF d, h, v, c1
<1>7. /\ c2 \in Contexts /\ c2.activated = v /\ c2.inputs = c1.inputs
      /\ c2.barriers = c1.barriers /\ c2.cbTracked = c1.cbTracked /\ c2.queue = c1.queue
  BY <1>4, <1>5, WithPart
<1>. HIDE DEF c2
<1>8. /\ d \in Contexts /\ d.queue = Append(c2.queue, Req("activate", h))
      /\ d.inputs = c2.inputs /\ d.barriers = c2.barriers
      /\ d.cbTracked = c2.cbTracked /\ d.activated = c2.activated
  BY <1>3, <1>6, <1>7, QueueIs
<1>9. /\ d.inputs = ReActivated(c, g, Active) /\ d.barriers = c.barriers
      /\ d.cbTracked = c.cbTracked /\ d.activated = v
      /\ d.queue = Append(c.queue, Req("activate", h))
  BY <1>4, <1>7, <1>8
<1>. QED BY <1>2, <1>3, <1>8, <1>9 DEF d, v, h

\* begin_host_draining, and the two requests.
LEMMA DeactivatedIs ==
  ASSUME NEW c \in Contexts, NEW g \in TextInputs, c.inputs[g] # None,
         NEW cb \in Callbacks, cb = FreeCallback(c)
  PROVE  LET d == DeactivationBarrier(c, g)
             h == c.inputs[g].host_v1_id
         IN  /\ d.inputs = ReActivated(c, g, Draining(cb))
             /\ d.barriers = [c.barriers EXCEPT ![cb] = <<g, h>>]
             /\ d.cbTracked = c.cbTracked \cup {cb}
             /\ d.activated = c.activated
             /\ d.queue = Append(Append(c.queue, Req("deactivate", h)), Req("sync", cb))
             /\ Req("deactivate", h) \in Request /\ Req("sync", cb) \in Request
             /\ h \in HostInputs /\ d \in Contexts
<1>. DEFINE d == DeactivationBarrier(c, g)
            h == c.inputs[g].host_v1_id
            x == Req("deactivate", h)
            y == Req("sync", cb)
            c1 == SetActivation(c, g, Draining(cb))
            k == c.cbTracked \cup {cb}
            c2 == [c1 EXCEPT !.cbTracked = k]
            b == [c.barriers EXCEPT ![cb] = <<g, h>>]
            c3 == [c2 EXCEPT !.barriers = b]
            c4 == Queue(c3, <<x>>)
<1>1. /\ c.inputs[g] \in States /\ c.cbTracked \subseteq Callbacks
      /\ c.barriers \in [Callbacks -> (TextInputs \X HostInputs) \cup {None}]
  BY DEF Contexts
<1>2. h \in HostInputs BY <1>1 DEF States, TextInputState
<1>3. x \in Request /\ y \in Request BY <1>2 DEF Req, Request
<1>4. /\ c1 \in Contexts /\ c1.inputs = ReActivated(c, g, Draining(cb))
      /\ c1.barriers = c.barriers /\ c1.cbTracked = c.cbTracked
      /\ c1.activated = c.activated /\ c1.queue = c.queue
  BY SetActivationIs, ActivationsDiffer
<1>5. k \in SUBSET Callbacks BY <1>1
<1>6. b \in [Callbacks -> (TextInputs \X HostInputs) \cup {None}] BY <1>1, <1>2
<1>7. BeginHostDraining(c, g, cb) = c3
  <2>1. BeginHostDraining(c, g, cb)
          = [c1 EXCEPT !.cbTracked = @ \cup {cb}, !.barriers[cb] = <<g, h>>]
    BY DEF BeginHostDraining
  <2>. HIDE DEF c1, h
  <2>2. [c1 EXCEPT !.cbTracked = @ \cup {cb}, !.barriers[cb] = <<g, h>>]
          = [[c1 EXCEPT !.cbTracked = c1.cbTracked \cup {cb}]
               EXCEPT !.barriers = [c1.barriers EXCEPT ![cb] = <<g, h>>]]
    BY <1>4 DEF Contexts
  <2>. QED BY <2>1, <2>2, <1>4
<1>8. d = Queue(c3, <<x, y>>)
  BY <1>7 DEF DeactivationBarrier
<1>. HIDE DEF d, h, x, y, c1, k, b
<1>9. /\ c2 \in Contexts /\ c2.cbTracked = k /\ c2.inputs = c1.inputs
      /\ c2.barriers = c1.barriers /\ c2.activated = c1.activated /\ c2.queue = c1.queue
  BY <1>4, <1>5, WithPart
<1>. HIDE DEF c2
<1>10. /\ c3 \in Contexts /\ c3.barriers = b /\ c3.inputs = c2.inputs
       /\ c3.cbTracked = c2.cbTracked /\ c3.activated = c2.activated /\ c3.queue = c2.queue
  BY <1>6, <1>9, WithPart
<1>. HIDE DEF c3
<1>11. /\ c4 \in Contexts /\ c4.queue = Append(c3.queue, x)
       /\ c4.inputs = c3.inputs /\ c4.barriers = c3.barriers
       /\ c4.cbTracked = c3.cbTracked /\ c4.activated = c3.activated
  BY <1>3, <1>10, QueueIs
<1>12. d = Queue(c4, <<y>>)
  BY <1>3, <1>8, <1>10, QueueTwo
<1>. HIDE DEF c4
<1>13. /\ d \in Contexts /\ d.queue = Append(c4.queue, y)
       /\ d.inputs = c4.inputs /\ d.barriers = c4.barriers
       /\ d.cbTracked = c4.cbTracked /\ d.activated = c4.activated
  BY <1>3, <1>11, <1>12, QueueIs
<1>14. /\ d.inputs = ReActivated(c, g, Draining(cb)) /\ d.barriers = b /\ d.cbTracked = k
       /\ d.activated = c.activated /\ d.queue = Append(Append(c.queue, x), y)
  BY <1>4, <1>9, <1>10, <1>11, <1>13
<1>. QED BY <1>2, <1>3, <1>13, <1>14 DEF d, h, x, y, k, b

\* A host object that is activated belongs to one input, whose object was quiet.
LEMMA ActivatedGood ==
  ASSUME NEW c, NEW q, NEW hg, NEW s, NEW un, Good(c, q, hg, s, un, {}), s = "live",
         NEW g \in TextInputs, c.inputs[g] # None, c.inputs[g].host_activation = Inactive
  PROVE  Good(Activated(c, g), q, hg, s, un, {})
<1>. DEFINE d == Activated(c, g)
            t == c.inputs[g]
            h == t.host_v1_id
            x == Req("activate", h)
            u == [t EXCEPT !.host_activation = Active]
<1>1. /\ c \in Contexts /\ CallbacksOk(c, q) /\ HostsOk(c, q, hg, un) /\ EnabledOk(c)
      /\ \A f \in TextInputs : c.inputs[f] # None => InputAt(c, f, q, hg, s)
  BY DEF Good
<1>2. /\ d.inputs = ReActivated(c, g, Active)
      /\ d.barriers = c.barriers /\ d.cbTracked = c.cbTracked
      /\ d.activated = [c.activated EXCEPT ![h] = @ + 1]
      /\ d.queue = Append(c.queue, x)
      /\ x \in Request /\ h \in HostInputs /\ d \in Contexts
  BY <1>1, ActivatedIs
<1>3. /\ \A f \in TextInputs : /\ f # g => d.inputs[f] = c.inputs[f]
                               /\ d.inputs[f] # None <=> c.inputs[f] # None
      /\ d.inputs[g] = u /\ t \in States
  BY <1>1, <1>2, ReActivatedIs, ActivationsDiffer
<1>4. /\ \A f \in TextInputs : c.inputs[f] # None =>
           /\ d.inputs[f].host_v1_id = c.inputs[f].host_v1_id
           /\ c.inputs[f].host_v1_id \in HostInputs
      /\ EnabledOk(d)
  BY <1>1, <1>2, SameHosts, ActivationsDiffer
<1>5. c.queue \in Seq(Request) /\ c.activated \in [HostInputs -> Nat]
  BY <1>1 DEF Contexts
<1>6. x.op = "activate" /\ x.id = h BY DEF Req
<1>. HIDE DEF d
<1>7. ASSUME NEW f \in TextInputs, d.inputs[f] # None PROVE InputAt(d, f, q, hg, s)
  <2>1. CASE f = g
    <3>1. /\ u.host_activation = Active /\ u.host_v1_id = h
          /\ u.current_preedit = t.current_preedit /\ u.pending_deletes = t.pending_deletes
      BY <1>3, SameBut
    <3>. HIDE DEF u
    <3>2. Quiet(c.queue, q, hg[h], h) /\ Cleared(t)
      BY <1>1, ActivationsDiffer DEF InputAt, InputOk
    <3>3. Current(u, q, hg[h], c.activated[h] + 1)
      BY <3>1, <3>2 DEF Current, Quiet, Calm, NoEvents, Cleared
    <3>4. d.activated[h] = c.activated[h] + 1 BY <1>2, <1>5
    <3>5. InputOk(g, u, d.barriers, d.queue, q, hg[h], d.activated[h], s)
      BY <3>1, <3>3, <3>4, ActivationsDiffer DEF InputOk
    <3>. QED BY <3>1, <3>5, <2>1, <1>3 DEF InputAt
  <2>2. CASE f # g
    <3>. DEFINE w == c.inputs[f]
    <3>1. w # None /\ d.inputs[f] = w /\ w.host_v1_id \in HostInputs
      BY <1>3, <1>4, <1>7, <2>2
    <3>2. w.host_v1_id # h BY <1>1, <2>2, <3>1 DEF HostsOk
    <3>3. d.activated[w.host_v1_id] = c.activated[w.host_v1_id]
      BY <1>2, <1>5, <3>1, <3>2
    <3>4. InputOk(f, w, c.barriers, c.queue, q, hg[w.host_v1_id], c.activated[w.host_v1_id], s)
      BY <1>1, <3>1 DEF InputAt
    <3>5. Spares(x, w.host_v1_id) BY <1>6, <3>2 DEF Spares
    <3>. HIDE DEF w, x
    <3>6. InputOk(f, w, c.barriers, Append(c.queue, x), q, hg[w.host_v1_id],
                  c.activated[w.host_v1_id], s)
      BY <3>4, <3>5, <1>2, <1>5, InputQueued
    <3>. QED BY <3>1, <3>3, <3>6, <1>2 DEF InputAt
  <2>. QED BY <2>1, <2>2
<1>8. CallbacksOk(d, q)
  BY <1>1, <1>2, <1>5, <1>6, CallbackQueued DEF CallbacksOk
<1>9. HostsOk(d, q, hg, un)
  <2>1. \A v \in un : Spares(x, v)
    BY <1>1, <1>6 DEF HostsOk, Spares
  <2>2. \A v \in un : Quiet(c.queue, q, hg[v], v)
    BY <1>1 DEF HostsOk
  <2>. HIDE DEF x
  <2>3. \A v \in un : Quiet(Append(c.queue, x), q, hg[v], v)
    BY <2>1, <2>2, <1>2, <1>5, QuietQueued
  <2>. QED BY <2>3, <1>1, <1>2, <1>3, <1>4 DEF HostsOk
<1>10. Good(d, q, hg, s, un, {})
  BY <1>2, <1>4, <1>7, <1>8, <1>9 DEF Good
<1>. QED BY <1>10 DEF d

\* A callback that is free serves no draining input.
LEMMA FreeServesNone ==
  ASSUME NEW c, NEW q, NEW hg, NEW s, NEW un, NEW E, Good(c, q, hg, s, un, E),
         NEW g \in TextInputs \ E, c.inputs[g] # None,
         NEW cb \in Callbacks, cb \notin c.cbTracked
  PROVE  c.inputs[g].host_activation # Draining(cb)
<1>1. CallbackOk(cb, c.cbTracked, c.barriers[cb], c.queue, q)
  BY DEF Good, CallbacksOk
<1>2. c.barriers[cb] = None BY <1>1 DEF CallbackOk
<1>3. ASSUME c.inputs[g].host_activation = Draining(cb) PROVE FALSE
  <2>1. c.barriers[cb] = <<g, c.inputs[g].host_v1_id>>
    BY <1>3 DEF Good, InputAt, InputOk, Drains
  <2>2. c.inputs[g] \in States BY DEF Good, Contexts
  <2>3. <<g, c.inputs[g].host_v1_id>> \in TextInputs \X HostInputs
    BY <2>2 DEF States, TextInputState
  <2>. QED BY <2>1, <2>3, <1>2, NoneIsNoInput
<1>. QED BY <1>3

\* The drain of g: what the host object still sends is behind the callback's done.
LEMMA DrainStarts ==
  ASSUME NEW r \in Seq(Request), NEW q, NEW m, NEW h, NEW cb,
         Req("deactivate", h) \in Request, Req("sync", cb) \in Request,
         ~Has(r, "sync", cb), ~Has(q, "done", cb)
  PROVE  LET p == Append(Append(r, Req("deactivate", h)), Req("sync", cb))
         IN  Closing(p, m, h, cb) /\ Closed(p, q, m, h, cb)
<1>. DEFINE x == Req("deactivate", h)
            y == Req("sync", cb)
            r1 == Append(r, x)
            p == Append(r1, y)
<1>1. /\ r1 \in Seq(Request) /\ Len(r1) = Len(r) + 1 /\ Len(r) \in Nat
      /\ \A i \in 1 .. Len(r) : r1[i] = r[i]
      /\ r1[Len(r) + 1] = x
  BY AppendIs
<1>. HIDE DEF r1
<1>2. /\ Len(p) = Len(r1) + 1
      /\ \A i \in 1 .. Len(r1) : p[i] = r1[i]
      /\ p[Len(r1) + 1] = y
  BY <1>1, AppendIs
<1>. HIDE DEF p
<1>3. x.op = "deactivate" /\ x.id = h /\ y.op = "sync" /\ y.id = cb
  BY DEF Req
<1>. HIDE DEF x, y
<1>. DEFINE n == Len(r) + 1
<1>4. n \in 1 .. Len(p) /\ Is(p, n, "deactivate", h)
  BY <1>1, <1>2, <1>3 DEF Is
<1>5. ASSUME NEW i \in 1 .. Len(p)
      PROVE  /\ Is(p, i, "activate", h) => i < n
             /\ Is(p, i, "sync", cb) => n < i
  <2>1. CASE i \in 1 .. Len(r)
    <3>1. p[i] = r[i] BY <2>1, <1>1, <1>2
    <3>2. ~Is(p, i, "sync", cb) BY <3>1, <2>1 DEF Has, Is
    <3>. QED BY <3>2, <2>1, <1>1
  <2>2. CASE i = n
    BY <2>2, <1>1, <1>2, <1>3 DEF Is
  <2>3. CASE i = n + 1
    BY <2>3, <1>1, <1>2, <1>3 DEF Is
  <2>. QED BY <2>1, <2>2, <2>3, <1>1, <1>2
<1>6. Closing(p, m, h, cb) BY <1>4, <1>5 DEF Closing
<1>7. Closed(p, q, m, h, cb) BY DEF Closed, Has
<1>. QED BY <1>6, <1>7 DEF p, r1, x, y

LEMMA DeactivatedGood ==
  ASSUME NEW c, NEW q, NEW hg, NEW s, NEW un, Good(c, q, hg, s, un, {}),
         NEW g \in TextInputs, c.inputs[g] # None, c.cbTracked # Callbacks
  PROVE  /\ DeactivationBarrier(c, g).inputs
              = ReActivated(c, g, Draining(FreeCallback(c)))
         /\ Good(DeactivationBarrier(c, g), q, hg, s, un, {g})
         /\ Cleared(c.inputs[g]) => Good(DeactivationBarrier(c, g), q, hg, s, un, {})
<1>. DEFINE d == DeactivationBarrier(c, g)
            cb == FreeCallback(c)
            t == c.inputs[g]
            h == t.host_v1_id
            x == Req("deactivate", h)
            y == Req("sync", cb)
            r1 == Append(c.queue, x)
            u == [t EXCEPT !.host_activation = Draining(cb)]
<1>1. /\ c \in Contexts /\ CallbacksOk(c, q) /\ HostsOk(c, q, hg, un) /\ EnabledOk(c)
      /\ \A f \in TextInputs : c.inputs[f] # None => InputAt(c, f, q, hg, s)
  BY DEF Good
<1>2. cb \in Callbacks /\ cb \notin c.cbTracked
  BY <1>1 DEF Contexts, FreeCallback
<1>3. /\ d.inputs = ReActivated(c, g, Draining(cb))
      /\ d.barriers = [c.barriers EXCEPT ![cb] = <<g, h>>]
      /\ d.cbTracked = c.cbTracked \cup {cb}
      /\ d.activated = c.activated
      /\ d.queue = Append(r1, y)
      /\ x \in Request /\ y \in Request /\ h \in HostInputs /\ d \in Contexts
  BY <1>1, <1>2, DeactivatedIs
<1>4. Draining(cb) \in Activation BY <1>2, ActivationsDiffer
<1>5. /\ \A f \in TextInputs : /\ f # g => d.inputs[f] = c.inputs[f]
                               /\ d.inputs[f] # None <=> c.inputs[f] # None
      /\ d.inputs[g] = u /\ t \in States
  BY <1>1, <1>3, <1>4, ReActivatedIs
<1>6. /\ \A f \in TextInputs : c.inputs[f] # None =>
           /\ d.inputs[f].host_v1_id = c.inputs[f].host_v1_id
           /\ c.inputs[f].host_v1_id \in HostInputs
      /\ EnabledOk(d)
  BY <1>1, <1>3, <1>4, SameHosts
<1>7. c.queue \in Seq(Request) /\ c.barriers \in [Callbacks -> (TextInputs \X HostInputs) \cup {None}]
  BY <1>1 DEF Contexts
<1>8. r1 \in Seq(Request) BY <1>3, <1>7, AppendIs
<1>9. x.op = "deactivate" /\ y.op = "sync" /\ y.id = cb BY DEF Req
<1>10. CallbackOk(cb, c.cbTracked, c.barriers[cb], c.queue, q)
  BY <1>1, <1>2 DEF CallbacksOk
<1>11. \A v : Spares(x, v) /\ Spares(y, v) BY <1>9 DEF Spares
<1>12. <<g, h>> # None BY <1>3, NoneIsNoInput
<1>13. ~Has(c.queue, "sync", cb) /\ ~Has(q, "done", cb)
  BY <1>2, <1>10 DEF CallbackOk
<1>14. Closing(d.queue, hg[h], h, cb) /\ Closed(d.queue, q, hg[h], h, cb)
  BY <1>3, <1>7, <1>13, DrainStarts
<1>15. /\ u.host_activation = Draining(cb) /\ u.host_v1_id = h
       /\ u.current_preedit = t.current_preedit /\ u.pending_deletes = t.pending_deletes
  BY <1>5, SameBut
<1>16. \A f \in TextInputs : c.inputs[f] # None => c.inputs[f].host_activation # Draining(cb)
  BY <1>2, FreeServesNone
<1>. HIDE DEF d, cb, x, y, u
<1>17. ASSUME Cleared(t) PROVE InputAt(d, g, q, hg, s)
  <2>1. Cleared(u) BY <1>15, <1>17 DEF Cleared
  <2>2. Drains(g, u, d.barriers, d.queue, q, hg[h], cb)
    BY <1>2, <1>3, <1>7, <1>14, <1>15 DEF Drains
  <2>3. InputOk(g, u, d.barriers, d.queue, q, hg[h], d.activated[h], s)
    BY <2>1, <2>2, <1>15, ActivationsDiffer DEF InputOk
  <2>. QED BY <2>3, <1>5, <1>15 DEF InputAt
<1>18. ASSUME NEW f \in TextInputs \ {g}, d.inputs[f] # None PROVE InputAt(d, f, q, hg, s)
  <2>. DEFINE w == c.inputs[f]
              v == w.host_v1_id
  <2>1. w # None /\ d.inputs[f] = w
    BY <1>5, <1>18
  <2>2. InputOk(f, w, c.barriers, c.queue, q, hg[v], c.activated[v], s)
    BY <1>1, <2>1 DEF InputAt
  <2>3. w.host_activation # Draining(cb) BY <2>1, <1>16
  <2>. HIDE DEF w
  <2>4. InputOk(f, w, c.barriers, r1, q, hg[v], c.activated[v], s)
    BY <2>2, <1>3, <1>7, <1>11, InputQueued
  <2>. HIDE DEF r1
  <2>5. InputOk(f, w, c.barriers, Append(r1, y), q, hg[v], c.activated[v], s)
    BY <2>4, <1>3, <1>8, <1>11, InputQueued
  <2>6. \A cc \in Callbacks : w.host_activation = Draining(cc) => d.barriers[cc] = c.barriers[cc]
    BY <2>3, <1>3, <1>7
  <2>7. InputOk(f, w, d.barriers, Append(r1, y), q, hg[v], c.activated[v], s)
    BY <2>5, <2>6, InputBarriers
  <2>. QED BY <2>1, <2>7, <1>3 DEF InputAt
<1>19. CallbacksOk(d, q)
  <2>1. ASSUME NEW cc \in Callbacks
        PROVE  CallbackOk(cc, d.cbTracked, d.barriers[cc], d.queue, q)
    <3>1. CallbackOk(cc, c.cbTracked, c.barriers[cc], c.queue, q)
      BY <1>1 DEF CallbacksOk
    <3>2. CallbackOk(cc, c.cbTracked, c.barriers[cc], r1, q)
      BY <3>1, <1>3, <1>7, <1>9, CallbackQueued
    <3>. HIDE DEF r1
    <3>3. CASE cc = cb
      <4>1. d.barriers[cb] = <<g, h>> BY <1>2, <1>3, <1>7
      <4>2. CallbackOk(cc, c.cbTracked \cup {cc}, d.barriers[cc], Append(r1, y), q)
        BY <4>1, <3>2, <3>3, <1>2, <1>3, <1>8, <1>9, <1>12, CallbackAsked
      <4>. QED BY <4>2, <3>3, <1>3
    <3>4. CASE cc # cb
      <4>1. d.barriers[cc] = c.barriers[cc] BY <3>4, <1>3, <1>7
      <4>2. CallbackOk(cc, c.cbTracked, c.barriers[cc], Append(r1, y), q)
        BY <3>2, <3>4, <1>3, <1>8, <1>9, CallbackQueued
      <4>3. cc \notin c.cbTracked \cup {cb} <=> cc \notin c.cbTracked BY <3>4
      <4>4. CallbackOk(cc, c.cbTracked \cup {cb}, c.barriers[cc], Append(r1, y), q)
        BY <4>2, <4>3 DEF CallbackOk
      <4>. QED BY <4>1, <4>4, <1>3
    <3>. QED BY <3>3, <3>4
  <2>. QED BY <2>1 DEF CallbacksOk
<1>20. HostsOk(d, q, hg, un)
  <2>2. \A v \in un : Quiet(c.queue, q, hg[v], v)
    BY <1>1 DEF HostsOk
  <2>3. \A v \in un : Quiet(r1, q, hg[v], v)
    BY <2>2, <1>3, <1>7, <1>11, QuietQueued
  <2>. HIDE DEF r1
  <2>4. \A v \in un : Quiet(Append(r1, y), q, hg[v], v)
    BY <2>3, <1>3, <1>8, <1>11, QuietQueued
  <2>. QED BY <2>4, <1>1, <1>3, <1>5, <1>6 DEF HostsOk
<1>21. Good(d, q, hg, s, un, {g})
  BY <1>3, <1>6, <1>18, <1>19, <1>20 DEF Good
<1>22. Cleared(t) => Good(d, q, hg, s, un, {})
  BY <1>17, <1>21, GoodJoin
<1>. QED BY <1>3, <1>21, <1>22 DEF d, cb

\* A seat that is being destroyed takes no request: the input is inactive at once.
LEMMA DroppedGood ==
  ASSUME NEW c, NEW q, NEW hg, NEW s, NEW un, Good(c, q, hg, s, un, {}), s # "live",
         NEW g \in TextInputs, c.inputs[g] # None
  PROVE  /\ SetActivation(c, g, Inactive).inputs = ReActivated(c, g, Inactive)
         /\ SetActivation(c, g, Inactive).queue = c.queue
         /\ Good(SetActivation(c, g, Inactive), q, hg, s, un, {g})
         /\ Cleared(c.inputs[g]) => Good(SetActivation(c, g, Inactive), q, hg, s, un, {})
<1>. DEFINE d == SetActivation(c, g, Inactive)
            t == c.inputs[g]
            u == [t EXCEPT !.host_activation = Inactive]
<1>1. /\ c \in Contexts /\ CallbacksOk(c, q) /\ HostsOk(c, q, hg, un) /\ EnabledOk(c)
      /\ \A f \in TextInputs : c.inputs[f] # None => InputAt(c, f, q, hg, s)
  BY DEF Good
<1>2. /\ d.inputs = ReActivated(c, g, Inactive) /\ d.barriers = c.barriers
      /\ d.cbTracked = c.cbTracked /\ d.activated = c.activated /\ d.queue = c.queue
      /\ d \in Contexts
  BY <1>1, SetActivationIs, ActivationsDiffer
<1>3. /\ \A f \in TextInputs : /\ f # g => d.inputs[f] = c.inputs[f]
                               /\ d.inputs[f] # None <=> c.inputs[f] # None
      /\ d.inputs[g] = u /\ t \in States
  BY <1>1, <1>2, ReActivatedIs, ActivationsDiffer
<1>4. /\ \A f \in TextInputs : c.inputs[f] # None =>
           d.inputs[f].host_v1_id = c.inputs[f].host_v1_id
      /\ EnabledOk(d)
  BY <1>1, <1>2, SameHosts, ActivationsDiffer
<1>5. /\ u.host_activation = Inactive /\ u.host_v1_id = t.host_v1_id
      /\ u.current_preedit = t.current_preedit /\ u.pending_deletes = t.pending_deletes
  BY <1>3, SameBut
<1>. HIDE DEF d, u
<1>6. Cleared(t) => InputAt(d, g, q, hg, s)
  BY <1>3, <1>5, ActivationsDiffer DEF InputAt, InputOk, Cleared
<1>7. \A f \in TextInputs \ {g} : d.inputs[f] # None => InputAt(d, f, q, hg, s)
  BY <1>1, <1>2, <1>3 DEF InputAt
<1>8. CallbacksOk(d, q) BY <1>1, <1>2 DEF CallbacksOk
<1>9. HostsOk(d, q, hg, un) BY <1>1, <1>2, <1>3, <1>4 DEF HostsOk
<1>10. Good(d, q, hg, s, un, {g})
  BY <1>2, <1>4, <1>7, <1>8, <1>9 DEF Good
<1>11. Cleared(t) => Good(d, q, hg, s, un, {})
  BY <1>6, <1>10, GoodJoin
<1>. QED BY <1>2, <1>10, <1>11 DEF d

\* What update_host_activation does, and when.
LEMMA UpdateIs ==
  ASSUME NEW c, NEW g
  PROVE  LET t == c.inputs[g]
         IN  /\ Wanted(t) /\ t.host_activation = Inactive /\ seat = "live" =>
                  UpdateHostActivation(c, g) = Activated(c, g)
             /\ ~Wanted(t) /\ HostIsActive(t) /\ seat = "live" =>
                  UpdateHostActivation(c, g) = DeactivationBarrier(c, g)
             /\ ~Wanted(t) /\ HostIsActive(t) /\ seat # "live" =>
                  UpdateHostActivation(c, g) = SetActivation(c, g, Inactive)
             /\ ~(Wanted(t) /\ t.host_activation = Inactive /\ seat = "live")
                  /\ ~(~Wanted(t) /\ HostIsActive(t)) =>
                  UpdateHostActivation(c, g) = c
BY DEF UpdateHostActivation, Wanted, Activated, HostIsActive

LEMMA UpdateGood ==
  ASSUME NEW c, NEW q, NEW hg, NEW un, Good(c, q, hg, seat, un, {}),
         NEW g \in TextInputs, c.inputs[g] # None,
         HostIsActive(c.inputs[g]) /\ ~Wanted(c.inputs[g]) => c.cbTracked # Callbacks
  PROVE  LET d == UpdateHostActivation(c, g)
             t == c.inputs[g]
         IN  /\ Good(d, q, hg, seat, un, {g})
             /\ Cleared(t) \/ ~HostIsActive(t) \/ Wanted(t) => Good(d, q, hg, seat, un, {})
             /\ \E a \in Activation :
                  d.inputs = ReActivated(c, g, a) /\ (a = Active => Wanted(t))
             /\ StatesOk(c.queue) => StatesOk(d.queue)
<1>. DEFINE d == UpdateHostActivation(c, g)
            t == c.inputs[g]
            h == t.host_v1_id
            cb == FreeCallback(c)
<1>1. c \in Contexts /\ t \in States /\ c.queue \in Seq(Request)
  BY DEF Good, Contexts
<1>2. h \in HostInputs /\ t.host_activation \in Activation
  BY <1>1 DEF States, TextInputState
<1>3. \A e : Good(e, q, hg, seat, un, {}) => Good(e, q, hg, seat, un, {g})
  BY DEF Good
<1>4. CASE Wanted(t) /\ t.host_activation = Inactive /\ seat = "live"
  <2>1. d = Activated(c, g) BY <1>4, UpdateIs
  <2>. DEFINE x == Req("activate", h)
  <2>2. Good(d, q, hg, seat, un, {}) BY <1>4, <2>1, ActivatedGood
  <2>3. /\ d.inputs = ReActivated(c, g, Active) /\ d.queue = Append(c.queue, x)
        /\ x \in Request
    BY <1>1, <2>1, ActivatedIs
  <2>4. x.op # "state" BY DEF Req
  <2>. HIDE DEF d, x
  <2>5. StatesOk(c.queue) => StatesOk(d.queue)
    BY <2>3, <2>4, <1>1, StatesAppend
  <2>6. Active \in Activation BY ActivationsDiffer
  <2>7. \E a \in Activation : d.inputs = ReActivated(c, g, a) /\ (a = Active => Wanted(t))
    BY <2>3, <2>6, <1>4
  <2>. QED BY <2>2, <2>5, <2>7, <1>3 DEF d
<1>5. CASE ~Wanted(t) /\ HostIsActive(t) /\ seat = "live"
  <2>1. d = DeactivationBarrier(c, g) BY <1>5, UpdateIs
  <2>. DEFINE x == Req("deactivate", h)
              y == Req("sync", cb)
              r1 == Append(c.queue, x)
  <2>2. c.cbTracked # Callbacks BY <1>5
  <2>3. /\ d.inputs = ReActivated(c, g, Draining(cb))
        /\ Good(d, q, hg, seat, un, {g})
        /\ Cleared(t) => Good(d, q, hg, seat, un, {})
    BY <2>1, <2>2, DeactivatedGood
  <2>4. cb \in Callbacks BY <2>2, <1>1 DEF Contexts, FreeCallback
  <2>5. /\ d.queue = Append(r1, y) /\ x \in Request /\ y \in Request
    <3>1. cb = FreeCallback(c) OBVIOUS
    <3>. HIDE DEF cb, d
    <3>. QED BY <1>1, <2>1, <2>4, <3>1, DeactivatedIs
  <2>6. x.op # "state" /\ y.op # "state" BY DEF Req
  <2>. HIDE DEF d, x, y, cb
  <2>7. r1 \in Seq(Request) BY <1>1, <2>5, AppendIs
  <2>8. StatesOk(c.queue) => StatesOk(r1)
    BY <2>5, <2>6, <1>1, StatesAppend
  <2>. HIDE DEF r1
  <2>9. StatesOk(r1) => StatesOk(d.queue)
    BY <2>5, <2>6, <2>7, StatesAppend
  <2>10. Draining(cb) \in Activation /\ Draining(cb) # Active BY <2>4, ActivationsDiffer
  <2>11. \E a \in Activation : d.inputs = ReActivated(c, g, a) /\ (a = Active => Wanted(t))
    BY <2>3, <2>10
  <2>. QED BY <2>3, <2>8, <2>9, <2>11, <1>5 DEF d
<1>6. CASE ~Wanted(t) /\ HostIsActive(t) /\ seat # "live"
  <2>1. d = SetActivation(c, g, Inactive) BY <1>6, UpdateIs
  <2>2. /\ d.inputs = ReActivated(c, g, Inactive) /\ d.queue = c.queue
        /\ Good(d, q, hg, seat, un, {g})
        /\ Cleared(t) => Good(d, q, hg, seat, un, {})
    BY <1>6, <2>1, DroppedGood
  <2>. HIDE DEF d
  <2>3. Inactive \in Activation /\ Inactive # Active BY ActivationsDiffer
  <2>4. \E a \in Activation : d.inputs = ReActivated(c, g, a) /\ (a = Active => Wanted(t))
    BY <2>2, <2>3
  <2>. QED BY <2>2, <2>4, <1>6 DEF d
<1>7. CASE /\ ~(Wanted(t) /\ t.host_activation = Inactive /\ seat = "live")
           /\ ~(~Wanted(t) /\ HostIsActive(t))
  <2>1. d = c BY <1>7, UpdateIs
  <2>2. c.inputs = ReActivated(c, g, t.host_activation)
    <3>1. [t EXCEPT !.host_activation = t.host_activation] = t
      BY <1>1 DEF States, TextInputState
    <3>. QED BY <3>1, <1>1 DEF ReActivated, Contexts
  <2>3. t.host_activation = Active => Wanted(t)
    BY <1>7 DEF HostIsActive
  <2>4. \E a \in Activation : c.inputs = ReActivated(c, g, a) /\ (a = Active => Wanted(t))
    BY <2>2, <2>3, <1>2
  <2>. HIDE DEF d
  <2>5. Good(d, q, hg, seat, un, {}) /\ Good(d, q, hg, seat, un, {g})
    BY <2>1, <1>3
  <2>. QED BY <2>1, <2>4, <2>5 DEF d
<1>. QED BY <1>4, <1>5, <1>6, <1>7

-----------------------------------------------------------------------------
(* Replacing, adding and removing an input; queueing editor state          *)

LEMMA SetInputIs ==
  ASSUME NEW c \in Contexts, NEW g \in TextInputs, NEW t, t \in States \/ t = None
  PROVE  LET d == SetInput(c, g, t)
         IN  /\ d \in Contexts /\ d.inputs = [c.inputs EXCEPT ![g] = t]
             /\ d.barriers = c.barriers /\ d.cbTracked = c.cbTracked
             /\ d.activated = c.activated /\ d.queue = c.queue
<1>. DEFINE i == [c.inputs EXCEPT ![g] = t]
            d == SetInput(c, g, t)
<1>1. c.inputs \in [TextInputs -> States \cup {None}] BY DEF Contexts
<1>2. i \in [TextInputs -> States \cup {None}] BY <1>1
<1>3. d = [c EXCEPT !.inputs = i] BY DEF SetInput
<1>. HIDE DEF i, d
<1>5. /\ d \in Contexts /\ d.inputs = i /\ d.barriers = c.barriers
      /\ d.cbTracked = c.cbTracked /\ d.activated = c.activated /\ d.queue = c.queue
  BY <1>2, <1>3, WithPart
<1>. QED BY <1>5 DEF i, d

\* The host's side of the input is the same, what it composed is the same or cleared.
Softer(t, u) ==
  /\ u.host_v1_id = t.host_v1_id /\ u.host_activation = t.host_activation
  /\ \/ u.current_preedit = t.current_preedit /\ u.pending_deletes = t.pending_deletes
     \/ Cleared(u)

LEMMA InputSofter ==
  ASSUME NEW g, NEW t, NEW u, NEW b, NEW r, NEW q, NEW m, NEW n, NEW s,
         InputOk(g, t, b, r, q, m, n, s), Softer(t, u)
  PROVE  InputOk(g, u, b, r, q, m, n, s)
<1>1. Current(t, q, m, n) => Current(u, q, m, n)
  BY DEF Current, Softer, Cleared
<1>2. Cleared(t) => Cleared(u)
  BY DEF Softer, Cleared
<1>3. \A cb : Drains(g, t, b, r, q, m, cb) => Drains(g, u, b, r, q, m, cb)
  BY DEF Drains, Softer
<1>. QED BY <1>1, <1>2, <1>3 DEF InputOk, Softer

LEMMA SetInputGood ==
  ASSUME NEW c, NEW q, NEW hg, NEW s, NEW un, Good(c, q, hg, s, un, {}),
         NEW g \in TextInputs, c.inputs[g] # None,
         NEW u \in States, Softer(c.inputs[g], u),
         u.committed_enabled => \/ c.inputs[g].committed_enabled
                                \/ \A o \in TextInputs \ {g} :
                                     c.inputs[o] # None => ~c.inputs[o].committed_enabled
  PROVE  Good(SetInput(c, g, u), q, hg, s, un, {})
<1>. DEFINE d == SetInput(c, g, u)
            t == c.inputs[g]
<1>1. /\ c \in Contexts /\ CallbacksOk(c, q) /\ HostsOk(c, q, hg, un) /\ EnabledOk(c)
      /\ \A f \in TextInputs : c.inputs[f] # None => InputAt(c, f, q, hg, s)
  BY DEF Good
<1>2. /\ d \in Contexts /\ d.barriers = c.barriers /\ d.cbTracked = c.cbTracked
      /\ d.activated = c.activated /\ d.queue = c.queue /\ d.inputs[g] = u
      /\ \A f \in TextInputs : f # g => d.inputs[f] = c.inputs[f]
  <2>1. /\ d \in Contexts /\ d.inputs = [c.inputs EXCEPT ![g] = u]
        /\ d.barriers = c.barriers /\ d.cbTracked = c.cbTracked
        /\ d.activated = c.activated /\ d.queue = c.queue
    BY <1>1, SetInputIs
  <2>2. c.inputs \in [TextInputs -> States \cup {None}] BY <1>1 DEF Contexts
  <2>. HIDE DEF d
  <2>. QED BY <2>1, <2>2
<1>. HIDE DEF d
<1>3. InputAt(d, g, q, hg, s)
  <2>1. InputOk(g, t, c.barriers, c.queue, q, hg[t.host_v1_id],
                c.activated[t.host_v1_id], s)
    BY <1>1 DEF InputAt
  <2>2. InputOk(g, u, c.barriers, c.queue, q, hg[t.host_v1_id],
                c.activated[t.host_v1_id], s)
    BY <2>1, InputSofter
  <2>3. u.host_v1_id = t.host_v1_id BY DEF Softer
  <2>. QED BY <1>2, <2>2, <2>3 DEF InputAt
<1>4. \A f \in TextInputs : d.inputs[f] # None => InputAt(d, f, q, hg, s)
  BY <1>1, <1>2, <1>3 DEF InputAt
<1>5. CallbacksOk(d, q) BY <1>1, <1>2 DEF CallbacksOk
<1>6. /\ \A f \in TextInputs : d.inputs[f] # None =>
           c.inputs[f] # None /\ d.inputs[f].host_v1_id = c.inputs[f].host_v1_id
  BY <1>2 DEF Softer
<1>7. HostsOk(d, q, hg, un) BY <1>1, <1>2, <1>6 DEF HostsOk
<1>8. EnabledOk(d) BY <1>1, <1>2 DEF EnabledOk
<1>9. Good(d, q, hg, s, un, {}) BY <1>2, <1>4, <1>5, <1>7, <1>8 DEF Good
<1>. QED BY <1>9 DEF d

LEMMA RemovedGood ==
  ASSUME NEW c, NEW q, NEW hg, NEW s, NEW un, NEW g \in TextInputs,
         Good(c, q, hg, s, un, {g})
  PROVE  Good(SetInput(c, g, None), q, hg, s, un, {})
<1>. DEFINE d == SetInput(c, g, None)
<1>1. c \in Contexts BY DEF Good
<1>2. /\ d \in Contexts /\ d.barriers = c.barriers /\ d.cbTracked = c.cbTracked
      /\ d.activated = c.activated /\ d.queue = c.queue /\ d.inputs[g] = None
      /\ \A f \in TextInputs : f # g => d.inputs[f] = c.inputs[f]
  <2>1. /\ d \in Contexts /\ d.inputs = [c.inputs EXCEPT ![g] = None]
        /\ d.barriers = c.barriers /\ d.cbTracked = c.cbTracked
        /\ d.activated = c.activated /\ d.queue = c.queue
    BY <1>1, SetInputIs
  <2>2. c.inputs \in [TextInputs -> States \cup {None}] BY <1>1 DEF Contexts
  <2>. HIDE DEF d
  <2>. QED BY <2>1, <2>2
<1>. HIDE DEF d
<1>3. \A f \in TextInputs : d.inputs[f] # None => InputAt(d, f, q, hg, s)
  BY <1>2 DEF InputAt, Good
<1>4. CallbacksOk(d, q) BY <1>2 DEF CallbacksOk, Good
<1>5. HostsOk(d, q, hg, un) BY <1>2 DEF HostsOk, Good
<1>6. EnabledOk(d) BY <1>2 DEF EnabledOk, Good
<1>7. Good(d, q, hg, s, un, {}) BY <1>2, <1>3, <1>4, <1>5, <1>6 DEF Good
<1>. QED BY <1>7 DEF d

LEMMA AddedGood ==
  ASSUME NEW c, NEW q, NEW hg, NEW s, NEW un, Good(c, q, hg, s, un, {}),
         NEW g \in TextInputs, c.inputs[g] = None, NEW h \in un,
         NEW u \in States, u.host_v1_id = h, u.host_activation = Inactive, Cleared(u),
         ~u.committed_enabled
  PROVE  Good(SetInput(c, g, u), q, hg, s, un \ {h}, {})
<1>. DEFINE d == SetInput(c, g, u)
<1>1. /\ c \in Contexts /\ CallbacksOk(c, q) /\ HostsOk(c, q, hg, un) /\ EnabledOk(c)
      /\ \A f \in TextInputs : c.inputs[f] # None => InputAt(c, f, q, hg, s)
  BY DEF Good
<1>2. /\ d \in Contexts /\ d.barriers = c.barriers /\ d.cbTracked = c.cbTracked
      /\ d.activated = c.activated /\ d.queue = c.queue /\ d.inputs[g] = u
      /\ \A f \in TextInputs : f # g => d.inputs[f] = c.inputs[f]
  <2>1. /\ d \in Contexts /\ d.inputs = [c.inputs EXCEPT ![g] = u]
        /\ d.barriers = c.barriers /\ d.cbTracked = c.cbTracked
        /\ d.activated = c.activated /\ d.queue = c.queue
    BY <1>1, SetInputIs
  <2>2. c.inputs \in [TextInputs -> States \cup {None}] BY <1>1 DEF Contexts
  <2>. HIDE DEF d
  <2>. QED BY <2>1, <2>2
<1>. HIDE DEF d
<1>3. InputAt(d, g, q, hg, s)
  <2>1. Quiet(c.queue, q, hg[h], h) BY <1>1 DEF HostsOk
  <2>. QED BY <1>2, <2>1, ActivationsDiffer DEF InputAt, InputOk
<1>4. \A f \in TextInputs : d.inputs[f] # None => InputAt(d, f, q, hg, s)
  BY <1>1, <1>2, <1>3 DEF InputAt
<1>5. CallbacksOk(d, q) BY <1>1, <1>2 DEF CallbacksOk
<1>6. HostsOk(d, q, hg, un \ {h})
  BY <1>1, <1>2 DEF HostsOk
<1>7. EnabledOk(d) BY <1>1, <1>2 DEF EnabledOk
<1>8. Good(d, q, hg, s, un \ {h}, {}) BY <1>2, <1>4, <1>5, <1>6, <1>7 DEF Good
<1>. QED BY <1>8 DEF d

LEMMA QueuedGood ==
  ASSUME NEW c, NEW q, NEW hg, NEW s, NEW un, Good(c, q, hg, s, un, {}),
         NEW x \in Request, x.op = "state"
  PROVE  Good(Queue(c, <<x>>), q, hg, s, un, {})
<1>. DEFINE d == Queue(c, <<x>>)
<1>1. /\ c \in Contexts /\ CallbacksOk(c, q) /\ HostsOk(c, q, hg, un) /\ EnabledOk(c)
      /\ \A f \in TextInputs : c.inputs[f] # None => InputAt(c, f, q, hg, s)
      /\ c.queue \in Seq(Request)
  BY DEF Good, Contexts
<1>2. /\ d \in Contexts /\ d.barriers = c.barriers /\ d.cbTracked = c.cbTracked
      /\ d.activated = c.activated /\ d.queue = Append(c.queue, x) /\ d.inputs = c.inputs
  BY <1>1, QueueIs
<1>. HIDE DEF d
<1>3. \A h : Spares(x, h) BY DEF Spares
<1>4. \A f \in TextInputs : d.inputs[f] # None => InputAt(d, f, q, hg, s)
  BY <1>1, <1>2, <1>3, InputQueued DEF InputAt
<1>5. CallbacksOk(d, q) BY <1>1, <1>2, CallbackQueued DEF CallbacksOk
<1>6. \A h \in un : Quiet(c.queue, q, hg[h], h) BY <1>1 DEF HostsOk
<1>7. \A h \in un : Quiet(d.queue, q, hg[h], h)
  BY <1>1, <1>2, <1>3, <1>6, QuietQueued
<1>8. HostsOk(d, q, hg, un) BY <1>1, <1>2, <1>7 DEF HostsOk
<1>9. EnabledOk(d) BY <1>1, <1>2 DEF EnabledOk
<1>10. Good(d, q, hg, s, un, {}) BY <1>2, <1>4, <1>5, <1>8, <1>9 DEF Good
<1>. QED BY <1>10 DEF d

-----------------------------------------------------------------------------
(* The state after a handler                                               *)

\* What TypeOK says of the variables outside the context.
RestOK ==
  /\ seat \in {"live", "pending", "gone"} /\ focus \in Surfaces \cup {None}
  /\ period \in 0 .. MaxFocus /\ unusedHost \in SUBSET HostInputs
  /\ issued \in [TextInputs -> 0 .. MaxCommits] /\ toProxy \in Seq(Event)
  /\ hostGen \in [HostInputs -> Nat] /\ out \in Done \cup {None}

LEMMA CtxIs ==
  /\ Ctx.inputs = inputs /\ Ctx.barriers = barriers /\ Ctx.cbTracked = cbTracked
  /\ Ctx.activated = activated /\ Ctx.queue = toHost
  /\ TypeOK <=> Ctx \in Contexts /\ RestOK
<1>1. /\ Ctx.inputs = inputs /\ Ctx.barriers = barriers /\ Ctx.cbTracked = cbTracked
      /\ Ctx.activated = activated /\ Ctx.queue = toHost
  BY DEF Ctx
<1>2. (inputs \in [TextInputs -> TextInputState \cup {None}]
         /\ \A g \in TextInputs :
              inputs[g] # None => Len(inputs[g].pending_deletes) =< MaxDeletes)
      <=> inputs \in [TextInputs -> States \cup {None}]
  BY NoneIsNoInput DEF States
<1>3. Ctx \in Contexts <=>
        /\ inputs \in [TextInputs -> States \cup {None}]
        /\ barriers \in [Callbacks -> (TextInputs \X HostInputs) \cup {None}]
        /\ cbTracked \in SUBSET Callbacks /\ activated \in [HostInputs -> Nat]
        /\ toHost \in Seq(Request)
  BY DEF Ctx, Contexts
<1>. QED BY <1>1, <1>2, <1>3 DEF TypeOK, RestOK

LEMMA CtxNext ==
  /\ Ctx'.inputs = inputs' /\ Ctx'.barriers = barriers' /\ Ctx'.cbTracked = cbTracked'
  /\ Ctx'.activated = activated' /\ Ctx'.queue = toHost'
  /\ TypeOK' <=> Ctx' \in Contexts /\ RestOK'
<1>1. /\ Ctx'.inputs = inputs' /\ Ctx'.barriers = barriers' /\ Ctx'.cbTracked = cbTracked'
      /\ Ctx'.activated = activated' /\ Ctx'.queue = toHost'
  BY DEF Ctx
<1>2. (inputs' \in [TextInputs -> TextInputState \cup {None}]
         /\ \A g \in TextInputs :
              inputs'[g] # None => Len(inputs'[g].pending_deletes) =< MaxDeletes)
      <=> inputs' \in [TextInputs -> States \cup {None}]
  BY NoneIsNoInput DEF States
<1>3. Ctx' \in Contexts <=>
        /\ inputs' \in [TextInputs -> States \cup {None}]
        /\ barriers' \in [Callbacks -> (TextInputs \X HostInputs) \cup {None}]
        /\ cbTracked' \in SUBSET Callbacks /\ activated' \in [HostInputs -> Nat]
        /\ toHost' \in Seq(Request)
  BY DEF Ctx, Contexts
<1>. QED BY <1>1, <1>2, <1>3 DEF TypeOK, RestOK

LEMMA InstallIs ==
  ASSUME NEW c \in Contexts, Install(c)
  PROVE  Ctx' = c
BY DEF Install, Ctx, Contexts

\* The invariant after a step that leaves the context d.
LEMMA InvNext ==
  ASSUME NEW d, Ctx' = d, RestOK',
         Good(d, toProxy', hostGen', seat', unusedHost', {}),
         \A g \in TextInputs : Settled(d, g), EditorOk(d, period')
  PROVE  BridgeInv'
<1>1. d \in Contexts BY DEF Good
<1>2. TypeOK' BY <1>1, CtxNext
<1>. QED BY <1>2 DEF BridgeInv, Good, InputAt, CallbacksOk, HostsOk, EnabledOk, Settled, EditorOk

-----------------------------------------------------------------------------
(* Guest requests                                                          *)

LEMMA InvNow ==
  ASSUME BridgeInv
  PROVE  /\ Ctx \in Contexts /\ RestOK
         /\ Ctx.inputs = inputs /\ Ctx.barriers = barriers /\ Ctx.cbTracked = cbTracked
         /\ Ctx.activated = activated /\ Ctx.queue = toHost
         /\ Good(Ctx, toProxy, hostGen, seat, unusedHost, {})
         /\ \A g \in TextInputs : Settled(Ctx, g)
         /\ \A g \in TextInputs : inputs[g] # None =>
              inputs[g] \in States /\ inputs[g].pending_text \in {None, period}
         /\ StatesOk(toHost)
<1>1. /\ Ctx.inputs = inputs /\ Ctx.barriers = barriers /\ Ctx.cbTracked = cbTracked
      /\ Ctx.activated = activated /\ Ctx.queue = toHost
      /\ Ctx \in Contexts /\ RestOK
  BY CtxIs DEF BridgeInv
<1>2. \A g \in TextInputs : inputs[g] # None => inputs[g] \in States
  BY <1>1 DEF Contexts
<1>. QED BY <1>1, <1>2 DEF BridgeInv, EditorOk

\* One input replaced, and nothing else but the commits issued.
LEMMA InvReplaced ==
  ASSUME BridgeInv, NEW g \in TextInputs, inputs[g] # None, NEW u \in States,
         Softer(inputs[g], u), u.committed_enabled = inputs[g].committed_enabled,
         u.active_surface = inputs[g].active_surface, u.pending_text \in {None, period},
         Install(SetInput(Ctx, g, u)), out' = None,
         UNCHANGED <<unusedHost, seat, focus, period, issued, toProxy, hostGen>>
  PROVE  BridgeInv'
<1>. DEFINE d == SetInput(Ctx, g, u)
<1>1. /\ Ctx \in Contexts /\ RestOK /\ Ctx.inputs = inputs /\ Ctx.queue = toHost
      /\ Good(Ctx, toProxy, hostGen, seat, unusedHost, {})
      /\ \A f \in TextInputs : Settled(Ctx, f)
      /\ \A f \in TextInputs : inputs[f] # None =>
           inputs[f] \in States /\ inputs[f].pending_text \in {None, period}
      /\ StatesOk(toHost)
  BY InvNow
<1>2. Good(d, toProxy, hostGen, seat, unusedHost, {})
  BY <1>1, SetInputGood
<1>3. /\ d \in Contexts /\ d.inputs = [Ctx.inputs EXCEPT ![g] = u] /\ d.queue = Ctx.queue
  BY <1>1, SetInputIs
<1>4. inputs \in [TextInputs -> States \cup {None}] BY <1>1 DEF Contexts
<1>. HIDE DEF d
<1>5. /\ d.inputs[g] = u
      /\ \A f \in TextInputs : f # g => d.inputs[f] = inputs[f]
  BY <1>1, <1>3, <1>4
<1>6. \A f \in TextInputs : Settled(d, f)
  BY <1>1, <1>5 DEF Settled, HostIsActive, Wanted, Softer
<1>7. EditorOk(d, period)
  BY <1>1, <1>3, <1>5 DEF EditorOk
<1>8. Ctx' = d BY <1>3, InstallIs DEF d
<1>9. RestOK' BY <1>1 DEF RestOK
<1>. QED BY <1>2, <1>6, <1>7, <1>8, <1>9, InvNext

LEMMA KeepsGetTextInput ==
  ASSUME BridgeInv, NEW g \in TextInputs, GetTextInput(g)
  PROVE  BridgeInv'
<1>1. /\ Ctx \in Contexts /\ RestOK /\ Ctx.inputs = inputs /\ Ctx.queue = toHost
      /\ Good(Ctx, toProxy, hostGen, seat, unusedHost, {})
      /\ \A f \in TextInputs : Settled(Ctx, f)
      /\ \A f \in TextInputs : inputs[f] # None =>
           inputs[f] \in States /\ inputs[f].pending_text \in {None, period}
      /\ StatesOk(toHost)
  BY InvNow
<1>2. PICK h \in unusedHost :
        unusedHost' = unusedHost \ {h} /\ Install(SetInput(Ctx, g, NewInput(h, focus)))
  BY DEF GetTextInput
<1>. DEFINE u == NewInput(h, focus)
            d == SetInput(Ctx, g, u)
<1>3. h \in HostInputs /\ focus \in Surfaces \cup {None}
  BY <1>1, <1>2 DEF RestOK
<1>4. /\ u.host_v1_id = h /\ u.host_activation = Inactive /\ Cleared(u)
      /\ ~u.committed_enabled /\ u.pending_text = None
  BY DEF NewInput, Cleared
<1>5. u \in States
  <2>1. \A S : <<>> \in Seq(S) /\ Len(<<>>) = 0 OBVIOUS
  <2>2. Len(u.pending_deletes) =< MaxDeletes BY BoundsAssumption DEF NewInput
  <2>3. u \in TextInputState BY <2>1, <1>3, ActivationsDiffer DEF NewInput, TextInputState
  <2>. QED BY <2>2, <2>3 DEF States
<1>. HIDE DEF u
<1>6. Good(d, toProxy, hostGen, seat, unusedHost', {})
  BY <1>1, <1>2, <1>4, <1>5, AddedGood DEF GetTextInput
<1>7. /\ d \in Contexts /\ d.inputs = [Ctx.inputs EXCEPT ![g] = u] /\ d.queue = Ctx.queue
  BY <1>1, <1>5, SetInputIs
<1>8. inputs \in [TextInputs -> States \cup {None}] BY <1>1 DEF Contexts
<1>9. Ctx' = d BY <1>2, <1>7, InstallIs DEF u
<1>. HIDE DEF d
<1>10. /\ d.inputs[g] = u
       /\ \A f \in TextInputs : f # g => d.inputs[f] = inputs[f]
  BY <1>1, <1>7, <1>8
<1>11. \A f \in TextInputs : Settled(d, f)
  BY <1>1, <1>4, <1>10, ActivationsDiffer DEF Settled, HostIsActive
<1>12. EditorOk(d, period)
  BY <1>1, <1>4, <1>7, <1>10 DEF EditorOk
<1>13. RestOK'
  BY <1>1, <1>2, BoundsAssumption DEF RestOK, GetTextInput, Silent
<1>14. /\ toProxy' = toProxy /\ hostGen' = hostGen /\ seat' = seat /\ period' = period
  BY DEF GetTextInput
<1>. QED BY <1>6, <1>9, <1>11, <1>12, <1>13, <1>14, InvNext

LEMMA KeepsDestroy ==
  ASSUME BridgeInv, NEW g \in TextInputs, Destroy(g)
  PROVE  BridgeInv'
<1>. DEFINE t == inputs[g]
            u == BeginDestroy(t)
            c == SetInput(Ctx, g, u)
            e == UpdateHostActivation(c, g)
            d == SetInput(e, g, None)
<1>1. /\ Ctx \in Contexts /\ RestOK /\ Ctx.inputs = inputs /\ Ctx.queue = toHost
      /\ Ctx.cbTracked = cbTracked
      /\ Good(Ctx, toProxy, hostGen, seat, unusedHost, {})
      /\ \A f \in TextInputs : Settled(Ctx, f)
      /\ \A f \in TextInputs : inputs[f] # None =>
           inputs[f] \in States /\ inputs[f].pending_text \in {None, period}
      /\ StatesOk(toHost)
  BY InvNow
<1>2. /\ t # None /\ FreeBarrier /\ Install(d) /\ out' = None
      /\ UNCHANGED <<unusedHost, seat, focus, period, issued, toProxy, hostGen>>
  BY DEF Destroy, Silent
<1>3. t \in States BY <1>1, <1>2
<1>4. /\ u \in States /\ Softer(t, u) /\ ~u.committed_enabled
  BY <1>3 DEF BeginDestroy, States, TextInputState, Softer
<1>5. u # None BY <1>4, NoneIsNoInput
<1>. HIDE DEF u
<1>6. Good(c, toProxy, hostGen, seat, unusedHost, {})
  BY <1>1, <1>2, <1>4, SetInputGood
<1>7. /\ c \in Contexts /\ c.inputs = [Ctx.inputs EXCEPT ![g] = u] /\ c.queue = Ctx.queue
      /\ c.cbTracked = Ctx.cbTracked
  BY <1>1, <1>4, SetInputIs
<1>8. inputs \in [TextInputs -> States \cup {None}] BY <1>1 DEF Contexts
<1>. HIDE DEF c
<1>9. /\ c.inputs[g] = u
      /\ \A f \in TextInputs : f # g => c.inputs[f] = inputs[f]
  BY <1>1, <1>7, <1>8
<1>10. c.cbTracked # Callbacks BY <1>1, <1>2, <1>7 DEF FreeBarrier
<1>11. /\ Good(e, toProxy, hostGen, seat, unusedHost, {g})
       /\ \E a \in Activation : e.inputs = ReActivated(c, g, a)
       /\ StatesOk(c.queue) => StatesOk(e.queue)
  BY <1>5, <1>6, <1>9, <1>10, UpdateGood
<1>12. PICK a \in Activation : e.inputs = ReActivated(c, g, a) BY <1>11
<1>13. \A f \in TextInputs : f # g => e.inputs[f] = inputs[f]
  <2>1. c.inputs[g] # None BY <1>5, <1>9
  <2>2. /\ \A f \in TextInputs : f # g => ReActivated(c, g, a)[f] = c.inputs[f]
        /\ ReActivated(c, g, a)[g] = [c.inputs[g] EXCEPT !.host_activation = a]
    <3>1. c \in Contexts /\ g \in TextInputs /\ c.inputs[g] # None /\ a \in Activation
      BY <2>1, <1>7
    <3>. QED BY ONLY <3>1, ReActivatedIs
  <2>. HIDE DEF e
  <2>. QED BY <2>2, <1>9, <1>12
<1>. HIDE DEF e
<1>14. Good(d, toProxy, hostGen, seat, unusedHost, {})
  BY <1>11, RemovedGood
<1>15. e \in Contexts BY <1>11 DEF Good
<1>16. /\ d \in Contexts /\ d.inputs = [e.inputs EXCEPT ![g] = None] /\ d.queue = e.queue
  BY <1>15, SetInputIs
<1>17. e.inputs \in [TextInputs -> States \cup {None}] BY <1>15 DEF Contexts
<1>18. Ctx' = d BY <1>2, <1>16, InstallIs DEF e, c, u
<1>. HIDE DEF d
<1>19. /\ d.inputs[g] = None
       /\ \A f \in TextInputs : f # g => d.inputs[f] = inputs[f]
  BY <1>13, <1>16, <1>17
<1>20. \A f \in TextInputs : Settled(d, f)
  BY <1>1, <1>19 DEF Settled
<1>21. EditorOk(d, period)
  BY <1>1, <1>7, <1>11, <1>16, <1>19 DEF EditorOk
<1>22. RestOK' BY <1>1, <1>2 DEF RestOK
<1>. QED BY <1>2, <1>14, <1>18, <1>20, <1>21, <1>22, InvNext

LEMMA KeepsEnable ==
  ASSUME BridgeInv, NEW g \in TextInputs, NEW enabled \in BOOLEAN, Enable(g, enabled)
  PROVE  BridgeInv'
<1>. DEFINE t == inputs[g]
            u == BeginEnabled(t, enabled)
<1>1. /\ t # None /\ Install(SetInput(Ctx, g, u)) /\ out' = None
      /\ UNCHANGED <<unusedHost, seat, focus, period, issued, toProxy, hostGen>>
  BY DEF Enable, Focused, Silent
<1>2. t \in States BY <1>1, InvNow
<1>3. /\ u \in States /\ Softer(t, u) /\ u.committed_enabled = t.committed_enabled
      /\ u.active_surface = t.active_surface /\ u.pending_text = None
  BY <1>2 DEF BeginEnabled, States, TextInputState, Softer
<1>. HIDE DEF u
<1>. QED BY <1>1, <1>3, InvReplaced

LEMMA KeepsSetSurroundingText ==
  ASSUME BridgeInv, NEW g \in TextInputs, SetSurroundingText(g)
  PROVE  BridgeInv'
<1>. DEFINE t == inputs[g]
            u == RecordEditorState(t, period)
<1>1. /\ t # None /\ Install(SetInput(Ctx, g, u)) /\ out' = None
      /\ UNCHANGED <<unusedHost, seat, focus, period, issued, toProxy, hostGen>>
  BY DEF SetSurroundingText, Focused, Silent
<1>2. t \in States /\ RestOK BY <1>1, InvNow
<1>3. period \in Nat BY <1>2, BoundsAssumption DEF RestOK
<1>4. /\ u \in States /\ Softer(t, u) /\ u.committed_enabled = t.committed_enabled
      /\ u.active_surface = t.active_surface /\ u.pending_text = period
  BY <1>2, <1>3 DEF RecordEditorState, States, TextInputState, Softer
<1>. HIDE DEF u
<1>. QED BY <1>1, <1>4, InvReplaced

LEMMA KeepsSeat ==
  ASSUME BridgeInv, ReleaseSeat \/ SeatDeleted
  PROVE  BridgeInv'
<1>1. /\ Ctx \in Contexts /\ RestOK
      /\ Good(Ctx, toProxy, hostGen, seat, unusedHost, {})
      /\ \A f \in TextInputs : Settled(Ctx, f)
  BY InvNow
<1>2. /\ Ctx' = Ctx /\ toProxy' = toProxy /\ hostGen' = hostGen /\ period' = period
      /\ unusedHost' = unusedHost /\ seat' # "live" /\ seat' \in {"pending", "gone"}
      /\ UNCHANGED <<focus, issued>> /\ out' = None
  BY DEF ReleaseSeat, SeatDeleted, proxy, Ctx, Silent
<1>3. RestOK' BY <1>1, <1>2 DEF RestOK
<1>4. \A g, t, b, r, q, m, n : InputOk(g, t, b, r, q, m, n, seat) => InputOk(g, t, b, r, q, m, n, seat')
  BY <1>2 DEF InputOk
<1>5. Good(Ctx, toProxy, hostGen, seat', unusedHost, {})
  BY <1>1, <1>4 DEF Good, InputAt
<1>6. EditorOk(Ctx, period) BY DEF BridgeInv
<1>. HIDE DEF Ctx
<1>. QED BY <1>1, <1>2, <1>3, <1>5, <1>6, InvNext

\* What the commit leaves in the input.
LEMMA CommitPlan ==
  ASSUME NEW t \in States, NEW conflict \in BOOLEAN, NEW p,
         t.pending_text \in {None, p}
  PROVE  LET plan == GuestCommitPlan(t, conflict)
             u == FinishGuestCommit(t, plan)
         IN  /\ u \in States /\ Softer(t, u)
             /\ u.pending_text = t.pending_text
             /\ u.active_surface = t.active_surface
             /\ plan.text \in {None, p} /\ plan.text \in Nat \cup {None}
             /\ u.committed_enabled => \/ t.committed_enabled
                                       \/ t.enabled_dirty /\ t.pending_enabled /\ ~conflict
             /\ Cleared(u) \/ u.committed_enabled = t.committed_enabled
<1>. DEFINE plan == GuestCommitPlan(t, conflict)
            t1 == [t EXCEPT !.guest_commit_serial = plan.serial,
                            !.committed_text = IF t.text_dirty THEN plan.text ELSE @,
                            !.text_dirty = FALSE]
            u == FinishGuestCommit(t, plan)
<1>1. t \in TextInputState /\ Len(t.pending_deletes) =< MaxDeletes BY DEF States
<1>2. /\ plan.serial \in Nat /\ plan.enabled \in BOOLEAN
      /\ plan.resets_composition = t.enabled_dirty
      /\ plan.text \in {None, p} /\ plan.text \in Nat \cup {None}
      /\ plan.enabled => t.committed_enabled \/ (t.enabled_dirty /\ t.pending_enabled /\ ~conflict)
  BY <1>1 DEF GuestCommitPlan, TextInputState
<1>. HIDE DEF plan
<1>3. /\ t1 \in TextInputState /\ t1.pending_deletes = t.pending_deletes
      /\ t1.current_preedit = t.current_preedit /\ t1.pending_text = t.pending_text
      /\ t1.active_surface = t.active_surface /\ t1.committed_enabled = t.committed_enabled
      /\ t1.host_v1_id = t.host_v1_id /\ t1.host_activation = t.host_activation
  BY <1>1, <1>2 DEF TextInputState
<1>4. u = IF ~plan.resets_composition THEN t1
          ELSE [ClearComposition(t1) EXCEPT !.pending_enabled = plan.enabled,
                                            !.committed_enabled = plan.enabled,
                                            !.enabled_dirty = FALSE]
  BY DEF FinishGuestCommit
<1>. HIDE DEF t1, u
<1>5. CASE ~plan.resets_composition
  <2>1. u = t1 BY <1>4, <1>5
  <2>. QED BY <2>1, <1>1, <1>2, <1>3, <1>5 DEF States, Softer, plan, u
<1>6. CASE plan.resets_composition
  <2>. DEFINE t2 == ClearComposition(t1)
  <2>1. /\ t2 \in TextInputState /\ Cleared(t2) /\ t2.pending_text = t.pending_text
        /\ t2.active_surface = t.active_surface
        /\ t2.host_v1_id = t.host_v1_id /\ t2.host_activation = t.host_activation
    <3>1. \A S : <<>> \in Seq(S) OBVIOUS
    <3>. QED BY <3>1, <1>3 DEF ClearComposition, TextInputState, Cleared
  <2>2. u = [t2 EXCEPT !.pending_enabled = plan.enabled,
                       !.committed_enabled = plan.enabled, !.enabled_dirty = FALSE]
    BY <1>4, <1>6
  <2>. HIDE DEF t2
  <2>3. /\ u \in TextInputState /\ Cleared(u) /\ u.pending_text = t.pending_text
        /\ u.active_surface = t.active_surface /\ u.committed_enabled = plan.enabled
        /\ u.host_v1_id = t.host_v1_id /\ u.host_activation = t.host_activation
    BY <2>1, <2>2, <1>2 DEF TextInputState, Cleared
  <2>4. Len(u.pending_deletes) =< MaxDeletes
    <3>1. Len(<<>>) = 0 OBVIOUS
    <3>. QED BY <3>1, <2>3, BoundsAssumption DEF Cleared
  <2>. QED BY <2>3, <2>4, <1>1, <1>2 DEF States, Softer, plan, u
<1>. QED BY <1>5, <1>6

LEMMA KeepsCommit ==
  ASSUME BridgeInv, NEW g \in TextInputs, Commit(g)
  PROVE  BridgeInv'
<1>. DEFINE t == inputs[g]
            conflict == EnableConflict(g)
            plan == GuestCommitPlan(t, conflict)
            u == FinishGuestCommit(t, plan)
            x == [op |-> "state", id |-> t.host_v1_id, period |-> period, text |-> plan.text]
            c == SetInput(Ctx, g, u)
            e == UpdateHostActivation(c, g)
            d == Queue(e, <<x>>)
<1>1. /\ Ctx \in Contexts /\ RestOK /\ Ctx.inputs = inputs /\ Ctx.queue = toHost
      /\ Ctx.cbTracked = cbTracked
      /\ Good(Ctx, toProxy, hostGen, seat, unusedHost, {})
      /\ \A f \in TextInputs : Settled(Ctx, f)
      /\ \A f \in TextInputs : inputs[f] # None =>
           inputs[f] \in States /\ inputs[f].pending_text \in {None, period}
      /\ StatesOk(toHost)
  BY InvNow
<1>2. /\ t # None /\ FreeBarrier /\ out' = None
      /\ IF Focused(g) THEN Install(d) ELSE Install(Ctx)
      /\ UNCHANGED <<unusedHost, seat, focus, period, toProxy, hostGen>>
  BY DEF Commit, Silent
<1>3. issued' \in [TextInputs -> 0 .. MaxCommits]
  <2>1. /\ issued \in [TextInputs -> 0 .. MaxCommits] /\ issued[g] < MaxCommits
        /\ issued' = [issued EXCEPT ![g] = @ + 1] /\ MaxCommits \in Nat
    BY <1>1, BoundsAssumption DEF RestOK, Commit
  <2>2. issued[g] + 1 \in 0 .. MaxCommits BY <2>1
  <2>. QED BY <2>1, <2>2
<1>4. RestOK' BY <1>1, <1>2, <1>3 DEF RestOK
<1>5. CASE ~Focused(g)
  <2>1. Ctx' = Ctx BY <1>1, <1>2, <1>5, InstallIs
  <2>2. EditorOk(Ctx, period) BY DEF BridgeInv
  <2>. HIDE DEF Ctx
  <2>. QED BY <1>1, <1>2, <1>4, <2>1, <2>2, InvNext
<1>6. CASE Focused(g)
  <2>1. t \in States /\ t.pending_text \in {None, period} /\ conflict \in BOOLEAN
    BY <1>1, <1>2 DEF EnableConflict
  <2>2. /\ u \in States /\ Softer(t, u) /\ u.pending_text = t.pending_text
        /\ u.active_surface = t.active_surface
        /\ plan.text \in {None, period} /\ plan.text \in Nat \cup {None}
        /\ u.committed_enabled => \/ t.committed_enabled
                                  \/ t.enabled_dirty /\ t.pending_enabled /\ ~conflict
        /\ Cleared(u) \/ u.committed_enabled = t.committed_enabled
    <3>. HIDE DEF t, conflict
    <3>. QED BY <2>1, CommitPlan
  <2>3. ~conflict /\ t.enabled_dirty /\ t.pending_enabled =>
          \A o \in TextInputs \ {g} : inputs[o] # None => ~inputs[o].committed_enabled
    BY DEF EnableConflict
  <2>4. x \in Request /\ x.op = "state" /\ x.text \in {None, x.period}
    <3>1. t.host_v1_id \in HostInputs BY <2>1 DEF States, TextInputState
    <3>2. period \in Nat BY <1>1, BoundsAssumption DEF RestOK
    <3>. HIDE DEF plan, t
    <3>. QED BY <3>1, <3>2, <2>2 DEF Request
  <2>5. u # None BY <2>2, NoneIsNoInput
  <2>. HIDE DEF u, x, conflict, plan
  <2>6. Good(c, toProxy, hostGen, seat, unusedHost, {})
    BY <1>1, <1>2, <2>2, <2>3, SetInputGood
  <2>7. /\ c \in Contexts /\ c.inputs = [Ctx.inputs EXCEPT ![g] = u] /\ c.queue = Ctx.queue
        /\ c.cbTracked = Ctx.cbTracked
    BY <1>1, <2>2, SetInputIs
  <2>8. inputs \in [TextInputs -> States \cup {None}] BY <1>1 DEF Contexts
  <2>. HIDE DEF c
  <2>9. /\ c.inputs[g] = u
        /\ \A f \in TextInputs : f # g => c.inputs[f] = inputs[f]
    BY <1>1, <2>7, <2>8
  <2>10. c.cbTracked # Callbacks BY <1>1, <1>2, <2>7 DEF FreeBarrier
  <2>11. Cleared(u) \/ ~HostIsActive(u) \/ Wanted(u)
    <3>1. HostIsActive(t) => Wanted(t) BY <1>1, <1>2 DEF Settled
    <3>. QED BY <3>1, <2>2 DEF Softer, HostIsActive, Wanted
  <2>12. /\ Good(e, toProxy, hostGen, seat, unusedHost, {})
         /\ \E a \in Activation :
              e.inputs = ReActivated(c, g, a) /\ (a = Active => Wanted(u))
         /\ StatesOk(c.queue) => StatesOk(e.queue)
    BY <2>5, <2>6, <2>9, <2>10, <2>11, UpdateGood
  <2>13. PICK a \in Activation :
           e.inputs = ReActivated(c, g, a) /\ (a = Active => Wanted(u))
    BY <2>12
  <2>14. /\ \A f \in TextInputs : f # g => ReActivated(c, g, a)[f] = inputs[f]
         /\ ReActivated(c, g, a)[g] = [u EXCEPT !.host_activation = a]
    <3>1. c \in Contexts /\ g \in TextInputs /\ c.inputs[g] # None /\ a \in Activation
      BY <2>5, <2>7, <2>9
    <3>2. /\ \A f \in TextInputs : f # g => ReActivated(c, g, a)[f] = c.inputs[f]
          /\ ReActivated(c, g, a)[g] = [c.inputs[g] EXCEPT !.host_activation = a]
      BY ONLY <3>1, ReActivatedIs
    <3>. QED BY <3>2, <2>9
  <2>15. LET v == [u EXCEPT !.host_activation = a]
         IN  v.host_activation = a /\ v.pending_text = u.pending_text
             /\ v.committed_enabled = u.committed_enabled
             /\ v.active_surface = u.active_surface
    BY <2>2, SameBut
  <2>. HIDE DEF e
  <2>16. Good(d, toProxy, hostGen, seat, unusedHost, {})
    BY <2>4, <2>12, QueuedGood
  <2>17. e \in Contexts BY <2>12 DEF Good
  <2>18. /\ d \in Contexts /\ d.queue = Append(e.queue, x) /\ d.inputs = e.inputs
    BY <2>4, <2>17, QueueIs
  <2>19. e.queue \in Seq(Request) BY <2>17 DEF Contexts
  <2>20. StatesOk(d.queue)
    <3>1. StatesOk(e.queue) BY <1>1, <2>7, <2>12
    <3>2. StatesOk(Append(e.queue, x)) BY ONLY <3>1, <2>4, <2>19, StatesAppend
    <3>. QED BY <3>2, <2>18
  <2>21. Install(d) BY <1>2, <1>6
  <2>22. Ctx' = d BY <2>18, <2>21, InstallIs
  <2>. HIDE DEF d, t
  <2>23. \A f \in TextInputs : Settled(d, f)
    <3>1. \A f \in TextInputs : f # g => d.inputs[f] = Ctx.inputs[f]
      BY <1>1, <2>13, <2>14, <2>18
    <3>2. \A f \in TextInputs : f # g => Settled(d, f)
      BY <1>1, <3>1 DEF Settled
    <3>3. Settled(d, g)
      BY <2>13, <2>14, <2>15, <2>18 DEF Settled, HostIsActive, Wanted
    <3>. QED BY <3>2, <3>3
  <2>24. EditorOk(d, period)
    <3>1. \A f \in TextInputs : f # g => d.inputs[f] = inputs[f]
      BY <2>13, <2>14, <2>18
    <3>2. d.inputs[g].pending_text \in {None, period}
      BY <2>1, <2>2, <2>13, <2>14, <2>15, <2>18
    <3>. QED BY <1>1, <2>20, <3>1, <3>2 DEF EditorOk
  <2>. QED BY <1>2, <1>4, <2>16, <2>22, <2>23, <2>24, InvNext
<1>. QED BY <1>5, <1>6

-----------------------------------------------------------------------------
(* Every input of the seat, one after the other                            *)

LEMMA Least ==
  ASSUME NEW T, T \subseteq Nat, T # {}
  PROVE  \E m \in T : \A k \in T : m =< k
<1>. DEFINE Below == {ss \in Nat \X Nat : ss[1] < ss[2]}
<1>1. IsWellFoundedOn(Below, Nat)
  BY NatLessThanWellFounded DEF OpToRel
<1>2. PICK m \in T : \A k \in T : ~(<<k, m>> \in Below)
  BY <1>1, WFMin
<1>3. ASSUME NEW k \in T PROVE m =< k
  <2>1. k \in Nat /\ m \in Nat
    OBVIOUS
  <2>2. k < m => <<k, m>> \in Below
    BY <2>1
  <2>. QED
    BY <2>1, <2>2, <1>2
<1>. QED
  BY <1>3

\* A set that has 0 and with a number its successor has every number.
LEMMA Reaches ==
  ASSUME NEW P, 0 \in P, \A n \in Nat : n \in P => n + 1 \in P
  PROVE  \A n \in Nat : n \in P
<1>. DEFINE Bad == Nat \ P
<1>1. ASSUME Bad # {} PROVE FALSE
  <2>1. PICK m \in Bad : \A k \in Bad : m =< k
    <3>1. Bad \subseteq Nat OBVIOUS
    <3>. HIDE DEF Bad
    <3>. QED BY <1>1, <3>1, Least
  <2>2. m # 0 /\ m \in Nat OBVIOUS
  <2>3. m - 1 \in Nat /\ (m - 1) + 1 = m /\ ~(m =< m - 1) BY <2>2
  <2>4. m - 1 \in P BY <2>1, <2>3
  <2>. QED BY <2>3, <2>4
<1>. QED BY <1>1

\* The function UpdateInOrder is the last value of.
Folded(c, order) ==
  CHOOSE f : f = [i \in 0 .. Len(order) |->
    IF i = 0 THEN c ELSE UpdateHostActivation(f[i - 1], order[i])]
FoldedUpTo(f, c, order, m) ==
  f = [i \in 0 .. m |-> IF i = 0 THEN c ELSE UpdateHostActivation(f[i - 1], order[i])]

LEMMA FoldedIs ==
  ASSUME NEW c, NEW order
  PROVE  UpdateInOrder(c, order) = Folded(c, order)[Len(order)]
BY DEF UpdateInOrder, Folded

LEMMA FoldStep ==
  ASSUME NEW c, NEW order, NEW m \in Nat, NEW g, FoldedUpTo(g, c, order, m)
  PROVE  \E f : FoldedUpTo(f, c, order, m + 1)
<1>. DEFINE f == [i \in 0 .. m + 1 |-> IF i = m + 1 THEN UpdateHostActivation(g[m], order[m + 1])
                                       ELSE g[i]]
<1>1. \A i \in 0 .. m : f[i] = g[i]
  OBVIOUS
<1>2. f[m + 1] = UpdateHostActivation(g[m], order[m + 1])
  OBVIOUS
<1>3. f = [i \in 0 .. m + 1 |-> f[i]] OBVIOUS
<1>. HIDE DEF f
<1>4. \A i \in 0 .. m + 1 :
        f[i] = IF i = 0 THEN c ELSE UpdateHostActivation(f[i - 1], order[i])
  <2>. TAKE i \in 0 .. m + 1
  <2>1. CASE i = m + 1
    <3>1. i # 0 /\ i - 1 = m /\ m \in 0 .. m BY <2>1
    <3>2. f[i - 1] = g[m] BY <3>1, <1>1
    <3>. QED BY <2>1, <3>1, <3>2, <1>2
  <2>2. CASE i = 0
    <3>1. 0 \in 0 .. m OBVIOUS
    <3>2. g[0] = c BY <3>1 DEF FoldedUpTo
    <3>. QED BY <2>2, <3>1, <3>2, <1>1
  <2>3. CASE i # 0 /\ i # m + 1
    <3>1. i \in 0 .. m /\ i - 1 \in 0 .. m BY <2>3
    <3>2. g[i] = UpdateHostActivation(g[i - 1], order[i]) BY <3>1, <2>3 DEF FoldedUpTo
    <3>3. f[i] = g[i] /\ f[i - 1] = g[i - 1] BY <3>1, <1>1
    <3>. QED BY <2>3, <3>2, <3>3
  <2>. QED BY <2>1, <2>2, <2>3
<1>5. FoldedUpTo(f, c, order, m + 1)
  BY <1>3, <1>4 DEF FoldedUpTo
<1>. QED BY <1>5

LEMMA FoldUnfolds ==
  ASSUME NEW c, NEW order, Len(order) \in Nat
  PROVE  /\ Folded(c, order)[0] = c
         /\ \A i \in 1 .. Len(order) :
              Folded(c, order)[i] = UpdateHostActivation(Folded(c, order)[i - 1], order[i])
<1>. DEFINE P == {m \in Nat : \E f : FoldedUpTo(f, c, order, m)}
<1>1. 0 \in P
  <2>. DEFINE f == [i \in 0 .. 0 |-> c]
  <2>1. FoldedUpTo(f, c, order, 0) BY DEF FoldedUpTo
  <2>. HIDE DEF f
  <2>. QED BY <2>1
<1>2. \A n \in Nat : n \in P => n + 1 \in P
  BY FoldStep
<1>3. Len(order) \in P
  <2>. HIDE DEF P
  <2>. QED BY <1>1, <1>2, Reaches
<1>4. \E f : f = [i \in 0 .. Len(order) |->
                    IF i = 0 THEN c ELSE UpdateHostActivation(f[i - 1], order[i])]
  BY <1>3 DEF FoldedUpTo
<1>. DEFINE g == Folded(c, order)
<1>5. g = [i \in 0 .. Len(order) |->
             IF i = 0 THEN c ELSE UpdateHostActivation(g[i - 1], order[i])]
  BY <1>4 DEF Folded
<1>. HIDE DEF g
<1>6. 0 \in 0 .. Len(order) /\ \A i \in 1 .. Len(order) : i \in 0 .. Len(order) /\ i # 0
  OBVIOUS
<1>7. g[0] = c BY <1>5, <1>6
<1>8. \A i \in 1 .. Len(order) : g[i] = UpdateHostActivation(g[i - 1], order[i])
  BY <1>5, <1>6
<1>. QED BY <1>7, <1>8 DEF g

\* The order of a finite set lists its elements.
LEMMA OrderIs ==
  ASSUME NEW S, IsFiniteSet(S)
  PROVE  /\ Len(SetToSeq(S)) \in Nat
         /\ \A i \in 1 .. Len(SetToSeq(S)) : SetToSeq(S)[i] \in S
         /\ \A x \in S : \E i \in 1 .. Len(SetToSeq(S)) : SetToSeq(S)[i] = x
<1>. DEFINE n == Cardinality(S)
            order == SetToSeq(S)
<1>1. n \in Nat /\ ExistsBijection(1 .. n, S)
  BY FS_CardinalityType
<1>2. \E f \in [1 .. n -> S] : IsInjective(f)
  BY <1>1 DEF ExistsBijection, Bijection, Injection
<1>3. order \in [1 .. n -> S] /\ IsInjective(order)
  BY <1>2 DEF SetToSeq
<1>4. IsFiniteSet(1 .. n) /\ Cardinality(1 .. n) = n
  BY <1>1, FS_Interval
<1>. HIDE DEF n, order
<1>5. order \in Injection(1 .. n, S)
  BY <1>3 DEF Injection
<1>6. order \in Surjection(1 .. n, S)
  BY <1>4, <1>5, FS_Injection DEF n
<1>7. Len(order) = n BY <1>1, <1>3
<1>. QED BY <1>1, <1>3, <1>6, <1>7 DEF Surjection, order

-----------------------------------------------------------------------------
(* The seat's focus moves                                                  *)

\* Every input after apply_focus, before the host hears of it.
Moved(c, surface) ==
  [c EXCEPT !.inputs = [g \in TextInputs |->
     IF g \in {f \in TextInputs : c.inputs[f] # None} THEN ApplyFocus(@[g], surface) ELSE None]]

\* The inputs hold nothing of the period before: not enabled, nothing composed.
Fresh(e) ==
  \A f \in TextInputs : e.inputs[f] # None =>
    /\ ~e.inputs[f].committed_enabled /\ e.inputs[f].pending_text = None
    /\ Cleared(e.inputs[f])

Idle(e, f) == e.inputs[f] # None => ~HostIsActive(e.inputs[f])

LEMMA ApplyFocusIs ==
  ASSUME NEW t \in States, NEW surface \in Surfaces \cup {None}
  PROVE  /\ ApplyFocus(t, surface) \in States /\ Softer(t, ApplyFocus(t, surface))
         /\ ~ApplyFocus(t, surface).committed_enabled
         /\ ApplyFocus(t, surface).pending_text = None
         /\ Cleared(ApplyFocus(t, surface))
<1>. DEFINE t2 == ClearComposition(t)
            u == ApplyFocus(t, surface)
<1>1. t \in TextInputState BY DEF States
<1>2. /\ t2 \in TextInputState /\ Cleared(t2)
      /\ t2.host_v1_id = t.host_v1_id /\ t2.host_activation = t.host_activation
  <2>1. \A S : <<>> \in Seq(S) OBVIOUS
  <2>. QED BY <2>1, <1>1 DEF ClearComposition, TextInputState, Cleared
<1>3. u = [t2 EXCEPT !.pending_enabled = FALSE, !.committed_enabled = FALSE,
                     !.enabled_dirty = FALSE, !.pending_text = None, !.committed_text = None,
                     !.text_dirty = FALSE, !.active_surface = surface]
  BY DEF ApplyFocus
<1>. HIDE DEF t2, u
<1>4. /\ u \in TextInputState /\ Cleared(u) /\ u.pending_text = None /\ ~u.committed_enabled
      /\ u.host_v1_id = t.host_v1_id /\ u.host_activation = t.host_activation
  BY <1>2, <1>3 DEF TextInputState, Cleared
<1>5. Len(u.pending_deletes) =< MaxDeletes
  <2>1. Len(<<>>) = 0 OBVIOUS
  <2>. QED BY <2>1, <1>4, BoundsAssumption DEF Cleared
<1>. QED BY <1>4, <1>5 DEF States, Softer, u

LEMMA MovedGood ==
  ASSUME NEW c, NEW q, NEW hg, NEW s, NEW un, Good(c, q, hg, s, un, {}),
         NEW surface \in Surfaces \cup {None}
  PROVE  /\ Good(Moved(c, surface), q, hg, s, un, {}) /\ Fresh(Moved(c, surface))
         /\ Moved(c, surface).queue = c.queue
         /\ Moved(c, surface).cbTracked = c.cbTracked
         /\ \A f \in TextInputs :
              /\ Moved(c, surface).inputs[f] # None <=> c.inputs[f] # None
              /\ c.inputs[f] # None =>
                   (HostIsActive(Moved(c, surface).inputs[f]) <=> HostIsActive(c.inputs[f]))
<1>. DEFINE d == Moved(c, surface)
            i == [g \in TextInputs |->
                    IF c.inputs[g] # None THEN ApplyFocus(c.inputs[g], surface) ELSE None]
<1>1. /\ c \in Contexts /\ CallbacksOk(c, q) /\ HostsOk(c, q, hg, un) /\ EnabledOk(c)
      /\ \A f \in TextInputs : c.inputs[f] # None => InputAt(c, f, q, hg, s)
  BY DEF Good
<1>2. \A f \in TextInputs : c.inputs[f] # None => c.inputs[f] \in States
  BY <1>1 DEF Contexts
<1>3. \A f \in TextInputs : c.inputs[f] # None =>
        /\ i[f] \in States /\ Softer(c.inputs[f], i[f]) /\ ~i[f].committed_enabled
        /\ i[f].pending_text = None /\ Cleared(i[f])
  BY <1>2, ApplyFocusIs
<1>4. \A f \in TextInputs : c.inputs[f] = None => i[f] = None
  OBVIOUS
<1>5. i \in [TextInputs -> States \cup {None}]
  <2>1. \A f \in TextInputs : i[f] \in States \cup {None} BY <1>3, <1>4
  <2>2. i = [f \in TextInputs |-> i[f]] OBVIOUS
  <2>. HIDE DEF i
  <2>. QED BY <2>1, <2>2
<1>6. d = [c EXCEPT !.inputs = i]
  BY DEF Moved
<1>. HIDE DEF d, i
<1>7. /\ d \in Contexts /\ d.inputs = i /\ d.barriers = c.barriers
      /\ d.cbTracked = c.cbTracked /\ d.activated = c.activated /\ d.queue = c.queue
  BY <1>1, <1>5, <1>6, WithPart
<1>8. \A f \in TextInputs : d.inputs[f] # None <=> c.inputs[f] # None
  BY <1>3, <1>4, <1>7, NoneIsNoInput
<1>9. ASSUME NEW f \in TextInputs, d.inputs[f] # None PROVE InputAt(d, f, q, hg, s)
  <2>. DEFINE t == c.inputs[f]
              u == i[f]
  <2>1. InputOk(f, t, c.barriers, c.queue, q, hg[t.host_v1_id],
                c.activated[t.host_v1_id], s)
    BY <1>1, <1>8, <1>9 DEF InputAt
  <2>2. Softer(t, u) BY <1>3, <1>8, <1>9
  <2>3. u.host_v1_id = t.host_v1_id BY <2>2 DEF Softer
  <2>. HIDE DEF t, u
  <2>4. InputOk(f, u, c.barriers, c.queue, q, hg[t.host_v1_id],
                c.activated[t.host_v1_id], s)
    BY <2>1, <2>2, InputSofter
  <2>. QED BY <1>7, <2>3, <2>4 DEF InputAt, u
<1>10. CallbacksOk(d, q) BY <1>1, <1>7 DEF CallbacksOk
<1>11. \A f \in TextInputs : c.inputs[f] # None =>
         d.inputs[f].host_v1_id = c.inputs[f].host_v1_id
  BY <1>3, <1>7 DEF Softer
<1>12. HostsOk(d, q, hg, un) BY <1>1, <1>7, <1>8, <1>11 DEF HostsOk
<1>13. EnabledOk(d) BY <1>3, <1>7, <1>8 DEF EnabledOk
<1>14. Good(d, q, hg, s, un, {}) BY <1>7, <1>9, <1>10, <1>12, <1>13 DEF Good
<1>15. Fresh(d) BY <1>3, <1>7, <1>8 DEF Fresh
<1>16. \A f \in TextInputs : c.inputs[f] # None =>
         (HostIsActive(d.inputs[f]) <=> HostIsActive(c.inputs[f]))
  BY <1>3, <1>7 DEF Softer, HostIsActive
<1>. QED BY <1>7, <1>8, <1>14, <1>15, <1>16 DEF d

\* One input brought up to date among fresh ones, of which at most one is active.
LEMMA FreshUpdate ==
  ASSUME NEW e, NEW q, NEW hg, NEW un, Good(e, q, hg, seat, un, {}), Fresh(e),
         NEW g \in TextInputs, e.inputs[g] # None, e.cbTracked # Callbacks \/ Idle(e, g),
         \A f \in TextInputs : f # g /\ ~Idle(e, g) => Idle(e, f)
  PROVE  LET d == UpdateHostActivation(e, g)
         IN  /\ Good(d, q, hg, seat, un, {}) /\ Fresh(d)
             /\ StatesOk(e.queue) => StatesOk(d.queue)
             /\ \A f \in TextInputs : d.inputs[f] # None <=> e.inputs[f] # None
             /\ Idle(d, g)
             /\ d = e \/ \A f \in TextInputs : Idle(d, f)
<1>. DEFINE d == UpdateHostActivation(e, g)
            t == e.inputs[g]
<1>1. ~Wanted(t) /\ Cleared(t) /\ e \in Contexts
  BY DEF Fresh, Wanted, Good
<1>2. CASE Idle(e, g)
  <2>1. ~HostIsActive(t) BY <1>2 DEF Idle
  <2>2. d = e BY <1>1, <2>1, UpdateIs
  <2>. HIDE DEF d
  <2>3. d = e /\ Good(d, q, hg, seat, un, {}) /\ Fresh(d) /\ Idle(d, g)
    BY <2>2, <1>2
  <2>. QED BY <2>3 DEF d
<1>3. CASE ~Idle(e, g)
  <2>1. e.cbTracked # Callbacks BY <1>3
  <2>2. /\ Good(d, q, hg, seat, un, {})
        /\ \E a \in Activation : d.inputs = ReActivated(e, g, a) /\ (a = Active => Wanted(t))
        /\ StatesOk(e.queue) => StatesOk(d.queue)
    BY <1>1, <2>1, UpdateGood
  <2>3. PICK a \in Activation : d.inputs = ReActivated(e, g, a) /\ a # Active
    BY <1>1, <2>2
  <2>4. /\ \A f \in TextInputs : /\ f # g => ReActivated(e, g, a)[f] = e.inputs[f]
                                 /\ ReActivated(e, g, a)[f] # None <=> e.inputs[f] # None
        /\ ReActivated(e, g, a)[g] = [t EXCEPT !.host_activation = a]
        /\ t \in States
    BY <1>1, ReActivatedIs
  <2>5. LET v == [t EXCEPT !.host_activation = a]
        IN  v.host_activation = a /\ v.pending_text = t.pending_text
            /\ v.committed_enabled = t.committed_enabled
            /\ v.current_preedit = t.current_preedit /\ v.pending_deletes = t.pending_deletes
    BY <2>4, SameBut
  <2>. HIDE DEF d
  <2>6. Fresh(d)
    <3>1. \A f \in TextInputs : f # g => d.inputs[f] = e.inputs[f]
      BY <2>3, <2>4
    <3>2. /\ ~d.inputs[g].committed_enabled /\ d.inputs[g].pending_text = None
          /\ Cleared(d.inputs[g])
      <4>1. d.inputs[g] = [t EXCEPT !.host_activation = a] BY <2>3, <2>4
      <4>2. ~t.committed_enabled /\ t.pending_text = None /\ Cleared(t) BY DEF Fresh
      <4>. QED BY <4>1, <4>2, <2>5 DEF Cleared
    <3>. QED BY <3>1, <3>2 DEF Fresh
  <2>7. Idle(d, g) BY <2>3, <2>4, <2>5 DEF Idle, HostIsActive
  <2>8. \A f \in TextInputs : Idle(d, f)
    <3>1. \A f \in TextInputs : f # g => Idle(d, f)
      BY <1>3, <2>3, <2>4 DEF Idle
    <3>. QED BY <3>1, <2>7
  <2>9. \A f \in TextInputs : d.inputs[f] # None <=> e.inputs[f] # None
    BY <2>3, <2>4
  <2>. QED BY <2>2, <2>6, <2>7, <2>8, <2>9 DEF d
<1>. QED BY <1>2, <1>3

LEMMA FocusGood ==
  ASSUME NEW c, NEW q, NEW hg, NEW un, Good(c, q, hg, seat, un, {}),
         \A f \in TextInputs : Settled(c, f), c.cbTracked # Callbacks, StatesOk(c.queue),
         NEW surface \in Surfaces \cup {None}
  PROVE  LET d == ApplyFocusUpdates(c, surface)
         IN  /\ Good(d, q, hg, seat, un, {}) /\ Fresh(d) /\ StatesOk(d.queue)
             /\ \A f \in TextInputs : Idle(d, f)
<1>. DEFINE live == {f \in TextInputs : c.inputs[f] # None}
            order == SetToSeq(live)
            m == Moved(c, surface)
            e == Folded(m, order)
            n == Len(order)
            d == ApplyFocusUpdates(c, surface)
<1>1. /\ Good(m, q, hg, seat, un, {}) /\ Fresh(m)
      /\ m.queue = c.queue /\ m.cbTracked = c.cbTracked
      /\ \A f \in TextInputs :
           /\ m.inputs[f] # None <=> c.inputs[f] # None
           /\ c.inputs[f] # None => (HostIsActive(m.inputs[f]) <=> HostIsActive(c.inputs[f]))
  BY MovedGood
<1>2. \A f, g \in TextInputs : f # g /\ ~Idle(m, g) => Idle(m, f)
  BY <1>1 DEF Good, EnabledOk, Settled, Wanted, Idle
<1>3. d = e[n]
  <2>1. d = UpdateInOrder(m, order) BY DEF ApplyFocusUpdates, Moved
  <2>. QED BY <2>1, FoldedIs
<1>4. IsFiniteSet(live) BY InputsAssumption, FS_Subset
<1>5. /\ n \in Nat /\ \A i \in 1 .. n : order[i] \in live
      /\ \A x \in live : \E i \in 1 .. n : order[i] = x
  BY <1>4, OrderIs
<1>. HIDE DEF m, order, d
<1>6. e[0] = m /\ \A i \in 1 .. n : e[i] = UpdateHostActivation(e[i - 1], order[i])
  BY <1>5, FoldUnfolds
<1>. HIDE DEF e, n
<1>. DEFINE Ok(i) == /\ Good(e[i], q, hg, seat, un, {}) /\ Fresh(e[i]) /\ StatesOk(e[i].queue)
                     /\ \A f \in TextInputs : e[i].inputs[f] # None <=> c.inputs[f] # None
                     /\ e[i] = m \/ \A f \in TextInputs : Idle(e[i], f)
                     /\ \A j \in 1 .. i : Idle(e[i], order[j])
            P == {i \in Nat : i =< n => Ok(i)}
<1>7. 0 \in P
  <2>1. Ok(0) BY <1>1, <1>6
  <2>. QED BY <2>1
<1>8. ASSUME NEW i \in Nat, i \in P PROVE i + 1 \in P
  <2>. SUFFICES ASSUME i + 1 =< n PROVE Ok(i + 1)
    OBVIOUS
  <2>1. i =< n /\ i + 1 \in 1 .. n /\ (i + 1) - 1 = i BY <1>5
  <2>2. Ok(i) BY <1>8, <2>1
  <2>. DEFINE g == order[i + 1]
              a == e[i]
              b == e[i + 1]
  <2>3. b = UpdateHostActivation(a, g) /\ g \in live BY <1>5, <1>6, <2>1
  <2>4. g \in TextInputs /\ a.inputs[g] # None BY <2>2, <2>3
  <2>5. a.cbTracked # Callbacks \/ Idle(a, g) BY <2>2, <2>4, <1>1
  <2>6. \A f \in TextInputs : f # g /\ ~Idle(a, g) => Idle(a, f)
    BY <2>2, <2>4, <1>2
  <2>7. Good(a, q, hg, seat, un, {}) /\ Fresh(a) /\ StatesOk(a.queue) BY <2>2
  <2>. HIDE DEF a, g
  <2>8. /\ Good(b, q, hg, seat, un, {}) /\ Fresh(b)
        /\ StatesOk(a.queue) => StatesOk(b.queue)
        /\ \A f \in TextInputs : b.inputs[f] # None <=> a.inputs[f] # None
        /\ Idle(b, g)
        /\ b = a \/ \A f \in TextInputs : Idle(b, f)
    <3>1. LET z == UpdateHostActivation(a, g)
          IN  /\ Good(z, q, hg, seat, un, {}) /\ Fresh(z)
              /\ StatesOk(a.queue) => StatesOk(z.queue)
              /\ \A f \in TextInputs : z.inputs[f] # None <=> a.inputs[f] # None
              /\ Idle(z, g)
              /\ z = a \/ \A f \in TextInputs : Idle(z, f)
      BY <2>4, <2>5, <2>6, <2>7, FreshUpdate
    <3>. HIDE DEF b
    <3>. QED BY <3>1, <2>3
  <2>. HIDE DEF b
  <2>9. \A f \in TextInputs : b.inputs[f] # None <=> c.inputs[f] # None
    BY <2>2, <2>8 DEF a
  <2>10. b = m \/ \A f \in TextInputs : Idle(b, f)
    BY <2>2, <2>8 DEF a
  <2>11. ASSUME NEW j \in 1 .. i + 1 PROVE Idle(b, order[j])
    <3>1. CASE j = i + 1
      BY <3>1, <2>8 DEF g
    <3>2. CASE j # i + 1
      <4>1. j \in 1 .. i /\ j \in 1 .. n BY <3>2, <2>1, <1>5
      <4>2. order[j] \in TextInputs BY <4>1, <1>5
      <4>3. Idle(a, order[j]) BY <4>1, <2>2 DEF a
      <4>. QED BY <4>2, <4>3, <2>8
    <3>. QED BY <3>1, <3>2
  <2>12. StatesOk(b.queue) BY <2>7, <2>8
  <2>. QED BY <2>8, <2>9, <2>10, <2>11, <2>12 DEF b
<1>9. Ok(n)
  <2>1. \A i \in Nat : i \in P
    <3>. HIDE DEF P
    <3>. QED BY <1>7, <1>8, Reaches
  <2>. QED BY <2>1, <1>5
<1>10. ASSUME NEW f \in TextInputs PROVE Idle(e[n], f)
  <2>1. CASE f \in live
    <3>1. PICK i \in 1 .. n : order[i] = f BY <1>5, <2>1
    <3>. QED BY <3>1, <1>9
  <2>2. CASE f \notin live
    BY <2>2, <1>9 DEF Idle
  <2>. QED BY <2>1, <2>2
<1>11. Good(d, q, hg, seat, un, {}) /\ Fresh(d) /\ StatesOk(d.queue)
       /\ \A f \in TextInputs : Idle(d, f)
  BY <1>3, <1>9, <1>10
<1>. QED BY <1>11 DEF d

LEMMA KeepsFocusChange ==
  ASSUME BridgeInv, NEW surface \in Surfaces \cup {None}, FocusChange(surface)
  PROVE  BridgeInv'
<1>. DEFINE d == ApplyFocusUpdates(Ctx, surface)
<1>1. /\ Ctx \in Contexts /\ RestOK /\ Ctx.inputs = inputs /\ Ctx.queue = toHost
      /\ Ctx.cbTracked = cbTracked
      /\ Good(Ctx, toProxy, hostGen, seat, unusedHost, {})
      /\ \A f \in TextInputs : Settled(Ctx, f)
      /\ StatesOk(toHost)
  BY InvNow
<1>2. /\ Install(d) /\ period < MaxFocus /\ period' = period + 1 /\ focus' = surface
      /\ cbTracked # Callbacks /\ out' = None
      /\ UNCHANGED <<unusedHost, seat, issued, toProxy, hostGen>>
  BY DEF FocusChange, FreeBarrier, Silent
<1>3. /\ Good(d, toProxy, hostGen, seat, unusedHost, {}) /\ Fresh(d) /\ StatesOk(d.queue)
      /\ \A f \in TextInputs : Idle(d, f)
  <2>. HIDE DEF Ctx
  <2>1. Ctx.cbTracked # Callbacks /\ StatesOk(Ctx.queue) BY <1>1, <1>2
  <2>. QED BY <2>1, <1>1, FocusGood
<1>4. d \in Contexts BY <1>3 DEF Good
<1>5. Ctx' = d BY <1>2, <1>4, InstallIs
<1>. HIDE DEF d
<1>6. \A f \in TextInputs : Settled(d, f)
  BY <1>3 DEF Idle, Settled
<1>7. \A p : EditorOk(d, p) BY <1>3 DEF EditorOk, Fresh
<1>8. RestOK'
  <2>1. period' \in 0 .. MaxFocus BY <1>1, <1>2, BoundsAssumption DEF RestOK
  <2>. QED BY <2>1, <1>1, <1>2 DEF RestOK
<1>. QED BY <1>2, <1>3, <1>5, <1>6, <1>7, <1>8, InvNext

-----------------------------------------------------------------------------
(* Host events                                                             *)

\* The input u that follows t on the event x, and the contents G of its done: of what the
\* event carries and the input had kept.
Composes(t, u, x) ==
  /\ u \in States /\ u.host_v1_id = t.host_v1_id /\ u.host_activation = t.host_activation
  /\ u.committed_enabled = t.committed_enabled /\ u.active_surface = t.active_surface
  /\ u.pending_text = t.pending_text
  /\ u.current_preedit \in {0, t.current_preedit, x.gen}
  /\ \A i \in 1 .. Len(u.pending_deletes) :
       \/ u.pending_deletes[i] = x.gen
       \/ \E j \in 1 .. Len(t.pending_deletes) : u.pending_deletes[i] = t.pending_deletes[j]
Contents(t, x, G) ==
  \A y \in G : \/ y = x.gen
               \/ y = t.current_preedit /\ y # 0
               \/ \E j \in 1 .. Len(t.pending_deletes) : y = t.pending_deletes[j]

\* One event read, for its input or for none.
Handles(g, u, G) ==
  /\ inputs' = [inputs EXCEPT ![g] = u]
  /\ out' = IF G = {} THEN None
            ELSE [input |-> g, serial |-> inputs[g].guest_commit_serial, gens |-> G]

\* What is read of an event.
Reading == /\ toProxy # <<>> /\ toProxy' = Tail(toProxy)
           /\ UNCHANGED <<barriers, cbTracked, unusedHost, activated, seat, focus, period,
                          issued, toHost, hostGen>>

LEMMA EventDropped ==
  ASSUME BridgeInv, Reading, Head(toProxy).op \in Kinds, inputs' = inputs, out' = None
  PROVE  BridgeInv'
<1>1. /\ Ctx \in Contexts /\ RestOK
      /\ Good(Ctx, toProxy, hostGen, seat, unusedHost, {})
      /\ \A f \in TextInputs : Settled(Ctx, f)
  BY InvNow
<1>2. EditorOk(Ctx, period) BY DEF BridgeInv
<1>3. Ctx' = Ctx BY DEF Ctx, Reading
<1>4. toProxy \in Seq(Event) /\ toProxy # <<>> BY <1>1 DEF RestOK, Reading
<1>5. Head(toProxy).op \notin {"done", "delete_id"} BY DEF Kinds
<1>. HIDE DEF Ctx
<1>6. \A f \in TextInputs : Ctx.inputs[f] # None => InputAt(Ctx, f, Tail(toProxy), hostGen, seat)
  BY <1>1, <1>4, InputConsumed DEF Good, InputAt
<1>7. CallbacksOk(Ctx, Tail(toProxy))
  BY <1>1, <1>4, <1>5, CallbackConsumed DEF Good, CallbacksOk
<1>8. HostsOk(Ctx, Tail(toProxy), hostGen, unusedHost)
  BY <1>1, <1>4, NoEventsTail DEF Good, HostsOk, Quiet
<1>9. Good(Ctx, Tail(toProxy), hostGen, seat, unusedHost, {})
  BY <1>1, <1>6, <1>7, <1>8 DEF Good
<1>10. Tail(toProxy) \in Seq(Event) BY <1>4, TailIs
<1>11. RestOK' BY <1>1, <1>10 DEF RestOK, Reading
<1>12. /\ toProxy' = Tail(toProxy) /\ hostGen' = hostGen /\ seat' = seat
       /\ unusedHost' = unusedHost /\ period' = period
  BY DEF Reading
<1>. QED BY <1>1, <1>2, <1>3, <1>9, <1>11, <1>12, InvNext

LEMMA CurrentComposes ==
  ASSUME NEW q \in Seq(Event), q # <<>>, NEW t, NEW u, NEW m, NEW n, Current(t, q, m, n),
         Concerns(Head(q), t.host_v1_id), Composes(t, u, Head(q))
  PROVE  /\ Current(u, Tail(q), m, n)
         /\ \A G : G # {} /\ Contents(t, Head(q), G) => G = {n}
<1>1. Current(t, Tail(q), m, n) /\ Head(q).gen = n
  BY CurrentConsumed
<1>2. Current(u, Tail(q), m, n)
  BY <1>1 DEF Current, Composes
<1>3. ASSUME NEW G, G # {}, Contents(t, Head(q), G) PROVE G = {n}
  BY <1>1, <1>3 DEF Contents, Current
<1>. QED BY <1>2, <1>3

LEMMA EventHandled ==
  ASSUME BridgeInv, Reading, Head(toProxy).op \in Kinds,
         NEW g \in ActiveFor(Head(toProxy).id), NEW u, NEW G,
         Composes(inputs[g], u, Head(toProxy)), Contents(inputs[g], Head(toProxy), G),
         Handles(g, u, G)
  PROVE  BridgeInv' /\ (G # {} => G = {activated[inputs[g].host_v1_id]})
<1>. DEFINE t == inputs[g]
            h == t.host_v1_id
            x == Head(toProxy)
            d == SetInput(Ctx, g, u)
            p == Tail(toProxy)
            n == activated[h]
            m == hostGen[h]
<1>1. /\ Ctx \in Contexts /\ RestOK /\ Ctx.inputs = inputs /\ Ctx.barriers = barriers
      /\ Ctx.cbTracked = cbTracked /\ Ctx.activated = activated /\ Ctx.queue = toHost
      /\ Good(Ctx, toProxy, hostGen, seat, unusedHost, {})
      /\ \A f \in TextInputs : Settled(Ctx, f)
      /\ \A f \in TextInputs : inputs[f] # None =>
           inputs[f] \in States /\ inputs[f].pending_text \in {None, period}
      /\ StatesOk(toHost)
  BY InvNow
<1>2. g \in TextInputs /\ t # None /\ h = x.id /\ HostIsActive(t) BY DEF ActiveFor
<1>3. t \in States BY <1>1, <1>2
<1>4. toProxy \in Seq(Event) /\ toProxy # <<>> BY <1>1 DEF RestOK, Reading
<1>5. x.op \notin {"done", "delete_id"} /\ Concerns(x, h) BY <1>2 DEF Kinds, Concerns
<1>6. InputOk(g, t, barriers, toHost, toProxy, m, n, seat)
  BY <1>1, <1>2 DEF Good, InputAt
<1>7. Current(t, toProxy, m, n) BY <1>2, <1>6 DEF InputOk, HostIsActive
<1>8. /\ Current(u, p, m, n)
      /\ G # {} => G = {n}
  <2>. HIDE DEF t, m, n
  <2>1. Composes(t, u, x) /\ Contents(t, x, G) BY DEF t
  <2>. QED BY <2>1, <1>4, <1>5, <1>7, CurrentComposes
<1>9. /\ u \in States /\ u.host_v1_id = h /\ u.host_activation = t.host_activation
      /\ u.committed_enabled = t.committed_enabled /\ u.active_surface = t.active_surface
      /\ u.pending_text = t.pending_text
  BY DEF Composes
<1>10. u # None BY <1>9, NoneIsNoInput
<1>11. /\ d \in Contexts /\ d.inputs = [Ctx.inputs EXCEPT ![g] = u]
       /\ d.barriers = Ctx.barriers /\ d.cbTracked = Ctx.cbTracked
       /\ d.activated = Ctx.activated /\ d.queue = Ctx.queue
  BY <1>1, <1>2, <1>9, SetInputIs
<1>12. inputs \in [TextInputs -> States \cup {None}] BY <1>1 DEF Contexts
<1>13. Ctx' = d
  <2>. DEFINE i == [inputs EXCEPT ![g] = u]
  <2>1. d.inputs = i /\ d.barriers = barriers /\ d.cbTracked = cbTracked
        /\ d.activated = activated /\ d.queue = toHost
    BY <1>1, <1>11
  <2>2. /\ inputs' = i /\ barriers' = barriers /\ cbTracked' = cbTracked
        /\ activated' = activated /\ toHost' = toHost
    BY DEF Reading, Handles
  <2>3. Ctx' = [inputs |-> i, barriers |-> barriers, cbTracked |-> cbTracked,
                activated |-> activated, queue |-> toHost]
    BY <2>2 DEF Ctx
  <2>4. d = [inputs |-> d.inputs, barriers |-> d.barriers, cbTracked |-> d.cbTracked,
             activated |-> d.activated, queue |-> d.queue]
    <3>1. d \in Contexts BY <1>11
    <3>. HIDE DEF d
    <3>. QED BY <3>1 DEF Contexts
  <2>. HIDE DEF d, i
  <2>. QED BY <2>1, <2>3, <2>4
<1>. HIDE DEF d
<1>14. /\ d.inputs[g] = u
       /\ \A f \in TextInputs : f # g => d.inputs[f] = inputs[f]
  BY <1>1, <1>2, <1>11, <1>12
<1>15. InputAt(d, g, p, hostGen, seat)
  <2>1. InputOk(g, u, barriers, toHost, p, m, n, seat)
    BY <1>2, <1>8, <1>9, ActivationsDiffer DEF InputOk, HostIsActive
  <2>. QED BY <2>1, <1>1, <1>9, <1>11, <1>14 DEF InputAt
<1>16. ASSUME NEW f \in TextInputs, f # g, d.inputs[f] # None
       PROVE  InputAt(d, f, p, hostGen, seat)
  <2>1. InputAt(Ctx, f, toProxy, hostGen, seat) BY <1>1, <1>14, <1>16 DEF Good
  <2>. HIDE DEF Ctx
  <2>2. InputAt(Ctx, f, p, hostGen, seat)
    BY <2>1, <1>4, InputConsumed DEF InputAt
  <2>. QED BY <2>2, <1>1, <1>11, <1>14, <1>16 DEF InputAt
<1>17. CallbacksOk(d, p)
  <2>1. CallbacksOk(Ctx, p)
    <3>. HIDE DEF Ctx
    <3>. QED BY <1>1, <1>4, <1>5, CallbackConsumed DEF Good, CallbacksOk
  <2>. QED BY <2>1, <1>11 DEF CallbacksOk
<1>18. HostsOk(d, p, hostGen, unusedHost)
  <2>1. /\ \A f, k \in TextInputs : inputs[f] # None /\ inputs[k] # None /\ f # k
             => inputs[f].host_v1_id # inputs[k].host_v1_id
        /\ \A f \in TextInputs : inputs[f] # None => inputs[f].host_v1_id \notin unusedHost
        /\ \A v \in unusedHost : Quiet(toHost, toProxy, hostGen[v], v)
    BY <1>1 DEF Good, HostsOk
  <2>2. \A v \in unusedHost : Quiet(toHost, p, hostGen[v], v)
    BY <2>1, <1>4, NoEventsTail DEF Quiet
  <2>3. \A f \in TextInputs : d.inputs[f] # None =>
          inputs[f] # None /\ d.inputs[f].host_v1_id = inputs[f].host_v1_id
    BY <1>2, <1>9, <1>14
  <2>. HIDE DEF p
  <2>4. d.queue = toHost BY <1>1, <1>11
  <2>. QED BY <2>1, <2>2, <2>3, <2>4 DEF HostsOk
<1>19. EnabledOk(d)
  <2>1. EnabledOk(Ctx) BY <1>1 DEF Good
  <2>. QED BY <2>1, <1>1, <1>2, <1>9, <1>14 DEF EnabledOk
<1>20. Good(d, p, hostGen, seat, unusedHost, {})
  BY <1>11, <1>15, <1>16, <1>17, <1>18, <1>19 DEF Good
<1>21. \A f \in TextInputs : Settled(d, f)
  BY <1>1, <1>2, <1>9, <1>14 DEF Settled, HostIsActive, Wanted
<1>22. EditorOk(d, period)
  BY <1>1, <1>2, <1>9, <1>11, <1>14 DEF EditorOk
<1>23. RestOK'
  <2>1. p \in Seq(Event) /\ x \in Event BY <1>4, TailIs
  <2>2. G # {} => G \subseteq Nat
    <3>1. activated \in [HostInputs -> Nat] /\ h \in HostInputs
      BY <1>1, <1>3 DEF Contexts, States, TextInputState
    <3>. QED BY <3>1, <1>8
  <2>3. t.guest_commit_serial \in Nat BY <1>3 DEF States, TextInputState
  <2>4. out' \in Done \cup {None} BY <2>2, <2>3, <1>2 DEF Handles, Done
  <2>. QED BY <2>1, <2>4, <1>1 DEF RestOK, Reading
<1>24. /\ toProxy' = p /\ hostGen' = hostGen /\ seat' = seat
       /\ unusedHost' = unusedHost /\ period' = period
  BY DEF Reading
<1>25. BridgeInv'
  BY <1>13, <1>20, <1>21, <1>22, <1>23, <1>24, InvNext
<1>. QED BY <1>8, <1>25

\* A done the step sends is of one activation, the one in force.
InForce == out' # None => out'.gens = {activated[inputs[out'.input].host_v1_id]}

LEMMA KeepsEvent ==
  ASSUME BridgeInv, Reading, Head(toProxy).op \in Kinds,
         \/ inputs' = inputs /\ out' = None
         \/ \E g \in ActiveFor(Head(toProxy).id) : \E u, G :
              /\ Composes(inputs[g], u, Head(toProxy))
              /\ Contents(inputs[g], Head(toProxy), G) /\ Handles(g, u, G)
  PROVE  BridgeInv' /\ InForce
<1>1. CASE inputs' = inputs /\ out' = None
  BY <1>1, EventDropped DEF InForce
<1>2. CASE \E g \in ActiveFor(Head(toProxy).id) : \E u, G :
              /\ Composes(inputs[g], u, Head(toProxy))
              /\ Contents(inputs[g], Head(toProxy), G) /\ Handles(g, u, G)
  <2>0. PICK g \in ActiveFor(Head(toProxy).id) : \E u, G :
              /\ Composes(inputs[g], u, Head(toProxy))
              /\ Contents(inputs[g], Head(toProxy), G) /\ Handles(g, u, G)
    BY <1>2
  <2>1. PICK u, G :
              /\ Composes(inputs[g], u, Head(toProxy))
              /\ Contents(inputs[g], Head(toProxy), G) /\ Handles(g, u, G)
    BY <2>0
  <2>2. BridgeInv' /\ (G # {} => G = {activated[inputs[g].host_v1_id]})
    BY <2>1, EventHandled
  <2>3. InForce
    BY <2>1, <2>2 DEF Handles, InForce
  <2>. QED BY <2>2, <2>3
<1>. QED BY <1>1, <1>2

LEMMA KeepsPreedit ==
  ASSUME BridgeInv, OnPreedit
  PROVE  BridgeInv' /\ InForce
<1>. DEFINE x == Head(toProxy)
<1>1. /\ Reading /\ x.op = "preedit"
      /\ ActiveFor(x.id) = {} => inputs' = inputs /\ out' = None
      /\ ActiveFor(x.id) # {} => \E g \in ActiveFor(x.id) :
           Handles(g, FinishHostPreedit(inputs[g], x), HostPreeditPlan(inputs[g], x))
  BY DEF OnPreedit, HostEvent, Consume, Silent, Reading, Handles
<1>2. x \in Event BY <1>1, InvNow, TailIs DEF RestOK, Reading
<1>3. x.op \in Kinds /\ x.gen \in Nat BY <1>1, <1>2 DEF Kinds, Event
<1>4. ASSUME NEW g \in ActiveFor(x.id)
      PROVE  /\ Composes(inputs[g], FinishHostPreedit(inputs[g], x), x)
             /\ Contents(inputs[g], x, HostPreeditPlan(inputs[g], x))
  <2>. DEFINE t == inputs[g]
  <2>1. t \in States BY InvNow DEF ActiveFor
  <2>. HIDE DEF t, x
  <2>2. Composes(t, FinishHostPreedit(t, x), x)
    BY <2>1, <1>3 DEF Composes, FinishHostPreedit, States, TextInputState
  <2>3. Contents(t, x, HostPreeditPlan(t, x)) BY DEF Contents, HostPreeditPlan
  <2>. QED BY <2>2, <2>3 DEF t
<1>. HIDE DEF x
<1>5. (inputs' = inputs /\ out' = None)
        \/ \E g \in ActiveFor(x.id) : \E u, G :
             Composes(inputs[g], u, x) /\ Contents(inputs[g], x, G) /\ Handles(g, u, G)
  BY <1>1, <1>4
<1>. QED BY <1>1, <1>3, <1>5, KeepsEvent DEF x

\* What a commit leaves of a composition is nothing.
LEMMA ClearComposes ==
  ASSUME NEW t \in States, NEW x
  PROVE  Composes(t, ClearComposition(t), x)
<1>1. \A S : <<>> \in Seq(S) /\ Len(<<>>) = 0 OBVIOUS
<1>2. t \in TextInputState BY DEF States
<1>. DEFINE u == ClearComposition(t)
<1>3. /\ u \in TextInputState /\ u.pending_deletes = <<>> /\ u.current_preedit = 0
      /\ u.host_v1_id = t.host_v1_id /\ u.host_activation = t.host_activation
      /\ u.committed_enabled = t.committed_enabled /\ u.active_surface = t.active_surface
      /\ u.pending_text = t.pending_text
  BY <1>1, <1>2 DEF ClearComposition, TextInputState
<1>. HIDE DEF u
<1>4. u \in States BY <1>1, <1>3, BoundsAssumption DEF States
<1>5. \A i \in 1 .. Len(u.pending_deletes) : FALSE BY <1>1, <1>3
<1>6. Composes(t, u, x) BY <1>3, <1>4, <1>5 DEF Composes
<1>. QED BY <1>6 DEF u

LEMMA KeepsCommitString ==
  ASSUME BridgeInv, OnCommitString
  PROVE  BridgeInv' /\ InForce
<1>. DEFINE x == Head(toProxy)
<1>1. /\ Reading /\ x.op = "commit"
      /\ ActiveFor(x.id) = {} => inputs' = inputs /\ out' = None
      /\ ActiveFor(x.id) # {} => \E g \in ActiveFor(x.id) :
           Handles(g, FinishHostCommit(inputs[g], x), HostCommitPlan(inputs[g], x))
  BY DEF OnCommitString, HostEvent, Consume, Silent, Reading, Handles
<1>2. x.op \in Kinds BY <1>1 DEF Kinds
<1>3. ASSUME NEW g \in ActiveFor(x.id)
      PROVE  /\ Composes(inputs[g], FinishHostCommit(inputs[g], x), x)
             /\ Contents(inputs[g], x, HostCommitPlan(inputs[g], x))
  <2>. DEFINE t == inputs[g]
  <2>1. t \in States BY InvNow DEF ActiveFor
  <2>. HIDE DEF t, x
  <2>2. Composes(t, FinishHostCommit(t, x), x)
    BY <2>1, ClearComposes DEF FinishHostCommit
  <2>3. DOMAIN t.pending_deletes = 1 .. Len(t.pending_deletes)
    BY <2>1 DEF States, TextInputState
  <2>4. Contents(t, x, HostCommitPlan(t, x))
    BY <2>3 DEF Contents, HostCommitPlan, Range
  <2>. QED BY <2>2, <2>4 DEF t
<1>. HIDE DEF x
<1>4. (inputs' = inputs /\ out' = None)
        \/ \E g \in ActiveFor(x.id) : \E u, G :
             Composes(inputs[g], u, x) /\ Contents(inputs[g], x, G) /\ Handles(g, u, G)
  BY <1>1, <1>3
<1>. QED BY <1>1, <1>2, <1>4, KeepsEvent DEF x

LEMMA KeepsDelete ==
  ASSUME BridgeInv, OnDeleteSurroundingText
  PROVE  BridgeInv' /\ InForce
<1>. DEFINE x == Head(toProxy)
<1>1. /\ Reading /\ x.op = "delete"
      /\ ActiveFor(x.id) = {} => inputs' = inputs /\ out' = None
      /\ ActiveFor(x.id) # {} => \E g \in ActiveFor(x.id) :
           Handles(g, RecordDelete(inputs[g], x), {})
  BY DEF OnDeleteSurroundingText, HostEvent, Consume, Silent, Reading, Handles
<1>2. x \in Event BY <1>1, InvNow, TailIs DEF RestOK, Reading
<1>3. x.op \in Kinds /\ x.gen \in Nat BY <1>1, <1>2 DEF Kinds, Event
<1>4. ASSUME NEW g \in ActiveFor(x.id)
      PROVE  /\ Composes(inputs[g], RecordDelete(inputs[g], x), x)
             /\ Contents(inputs[g], x, {})
  <2>. DEFINE t == inputs[g]
              u == RecordDelete(t, x)
  <2>1. t \in States BY InvNow DEF ActiveFor
  <2>2. /\ t \in TextInputState /\ t.pending_deletes \in Seq(Nat)
        /\ Len(t.pending_deletes) =< MaxDeletes /\ MaxDeletes \in Nat
    BY <2>1, BoundsAssumption DEF States, TextInputState
  <2>. HIDE DEF t, x
  <2>3. CASE Len(t.pending_deletes) >= MaxDeletes
    <3>1. u = t BY <2>3 DEF RecordDelete
    <3>2. Composes(t, t, x) BY <2>1 DEF Composes
    <3>. QED BY <3>1, <3>2 DEF Contents, t
  <2>4. CASE ~(Len(t.pending_deletes) >= MaxDeletes)
    <3>. DEFINE k == Append(t.pending_deletes, x.gen)
    <3>1. u = [t EXCEPT !.pending_deletes = k] BY <2>4 DEF RecordDelete
    <3>2. /\ k \in Seq(Nat) /\ Len(k) = Len(t.pending_deletes) + 1
          /\ Len(t.pending_deletes) \in Nat
          /\ \A i \in 1 .. Len(t.pending_deletes) : k[i] = t.pending_deletes[i]
          /\ k[Len(t.pending_deletes) + 1] = x.gen
      BY <1>3, <2>2, AppendIs
    <3>. HIDE DEF k, u
    <3>3. /\ u \in TextInputState /\ u.pending_deletes = k
          /\ u.current_preedit = t.current_preedit
          /\ u.host_v1_id = t.host_v1_id /\ u.host_activation = t.host_activation
          /\ u.committed_enabled = t.committed_enabled /\ u.active_surface = t.active_surface
          /\ u.pending_text = t.pending_text
      BY <2>2, <3>1, <3>2 DEF TextInputState
    <3>4. u \in States BY <2>2, <2>4, <3>2, <3>3 DEF States
    <3>5. \A i \in 1 .. Len(k) : i \in 1 .. Len(t.pending_deletes)
                                 \/ i = Len(t.pending_deletes) + 1
      BY <3>2
    <3>6. \A i \in 1 .. Len(k) : \/ k[i] = x.gen
                                 \/ \E j \in 1 .. Len(t.pending_deletes) :
                                      k[i] = t.pending_deletes[j]
      BY <3>2, <3>5
    <3>7. Composes(t, u, x) BY <3>3, <3>4, <3>6 DEF Composes
    <3>. QED BY <3>7 DEF Contents, t, u
  <2>. QED BY <2>3, <2>4
<1>. HIDE DEF x
<1>5. (inputs' = inputs /\ out' = None)
        \/ \E g \in ActiveFor(x.id) : \E u, G :
             Composes(inputs[g], u, x) /\ Contents(inputs[g], x, G) /\ Handles(g, u, G)
  BY <1>1, <1>4
<1>. QED BY <1>1, <1>3, <1>5, KeepsEvent DEF x

LEMMA KeepsPreeditRegion ==
  ASSUME BridgeInv, OnSetPreeditRegion
  PROVE  BridgeInv' /\ InForce
<1>. DEFINE x == Head(toProxy)
<1>1. /\ Reading /\ x.op = "region"
      /\ ActiveFor(x.id) = {} => inputs' = inputs /\ out' = None
      /\ ActiveFor(x.id) # {} => \E g \in ActiveFor(x.id) :
           Handles(g, FinishPreeditRegion(inputs[g], x), PreeditRegionPlan(inputs[g], x))
  BY DEF OnSetPreeditRegion, HostEvent, Consume, Silent, Reading, Handles
<1>2. x \in Event BY <1>1, InvNow, TailIs DEF RestOK, Reading
<1>3. x.op \in Kinds /\ x.gen \in Nat BY <1>1, <1>2 DEF Kinds, Event
<1>4. ASSUME NEW g \in ActiveFor(x.id)
      PROVE  /\ Composes(inputs[g], FinishPreeditRegion(inputs[g], x), x)
             /\ Contents(inputs[g], x, PreeditRegionPlan(inputs[g], x))
  <2>. DEFINE t == inputs[g]
  <2>1. t \in States BY InvNow DEF ActiveFor
  <2>. HIDE DEF t, x
  <2>2. Composes(t, FinishPreeditRegion(t, x), x)
    <3>1. Composes(t, t, x) BY <2>1 DEF Composes
    <3>2. Composes(t, [t EXCEPT !.current_preedit = x.gen], x)
      BY <2>1, <1>3 DEF Composes, States, TextInputState
    <3>. QED BY <3>1, <3>2 DEF FinishPreeditRegion
  <2>3. Contents(t, x, PreeditRegionPlan(t, x)) BY DEF Contents, PreeditRegionPlan
  <2>. QED BY <2>2, <2>3 DEF t
<1>. HIDE DEF x
<1>5. (inputs' = inputs /\ out' = None)
        \/ \E g \in ActiveFor(x.id) : \E u, G :
             Composes(inputs[g], u, x) /\ Contents(inputs[g], x, G) /\ Handles(g, u, G)
  BY <1>1, <1>4
<1>. QED BY <1>1, <1>3, <1>5, KeepsEvent DEF x

LEMMA KeepsConfirmPreedit ==
  ASSUME BridgeInv, OnConfirmPreedit
  PROVE  BridgeInv' /\ InForce
<1>. DEFINE x == Head(toProxy)
            G(t, recovered) == IF t.current_preedit = 0 /\ recovered THEN {x.gen}
                               ELSE ConfirmPreeditPlan(t)
<1>1. PICK recovered \in BOOLEAN :
        /\ Reading /\ x.op = "confirm"
        /\ ActiveFor(x.id) = {} => inputs' = inputs /\ out' = None
        /\ ActiveFor(x.id) # {} => \E g \in ActiveFor(x.id) :
             Handles(g, FinishConfirmPreedit(inputs[g], x), G(inputs[g], recovered))
  BY DEF OnConfirmPreedit, HostEvent, Consume, Silent, Reading, Handles
<1>3. x.op \in Kinds BY <1>1 DEF Kinds
<1>4. ASSUME NEW g \in ActiveFor(x.id)
      PROVE  /\ Composes(inputs[g], FinishConfirmPreedit(inputs[g], x), x)
             /\ Contents(inputs[g], x, G(inputs[g], recovered))
  <2>. DEFINE t == inputs[g]
  <2>1. t \in States BY InvNow DEF ActiveFor
  <2>2. Contents(t, x, G(t, recovered)) BY DEF Contents, ConfirmPreeditPlan
  <2>. HIDE DEF t, x
  <2>3. Composes(t, FinishConfirmPreedit(t, x), x)
    BY <2>1 DEF Composes, FinishConfirmPreedit, States, TextInputState
  <2>. QED BY <2>2, <2>3 DEF t
<1>. HIDE DEF x, G
<1>5. (inputs' = inputs /\ out' = None)
        \/ \E g \in ActiveFor(x.id) : \E u, H :
             Composes(inputs[g], u, x) /\ Contents(inputs[g], x, H) /\ Handles(g, u, H)
  BY <1>1, <1>4
<1>. QED BY <1>1, <1>3, <1>5, KeepsEvent DEF x

-----------------------------------------------------------------------------
(* Barriers return                                                         *)

\* The barrier's entry is taken out; the input that drains on it, if any, is inactive.
Taken(c, cb) == [c EXCEPT !.barriers[cb] = None]

LEMMA TakenIs ==
  ASSUME NEW c \in Contexts, NEW cb \in Callbacks
  PROVE  /\ Taken(c, cb) \in Contexts
         /\ Taken(c, cb).barriers = [c.barriers EXCEPT ![cb] = None]
         /\ Taken(c, cb).inputs = c.inputs /\ Taken(c, cb).cbTracked = c.cbTracked
         /\ Taken(c, cb).activated = c.activated /\ Taken(c, cb).queue = c.queue
<1>. DEFINE b == [c.barriers EXCEPT ![cb] = None]
            d == Taken(c, cb)
<1>1. b \in [Callbacks -> (TextInputs \X HostInputs) \cup {None}] BY DEF Contexts
<1>2. d = [c EXCEPT !.barriers = b] BY DEF Taken
<1>. HIDE DEF b, d
<1>3. /\ d \in Contexts /\ d.barriers = b /\ d.inputs = c.inputs
      /\ d.cbTracked = c.cbTracked /\ d.activated = c.activated /\ d.queue = c.queue
  BY <1>1, <1>2, WithPart
<1>. QED BY <1>3 DEF b, d

\* The input g drains on the callback cb.
Waits(c, g, cb) ==
  /\ c.inputs[g] # None /\ c.inputs[g].host_v1_id = c.barriers[cb][2]
  /\ DrainedBy(c, g, cb)

LEMMA TakenGood ==
  ASSUME NEW c, NEW q \in Seq(Event), q # <<>>, NEW hg, NEW s, NEW un,
         Good(c, q, hg, s, un, {}), Head(q).op = "done", NEW cb \in Callbacks,
         Head(q).id = cb
  PROVE  /\ c.barriers[cb] # None /\ c.barriers[cb][1] \in TextInputs
         /\ Good(Taken(c, cb), Tail(q), hg, s, un, {c.barriers[cb][1]})
         /\ ~Waits(c, c.barriers[cb][1], cb) => Good(Taken(c, cb), Tail(q), hg, s, un, {})
         /\ Waits(c, c.barriers[cb][1], cb) =>
              LET w == c.inputs[c.barriers[cb][1]]
              IN  Quiet(c.queue, Tail(q), hg[w.host_v1_id], w.host_v1_id) /\ Cleared(w)
<1>. DEFINE g == c.barriers[cb][1]
            d == Taken(c, cb)
            p == Tail(q)
<1>1. /\ c \in Contexts /\ CallbacksOk(c, q) /\ HostsOk(c, q, hg, un) /\ EnabledOk(c)
      /\ \A f \in TextInputs : c.inputs[f] # None => InputAt(c, f, q, hg, s)
  BY DEF Good
<1>2. /\ d \in Contexts /\ d.barriers = [c.barriers EXCEPT ![cb] = None]
      /\ d.inputs = c.inputs /\ d.cbTracked = c.cbTracked
      /\ d.activated = c.activated /\ d.queue = c.queue
  BY <1>1, TakenIs
<1>3. c.barriers \in [Callbacks -> (TextInputs \X HostInputs) \cup {None}]
  BY <1>1 DEF Contexts
<1>4. c.barriers[cb] # None /\ CallbackOk(cb, c.cbTracked, None, c.queue, p)
  BY <1>1, CallbackConsumed DEF CallbacksOk
<1>5. c.barriers[cb] \in TextInputs \X HostInputs BY <1>3, <1>4
<1>6. g \in TextInputs BY <1>5
<1>. HIDE DEF d
<1>7. ASSUME NEW f \in TextInputs, c.inputs[f] # None, ~Waits(c, f, cb) \/ f # g
      PROVE  InputAt(d, f, p, hg, s)
  <2>. DEFINE w == c.inputs[f]
  <2>1. InputOk(f, w, c.barriers, c.queue, q, hg[w.host_v1_id], c.activated[w.host_v1_id], s)
    BY <1>1, <1>7 DEF InputAt
  <2>2. w.host_activation # Draining(cb)
    <3>1. ASSUME w.host_activation = Draining(cb) PROVE FALSE
      <4>1. c.barriers[cb] = <<f, w.host_v1_id>> BY <2>1, <3>1 DEF InputOk, Drains
      <4>2. f = g /\ w.host_v1_id = c.barriers[cb][2] BY <4>1
      <4>3. Waits(c, f, cb) BY <1>7, <3>1, <4>2 DEF Waits, DrainedBy
      <4>. QED BY <1>7, <4>2, <4>3
    <3>. QED BY <3>1
  <2>3. \A cc \in Callbacks : w.host_activation = Draining(cc) => d.barriers[cc] = c.barriers[cc]
    BY <1>2, <1>3, <2>2
  <2>. HIDE DEF w
  <2>4. InputOk(f, w, d.barriers, c.queue, q, hg[w.host_v1_id], c.activated[w.host_v1_id], s)
    BY <2>1, <2>3, InputBarriers
  <2>5. InputOk(f, w, d.barriers, c.queue, p, hg[w.host_v1_id], c.activated[w.host_v1_id], s)
    BY <2>4, InputConsumed
  <2>. QED BY <2>5, <1>2 DEF InputAt, w
<1>8. CallbacksOk(d, p)
  <2>1. ASSUME NEW cc \in Callbacks
        PROVE  CallbackOk(cc, d.cbTracked, d.barriers[cc], d.queue, p)
    <3>1. CASE cc = cb
      <4>1. d.barriers[cc] = None BY <3>1, <1>2, <1>3
      <4>. QED BY <4>1, <3>1, <1>2, <1>4
    <3>2. CASE cc # cb
      <4>1. CallbackOk(cc, c.cbTracked, c.barriers[cc], c.queue, q) BY <1>1 DEF CallbacksOk
      <4>2. CallbackOk(cc, c.cbTracked, c.barriers[cc], c.queue, p)
        BY <4>1, <3>2, CallbackConsumed
      <4>3. d.barriers[cc] = c.barriers[cc] BY <3>2, <1>2, <1>3
      <4>. QED BY <4>2, <4>3, <1>2
    <3>. QED BY <3>1, <3>2
  <2>. QED BY <2>1 DEF CallbacksOk
<1>9. HostsOk(d, p, hg, un)
  BY <1>1, <1>2, NoEventsTail DEF HostsOk, Quiet
<1>10. EnabledOk(d) BY <1>1, <1>2 DEF EnabledOk
<1>11. Good(d, p, hg, s, un, {g})
  BY <1>2, <1>7, <1>8, <1>9, <1>10 DEF Good
<1>12. ~Waits(c, g, cb) => Good(d, p, hg, s, un, {})
  <2>1. ASSUME ~Waits(c, g, cb), c.inputs[g] # None PROVE InputAt(d, g, p, hg, s)
    BY <1>6, <1>7, <2>1
  <2>. HIDE DEF g
  <2>. QED BY <2>1, <1>2, <1>6, <1>11, GoodJoin
<1>13. ASSUME Waits(c, g, cb)
       PROVE  LET w == c.inputs[g]
              IN  Quiet(c.queue, p, hg[w.host_v1_id], w.host_v1_id) /\ Cleared(w)
  <2>. DEFINE w == c.inputs[g]
              h == w.host_v1_id
  <2>1. InputOk(g, w, c.barriers, c.queue, q, hg[h], c.activated[h], s)
        /\ w.host_activation = Draining(cb)
    BY <1>1, <1>6, <1>13 DEF InputAt, Waits, DrainedBy
  <2>. HIDE DEF w
  <2>2. Cleared(w) /\ Closed(c.queue, q, hg[h], h, cb)
    BY <2>1, ActivationsDiffer DEF InputOk, Drains
  <2>3. Quiet(c.queue, p, hg[h], h) BY <2>2, ClosedConsumed
  <2>. QED BY <2>2, <2>3 DEF w
<1>. QED BY <1>4, <1>6, <1>11, <1>12, <1>13 DEF d

\* The drained input is inactive, and nothing of its object is in flight.
LEMMA DrainedGood ==
  ASSUME NEW c, NEW q, NEW hg, NEW s, NEW un, NEW g \in TextInputs,
         Good(c, q, hg, s, un, {g}), c.inputs[g] # None, Cleared(c.inputs[g]),
         Quiet(c.queue, q, hg[c.inputs[g].host_v1_id], c.inputs[g].host_v1_id)
  PROVE  /\ Good(SetActivation(c, g, Inactive), q, hg, s, un, {})
         /\ SetActivation(c, g, Inactive).inputs = ReActivated(c, g, Inactive)
         /\ SetActivation(c, g, Inactive).queue = c.queue
<1>. DEFINE d == SetActivation(c, g, Inactive)
            t == c.inputs[g]
            u == [t EXCEPT !.host_activation = Inactive]
<1>1. /\ c \in Contexts /\ CallbacksOk(c, q) /\ HostsOk(c, q, hg, un) /\ EnabledOk(c)
      /\ \A f \in TextInputs \ {g} : c.inputs[f] # None => InputAt(c, f, q, hg, s)
  BY DEF Good
<1>2. /\ d.inputs = ReActivated(c, g, Inactive) /\ d.barriers = c.barriers
      /\ d.cbTracked = c.cbTracked /\ d.activated = c.activated /\ d.queue = c.queue
      /\ d \in Contexts
  BY <1>1, SetActivationIs, ActivationsDiffer
<1>3. /\ \A f \in TextInputs : /\ f # g => d.inputs[f] = c.inputs[f]
                               /\ d.inputs[f] # None <=> c.inputs[f] # None
      /\ d.inputs[g] = u /\ t \in States
  BY <1>1, <1>2, ReActivatedIs, ActivationsDiffer
<1>4. /\ \A f \in TextInputs : c.inputs[f] # None =>
           d.inputs[f].host_v1_id = c.inputs[f].host_v1_id
      /\ EnabledOk(d)
  BY <1>1, <1>2, SameHosts, ActivationsDiffer
<1>5. /\ u.host_activation = Inactive /\ u.host_v1_id = t.host_v1_id
      /\ u.current_preedit = t.current_preedit /\ u.pending_deletes = t.pending_deletes
  BY <1>3, SameBut
<1>. HIDE DEF d, u
<1>6. InputAt(d, g, q, hg, s)
  BY <1>2, <1>3, <1>5, ActivationsDiffer DEF InputAt, InputOk, Cleared
<1>7. \A f \in TextInputs \ {g} : d.inputs[f] # None => InputAt(d, f, q, hg, s)
  BY <1>1, <1>2, <1>3 DEF InputAt
<1>8. CallbacksOk(d, q) BY <1>1, <1>2 DEF CallbacksOk
<1>9. HostsOk(d, q, hg, un) BY <1>1, <1>2, <1>3, <1>4 DEF HostsOk
<1>10. Good(d, q, hg, s, un, {})
  BY <1>2, <1>4, <1>6, <1>7, <1>8, <1>9 DEF Good
<1>. QED BY <1>2, <1>10 DEF d

LEMMA KeepsCallbackDone ==
  ASSUME BridgeInv, OnCallbackDone
  PROVE  BridgeInv'
<1>. DEFINE x == Head(toProxy)
            cb == x.id
            p == Tail(toProxy)
            c == Taken(Ctx, cb)
            g == barriers[cb][1]
            d == CompleteBarrier(Ctx, cb)
<1>1. /\ Ctx \in Contexts /\ RestOK /\ Ctx.inputs = inputs /\ Ctx.queue = toHost
      /\ Ctx.barriers = barriers
      /\ Good(Ctx, toProxy, hostGen, seat, unusedHost, {})
      /\ \A f \in TextInputs : Settled(Ctx, f)
      /\ \A f \in TextInputs : inputs[f] # None =>
           inputs[f] \in States /\ inputs[f].pending_text \in {None, period}
      /\ StatesOk(toHost)
  BY InvNow
<1>2. /\ toProxy # <<>> /\ x.op = "done" /\ toProxy' = p /\ Install(d) /\ out' = None
      /\ UNCHANGED <<unusedHost, seat, focus, period, issued, hostGen>>
  BY DEF OnCallbackDone, Consume, Silent
<1>3. /\ toProxy \in Seq(Event) /\ x \in Event /\ p \in Seq(Event)
  BY <1>1, <1>2, TailIs DEF RestOK
<1>4. cb \in Callbacks BY <1>2, <1>3 DEF Event
<1>5. RestOK' BY <1>1, <1>2, <1>3 DEF RestOK
<1>. HIDE DEF Ctx, p
<1>6. /\ barriers[cb] # None /\ g \in TextInputs
      /\ Good(c, p, hostGen, seat, unusedHost, {g})
      /\ ~Waits(Ctx, g, cb) => Good(c, p, hostGen, seat, unusedHost, {})
      /\ Waits(Ctx, g, cb) =>
           /\ Quiet(toHost, p, hostGen[inputs[g].host_v1_id], inputs[g].host_v1_id)
           /\ Cleared(inputs[g])
  BY <1>1, <1>2, <1>3, <1>4, TakenGood DEF p
<1>7. /\ c \in Contexts /\ c.inputs = inputs /\ c.queue = toHost
  BY <1>1, <1>4, TakenIs
<1>8. d = IF Waits(Ctx, g, cb) THEN UpdateHostActivation(SetActivation(c, g, Inactive), g)
          ELSE c
  BY <1>1, <1>6 DEF CompleteBarrier, Waits, Taken
<1>. HIDE DEF c, d, g
<1>9. CASE ~Waits(Ctx, g, cb)
  <2>1. d = c /\ Good(d, p, hostGen, seat, unusedHost, {}) BY <1>6, <1>8, <1>9
  <2>2. Ctx' = d BY <1>2, <1>7, <2>1, InstallIs
  <2>3. \A f \in TextInputs : Settled(d, f)
    BY <1>1, <1>7, <2>1 DEF Settled
  <2>4. EditorOk(d, period) BY <1>1, <1>7, <2>1 DEF EditorOk
  <2>. QED BY <1>2, <1>5, <2>1, <2>2, <2>3, <2>4, InvNext
<1>10. CASE Waits(Ctx, g, cb)
  <2>. DEFINE e == SetActivation(c, g, Inactive)
              t == inputs[g]
              u == [t EXCEPT !.host_activation = Inactive]
  <2>1. t # None /\ t \in States BY <1>1, <1>6, <1>10 DEF Waits
  <2>2. /\ Good(e, p, hostGen, seat, unusedHost, {})
        /\ e.inputs = ReActivated(c, g, Inactive) /\ e.queue = toHost
    BY <1>6, <1>7, <1>10, <2>1, DrainedGood
  <2>3. /\ \A f \in TextInputs : f # g => e.inputs[f] = inputs[f]
        /\ e.inputs[g] = u /\ e.inputs[g] # None
    BY <1>6, <1>7, <2>1, <2>2, ReActivatedIs, ActivationsDiffer
  <2>4. /\ u.host_activation = Inactive /\ u.pending_text = t.pending_text
    BY <2>1, SameBut
  <2>5. ~HostIsActive(e.inputs[g]) BY <2>3, <2>4, ActivationsDiffer DEF HostIsActive
  <2>6. d = UpdateHostActivation(e, g) BY <1>8, <1>10
  <2>. HIDE DEF e, u
  <2>7. /\ Good(d, p, hostGen, seat, unusedHost, {})
        /\ \E a \in Activation :
             d.inputs = ReActivated(e, g, a) /\ (a = Active => Wanted(e.inputs[g]))
        /\ StatesOk(e.queue) => StatesOk(d.queue)
    BY <1>6, <2>2, <2>3, <2>5, <2>6, UpdateGood
  <2>8. PICK a \in Activation :
          d.inputs = ReActivated(e, g, a) /\ (a = Active => Wanted(e.inputs[g]))
    BY <2>7
  <2>9. e \in Contexts /\ d \in Contexts BY <2>2, <2>7 DEF Good
  <2>10. /\ \A f \in TextInputs : f # g => ReActivated(e, g, a)[f] = e.inputs[f]
         /\ ReActivated(e, g, a)[g] = [e.inputs[g] EXCEPT !.host_activation = a]
         /\ e.inputs[g] \in States
    BY <1>6, <2>3, <2>9, ReActivatedIs
  <2>11. LET v == [e.inputs[g] EXCEPT !.host_activation = a]
         IN  v.host_activation = a /\ v.pending_text = e.inputs[g].pending_text
             /\ v.committed_enabled = e.inputs[g].committed_enabled
             /\ v.active_surface = e.inputs[g].active_surface
    BY <2>10, SameBut
  <2>12. Ctx' = d BY <1>2, <2>9, InstallIs
  <2>13. \A f \in TextInputs : Settled(d, f)
    <3>1. \A f \in TextInputs : f # g => d.inputs[f] = Ctx.inputs[f]
      BY <1>1, <2>3, <2>8, <2>10
    <3>2. \A f \in TextInputs : f # g => Settled(d, f)
      BY <1>1, <3>1 DEF Settled
    <3>3. Settled(d, g)
      BY <2>8, <2>10, <2>11 DEF Settled, HostIsActive, Wanted
    <3>. QED BY <3>2, <3>3
  <2>14. EditorOk(d, period)
    <3>1. \A f \in TextInputs : f # g => d.inputs[f] = inputs[f]
      BY <2>3, <2>8, <2>10
    <3>2. d.inputs[g].pending_text \in {None, period}
      BY <1>1, <1>6, <2>1, <2>3, <2>4, <2>8, <2>10, <2>11
    <3>3. StatesOk(d.queue) BY <1>1, <2>2, <2>7
    <3>. QED BY <1>1, <3>1, <3>2, <3>3 DEF EditorOk
  <2>. QED BY <1>2, <1>5, <2>7, <2>12, <2>13, <2>14, InvNext
<1>. QED BY <1>9, <1>10

LEMMA KeepsDeleteId ==
  ASSUME BridgeInv, OnDeleteId
  PROVE  BridgeInv'
<1>. DEFINE x == Head(toProxy)
            cb == x.id
            p == Tail(toProxy)
            k == cbTracked \ {cb}
            d == [Ctx EXCEPT !.cbTracked = k]
<1>1. /\ Ctx \in Contexts /\ RestOK /\ Ctx.inputs = inputs /\ Ctx.queue = toHost
      /\ Ctx.cbTracked = cbTracked
      /\ Good(Ctx, toProxy, hostGen, seat, unusedHost, {})
      /\ \A f \in TextInputs : Settled(Ctx, f)
  BY InvNow
<1>2. /\ toProxy # <<>> /\ x.op = "delete_id" /\ toProxy' = p /\ cbTracked' = k /\ out' = None
      /\ UNCHANGED <<inputs, barriers, unusedHost, activated, seat, focus, period,
                     issued, toHost, hostGen>>
  BY DEF OnDeleteId, Consume, Silent
<1>3. /\ toProxy \in Seq(Event) /\ x \in Event /\ p \in Seq(Event)
  BY <1>1, <1>2, TailIs DEF RestOK
<1>4. Ctx' = d
  <2>. HIDE DEF k
  <2>1. Ctx' = [inputs |-> inputs, barriers |-> barriers, cbTracked |-> k,
                activated |-> activated, queue |-> toHost]
    BY <1>2 DEF Ctx
  <2>2. d = [inputs |-> inputs, barriers |-> barriers, cbTracked |-> k,
             activated |-> activated, queue |-> toHost]
    BY DEF Ctx
  <2>. QED BY <2>1, <2>2
<1>5. RestOK' BY <1>1, <1>2, <1>3 DEF RestOK
<1>6. k \in SUBSET Callbacks BY <1>1 DEF Contexts
<1>7. EditorOk(Ctx, period) BY DEF BridgeInv
<1>. HIDE DEF Ctx, k, p
<1>8. /\ d \in Contexts /\ d.cbTracked = k /\ d.inputs = Ctx.inputs
      /\ d.barriers = Ctx.barriers /\ d.activated = Ctx.activated /\ d.queue = Ctx.queue
  BY <1>1, <1>6, WithPart
<1>. HIDE DEF d
<1>9. \A f \in TextInputs : d.inputs[f] # None => InputAt(d, f, p, hostGen, seat)
  BY <1>1, <1>2, <1>3, <1>8, InputConsumed DEF Good, InputAt, p
<1>10. CallbacksOk(d, p)
  <2>1. ASSUME NEW cc \in Callbacks
        PROVE  CallbackOk(cc, d.cbTracked, d.barriers[cc], d.queue, p)
    <3>1. CallbackOk(cc, cbTracked, Ctx.barriers[cc], Ctx.queue, toProxy)
      BY <1>1 DEF Good, CallbacksOk
    <3>2. CASE cc = cb
      <4>1. CallbackOk(cc, cbTracked \ {cc}, Ctx.barriers[cc], Ctx.queue, p)
        BY <1>2, <1>3, <3>1, <3>2, CallbackConsumed DEF p
      <4>. QED BY <4>1, <3>2, <1>8 DEF k
    <3>3. CASE cc # cb
      <4>1. CallbackOk(cc, cbTracked, Ctx.barriers[cc], Ctx.queue, p)
        BY <1>2, <1>3, <3>1, <3>3, CallbackConsumed DEF p
      <4>2. cc \in k <=> cc \in cbTracked BY <3>3 DEF k
      <4>3. CallbackOk(cc, k, Ctx.barriers[cc], Ctx.queue, p)
        BY <4>1, <4>2 DEF CallbackOk
      <4>. QED BY <4>3, <1>8
    <3>. QED BY <3>2, <3>3
  <2>. QED BY <2>1 DEF CallbacksOk
<1>11. HostsOk(d, p, hostGen, unusedHost)
  BY <1>1, <1>2, <1>3, <1>8, NoEventsTail DEF Good, HostsOk, Quiet, p
<1>12. EnabledOk(d) BY <1>1, <1>8 DEF Good, EnabledOk
<1>13. Good(d, p, hostGen, seat, unusedHost, {})
  BY <1>8, <1>9, <1>10, <1>11, <1>12 DEF Good
<1>14. \A f \in TextInputs : Settled(d, f) BY <1>1, <1>8 DEF Settled
<1>15. EditorOk(d, period) BY <1>7, <1>8 DEF EditorOk
<1>. QED BY <1>2, <1>4, <1>5, <1>13, <1>14, <1>15, InvNext

-----------------------------------------------------------------------------
(* The host IME, and the invariant                                         *)

LEMMA KeepsHostReceive ==
  ASSUME BridgeInv, HostReceive
  PROVE  BridgeInv'
<1>. DEFINE x == Head(toHost)
            r == Tail(toHost)
            p == Answers(x, toProxy)
            d == [Ctx EXCEPT !.queue = r]
<1>1. /\ Ctx \in Contexts /\ RestOK /\ Ctx.inputs = inputs /\ Ctx.queue = toHost
      /\ Ctx.barriers = barriers /\ Ctx.cbTracked = cbTracked /\ Ctx.activated = activated
      /\ Good(Ctx, toProxy, hostGen, seat, unusedHost, {})
      /\ \A f \in TextInputs : Settled(Ctx, f)
      /\ StatesOk(toHost)
  BY InvNow
<1>2. /\ toHost # <<>> /\ toHost' = r /\ out' = None
      /\ UNCHANGED <<inputs, barriers, cbTracked, unusedHost, activated, seat, focus,
                     period, issued>>
  BY DEF HostReceive, proxy, Silent
<1>3. toHost \in Seq(Request) /\ toProxy \in Seq(Event) /\ hostGen \in [HostInputs -> Nat]
      /\ activated \in [HostInputs -> Nat]
  BY <1>1 DEF Contexts, RestOK
<1>4. x \in Request /\ r \in Seq(Request) BY <1>2, <1>3, TailIs
<1>5. /\ toProxy' = p
      /\ hostGen' \in [HostInputs -> Nat]
      /\ \A h \in HostInputs : hostGen'[h] = Reads(x, h, hostGen[h], activated[h])
  <2>1. CASE x.op = "activate"
    <3>1. x.id \in HostInputs BY <1>4, <2>1 DEF Request
    <3>2. hostGen' = [hostGen EXCEPT ![x.id] = activated[x.id]] /\ toProxy' = toProxy
      BY <2>1 DEF HostReceive
    <3>. HIDE DEF x
    <3>. QED BY <2>1, <3>1, <3>2, <1>3 DEF Reads, Answers
  <2>2. CASE x.op = "deactivate"
    <3>1. x.id \in HostInputs BY <1>4, <2>2 DEF Request
    <3>2. hostGen' = [hostGen EXCEPT ![x.id] = 0] /\ toProxy' = toProxy
      BY <2>2 DEF HostReceive
    <3>. HIDE DEF x
    <3>. QED BY <2>2, <3>1, <3>2, <1>3 DEF Reads, Answers
  <2>3. CASE x.op = "sync"
    <3>. DEFINE a == Req("done", x.id)
                b == Req("delete_id", x.id)
    <3>1. hostGen' = hostGen /\ toProxy' = toProxy \o <<a, b>>
      BY <2>3 DEF HostReceive
    <3>2. a \in Event /\ b \in Event BY <1>4, <2>3 DEF Request, Event, Req
    <3>3. p = Append(Append(toProxy, a), b) BY <2>3 DEF Answers
    <3>. HIDE DEF a, b, x
    <3>4. toProxy \o <<a, b>> = Append(Append(toProxy, a), b)
      BY <1>3, <3>2, PairIs
    <3>5. \A h \in HostInputs : Reads(x, h, hostGen[h], activated[h]) = hostGen[h]
      BY <2>3 DEF Reads
    <3>. HIDE DEF p
    <3>. QED BY <1>3, <3>1, <3>3, <3>4, <3>5
  <2>4. CASE x.op = "state"
    <3>1. hostGen' = hostGen /\ toProxy' = toProxy BY <2>4 DEF HostReceive
    <3>. HIDE DEF x
    <3>. QED BY <2>4, <3>1, <1>3 DEF Reads, Answers
  <2>5. x.op \in {"activate", "deactivate", "sync", "state"}
    BY <1>4 DEF Request
  <2>. QED BY <2>1, <2>2, <2>3, <2>4, <2>5
<1>6. Ctx' = d
  <2>. HIDE DEF r
  <2>1. Ctx' = [inputs |-> inputs, barriers |-> barriers, cbTracked |-> cbTracked,
                activated |-> activated, queue |-> r]
    BY <1>2 DEF Ctx
  <2>2. d = [inputs |-> inputs, barriers |-> barriers, cbTracked |-> cbTracked,
             activated |-> activated, queue |-> r]
    BY DEF Ctx
  <2>. QED BY <2>1, <2>2
<1>7. p \in Seq(Event) BY <1>3, <1>4, AnswersIs
<1>8. RestOK' BY <1>1, <1>2, <1>5, <1>7 DEF RestOK
<1>9. EditorOk(Ctx, period) BY DEF BridgeInv
<1>10. StatesOk(r) BY <1>1, <1>2, <1>3, StatesTail
<1>. HIDE DEF Ctx
<1>11. /\ d \in Contexts /\ d.queue = r /\ d.inputs = Ctx.inputs
       /\ d.barriers = Ctx.barriers /\ d.cbTracked = Ctx.cbTracked
       /\ d.activated = Ctx.activated
  BY <1>1, <1>4, WithPart
<1>. HIDE DEF d
<1>12. ASSUME NEW f \in TextInputs, d.inputs[f] # None
       PROVE  InputAt(d, f, p, hostGen', seat)
  <2>. DEFINE t == inputs[f]
              h == t.host_v1_id
  <2>1. t # None /\ d.inputs[f] = t /\ h \in HostInputs
    BY <1>1, <1>11, <1>12 DEF Contexts, States, TextInputState
  <2>2. InputOk(f, t, barriers, toHost, toProxy, hostGen[h], activated[h], seat)
    BY <1>1, <2>1 DEF Good, InputAt
  <2>. HIDE DEF t
  <2>3. InputOk(f, t, barriers, r, p, Reads(x, h, hostGen[h], activated[h]), activated[h], seat)
    BY <2>2, <1>2, <1>3, InputRead
  <2>4. hostGen'[h] = Reads(x, h, hostGen[h], activated[h]) BY <2>1, <1>5
  <2>. HIDE DEF p, r, x
  <2>. QED BY <2>1, <2>3, <2>4, <1>1, <1>11 DEF InputAt
<1>13. CallbacksOk(d, p)
  <2>1. \A cb \in Callbacks : CallbackOk(cb, cbTracked, barriers[cb], toHost, toProxy)
    BY <1>1 DEF Good, CallbacksOk
  <2>2. \A cb \in Callbacks : CallbackOk(cb, cbTracked, barriers[cb], r, p)
    BY <2>1, <1>2, <1>3, CallbackRead
  <2>. HIDE DEF p, r, x
  <2>. QED BY <2>2, <1>1, <1>11 DEF CallbacksOk
<1>14. HostsOk(d, p, hostGen', unusedHost)
  <2>1. \A h \in unusedHost : h \in HostInputs /\ Quiet(toHost, toProxy, hostGen[h], h)
    BY <1>1 DEF Good, HostsOk, RestOK
  <2>2. \A h \in unusedHost : Quiet(r, p, Reads(x, h, hostGen[h], activated[h]), h)
    BY <2>1, <1>2, <1>3, QuietRead
  <2>. HIDE DEF p, r, x
  <2>3. \A h \in unusedHost : Quiet(r, p, hostGen'[h], h)
    BY <2>1, <2>2, <1>5
  <2>. QED BY <2>3, <1>1, <1>11 DEF Good, HostsOk
<1>15. EnabledOk(d) BY <1>1, <1>11 DEF Good, EnabledOk
<1>16. Good(d, p, hostGen', seat, unusedHost, {})
  BY <1>11, <1>12, <1>13, <1>14, <1>15 DEF Good
<1>17. \A f \in TextInputs : Settled(d, f) BY <1>1, <1>11 DEF Settled
<1>18. EditorOk(d, period) BY <1>9, <1>10, <1>11 DEF EditorOk
<1>. QED BY <1>2, <1>5, <1>6, <1>8, <1>16, <1>17, <1>18, InvNext

LEMMA KeepsHostEmits ==
  ASSUME BridgeInv, NEW v \in HostInputs, NEW op \in Kinds, NEW empty \in BOOLEAN,
         HostEmits(v, op, empty)
  PROVE  BridgeInv'
<1>. DEFINE e == [op |-> op, id |-> v, gen |-> hostGen[v], empty |-> empty]
            p == Append(toProxy, e)
<1>1. /\ Ctx \in Contexts /\ RestOK /\ Ctx.inputs = inputs /\ Ctx.queue = toHost
      /\ Good(Ctx, toProxy, hostGen, seat, unusedHost, {})
      /\ \A f \in TextInputs : Settled(Ctx, f)
  BY InvNow
<1>2. /\ hostGen[v] # 0 /\ toProxy' = p /\ out' = None
      /\ UNCHANGED <<inputs, barriers, cbTracked, unusedHost, activated, seat, focus,
                     period, issued, toHost, hostGen>>
  BY DEF HostEmits, proxy, Silent
<1>3. toProxy \in Seq(Event) /\ hostGen \in [HostInputs -> Nat] BY <1>1 DEF RestOK
<1>4. e \in Event /\ e.op \in Kinds /\ e.id = v /\ e.gen = hostGen[v]
  BY <1>3 DEF Event, Kinds
<1>5. Ctx' = Ctx BY <1>2 DEF Ctx
<1>. HIDE DEF e
<1>6. p \in Seq(Event) BY <1>3, <1>4, AppendIs
<1>7. RestOK' BY <1>1, <1>2, <1>6 DEF RestOK
<1>8. EditorOk(Ctx, period) BY DEF BridgeInv
<1>. HIDE DEF Ctx, p
<1>9. ASSUME NEW f \in TextInputs, Ctx.inputs[f] # None
      PROVE  InputAt(Ctx, f, p, hostGen, seat)
  <2>1. InputAt(Ctx, f, toProxy, hostGen, seat) BY <1>1, <1>9 DEF Good
  <2>. QED BY <2>1, <1>2, <1>3, <1>4, InputEmitted DEF InputAt, p
<1>10. CallbacksOk(Ctx, p)
  BY <1>1, <1>3, <1>4, CallbackEmitted DEF Good, CallbacksOk, p
<1>11. HostsOk(Ctx, p, hostGen, unusedHost)
  <2>1. \A h \in unusedHost : Quiet(Ctx.queue, p, hostGen[h], h)
    BY <1>1, <1>2, <1>3, <1>4, QuietEmitted DEF Good, HostsOk, p
  <2>. QED BY <2>1, <1>1 DEF Good, HostsOk
<1>12. Good(Ctx, p, hostGen, seat, unusedHost, {})
  BY <1>1, <1>9, <1>10, <1>11 DEF Good
<1>. QED BY <1>1, <1>2, <1>5, <1>7, <1>8, <1>12, InvNext

LEMMA InitInv ==
  ASSUME Init
  PROVE  BridgeInv
<1>1. \A S : <<>> \in Seq(S) /\ Len(<<>>) = 0 OBVIOUS
<1>2. /\ toHost = <<>> /\ toProxy = <<>> /\ \A h \in HostInputs : hostGen[h] = 0
      /\ unusedHost = HostInputs
      /\ \A g \in TextInputs : inputs[g] = None
      /\ \A cb \in Callbacks : barriers[cb] = None
  BY DEF Init
<1>3. TypeOK
  BY <1>1, BoundsAssumption DEF Init, TypeOK
<1>4. /\ Ctx.inputs = inputs /\ Ctx.barriers = barriers /\ Ctx.cbTracked = cbTracked
      /\ Ctx.activated = activated /\ Ctx.queue = toHost /\ Ctx \in Contexts
  BY <1>3, CtxIs
<1>. HIDE DEF Ctx
<1>5. \A i \in 1 .. Len(<<>>) : FALSE BY <1>1
<1>6. CallbacksOk(Ctx, toProxy)
  BY <1>2, <1>4, <1>5 DEF CallbacksOk, CallbackOk, Has, Once
<1>7. HostsOk(Ctx, toProxy, hostGen, unusedHost)
  BY <1>2, <1>4, <1>5 DEF HostsOk, Quiet, Calm, Has, NoEvents
<1>8. Good(Ctx, toProxy, hostGen, seat, unusedHost, {}) /\ \A g \in TextInputs : Settled(Ctx, g)
  BY <1>2, <1>4, <1>6, <1>7 DEF Good, EnabledOk, Settled
<1>9. EditorOk(Ctx, period)
  BY <1>2, <1>4, <1>5 DEF EditorOk, StatesOk
<1>. QED BY <1>3, <1>8, <1>9 DEF BridgeInv

\* Every step keeps the invariant, and sends only what is of the activation in force.
LEMMA StepInv ==
  ASSUME BridgeInv, Next
  PROVE  BridgeInv' /\ InForce
<1>1. CASE GuestStep
  <2>1. out' = None
    BY <1>1 DEF GuestStep, GetTextInput, Destroy, Enable, SetSurroundingText, Commit,
               ReleaseSeat, Silent
  <2>2. BridgeInv'
    BY <1>1, KeepsGetTextInput, KeepsDestroy, KeepsEnable, KeepsSetSurroundingText,
       KeepsCommit, KeepsSeat DEF GuestStep
  <2>. QED BY <2>1, <2>2 DEF InForce
<1>2. CASE ProxyStep
  <2>1. CASE OnPreedit BY <2>1, KeepsPreedit
  <2>2. CASE OnCommitString BY <2>2, KeepsCommitString
  <2>3. CASE OnDeleteSurroundingText BY <2>3, KeepsDelete
  <2>4. CASE OnSetPreeditRegion BY <2>4, KeepsPreeditRegion
  <2>5. CASE OnConfirmPreedit BY <2>5, KeepsConfirmPreedit
  <2>6. CASE OnCallbackDone
    <3>1. out' = None BY <2>6 DEF OnCallbackDone, Silent
    <3>. QED BY <2>6, <3>1, KeepsCallbackDone DEF InForce
  <2>7. CASE OnDeleteId
    <3>1. out' = None BY <2>7 DEF OnDeleteId, Silent
    <3>. QED BY <2>7, <3>1, KeepsDeleteId DEF InForce
  <2>. QED BY <1>2, <2>1, <2>2, <2>3, <2>4, <2>5, <2>6, <2>7 DEF ProxyStep
<1>3. CASE SeatDeleted
  <2>1. out' = None BY <1>3 DEF SeatDeleted, Silent
  <2>. QED BY <1>3, <2>1, KeepsSeat DEF InForce
<1>4. CASE \E f \in Surfaces \cup {None} : FocusChange(f)
  <2>1. out' = None BY <1>4 DEF FocusChange, Silent
  <2>2. BridgeInv' BY <1>4, KeepsFocusChange
  <2>. QED BY <2>1, <2>2 DEF InForce
<1>5. CASE HostReceive
  <2>1. out' = None BY <1>5 DEF HostReceive, Silent
  <2>. QED BY <1>5, <2>1, KeepsHostReceive DEF InForce
<1>6. CASE \E h \in HostInputs, op \in Kinds, b \in BOOLEAN : HostEmits(h, op, b)
  <2>1. out' = None BY <1>6 DEF HostEmits, Silent
  <2>2. BridgeInv' BY <1>6, KeepsHostEmits
  <2>. QED BY <2>1, <2>2 DEF InForce
<1>7. (\E h \in HostInputs, b \in BOOLEAN : HostEmits(h, "preedit", b))
        \/ (\E h \in HostInputs, op \in {"commit", "delete", "region", "confirm"} :
              HostEmits(h, op, FALSE))
      => \E h \in HostInputs, op \in Kinds, b \in BOOLEAN : HostEmits(h, op, b)
  <2>1. "preedit" \in Kinds /\ FALSE \in BOOLEAN
        /\ \A op \in {"commit", "delete", "region", "confirm"} : op \in Kinds
    BY DEF Kinds
  <2>. QED BY <2>1
<1>. QED BY <1>1, <1>2, <1>3, <1>4, <1>5, <1>6, <1>7 DEF Next

LEMMA StutterInv ==
  ASSUME BridgeInv, UNCHANGED vars
  PROVE  BridgeInv'
<1>1. Ctx' = Ctx /\ RestOK' /\ toProxy' = toProxy /\ hostGen' = hostGen /\ seat' = seat
      /\ unusedHost' = unusedHost /\ period' = period
  BY InvNow DEF vars, proxy, Ctx, RestOK
<1>2. Good(Ctx, toProxy, hostGen, seat, unusedHost, {})
      /\ (\A g \in TextInputs : Settled(Ctx, g)) /\ EditorOk(Ctx, period)
  BY DEF BridgeInv
<1>. HIDE DEF Ctx
<1>. QED BY <1>1, <1>2, InvNext

LEMMA BridgeInvAlways == Spec => []BridgeInv
<1>1. Init => BridgeInv BY InitInv
<1>2. BridgeInv /\ [Next]_vars => BridgeInv' BY StepInv, StutterInv
<1>. QED BY <1>1, <1>2, PTL DEF Spec

-----------------------------------------------------------------------------
(* The properties                                                          *)

LEMMA InvNoOldState == BridgeInv => NoOldEditorState
<1>. SUFFICES ASSUME BridgeInv PROVE NoOldEditorState OBVIOUS
<1>1. TypeOK /\ StatesOk(toHost) BY InvNow DEF BridgeInv
<1>2. DOMAIN toHost = 1 .. Len(toHost) BY <1>1 DEF TypeOK
<1>. QED BY <1>1, <1>2 DEF NoOldEditorState, StatesOk

LEMMA InvOrderly == BridgeInv => HandoverIsOrderly
<1>. SUFFICES ASSUME BridgeInv PROVE HandoverIsOrderly OBVIOUS
<1>1. /\ Ctx \in Contexts /\ RestOK /\ Ctx.inputs = inputs /\ Ctx.barriers = barriers
      /\ Ctx.cbTracked = cbTracked /\ Ctx.activated = activated /\ Ctx.queue = toHost
      /\ Good(Ctx, toProxy, hostGen, seat, unusedHost, {})
      /\ \A f \in TextInputs : Settled(Ctx, f)
  BY InvNow
<1>. HIDE DEF Ctx
<1>2. OneEnabledPerSeat
  <2>1. ASSUME NEW f \in TextInputs, NEW g \in TextInputs,
               inputs[f] # None, inputs[g] # None, f # g
        PROVE  /\ ~(inputs[f].committed_enabled /\ inputs[g].committed_enabled)
               /\ ~(inputs[f].host_activation = Active
                      /\ inputs[g].host_activation = Active)
    <3>1. ~(inputs[f].committed_enabled /\ inputs[g].committed_enabled)
      BY <1>1, <2>1 DEF Good, EnabledOk
    <3>2. \A k \in TextInputs : inputs[k] # None /\ inputs[k].host_activation = Active
                                  => inputs[k].committed_enabled
      BY <1>1 DEF Settled, HostIsActive, Wanted
    <3>. QED BY <2>1, <3>1, <3>2
  <2>. QED BY <2>1 DEF OneEnabledPerSeat
<1>3. DrainingHasBarrier
  <2>1. ASSUME NEW g \in TextInputs, NEW cb \in Callbacks,
               inputs[g] # None, inputs[g].host_activation = Draining(cb)
        PROVE  /\ barriers[cb] = <<g, inputs[g].host_v1_id>>
               /\ Req("sync", cb) \in Range(toHost) \/ Req("done", cb) \in Range(toProxy)
    <3>. DEFINE t == inputs[g]
    <3>1. InputOk(g, t, barriers, toHost, toProxy, hostGen[t.host_v1_id],
                  activated[t.host_v1_id], seat)
      BY <1>1, <2>1 DEF Good, InputAt
    <3>2. barriers[cb] = <<g, t.host_v1_id>> BY <2>1, <3>1 DEF InputOk, Drains
    <3>3. t.host_v1_id \in HostInputs BY <1>1, <2>1 DEF Contexts, States, TextInputState
    <3>4. barriers[cb] # None BY <3>2, <3>3, NoneIsNoInput
    <3>5. CallbackOk(cb, cbTracked, barriers[cb], toHost, toProxy)
      BY <1>1 DEF Good, CallbacksOk
    <3>6. Has(toHost, "sync", cb) \/ Has(toProxy, "done", cb)
      BY <3>4, <3>5 DEF CallbackOk
    <3>7. toHost \in Seq(Request) /\ toProxy \in Seq(Event)
      BY <1>1 DEF Contexts, RestOK
    <3>8. ASSUME Has(toHost, "sync", cb) PROVE Req("sync", cb) \in Range(toHost)
      <4>1. PICK i \in 1 .. Len(toHost) : toHost[i].op = "sync" /\ toHost[i].id = cb
        BY <3>8 DEF Has, Is
      <4>2. toHost[i] \in Request /\ i \in DOMAIN toHost BY <3>7, <4>1
      <4>3. toHost[i] = Req("sync", cb) BY <4>1, <4>2 DEF Request, Req
      <4>. QED BY <4>2, <4>3 DEF Range
    <3>9. ASSUME Has(toProxy, "done", cb) PROVE Req("done", cb) \in Range(toProxy)
      <4>1. PICK i \in 1 .. Len(toProxy) : toProxy[i].op = "done" /\ toProxy[i].id = cb
        BY <3>9 DEF Has, Is
      <4>2. toProxy[i] \in Event /\ i \in DOMAIN toProxy BY <3>7, <4>1
      <4>3. toProxy[i] = Req("done", cb) BY <4>1, <4>2 DEF Event, Req
      <4>. QED BY <4>2, <4>3 DEF Range
    <3>. QED BY <3>2, <3>6, <3>8, <3>9
  <2>. QED BY <2>1 DEF DrainingHasBarrier
<1>. QED BY <1>2, <1>3 DEF HandoverIsOrderly

\* Editor state set before a focus change never reaches the IME after it: apply_focus
\* drops what is pending, and a commit sends only what was set since.
THEOREM OldEditorStateIsDropped == Spec => []NoOldEditorState
BY BridgeInvAlways, InvNoOldState, PTL

\* The conflict check of commit keeps one text input of the seat enabled, and
\* update_host_activation one active; a draining input's barrier is registered for it
\* and on its way, so no input drains forever.
THEOREM SeatIsHandedOver == Spec => []HandoverIsOrderly
BY BridgeInvAlways, InvOrderly, PTL

\* What a done carries to the guest is of the activation in force: the barrier of
\* queue_host_deactivation_barrier returns behind everything the IME sent for an
\* earlier one, and the input takes no event until it does.
THEOREM CompositionIsCurrent == Spec => NoStaleComposition
<1>1. BridgeInv /\ [Next]_vars =>
        [out' # None => out'.gens = {activated[inputs[out'.input].host_v1_id]}]_vars
  BY StepInv DEF InForce
<1>. QED BY <1>1, BridgeInvAlways, PTL DEF Spec, NoStaleComposition

=============================================================================
