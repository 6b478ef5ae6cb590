----------------------- MODULE ObjectLifecycleProofs ------------------------
(***************************************************************************)
(* ObjectLifecycle for any number of IDs, objects and messages in flight.  *)
(*                                                                         *)
(* The inductive invariant is stated per ID.  HostInv(h, n): everything    *)
(* that names the host ID h, on either side and in flight, is of one       *)
(* incarnation n.  GuestInv(g): the tables describe the guest's object g.  *)
(***************************************************************************)
EXTENDS ObjectLifecycle, SequenceTheorems, TLAPS

-----------------------------------------------------------------------------
(* What the messages in flight say of one ID, and how that changes when a  *)
(* message is sent or received.                                            *)

\* A message names h; it means incarnation n wherever it names h; it brings h
\* into existence; it is the result of an asynchronous create under h.
Is(m, op, h) == m.op = op /\ m.id = h
Mentions(m, h) == m.id = h \/ (m.op = "refer" /\ m.arg.id = h)
Means(m, h, n) == /\ m.id = h => m.born = n
                  /\ m.op = "refer" /\ m.arg.id = h => m.arg.born = n
Introduces(m, h) == m.op \in {"created", "offer"} /\ m.new_id = h
IsResult(m, h) == m.op \in {"created", "failed"} /\ m.id = h
Touches(m, h) == Mentions(m, h) \/ Introduces(m, h)

Silent(q, h) == \A i \in DOMAIN q : ~Mentions(q[i], h)

-----------------------------------------------------------------------------
(* Requests in flight; o is what the host has under h                      *)

NotCallback(q, o, h) ==
  /\ o # None => o.interface # "callback"
  /\ \A i \in DOMAIN q : Is(q[i], "new", h) => q[i].interface # "callback"

\* The host has the object, or will have it, and is not told to destroy it.
Alive(q, o, h) == /\ o # None \/ Announced(h, "new", q)
                  /\ ~Announced(h, "destroy", q)

\* The requests that name h are those of one incarnation, in an order the host
\* accepts: its new first, its destroy last.
Requests(q, o, h, n) ==
  /\ o # None => o.born = n
  /\ \A i \in DOMAIN q :
       /\ Means(q[i], h, n)
       /\ Is(q[i], "new", h) => /\ o = None
                                /\ \A j \in DOMAIN q : Mentions(q[j], h) => i =< j
       /\ Is(q[i], "destroy", h) => \A j \in DOMAIN q : Mentions(q[j], h) => j =< i
       /\ Mentions(q[i], h) /\ q[i].op # "new" =>
            (o # None \/ Announced(h, "new", q)) /\ NotCallback(q, o, h)

OneIn(q, h) ==
  \A i, j \in DOMAIN q : Is(q[i], "create", h) /\ Is(q[j], "create", h) => i = j

\* Both queues say the same of h.
ReqSame(q, r, h) ==
  /\ Silent(r, h) <=> Silent(q, h)
  /\ \A op : Announced(h, op, r) <=> Announced(h, op, q)
  /\ \A o : NotCallback(r, o, h) <=> NotCallback(q, o, h)
  /\ \A o, n : Requests(q, o, h, n) => Requests(r, o, h, n)
  /\ OneIn(q, h) => OneIn(r, h)

-----------------------------------------------------------------------------
(* Events in flight                                                        *)

\* The events that name a client-range h: delete_id is the last of them but for
\* a late result, and done comes right before it.
Events(r, h, n) ==
  \A i \in DOMAIN r :
    /\ Means(r[i], h, n)
    /\ Is(r[i], "delete_id", h) =>
         \A j \in DOMAIN r : i < j /\ Mentions(r[j], h) => IsResult(r[j], h)
    /\ Is(r[i], "done", h) => i + 1 \in DOMAIN r /\ Is(r[i + 1], "delete_id", h)

HasResult(r, h) == \E i \in DOMAIN r : IsResult(r[i], h)
OneResult(r, h) ==
  \A i, j \in DOMAIN r : IsResult(r[i], h) /\ IsResult(r[j], h) => i = j
OnlyResults(r, h) ==
  \A i \in DOMAIN r : Mentions(r[i], h) => IsResult(r[i], h)

\* The events that name a server-range h: from the one that introduces an
\* incarnation on, they mean it.
Meant(r, h, n) == \A i \in DOMAIN r : Means(r[i], h, n)
Coming(r, h) == \E i \in DOMAIN r : Introduces(r[i], h)
Fresh(r, h, n) ==
  \A i \in DOMAIN r : Introduces(r[i], h) =>
    /\ r[i].new_born = n
    /\ \A j \in DOMAIN r : /\ Introduces(r[j], h) => j = i
                           /\ i =< j => Means(r[j], h, n)

\* r says of h no more than s did.
EvLater(s, r, h) ==
  /\ Silent(s, h) => Silent(r, h)
  /\ Announced(h, "delete_id", r) => Announced(h, "delete_id", s)
  /\ HasResult(r, h) => HasResult(s, h)
  /\ OneResult(s, h) => OneResult(r, h)
  /\ OnlyResults(s, h) => OnlyResults(r, h)
  /\ Coming(r, h) => Coming(s, h)
  /\ \A n : /\ Events(s, h, n) => Events(r, h, n)
            /\ Meant(s, h, n) => Meant(r, h, n)
            /\ Fresh(s, h, n) => Fresh(r, h, n)

-----------------------------------------------------------------------------
(* Sending and receiving                                                   *)

\* r is q with m at its end; q without its head.
Joins(q, m, r, k) ==
  /\ k \in Nat /\ DOMAIN q = 1 .. k /\ DOMAIN r = 1 .. k + 1
  /\ \A i \in 1 .. k : r[i] = q[i]
  /\ r[k + 1] = m
Loses(q, r, k) ==
  /\ k \in Nat /\ DOMAIN q = 1 .. k + 1 /\ DOMAIN r = 1 .. k
  /\ \A i \in 1 .. k : r[i] = q[i + 1]

LEMMA AppendJoins ==
  ASSUME NEW T, NEW q \in Seq(T), NEW m \in T
  PROVE  Joins(q, m, q \o <<m>>, Len(q)) /\ q \o <<m>> \in Seq(T)
<1>1. q \o <<m>> = Append(q, m)
  BY AppendIsConcat
<1>. QED
  BY <1>1, AppendProperties, LenProperties DEF Joins

LEMMA AppendTwice ==
  ASSUME NEW T, NEW q \in Seq(T), NEW m \in T, NEW p \in T
  PROVE  /\ Joins(q \o <<m>>, p, q \o <<m, p>>, Len(q) + 1)
         /\ q \o <<m, p>> \in Seq(T)
<1>. DEFINE r == q \o <<m>>
            s == q \o <<m, p>>
            k == Len(q)
<1>1. Joins(q, m, r, k)
  BY AppendJoins
<1>2. /\ <<m, p>> \in Seq(T) /\ Len(<<m, p>>) = 2
      /\ <<m, p>>[1] = m /\ <<m, p>>[2] = p
  OBVIOUS
<1>3. /\ s \in Seq(T) /\ Len(s) = k + 2
      /\ \A i \in 1 .. k + 2 : s[i] = IF i <= k THEN q[i] ELSE <<m, p>>[i - k]
  BY <1>2, ConcatProperties
<1>4. DOMAIN s = 1 .. k + 2 /\ k \in Nat
  BY <1>3, LenProperties
<1>. HIDE DEF r, s, k
<1>5. (k + 1) - k = 1 /\ (k + 2) - k = 2 /\ k + 1 \in 1 .. k + 2 /\ k + 2 \in 1 .. k + 2
  BY <1>4
<1>6. s[k + 1] = m /\ s[k + 2] = p /\ \A i \in 1 .. k : s[i] = q[i]
  BY <1>2, <1>3, <1>4, <1>5
<1>7. Joins(r, p, s, k + 1)
  BY <1>1, <1>4, <1>6 DEF Joins
<1>. QED
  BY <1>3, <1>7 DEF r, s, k

LEMMA TailLoses ==
  ASSUME NEW T, NEW q \in Seq(T), q # <<>>
  PROVE  /\ Loses(q, Tail(q), Len(q) - 1) /\ Tail(q) \in Seq(T)
         /\ Head(q) = q[1] /\ Head(q) \in T
<1>1. Len(q) \in Nat /\ Len(q) # 0 /\ DOMAIN q = 1 .. Len(q)
  BY EmptySeq, LenProperties
<1>2. /\ Tail(q) \in Seq(T) /\ Len(Tail(q)) = Len(q) - 1
      /\ \A i \in 1 .. Len(Tail(q)) : Tail(q)[i] = q[i + 1]
      /\ Head(q) \in T /\ Head(q) = q[1]
  BY HeadTailProperties
<1>3. DOMAIN Tail(q) = 1 .. Len(q) - 1
  BY <1>2, LenProperties
<1>. QED
  BY <1>1, <1>2, <1>3 DEF Loses

\* The messages that touch h are the same in q and r, k places earlier.
Same(q, r, h, k) ==
  /\ DOMAIN q \subseteq Int /\ DOMAIN r \subseteq Int /\ k \in {0, 1}
  /\ \A i \in DOMAIN r : (i + k \in DOMAIN q /\ r[i] = q[i + k]) \/ ~Touches(r[i], h)
  /\ \A i \in DOMAIN q : (i - k \in DOMAIN r /\ r[i - k] = q[i]) \/ ~Touches(q[i], h)

LEMMA JoinsSame ==
  ASSUME NEW q, NEW m, NEW r, NEW k, Joins(q, m, r, k), NEW h, ~Touches(m, h)
  PROVE  Same(q, r, h, 0)
BY DEF Joins, Same

LEMMA LosesSame ==
  ASSUME NEW q, NEW r, NEW k, Loses(q, r, k), NEW h, ~Touches(q[1], h)
  PROVE  Same(q, r, h, 1)
BY DEF Loses, Same

LEMMA SameReqs ==
  ASSUME NEW q, NEW r, NEW h, NEW k, Same(q, r, h, k)
  PROVE  ReqSame(q, r, h)
<1>. USE DEF Same, Touches
<1>1. Silent(r, h) <=> Silent(q, h)
  BY DEF Silent
<1>2. \A op : Announced(h, op, r) <=> Announced(h, op, q)
  BY DEF Announced, Mentions
<1>3. \A o : NotCallback(r, o, h) <=> NotCallback(q, o, h)
  BY DEF NotCallback, Is, Mentions
<1>4. ASSUME NEW o, NEW n, Requests(q, o, h, n) PROVE Requests(r, o, h, n)
  <2>. SUFFICES ASSUME NEW i \in DOMAIN r
                PROVE  /\ Means(r[i], h, n)
                       /\ Is(r[i], "new", h) =>
                            o = None /\ \A j \in DOMAIN r : Mentions(r[j], h) => i =< j
                       /\ Is(r[i], "destroy", h) =>
                            \A j \in DOMAIN r : Mentions(r[j], h) => j =< i
                       /\ Mentions(r[i], h) /\ r[i].op # "new" =>
                            (o # None \/ Announced(h, "new", r)) /\ NotCallback(r, o, h)
    BY <1>4 DEF Requests
  <2>1. CASE ~Mentions(r[i], h)
    BY <2>1 DEF Mentions, Means, Is
  <2>2. CASE Mentions(r[i], h)
    <3>1. i + k \in DOMAIN q /\ r[i] = q[i + k]
      BY <2>2
    <3>2. /\ Means(q[i + k], h, n)
          /\ Is(q[i + k], "new", h) =>
               o = None /\ \A j \in DOMAIN q : Mentions(q[j], h) => i + k =< j
          /\ Is(q[i + k], "destroy", h) =>
               \A j \in DOMAIN q : Mentions(q[j], h) => j =< i + k
          /\ Mentions(q[i + k], h) /\ q[i + k].op # "new" =>
               (o # None \/ Announced(h, "new", q)) /\ NotCallback(q, o, h)
      BY <1>4, <3>1 DEF Requests
    <3>3. \A j \in DOMAIN r : Mentions(r[j], h) => j + k \in DOMAIN q /\ r[j] = q[j + k]
      OBVIOUS
    <3>4. Is(r[i], "new", h) => \A j \in DOMAIN r : Mentions(r[j], h) => i =< j
      BY <3>1, <3>2, <3>3
    <3>5. Is(r[i], "destroy", h) => \A j \in DOMAIN r : Mentions(r[j], h) => j =< i
      BY <3>1, <3>2, <3>3
    <3>. QED
      BY <3>1, <3>2, <3>4, <3>5, <1>2, <1>3
  <2>. QED
    BY <2>1, <2>2
<1>5. OneIn(q, h) => OneIn(r, h)
  BY DEF OneIn, Is, Mentions
<1>. QED
  BY <1>1, <1>2, <1>3, <1>4, <1>5 DEF ReqSame

LEMMA SameEvents ==
  ASSUME NEW q, NEW r, NEW h, NEW k, Same(q, r, h, k)
  PROVE  EvLater(q, r, h)
<1>. USE DEF Same, Touches
<1>1. Silent(q, h) => Silent(r, h)
  BY DEF Silent
<1>2. Announced(h, "delete_id", r) => Announced(h, "delete_id", q)
  BY DEF Announced, Mentions
<1>3. HasResult(r, h) => HasResult(q, h)
  BY DEF HasResult, IsResult, Mentions
<1>4. OneResult(q, h) => OneResult(r, h)
  BY DEF OneResult, IsResult, Mentions
<1>5. OnlyResults(q, h) => OnlyResults(r, h)
  BY DEF OnlyResults
<1>6. Coming(r, h) => Coming(q, h)
  BY DEF Coming
<1>7. ASSUME NEW n, Events(q, h, n) PROVE Events(r, h, n)
  <2>. SUFFICES ASSUME NEW i \in DOMAIN r
                PROVE  /\ Means(r[i], h, n)
                       /\ Is(r[i], "delete_id", h) =>
                            \A j \in DOMAIN r : i < j /\ Mentions(r[j], h) => IsResult(r[j], h)
                       /\ Is(r[i], "done", h) =>
                            i + 1 \in DOMAIN r /\ Is(r[i + 1], "delete_id", h)
    BY DEF Events
  <2>1. CASE ~Mentions(r[i], h)
    BY <2>1 DEF Mentions, Means, Is
  <2>2. CASE Mentions(r[i], h)
    <3>1. i + k \in DOMAIN q /\ r[i] = q[i + k] /\ i \in Int /\ k \in Int
      BY <2>2
    <3>2. Means(r[i], h, n)
      BY <1>7, <3>1 DEF Events
    <3>3. ASSUME Is(r[i], "delete_id", h), NEW j \in DOMAIN r, i < j, Mentions(r[j], h)
          PROVE  IsResult(r[j], h)
      <4>1. j + k \in DOMAIN q /\ r[j] = q[j + k] /\ i + k < j + k
        BY <3>1, <3>3
      <4>. QED
        BY <1>7, <3>1, <3>3, <4>1 DEF Events
    <3>4. ASSUME Is(r[i], "done", h) PROVE i + 1 \in DOMAIN r /\ Is(r[i + 1], "delete_id", h)
      <4>1. (i + k) + 1 \in DOMAIN q /\ Is(q[(i + k) + 1], "delete_id", h)
        BY <1>7, <3>1, <3>4 DEF Events
      <4>2. Touches(q[(i + k) + 1], h)
        BY <4>1 DEF Is, Mentions
      <4>3. ((i + k) + 1) - k = i + 1
        BY <3>1
      <4>. QED
        BY <4>1, <4>2, <4>3
    <3>. QED
      BY <3>2, <3>3, <3>4
  <2>. QED
    BY <2>1, <2>2
<1>8. ASSUME NEW n, Meant(q, h, n) PROVE Meant(r, h, n)
  BY <1>8 DEF Meant, Means, Mentions
<1>9. ASSUME NEW n, Fresh(q, h, n) PROVE Fresh(r, h, n)
  <2>. SUFFICES ASSUME NEW i \in DOMAIN r, Introduces(r[i], h), NEW j \in DOMAIN r
                PROVE  /\ r[i].new_born = n
                       /\ Introduces(r[j], h) => j = i
                       /\ i =< j => Means(r[j], h, n)
    BY DEF Fresh
  <2>1. i + k \in DOMAIN q /\ r[i] = q[i + k] /\ i \in Int /\ k \in Int /\ j \in Int
    OBVIOUS
  <2>2. r[i].new_born = n
    BY <1>9, <2>1 DEF Fresh
  <2>3. CASE ~Touches(r[j], h)
    BY <2>2, <2>3 DEF Means, Mentions
  <2>4. CASE Touches(r[j], h)
    <3>1. j + k \in DOMAIN q /\ r[j] = q[j + k]
      BY <2>4
    <3>2. /\ Introduces(q[j + k], h) => j + k = i + k
          /\ i + k =< j + k => Means(q[j + k], h, n)
      BY <1>9, <2>1, <3>1 DEF Fresh
    <3>. QED
      BY <2>1, <2>2, <3>1, <3>2
  <2>. QED
    BY <2>3, <2>4
<1>. QED
  BY <1>1, <1>2, <1>3, <1>4, <1>5, <1>6, <1>7, <1>8, <1>9 DEF EvLater

\* Receiving an event keeps what the others say.
LEMMA LosesLater ==
  ASSUME NEW s, NEW r, NEW k, Loses(s, r, k), NEW h
  PROVE  EvLater(s, r, h)
<1>. USE DEF Loses
<1>0. \A i \in DOMAIN r : i \in Int /\ i + 1 \in DOMAIN s /\ r[i] = s[i + 1]
  OBVIOUS
<1>1. /\ Silent(s, h) => Silent(r, h)
      /\ Announced(h, "delete_id", r) => Announced(h, "delete_id", s)
      /\ HasResult(r, h) => HasResult(s, h)
      /\ OnlyResults(s, h) => OnlyResults(r, h)
      /\ Coming(r, h) => Coming(s, h)
  BY <1>0 DEF Silent, Announced, HasResult, OnlyResults, Coming
<1>2. OneResult(s, h) => OneResult(r, h)
  BY <1>0 DEF OneResult
<1>3. ASSUME NEW n, Events(s, h, n) PROVE Events(r, h, n)
  <2>. SUFFICES ASSUME NEW i \in DOMAIN r
                PROVE  /\ Means(r[i], h, n)
                       /\ Is(r[i], "delete_id", h) =>
                            \A j \in DOMAIN r : i < j /\ Mentions(r[j], h) => IsResult(r[j], h)
                       /\ Is(r[i], "done", h) =>
                            i + 1 \in DOMAIN r /\ Is(r[i + 1], "delete_id", h)
    BY DEF Events
  <2>1. Means(r[i], h, n)
    BY <1>0, <1>3 DEF Events
  <2>2. ASSUME Is(r[i], "delete_id", h), NEW j \in DOMAIN r, i < j, Mentions(r[j], h)
        PROVE  IsResult(r[j], h)
    <3>1. j + 1 \in DOMAIN s /\ r[j] = s[j + 1] /\ i + 1 < j + 1
      BY <1>0, <2>2
    <3>. QED
      BY <1>0, <1>3, <2>2, <3>1 DEF Events
  <2>3. ASSUME Is(r[i], "done", h) PROVE i + 1 \in DOMAIN r /\ Is(r[i + 1], "delete_id", h)
    <3>1. (i + 1) + 1 \in DOMAIN s /\ Is(s[(i + 1) + 1], "delete_id", h)
      BY <1>0, <1>3, <2>3 DEF Events
    <3>2. i + 1 \in DOMAIN r
      BY <1>0, <3>1
    <3>. QED
      BY <1>0, <3>1, <3>2
  <2>. QED
    BY <2>1, <2>2, <2>3
<1>4. ASSUME NEW n, Meant(s, h, n) PROVE Meant(r, h, n)
  BY <1>0, <1>4 DEF Meant
<1>5. ASSUME NEW n, Fresh(s, h, n) PROVE Fresh(r, h, n)
  BY <1>0, <1>5 DEF Fresh
<1>. QED
  BY <1>1, <1>2, <1>3, <1>4, <1>5 DEF EvLater

-----------------------------------------------------------------------------
(* Requests that name h                                                    *)

LEMMA SendNew ==
  ASSUME NEW q, NEW m, NEW r, NEW k, Joins(q, m, r, k), NEW h, NEW o, NEW n,
         Is(m, "new", h), m.born = n, Silent(q, h), o = None
  PROVE  /\ Requests(r, o, h, n) /\ Announced(h, "new", r) /\ OneIn(r, h)
         /\ \A op : op # "new" => ~Announced(h, op, r)
         /\ m.interface # "callback" => NotCallback(r, o, h)
<1>. USE DEF Joins
<1>1. \A i \in DOMAIN r : Mentions(r[i], h) => i = k + 1 /\ r[i] = m
  BY DEF Silent
<1>2. k + 1 \in DOMAIN r /\ m.op = "new" /\ m.id = h /\ r[k + 1] = m
  BY DEF Is
<1>3. Announced(h, "new", r)
  BY <1>2 DEF Announced
<1>4. \A op : op # "new" => ~Announced(h, op, r)
  BY <1>1, <1>2 DEF Announced, Mentions
<1>5. OneIn(r, h)
  BY <1>1 DEF OneIn, Is, Mentions
<1>6. m.interface # "callback" => NotCallback(r, o, h)
  BY <1>1 DEF NotCallback, Is, Mentions
<1>7. \A i \in DOMAIN r : Means(r[i], h, n)
  BY <1>1, <1>2 DEF Means, Mentions
<1>8. Requests(r, o, h, n)
  BY <1>1, <1>2, <1>7 DEF Requests, Is, Mentions
<1>. QED
  BY <1>3, <1>4, <1>5, <1>6, <1>8

LEMMA JoinsMembers ==
  ASSUME NEW q, NEW m, NEW r, NEW k, Joins(q, m, r, k), NEW h, NEW o
  PROVE  /\ \A op : op # m.op \/ m.id # h => (Announced(h, op, r) <=> Announced(h, op, q))
         /\ m.op # "new" => (NotCallback(r, o, h) <=> NotCallback(q, o, h))
         /\ m.op # "create" \/ ~Announced(h, "create", q) => (OneIn(q, h) => OneIn(r, h))
<1>. USE DEF Joins
<1>1. \A op : op # m.op \/ m.id # h => (Announced(h, op, r) <=> Announced(h, op, q))
  BY DEF Announced
<1>2. m.op # "new" => (NotCallback(r, o, h) <=> NotCallback(q, o, h))
  BY DEF NotCallback, Is
<1>3. m.op # "create" \/ ~Announced(h, "create", q) => (OneIn(q, h) => OneIn(r, h))
  BY DEF OneIn, Is, Announced
<1>. QED
  BY <1>1, <1>2, <1>3

\* A request of, or to, an object the host has or will have.
LEMMA SendUse ==
  ASSUME NEW q, NEW m, NEW r, NEW k, Joins(q, m, r, k), NEW h, NEW o, NEW n,
         m.op # "new", m.op = "destroy" => Mentions(m, h) /\ m.id = h,
         Means(m, h, n), Requests(q, o, h, n), Alive(q, o, h), NotCallback(q, o, h)
  PROVE  /\ Requests(r, o, h, n) /\ NotCallback(r, o, h)
         /\ m.op # "destroy" => Alive(r, o, h)
<1>1. Announced(h, "new", r) <=> Announced(h, "new", q)
  BY JoinsMembers
<1>2. NotCallback(r, o, h)
  BY JoinsMembers
<1>3. m.op # "destroy" => Alive(r, o, h)
  BY <1>1, JoinsMembers DEF Alive
<1>. USE DEF Joins
<1>4. ASSUME NEW i \in DOMAIN r
      PROVE  /\ Means(r[i], h, n)
             /\ Is(r[i], "new", h) => o = None /\ \A j \in DOMAIN r : Mentions(r[j], h) => i =< j
             /\ Is(r[i], "destroy", h) => \A j \in DOMAIN r : Mentions(r[j], h) => j =< i
             /\ Mentions(r[i], h) /\ r[i].op # "new" =>
                  (o # None \/ Announced(h, "new", r)) /\ NotCallback(r, o, h)
  <2>1. CASE i = k + 1
    <3>1. r[i] = m /\ \A j \in DOMAIN r : j =< i
      BY <2>1
    <3>. QED
      BY <3>1, <1>1, <1>2 DEF Alive, Is
  <2>2. CASE i \in 1 .. k
    <3>1. r[i] = q[i] /\ i \in DOMAIN q /\ i =< k + 1
      BY <2>2
    <3>2. ~Is(q[i], "destroy", h)
      BY <3>1 DEF Alive, Announced, Is
    <3>3. \A j \in DOMAIN r : (j \in DOMAIN q /\ r[j] = q[j]) \/ j = k + 1
      OBVIOUS
    <3>. QED
      BY <3>1, <3>2, <3>3, <1>1, <1>2 DEF Requests, Alive
  <2>. QED
    BY <2>1, <2>2
<1>5. o # None => o.born = n
  BY DEF Requests
<1>. QED
  BY <1>2, <1>3, <1>4, <1>5 DEF Requests

\* The host reads a request that names h.
LEMMA ReadNew ==
  ASSUME NEW q, NEW r, NEW k, Loses(q, r, k), NEW h, NEW o, NEW n, NEW p,
         Is(q[1], "new", h), Requests(q, o, h, n),
         p # None, p.born = q[1].born, p.interface = q[1].interface
  PROVE  /\ Requests(r, p, h, n) /\ ~Announced(h, "new", r)
         /\ \A op : op # "new" => (Announced(h, op, r) <=> Announced(h, op, q))
         /\ NotCallback(q, o, h) => NotCallback(r, p, h)
         /\ OneIn(q, h) => OneIn(r, h)
<1>. USE DEF Loses
<1>0. 1 \in DOMAIN q /\ q[1].op = "new" /\ q[1].id = h /\ q[1].born = n /\ o = None
  BY DEF Is, Requests, Means
<1>1. \A i \in DOMAIN r : i \in Int /\ i + 1 \in DOMAIN q /\ r[i] = q[i + 1] /\ i + 1 # 1
  OBVIOUS
<1>2. \A i \in DOMAIN q : Is(q[i], "new", h) => i = 1
  BY <1>0 DEF Requests, Is, Mentions
<1>3. ~Announced(h, "new", r)
  BY <1>1, <1>2 DEF Announced, Is
<1>4. ASSUME NEW op, op # "new" PROVE Announced(h, op, r) <=> Announced(h, op, q)
  <2>1. \A i \in DOMAIN q : i # 1 => i - 1 \in DOMAIN r /\ r[i - 1] = q[i]
    OBVIOUS
  <2>. QED
    BY <1>0, <1>1, <1>4, <2>1 DEF Announced
<1>5. NotCallback(q, o, h) => NotCallback(r, p, h)
  BY <1>0, <1>1, <1>2 DEF NotCallback, Is
<1>6. OneIn(q, h) => OneIn(r, h)
  BY <1>1 DEF OneIn
<1>7. ASSUME NEW i \in DOMAIN r
      PROVE  /\ Means(r[i], h, n)
             /\ ~Is(r[i], "new", h)
             /\ Is(r[i], "destroy", h) => \A j \in DOMAIN r : Mentions(r[j], h) => j =< i
             /\ Mentions(r[i], h) => NotCallback(r, p, h)
  <2>1. Means(r[i], h, n) /\ ~Is(r[i], "new", h)
    BY <1>1, <1>2 DEF Requests
  <2>2. ASSUME Is(r[i], "destroy", h), NEW j \in DOMAIN r, Mentions(r[j], h) PROVE j =< i
    <3>1. j + 1 =< i + 1
      BY <1>1, <2>2 DEF Requests
    <3>. QED
      BY <3>1, <1>1
  <2>3. ASSUME Mentions(r[i], h) PROVE NotCallback(r, p, h)
    <3>1. r[i].op # "new"
      BY <2>1, <2>3 DEF Is, Mentions
    <3>. QED
      BY <3>1, <2>3, <1>1, <1>5 DEF Requests
  <2>. QED
    BY <2>1, <2>2, <2>3
<1>8. Requests(r, p, h, n)
  BY <1>0, <1>7 DEF Requests
<1>. QED
  BY <1>3, <1>4, <1>5, <1>6, <1>8

LEMMA ReadDestroy ==
  ASSUME NEW q, NEW r, NEW k, Loses(q, r, k), NEW h, NEW o, NEW n,
         Is(q[1], "destroy", h), Requests(q, o, h, n)
  PROVE  Silent(r, h)
<1>. USE DEF Loses
<1>1. 1 \in DOMAIN q /\ \A j \in DOMAIN q : Mentions(q[j], h) => j =< 1
  BY DEF Requests
<1>2. \A i \in DOMAIN r : i + 1 \in DOMAIN q /\ r[i] = q[i + 1] /\ ~(i + 1 =< 1)
  OBVIOUS
<1>. QED
  BY <1>1, <1>2 DEF Silent

LEMMA ReadUse ==
  ASSUME NEW q, NEW r, NEW k, Loses(q, r, k), NEW h, NEW o, NEW n,
         Mentions(q[1], h), q[1].op \notin {"new", "destroy"}, Requests(q, o, h, n)
  PROVE  /\ o # None /\ Requests(r, o, h, n)
         /\ \A op : op # q[1].op => (Announced(h, op, r) <=> Announced(h, op, q))
         /\ NotCallback(q, o, h) => NotCallback(r, o, h)
         /\ OneIn(q, h) => /\ OneIn(r, h)
                           /\ Is(q[1], "create", h) => ~Announced(h, "create", r)
<1>. USE DEF Loses
<1>0. 1 \in DOMAIN q
  OBVIOUS
<1>1. \A i \in DOMAIN r : i \in Int /\ i + 1 \in DOMAIN q /\ r[i] = q[i + 1] /\ i + 1 # 1
  OBVIOUS
<1>2. \A i \in DOMAIN q : i # 1 => i - 1 \in DOMAIN r /\ r[i - 1] = q[i]
  OBVIOUS
<1>3. \A i \in DOMAIN q : ~Is(q[i], "new", h)
  <2>. SUFFICES ASSUME NEW i \in DOMAIN q, Is(q[i], "new", h) PROVE FALSE
    OBVIOUS
  <2>1. i =< 1
    BY <1>0 DEF Requests
  <2>2. i = 1
    BY <2>1
  <2>. QED
    BY <2>2 DEF Is
<1>4. o # None
  BY <1>0, <1>3 DEF Requests, Announced, Is
<1>5. ASSUME NEW op, op # q[1].op PROVE Announced(h, op, r) <=> Announced(h, op, q)
  BY <1>1, <1>2, <1>5 DEF Announced
<1>6. NotCallback(q, o, h) => NotCallback(r, o, h)
  BY <1>1 DEF NotCallback
<1>7. OneIn(q, h) => /\ OneIn(r, h)
                     /\ Is(q[1], "create", h) => ~Announced(h, "create", r)
  BY <1>0, <1>1 DEF OneIn, Announced, Is
<1>8. ASSUME NEW i \in DOMAIN r
      PROVE  /\ Means(r[i], h, n)
             /\ ~Is(r[i], "new", h)
             /\ Is(r[i], "destroy", h) => \A j \in DOMAIN r : Mentions(r[j], h) => j =< i
             /\ Mentions(r[i], h) /\ r[i].op # "new" => NotCallback(r, o, h)
  <2>1. Means(r[i], h, n) /\ ~Is(r[i], "new", h)
    BY <1>1, <1>3 DEF Requests
  <2>2. ASSUME Is(r[i], "destroy", h), NEW j \in DOMAIN r, Mentions(r[j], h) PROVE j =< i
    <3>1. j + 1 =< i + 1
      BY <1>1, <2>2 DEF Requests
    <3>. QED
      BY <3>1, <1>1
  <2>3. ASSUME Mentions(r[i], h), r[i].op # "new" PROVE NotCallback(r, o, h)
    BY <2>3, <1>1, <1>6 DEF Requests
  <2>. QED
    BY <2>1, <2>2, <2>3
<1>9. o # None => o.born = n
  BY DEF Requests
<1>10. Requests(r, o, h, n)
  BY <1>4, <1>8, <1>9 DEF Requests
<1>. QED
  BY <1>4, <1>5, <1>6, <1>7, <1>10

-----------------------------------------------------------------------------
(* Events that name h                                                      *)

LEMMA JoinsEvents ==
  ASSUME NEW r, NEW m, NEW s, NEW k, Joins(r, m, s, k), NEW h
  PROVE  /\ Silent(s, h) <=> Silent(r, h) /\ ~Mentions(m, h)
         /\ \A op : Announced(h, op, s) <=> Announced(h, op, r) \/ Is(m, op, h)
         /\ HasResult(s, h) <=> HasResult(r, h) \/ IsResult(m, h)
         /\ OneResult(r, h) /\ (IsResult(m, h) => ~HasResult(r, h)) => OneResult(s, h)
         /\ OnlyResults(r, h) /\ (Mentions(m, h) => IsResult(m, h)) => OnlyResults(s, h)
         /\ Coming(s, h) <=> Coming(r, h) \/ Introduces(m, h)
<1>. USE DEF Joins
<1>0. /\ k + 1 \in DOMAIN s /\ s[k + 1] = m
      /\ \A i \in DOMAIN r : i \in DOMAIN s /\ s[i] = r[i]
      /\ \A i \in DOMAIN s : i = k + 1 \/ i \in DOMAIN r
  OBVIOUS
<1>1. Silent(s, h) <=> Silent(r, h) /\ ~Mentions(m, h)
  BY <1>0 DEF Silent
<1>2. \A op : Announced(h, op, s) <=> Announced(h, op, r) \/ Is(m, op, h)
  BY <1>0 DEF Announced, Is
<1>3. HasResult(s, h) <=> HasResult(r, h) \/ IsResult(m, h)
  BY <1>0 DEF HasResult
<1>4. OneResult(r, h) /\ (IsResult(m, h) => ~HasResult(r, h)) => OneResult(s, h)
  BY <1>0 DEF OneResult, HasResult
<1>5. OnlyResults(r, h) /\ (Mentions(m, h) => IsResult(m, h)) => OnlyResults(s, h)
  BY <1>0 DEF OnlyResults
<1>6. Coming(s, h) <=> Coming(r, h) \/ Introduces(m, h)
  BY <1>0 DEF Coming
<1>. QED
  BY <1>1, <1>2, <1>3, <1>4, <1>5, <1>6

LEMMA JoinsMeanings ==
  ASSUME NEW r, NEW m, NEW s, NEW k, Joins(r, m, s, k), NEW h, NEW n, Means(m, h, n)
  PROVE  /\ Meant(r, h, n) => Meant(s, h, n)
         /\ Fresh(r, h, n) /\ ~Introduces(m, h) => Fresh(s, h, n)
         /\ ~Coming(r, h) /\ (Introduces(m, h) => m.new_born = n) => Fresh(s, h, n)
         /\ /\ Events(r, h, n) /\ ~Is(m, "done", h)
            /\ Mentions(m, h) => IsResult(m, h) \/ ~Announced(h, "delete_id", r)
            => Events(s, h, n)
<1>. USE DEF Joins
<1>0. /\ k + 1 \in DOMAIN s /\ s[k + 1] = m /\ k \in Int
      /\ \A i \in DOMAIN r : i \in DOMAIN s /\ s[i] = r[i] /\ i < k + 1 /\ i \in Int
      /\ \A i \in DOMAIN s : i = k + 1 \/ i \in DOMAIN r
  OBVIOUS
<1>1. Meant(r, h, n) => Meant(s, h, n)
  BY <1>0 DEF Meant
<1>2. Fresh(r, h, n) /\ ~Introduces(m, h) => Fresh(s, h, n)
  BY <1>0 DEF Fresh
<1>3. ASSUME ~Coming(r, h), Introduces(m, h) => m.new_born = n PROVE Fresh(s, h, n)
  <2>1. \A i \in DOMAIN s : Introduces(s[i], h) => i = k + 1
    BY <1>0, <1>3 DEF Coming
  <2>2. \A j \in DOMAIN s : k + 1 =< j => j = k + 1
    BY <1>0
  <2>. QED
    BY <1>0, <1>3, <2>1, <2>2 DEF Fresh
<1>4. ASSUME Events(r, h, n), ~Is(m, "done", h),
             Mentions(m, h) => IsResult(m, h) \/ ~Announced(h, "delete_id", r)
      PROVE  Events(s, h, n)
  <2>. SUFFICES ASSUME NEW i \in DOMAIN s
                PROVE  /\ Means(s[i], h, n)
                       /\ Is(s[i], "delete_id", h) =>
                            \A j \in DOMAIN s : i < j /\ Mentions(s[j], h) => IsResult(s[j], h)
                       /\ Is(s[i], "done", h) =>
                            i + 1 \in DOMAIN s /\ Is(s[i + 1], "delete_id", h)
    BY DEF Events
  <2>1. CASE i = k + 1
    <3>1. \A j \in DOMAIN s : ~(i < j)
      BY <2>1
    <3>. QED
      BY <1>0, <1>4, <2>1, <3>1
  <2>2. CASE i \in DOMAIN r
    <3>1. s[i] = r[i]
      BY <1>0, <2>2
    <3>2. ASSUME Is(s[i], "delete_id", h), NEW j \in DOMAIN s, i < j, Mentions(s[j], h)
          PROVE  IsResult(s[j], h)
      <4>1. CASE j \in DOMAIN r
        BY <1>0, <1>4, <2>2, <3>1, <3>2, <4>1 DEF Events
      <4>2. CASE j = k + 1
        BY <1>0, <1>4, <2>2, <3>1, <3>2, <4>2 DEF Announced, Is
      <4>. QED
        BY <1>0, <4>1, <4>2
    <3>3. ASSUME Is(s[i], "done", h) PROVE i + 1 \in DOMAIN s /\ Is(s[i + 1], "delete_id", h)
      BY <1>0, <1>4, <2>2, <3>1, <3>3 DEF Events
    <3>. QED
      BY <1>4, <2>2, <3>1, <3>2, <3>3 DEF Events
  <2>. QED
    BY <1>0, <2>1, <2>2
<1>. QED
  BY <1>1, <1>2, <1>3, <1>4

\* done and delete_id, sent together.
LEMMA JoinsDone ==
  ASSUME NEW r, NEW d, NEW p, NEW e, NEW s, NEW k, Joins(r, d, p, k), Joins(p, e, s, k + 1),
         NEW h, NEW n, Is(d, "done", h), Is(e, "delete_id", h), Means(d, h, n), Means(e, h, n),
         Events(r, h, n), ~Announced(h, "delete_id", r)
  PROVE  Events(s, h, n)
<1>. USE DEF Joins
<1>0. /\ k \in Int /\ k + 1 \in DOMAIN s /\ k + 2 \in DOMAIN s /\ s[k + 1] = d /\ s[k + 2] = e
      /\ \A i \in DOMAIN r : i \in DOMAIN s /\ s[i] = r[i] /\ i < k + 1 /\ i \in Int
      /\ \A i \in DOMAIN s : i = k + 2 \/ i = k + 1 \/ i \in DOMAIN r
  OBVIOUS
<1>1. ~Is(d, "delete_id", h) /\ ~Is(e, "done", h)
  BY DEF Is
<1>. SUFFICES ASSUME NEW i \in DOMAIN s
              PROVE  /\ Means(s[i], h, n)
                     /\ Is(s[i], "delete_id", h) =>
                          \A j \in DOMAIN s : i < j /\ Mentions(s[j], h) => IsResult(s[j], h)
                     /\ Is(s[i], "done", h) =>
                          i + 1 \in DOMAIN s /\ Is(s[i + 1], "delete_id", h)
  BY DEF Events
<1>2. CASE i = k + 2
  <2>1. \A j \in DOMAIN s : ~(i < j)
    BY <1>2
  <2>. QED
    BY <1>0, <1>1, <1>2, <2>1
<1>3. CASE i = k + 1
  <2>1. i + 1 = k + 2
    BY <1>0, <1>3
  <2>. QED
    BY <1>0, <1>1, <1>3, <2>1
<1>4. CASE i \in DOMAIN r
  <2>1. s[i] = r[i]
    BY <1>0, <1>4
  <2>2. ~Is(s[i], "delete_id", h)
    BY <1>4, <2>1 DEF Announced, Is
  <2>. QED
    BY <1>0, <1>4, <2>1, <2>2 DEF Events
<1>. QED
  BY <1>0, <1>2, <1>3, <1>4

\* The proxy takes an event that names h.
LEMMA TakeEvent ==
  ASSUME NEW r, NEW s, NEW k, Loses(r, s, k), NEW h, NEW n
  PROVE  /\ Is(r[1], "delete_id", h) /\ Events(r, h, n) => OnlyResults(s, h)
         /\ Is(r[1], "done", h) /\ Events(r, h, n) => Announced(h, "delete_id", s)
         /\ IsResult(r[1], h) /\ OneResult(r, h) => ~HasResult(s, h)
         /\ Introduces(r[1], h) /\ Fresh(r, h, n) =>
              Meant(s, h, n) /\ ~Coming(s, h) /\ r[1].new_born = n
         /\ Events(r, h, n) \/ Meant(r, h, n) => Means(r[1], h, n)
         /\ OnlyResults(s, h) /\ ~HasResult(s, h) => Silent(s, h)
         /\ Coming(r, h) /\ ~Introduces(r[1], h) => Coming(s, h)
         /\ \A op : Announced(h, op, r) /\ ~Is(r[1], op, h) => Announced(h, op, s)
<1>. USE DEF Loses
<1>0. /\ 1 \in DOMAIN r
      /\ \A i \in DOMAIN s : /\ i \in Int /\ i + 1 \in DOMAIN r /\ s[i] = r[i + 1]
                             /\ 1 < i + 1 /\ i + 1 # 1 /\ 1 =< i + 1
      /\ \A i \in DOMAIN r : i # 1 => i - 1 \in DOMAIN s /\ s[i - 1] = r[i]
  OBVIOUS
<1>1. Is(r[1], "delete_id", h) /\ Events(r, h, n) => OnlyResults(s, h)
  BY <1>0 DEF Events, OnlyResults
<1>2. ASSUME Is(r[1], "done", h), Events(r, h, n) PROVE Announced(h, "delete_id", s)
  <2>1. 1 + 1 \in DOMAIN r /\ Is(r[1 + 1], "delete_id", h)
    BY <1>0, <1>2 DEF Events
  <2>2. 1 \in DOMAIN s /\ s[1] = r[1 + 1]
    BY <2>1
  <2>. QED
    BY <2>1, <2>2 DEF Announced, Is
<1>3. IsResult(r[1], h) /\ OneResult(r, h) => ~HasResult(s, h)
  BY <1>0 DEF OneResult, HasResult
<1>4. Introduces(r[1], h) /\ Fresh(r, h, n) =>
        Meant(s, h, n) /\ ~Coming(s, h) /\ r[1].new_born = n
  BY <1>0 DEF Fresh, Meant, Coming
<1>5. Events(r, h, n) \/ Meant(r, h, n) => Means(r[1], h, n)
  BY <1>0 DEF Events, Meant
<1>6. OnlyResults(s, h) /\ ~HasResult(s, h) => Silent(s, h)
  BY DEF OnlyResults, HasResult, Silent
<1>7. Coming(r, h) /\ ~Introduces(r[1], h) => Coming(s, h)
  BY <1>0 DEF Coming
<1>8. \A op : Announced(h, op, r) /\ ~Is(r[1], op, h) => Announced(h, op, s)
  BY <1>0 DEF Announced, Is
<1>. QED
  BY <1>1, <1>2, <1>3, <1>4, <1>5, <1>6, <1>7, <1>8

-----------------------------------------------------------------------------
(* The inductive invariant                                                 *)

\* The host has nothing under h and is about to read nothing of it.
Gone(h) == hostObj[h] = None /\ Silent(toHost, h)

\* An asynchronous create under h has yet to be answered; there is one at most.
InSet(C, h) == \E p \in C : p.id = h
OneOf(C, h) == \A p, q \in C : p.id = h /\ q.id = h => p = q
Creating(h) == \/ Announced(h, "create", toHost) \/ InSet(hostCreates, h)
               \/ HasResult(toProxy, h)
OneCreate(h) ==
  /\ OneIn(toHost, h) /\ OneOf(hostCreates, h) /\ OneResult(toProxy, h)
  /\ Announced(h, "create", toHost) => ~InSet(hostCreates, h) /\ ~HasResult(toProxy, h)
  /\ InSet(hostCreates, h) => ~HasResult(toProxy, h)

\* The pair of h: what the guest has not destroyed, and what waits for a
\* release, the host has.  Only a callback goes without a destructor.
PairInv(h, n) ==
  h2g[h] # None =>
    /\ guestObj[h2g[h]] # None => guestObj[h2g[h]].born = n
    /\ interfaces[h2g[h]] # "callback" => NotCallback(toHost, hostObj[h], h)
    /\ h2g[h] \notin pendingGuest /\ interfaces[h2g[h]] # "callback"
         => Alive(toHost, hostObj[h], h)
    /\ h \in deferred => Alive(toHost, hostObj[h], h)
    /\ interfaces[h2g[h]] = "params" => hostIfaces[h] = None

DeferredInv(h) ==
  h \in deferred => /\ h2g[h] # None /\ h2g[h] \in pendingGuest
                    /\ interfaces[h2g[h]] = None

\* A client-range ID: nothing names it once it is free, and nothing but a late
\* result comes after its delete_id.
EventInv(h, n) ==
  /\ Events(toProxy, h, n)
  /\ Announced(h, "delete_id", toProxy) => Gone(h)
FreeInv(h) ==
  /\ IsHostIdAvailable(h) => Gone(h) /\ Silent(toProxy, h) /\ ~Creating(h)
  /\ h \in pendingHost => hostIfaces[h] = None

\* A create under way is known as such, or its params as orphaned.
LiveParams(h) == /\ h2g[h] # None /\ h2g[h] \notin pendingGuest
                 /\ interfaces[h2g[h]] = "params"
OrphanInv(h) ==
  orphaned[h] # None =>
    /\ h \notin pendingHost
    /\ h2g[h] = None => hostIfaces[h] = "params" /\ Gone(h) /\ OnlyResults(toProxy, h)
    /\ h2g[h] # None => /\ h2g[h] = orphaned[h] /\ h2g[h] \in pendingGuest
                        /\ interfaces[h2g[h]] = "params"
CreateInv(h, n) ==
  /\ \A p \in hostCreates : p.id = h => p.born = n
  /\ h \in creates => LiveParams(h)
  /\ Creating(h) => h \in creates \/ orphaned[h] # None
  /\ LiveParams(h) /\ h2g[h] \notin usedParams => ~Creating(h)
  /\ OneCreate(h)

\* A server-range ID: it is mapped from the event that introduces its object to
\* the destructor the proxy sends.
ServerInv(h, n) ==
  /\ h2g[h] # None => /\ Meant(toProxy, h, n) /\ interfaces[h2g[h]] # "callback"
                      /\ h2g[h] \in pendingGuest => h \in deferred
  /\ Fresh(toProxy, h, n)
  /\ Coming(toProxy, h) => hostObj[h] # None /\ Silent(toHost, h) /\ h2g[h] = None
  /\ NotCallback(toHost, hostObj[h], h) /\ ~Announced(h, "new", toHost)

\* The host uses an object it has, which is not a callback.
UsedObject(U, o, h) == h \in U => o # None /\ o.interface # "callback"

HostInv(h, n) ==
  /\ Requests(toHost, hostObj[h], h, n)
  /\ UsedObject(hostUses, hostObj[h], h)
  /\ PairInv(h, n) /\ DeferredInv(h)
  /\ h \in HostIds => EventInv(h, n) /\ FreeInv(h) /\ OrphanInv(h) /\ CreateInv(h, n)
  /\ h \in HostServerIds => ServerInv(h, n)

GuestInv(g) ==
  /\ g2h[g] # None => (g \in ClientIds <=> g2h[g] \in HostIds)
  /\ g \in pendingGuest =>
       /\ g2h[g] # None
       /\ g \in ClientIds => guestObj[g] # None /\ guestObj[g].state = "destroyed"
       /\ g \in ServerIds => guestObj[g] = None
  /\ g \notin pendingGuest =>
       /\ guestObj[g] = None => IsGuestIdAvailable(g)
       /\ guestObj[g] # None =>
            /\ guestObj[g].state = "live" /\ interfaces[g] = guestObj[g].interface
            /\ interfaces[g] = "local" <=> g2h[g] = None

\* Which range the ID of a message lies in.
IdRanges ==
  /\ \A i \in DOMAIN toHost :
       toHost[i].op \in {"new", "create"} => toHost[i].id \in HostIds
  /\ \A i \in DOMAIN toProxy :
       toProxy[i].op \in {"done", "created", "failed", "delete_id"} =>
         toProxy[i].id \in HostIds

Maps ==
  /\ \A g \in Guests : g2h[g] # None => h2g[g2h[g]] = g
  /\ \A h \in Hosts : h2g[h] # None => g2h[h2g[h]] = h /\ h \notin pendingHost

ObjectInv ==
  /\ TypeOK /\ Maps /\ IdRanges
  /\ fatal \notin {"guest_new_id", "guest_object"}
  /\ \A g \in Guests : GuestInv(g)
  /\ \A h \in Hosts : \E n \in Born : HostInv(h, n)

-----------------------------------------------------------------------------
(* IDs that a step is not about                                            *)

\* Nothing the tables or the host hold under h changes.
Undisturbed(h) ==
  /\ h2g'[h] = h2g[h] /\ hostIfaces'[h] = hostIfaces[h]
  /\ h \in pendingHost' <=> h \in pendingHost
  /\ hostObj'[h] = hostObj[h]
  /\ h \in deferred' <=> h \in deferred
  /\ h \in hostUses' => h \in hostUses
  /\ \A p : p \in hostCreates' /\ p.id = h <=> p \in hostCreates /\ p.id = h
  /\ h \in HostIds => /\ h \in creates' <=> h \in creates
                      /\ orphaned'[h] = orphaned[h]
  /\ h2g[h] # None =>
       /\ guestObj'[h2g[h]] = guestObj[h2g[h]] /\ interfaces'[h2g[h]] = interfaces[h2g[h]]
       /\ h2g[h] \in pendingGuest' <=> h2g[h] \in pendingGuest
       /\ h2g[h] \in usedParams' <=> h2g[h] \in usedParams

LEMMA Untouched ==
  ASSUME NEW h \in Hosts, NEW n, HostInv(h, n), Undisturbed(h),
         ReqSame(toHost, toHost', h), EvLater(toProxy, toProxy', h)
  PROVE  HostInv(h, n)'
<1>1. /\ Silent(toHost', h) <=> Silent(toHost, h)
      /\ \A op : Announced(h, op, toHost') <=> Announced(h, op, toHost)
      /\ NotCallback(toHost', hostObj'[h], h) <=> NotCallback(toHost, hostObj[h], h)
      /\ Requests(toHost', hostObj'[h], h, n)
      /\ OneIn(toHost, h) => OneIn(toHost', h)
  BY DEF ReqSame, Undisturbed, HostInv
<1>2. Alive(toHost', hostObj'[h], h) <=> Alive(toHost, hostObj[h], h)
  BY <1>1 DEF Alive, Undisturbed
<1>3. Gone(h)' <=> Gone(h)
  BY <1>1 DEF Gone, Undisturbed
<1>4. /\ Silent(toProxy, h) => Silent(toProxy', h)
      /\ Announced(h, "delete_id", toProxy') => Announced(h, "delete_id", toProxy)
      /\ HasResult(toProxy', h) => HasResult(toProxy, h)
      /\ OneResult(toProxy, h) => OneResult(toProxy', h)
      /\ OnlyResults(toProxy, h) => OnlyResults(toProxy', h)
      /\ Coming(toProxy', h) => Coming(toProxy, h)
      /\ Events(toProxy, h, n) => Events(toProxy', h, n)
      /\ Meant(toProxy, h, n) => Meant(toProxy', h, n)
      /\ Fresh(toProxy, h, n) => Fresh(toProxy', h, n)
  BY DEF EvLater
<1>5. InSet(hostCreates', h) <=> InSet(hostCreates, h)
  BY DEF InSet, Undisturbed
<1>6. OneOf(hostCreates, h) => OneOf(hostCreates', h)
  BY DEF OneOf, Undisturbed
<1>7. Creating(h)' => Creating(h)
  BY <1>1, <1>4, <1>5 DEF Creating
<1>8. OneCreate(h) => OneCreate(h)'
  BY <1>1, <1>4, <1>5, <1>6 DEF OneCreate
<1>9. PairInv(h, n)'
  BY <1>1, <1>2 DEF HostInv, PairInv, Undisturbed
<1>10. DeferredInv(h)'
  BY DEF HostInv, DeferredInv, Undisturbed
<1>11. UsedObject(hostUses', hostObj'[h], h)
  BY DEF HostInv, Undisturbed, UsedObject
<1>12. ASSUME h \in HostIds PROVE (EventInv(h, n) /\ FreeInv(h) /\ OrphanInv(h) /\ CreateInv(h, n))'
  <2>1. EventInv(h, n)'
    BY <1>3, <1>4, <1>12 DEF HostInv, EventInv
  <2>2. FreeInv(h)'
    BY <1>3, <1>4, <1>7, <1>12 DEF HostInv, FreeInv, IsHostIdAvailable, Undisturbed
  <2>3. OrphanInv(h)'
    BY <1>3, <1>4, <1>12 DEF HostInv, OrphanInv, Undisturbed
  <2>4. LiveParams(h)' <=> LiveParams(h)
    BY DEF LiveParams, Undisturbed
  <2>5. \A p \in hostCreates' : p.id = h => p.born = n
    BY <1>12 DEF HostInv, CreateInv, Undisturbed
  <2>6. CreateInv(h, n)'
    <3>1. h \in creates' => LiveParams(h)'
      BY <1>12, <2>4 DEF HostInv, CreateInv, Undisturbed
    <3>2. Creating(h)' => h \in creates' \/ orphaned'[h] # None
      BY <1>7, <1>12 DEF HostInv, CreateInv, Undisturbed
    <3>3. LiveParams(h)' /\ h2g'[h] \notin usedParams' => ~Creating(h)'
      BY <1>7, <1>12, <2>4 DEF HostInv, CreateInv, Undisturbed, LiveParams
    <3>4. OneCreate(h)'
      BY <1>8, <1>12 DEF HostInv, CreateInv
    <3>. QED
      BY <2>5, <3>1, <3>2, <3>3, <3>4 DEF CreateInv
  <2>. QED
    BY <2>1, <2>2, <2>3, <2>6
<1>13. ASSUME h \in HostServerIds PROVE ServerInv(h, n)'
  BY <1>1, <1>4, <1>13 DEF HostInv, ServerInv, Undisturbed
<1>. QED
  BY <1>1, <1>9, <1>10, <1>11, <1>12, <1>13 DEF HostInv

-----------------------------------------------------------------------------
(* Messages sent and received                                              *)

LEMMA QueueTypes ==
  ASSUME TypeOK
  PROVE  /\ toHost \in Seq(Request) /\ toProxy \in Seq(Event)
         /\ \A i \in DOMAIN toHost : toHost[i] \in Request
         /\ \A i \in DOMAIN toProxy : toProxy[i] \in Event
<1>1. toHost \in Seq(Request) /\ toProxy \in Seq(Event)
  BY DEF TypeOK
<1>. QED
  BY <1>1, LenProperties, ElementOfSeq

LEMMA RequestPlain ==
  ASSUME NEW m \in Request, NEW h
  PROVE  ~Introduces(m, h)
BY DEF Request, Introduces

LEMMA ReqKept ==
  ASSUME UNCHANGED toHost, NEW h
  PROVE  ReqSame(toHost, toHost', h)
BY DEF ReqSame

LEMMA EvKept ==
  ASSUME UNCHANGED toProxy, NEW h
  PROVE  EvLater(toProxy, toProxy', h)
BY DEF EvLater

LEMMA ReqSent ==
  ASSUME TypeOK, NEW m \in Request, toHost' = toHost \o <<m>>, NEW h, ~Mentions(m, h)
  PROVE  ReqSame(toHost, toHost', h)
<1>1. Joins(toHost, m, toHost', Len(toHost))
  BY AppendJoins DEF TypeOK
<1>. QED
  BY <1>1, JoinsSame, SameReqs, RequestPlain DEF Touches

LEMMA EvSent ==
  ASSUME TypeOK, NEW m \in Event, toProxy' = toProxy \o <<m>>, NEW h, ~Touches(m, h)
  PROVE  EvLater(toProxy, toProxy', h)
<1>1. Joins(toProxy, m, toProxy', Len(toProxy))
  BY AppendJoins DEF TypeOK
<1>. QED
  BY <1>1, JoinsSame, SameEvents

LEMMA EvTaken ==
  ASSUME TypeOK, toProxy # <<>>, toProxy' = Tail(toProxy), NEW h
  PROVE  EvLater(toProxy, toProxy', h)
<1>1. Loses(toProxy, toProxy', Len(toProxy) - 1)
  BY TailLoses DEF TypeOK
<1>. QED
  BY <1>1, LosesLater

LEMMA SilentEvents ==
  ASSUME NEW r, NEW h, Silent(r, h)
  PROVE  /\ \A n : Events(r, h, n) /\ Meant(r, h, n)
         /\ OneResult(r, h) /\ OnlyResults(r, h) /\ ~HasResult(r, h)
         /\ \A op : ~Announced(h, op, r)
<1>. USE DEF Silent
<1>1. \A n : Events(r, h, n) /\ Meant(r, h, n)
  BY DEF Events, Meant, Means, Mentions, Is
<1>2. OneResult(r, h) /\ OnlyResults(r, h) /\ ~HasResult(r, h)
  BY DEF OneResult, OnlyResults, HasResult, IsResult, Mentions
<1>3. \A op : ~Announced(h, op, r)
  BY DEF Announced, Mentions
<1>. QED
  BY <1>1, <1>2, <1>3

LEMMA NotInSet == ASSUME NEW C, NEW h, ~InSet(C, h) PROVE OneOf(C, h)
BY DEF InSet, OneOf

-----------------------------------------------------------------------------
(* New client-range IDs                                                    *)

\* Nothing is known of a free ID.
LEMMA FreeFacts ==
  ASSUME ObjectInv, NEW h \in HostIds, IsHostIdAvailable(h)
  PROVE  /\ h2g[h] = None /\ hostIfaces[h] = None /\ h \notin pendingHost
         /\ hostObj[h] = None /\ Silent(toHost, h) /\ Silent(toProxy, h)
         /\ h \notin deferred /\ h \notin hostUses /\ h \notin creates
         /\ orphaned[h] = None /\ ~InSet(hostCreates, h)
<1>1. PICK n \in Born : HostInv(h, n)
  BY DEF ObjectInv, Hosts
<1>2. FreeInv(h) /\ OrphanInv(h) /\ CreateInv(h, n) /\ DeferredInv(h)
  BY <1>1 DEF HostInv
<1>3. h2g[h] = None /\ hostIfaces[h] = None /\ h \notin pendingHost
  BY DEF IsHostIdAvailable
<1>4. Gone(h) /\ Silent(toProxy, h) /\ ~Creating(h)
  BY <1>2 DEF FreeInv
<1>5. h \notin hostUses
  BY <1>1, <1>4 DEF HostInv, Gone, UsedObject
<1>6. h \notin deferred
  BY <1>2, <1>3 DEF DeferredInv
<1>7. h \notin creates
  BY <1>2, <1>3 DEF CreateInv, LiveParams
<1>8. orphaned[h] = None
  BY <1>2, <1>3, TablesAssumption DEF OrphanInv, Interface, GuestCreated
<1>. QED
  BY <1>3, <1>4, <1>5, <1>6, <1>7, <1>8 DEF Gone, Creating

\* A free ID that gets an object on the proxy's side and on the wire.
LEMMA FreshClient ==
  ASSUME ObjectInv, NEW h \in HostIds, IsHostIdAvailable(h), NEW n,
         UNCHANGED <<toProxy, hostState, creates, orphaned, deferred>>,
         Requests(toHost', None, h, n), OneIn(toHost', h), ~Announced(h, "create", toHost'),
         PairInv(h, n)', ~IsHostIdAvailable(h)', h \in pendingHost' => hostIfaces'[h] = None
  PROVE  HostInv(h, n)'
<1>1. /\ h2g[h] = None /\ hostIfaces[h] = None /\ h \notin pendingHost
      /\ hostObj[h] = None /\ Silent(toHost, h) /\ Silent(toProxy, h)
      /\ h \notin deferred /\ h \notin hostUses /\ h \notin creates
      /\ orphaned[h] = None /\ ~InSet(hostCreates, h)
  BY FreeFacts
<1>2. /\ Events(toProxy', h, n) /\ OneResult(toProxy', h) /\ ~HasResult(toProxy', h)
      /\ ~Announced(h, "delete_id", toProxy')
  BY <1>1, SilentEvents
<1>3. hostObj' = hostObj /\ hostUses' = hostUses /\ hostCreates' = hostCreates
  BY DEF hostState
<1>4. ~InSet(hostCreates', h) /\ OneOf(hostCreates', h)
  BY <1>1, <1>3, NotInSet
<1>5. h \notin HostServerIds
  BY IdsAssumption
<1>6. EventInv(h, n)'
  BY <1>2 DEF EventInv
<1>7. FreeInv(h)'
  BY DEF FreeInv
<1>8. OrphanInv(h)'
  BY <1>1 DEF OrphanInv
<1>9. ~Creating(h)' /\ OneCreate(h)'
  BY <1>2, <1>4 DEF Creating, OneCreate
<1>10. \A p \in hostCreates' : p.id = h => p.born = n
  BY <1>4 DEF InSet
<1>11. CreateInv(h, n)'
  BY <1>1, <1>9, <1>10 DEF CreateInv
<1>12. DeferredInv(h)'
  BY <1>1 DEF DeferredInv
<1>. QED
  BY <1>1, <1>3, <1>5, <1>6, <1>7, <1>8, <1>11, <1>12 DEF HostInv, UsedObject

\* map_id on two free IDs
LEMMA MapFresh ==
  ASSUME TypeOK, NEW g \in Guests, NEW h \in Hosts, g2h[g] = None, h2g[h] = None, MapId(g, h)
  PROVE  /\ g2h' = [g2h EXCEPT ![g] = h] /\ h2g' = [h2g EXCEPT ![h] = g]
<1>1. None \notin Guests /\ None \notin Hosts
  BY IdsAssumption DEF Guests, Hosts
<1>2. g2h' = [x \in Guests |-> IF x = g THEN h ELSE g2h[x]]
  BY <1>1 DEF MapId, TypeOK
<1>3. h2g' = [x \in Hosts |-> IF x = h THEN g ELSE h2g[x]]
  BY <1>1 DEF MapId, TypeOK
<1>. QED
  BY <1>2, <1>3 DEF TypeOK

\* What Create does to a protocol-abiding guest's request
LEMMA CreateEffect ==
  ASSUME ObjectInv, NEW g \in ClientIds, NEW h \in HostIds, NEW i \in GuestCreated, Create(g, h, i)
  PROVE  /\ g \in Guests /\ h \in Hosts /\ g \notin pendingGuest
         /\ g2h[g] = None /\ interfaces[g] = None /\ guestObj[g] = None
         /\ IsHostIdAvailable(h) /\ born' \in Born
         /\ g2h' = [g2h EXCEPT ![g] = h] /\ h2g' = [h2g EXCEPT ![h] = g]
         /\ interfaces' = [interfaces EXCEPT ![g] = i]
         /\ guestObj' = [guestObj EXCEPT ![g] = [interface |-> i, born |-> born',
                                                 state |-> "live"]]
         /\ hostIfaces' = IF i = "text_input" THEN [hostIfaces EXCEPT ![h] = i] ELSE hostIfaces
         /\ toHost' = toHost \o <<NewReq(h, i, born')>> /\ NewReq(h, i, born') \in Request
         /\ UNCHANGED <<pendingHost, pendingGuest, fatal, creates, usedParams, orphaned, inUse,
                        deferred, hostState, toProxy>>
<1>1. g \in Guests /\ h \in Hosts /\ i \in Interface
  BY DEF Guests, Hosts, Interface
<1>2. guestObj[g] = None /\ GuestInv(g)
  BY <1>1 DEF Create, ObjectInv
<1>3. g \notin pendingGuest /\ IsGuestIdAvailable(g)
  BY <1>2 DEF GuestInv
<1>4. /\ AllocateHostId(h) /\ MapId(g, h) /\ TrackInterface(g, i)
      /\ IF i = "text_input" THEN TrackHostInterface(h, i) ELSE UNCHANGED hostIfaces
      /\ Send(<<NewReq(h, i, born')>>)
      /\ UNCHANGED <<pendingHost, pendingGuest, fatal>>
  BY <1>3 DEF Create
<1>5. born' \in Born /\ GuestNew(g, i)
  BY BoundsAssumption DEF Create, Bear, ObjectInv, TypeOK, Born
<1>6. IsHostIdAvailable(h) /\ h2g[h] = None
  BY <1>4 DEF AllocateHostId, IsHostIdAvailable
<1>7. g2h[g] = None /\ interfaces[g] = None
  BY <1>3 DEF IsGuestIdAvailable
<1>8. g2h' = [g2h EXCEPT ![g] = h] /\ h2g' = [h2g EXCEPT ![h] = g]
  BY <1>1, <1>4, <1>6, <1>7, MapFresh DEF ObjectInv
<1>9. NewReq(h, i, born') \in Request
  BY <1>1, <1>5 DEF NewReq, Request
<1>10. /\ toHost' = toHost \o <<NewReq(h, i, born')>>
       /\ interfaces' = [interfaces EXCEPT ![g] = i]
       /\ hostIfaces' = IF i = "text_input" THEN [hostIfaces EXCEPT ![h] = i] ELSE hostIfaces
  BY <1>4 DEF Send, TrackInterface, TrackHostInterface
<1>11. UNCHANGED <<creates, usedParams, orphaned, inUse, deferred, hostState, toProxy>>
  BY DEF Create
<1>12. guestObj' = [guestObj EXCEPT ![g] = [interface |-> i, born |-> born', state |-> "live"]]
  BY <1>5 DEF GuestNew
<1>. QED
  BY <1>1, <1>2, <1>3, <1>4, <1>5, <1>6, <1>7, <1>8, <1>9, <1>10, <1>11, <1>12

LEMMA CreateHost ==
  ASSUME ObjectInv, NEW g \in ClientIds, NEW h \in HostIds, NEW i \in GuestCreated,
         Create(g, h, i), NEW x \in Hosts
  PROVE  \E n \in Born : HostInv(x, n)'
<1>. DEFINE m == NewReq(h, i, born')
<1>0. TypeOK /\ Maps
  BY DEF ObjectInv
<1>1. /\ g \in Guests /\ h \in Hosts /\ g \notin pendingGuest
      /\ g2h[g] = None /\ interfaces[g] = None /\ guestObj[g] = None
      /\ IsHostIdAvailable(h) /\ born' \in Born
      /\ h2g' = [h2g EXCEPT ![h] = g]
      /\ interfaces' = [interfaces EXCEPT ![g] = i]
      /\ guestObj' = [guestObj EXCEPT ![g] = [interface |-> i, born |-> born', state |-> "live"]]
      /\ hostIfaces' = IF i = "text_input" THEN [hostIfaces EXCEPT ![h] = i] ELSE hostIfaces
      /\ toHost' = toHost \o <<m>> /\ m \in Request
      /\ UNCHANGED <<pendingHost, pendingGuest, creates, usedParams, orphaned, deferred, hostState,
                     toProxy>>
  BY CreateEffect
<1>2. Is(m, "new", h) /\ m.born = born' /\ m.interface = i /\ \A y : Mentions(m, y) => y = h
  BY DEF NewReq, Is, Mentions
<1>. HIDE DEF m
<1>3. CASE x # h
  <2>1. PICK n \in Born : HostInv(x, n)
    BY DEF ObjectInv
  <2>2. h2g[x] # g
    BY <1>0, <1>1, IdsAssumption DEF Maps, Hosts
  <2>3. Undisturbed(x)
    BY <1>0, <1>1, <1>3, <2>2 DEF Undisturbed, TypeOK, hostState
  <2>4. ReqSame(toHost, toHost', x)
    BY <1>0, <1>1, <1>2, <1>3, ReqSent
  <2>5. EvLater(toProxy, toProxy', x)
    BY <1>1, EvKept
  <2>. QED
    BY <2>1, <2>3, <2>4, <2>5, Untouched
<1>4. CASE x = h
  <2>0. PICK b \in Born : b = born'
    BY <1>1
  <2>1. /\ h2g[h] = None /\ hostIfaces[h] = None /\ h \notin pendingHost
        /\ hostObj[h] = None /\ Silent(toHost, h) /\ h \notin deferred
    BY <1>1, FreeFacts
  <2>2. Joins(toHost, m, toHost', Len(toHost))
    BY <1>0, <1>1, AppendJoins DEF TypeOK
  <2>3. /\ Requests(toHost', None, h, b) /\ Announced(h, "new", toHost') /\ OneIn(toHost', h)
        /\ ~Announced(h, "create", toHost') /\ ~Announced(h, "destroy", toHost')
        /\ i # "callback" => NotCallback(toHost', None, h)
    BY <1>2, <2>0, <2>1, <2>2, SendNew
  <2>4. /\ h2g'[h] = g /\ interfaces'[g] = i /\ guestObj'[g].born = b /\ hostObj'[h] = None
        /\ i = "params" => hostIfaces'[h] = None
    BY <1>0, <1>1, <2>0, <2>1 DEF TypeOK, hostState
  <2>5. g # None
    BY <1>1, IdsAssumption DEF Guests
  <2>6. PairInv(h, b)'
    BY <1>1, <2>1, <2>3, <2>4 DEF PairInv, Alive
  <2>7. ~IsHostIdAvailable(h)'
    BY <2>4, <2>5 DEF IsHostIdAvailable
  <2>8. h \in pendingHost' => hostIfaces'[h] = None
    BY <1>1, <2>1
  <2>9. HostInv(h, b)'
    BY <1>1, <2>3, <2>6, <2>7, <2>8, FreshClient
  <2>. QED
    BY <1>1, <1>4, <2>9
<1>. QED
  BY <1>3, <1>4

LEMMA Others ==
  ASSUME ObjectInv, NEW x \in Hosts, Undisturbed(x),
         ReqSame(toHost, toHost', x), EvLater(toProxy, toProxy', x)
  PROVE  \E n \in Born : HostInv(x, n)'
<1>1. PICK n \in Born : HostInv(x, n)
  BY DEF ObjectInv
<1>. QED
  BY <1>1, Untouched

LEMMA InternalSyncHost ==
  ASSUME ObjectInv, NEW h \in HostIds, InternalSync(h), NEW x \in Hosts
  PROVE  \E n \in Born : HostInv(x, n)'
<1>. DEFINE m == NewReq(h, "callback", born')
<1>0. TypeOK /\ h \in Hosts
  BY DEF ObjectInv, Hosts
<1>1. /\ IsHostIdAvailable(h) /\ born' \in Born
      /\ hostIfaces' = [hostIfaces EXCEPT ![h] = "callback"]
      /\ toHost' = toHost \o <<m>>
      /\ UNCHANGED <<g2h, h2g, interfaces, pendingHost, pendingGuest, creates, usedParams, orphaned,
                     deferred, guestObj, hostState, toProxy>>
  BY <1>0, BoundsAssumption
  DEF InternalSync, AllocateHostId, Bear, TypeOK, Born, TrackHostInterface, Send, context
<1>2. /\ m \in Request /\ Is(m, "new", h) /\ m.born = born'
      /\ \A y : Mentions(m, y) => y = h
  BY <1>0, <1>1 DEF NewReq, Is, Mentions, Request, Interface, GuestCreated
<1>. HIDE DEF m
<1>3. CASE x # h
  <2>1. Undisturbed(x)
    BY <1>0, <1>1, <1>3 DEF Undisturbed, TypeOK, hostState
  <2>2. ReqSame(toHost, toHost', x)
    BY <1>0, <1>1, <1>2, <1>3, ReqSent
  <2>3. EvLater(toProxy, toProxy', x)
    BY <1>1, EvKept
  <2>. QED
    BY <2>1, <2>2, <2>3, Others
<1>4. CASE x = h
  <2>0. PICK b \in Born : b = born'
    BY <1>1
  <2>1. h2g[h] = None /\ hostObj[h] = None /\ Silent(toHost, h) /\ h \notin pendingHost
    BY <1>1, FreeFacts
  <2>2. Joins(toHost, m, toHost', Len(toHost))
    BY <1>0, <1>1, <1>2, AppendJoins DEF TypeOK
  <2>3. /\ Requests(toHost', None, h, b) /\ OneIn(toHost', h)
        /\ ~Announced(h, "create", toHost')
    BY <1>2, <2>0, <2>1, <2>2, SendNew
  <2>4. h2g'[h] = None /\ hostIfaces'[h] # None
    BY <1>0, <1>1, <2>1, TablesAssumption DEF TypeOK, Interface, GuestCreated
  <2>5. PairInv(h, b)' /\ ~IsHostIdAvailable(h)' /\ h \notin pendingHost'
    BY <1>1, <2>1, <2>4 DEF PairInv, IsHostIdAvailable
  <2>6. HostInv(h, b)'
    BY <1>1, <2>3, <2>5, FreshClient
  <2>. QED
    BY <1>4, <2>6
<1>. QED
  BY <1>3, <1>4

LEMMA InternalParamsHost ==
  ASSUME ObjectInv, NEW h \in HostIds, InternalParams(h), NEW x \in Hosts
  PROVE  \E n \in Born : HostInv(x, n)'
<1>. DEFINE m == NewReq(h, "params", born')
            d == Req("destroy", h, born')
            q == toHost \o <<m>>
<1>0. TypeOK /\ h \in Hosts
  BY DEF ObjectInv, Hosts
<1>1. /\ IsHostIdAvailable(h) /\ born' \in Born
      /\ pendingHost' = pendingHost \cup {h}
      /\ toHost' = toHost \o <<m, d>>
      /\ UNCHANGED <<g2h, h2g, interfaces, hostIfaces, pendingGuest, creates, usedParams, orphaned,
                     deferred, guestObj, hostState, toProxy>>
  BY <1>0, BoundsAssumption
  DEF InternalParams, AllocateHostId, Bear, TypeOK, Born, Send, context
<1>2. /\ m \in Request /\ Is(m, "new", h) /\ m.born = born' /\ m.interface # "callback"
      /\ \A y : Mentions(m, y) => y = h
  BY <1>0, <1>1 DEF NewReq, Is, Mentions, Request, Interface, GuestCreated
<1>3. /\ d \in Request /\ d.op = "destroy" /\ d.id = h /\ d.born = born'
      /\ \A y : Mentions(d, y) => y = h
  BY <1>0, <1>1 DEF Req, Mentions, Request
<1>4. /\ Joins(toHost, m, q, Len(toHost)) /\ Joins(q, d, toHost', Len(toHost) + 1)
  BY <1>0, <1>1, <1>2, <1>3, AppendJoins, AppendTwice DEF TypeOK
<1>. HIDE DEF m, d, q
<1>5. CASE x # h
  <2>1. Undisturbed(x)
    BY <1>0, <1>1, <1>5 DEF Undisturbed, TypeOK, hostState
  <2>2. ReqSame(toHost, q, x) /\ ReqSame(q, toHost', x)
    <3>1. ~Touches(m, x) /\ ~Touches(d, x)
      BY <1>2, <1>3, <1>5, RequestPlain DEF Touches
    <3>. QED
      BY <1>4, <3>1, JoinsSame, SameReqs
  <2>3. ReqSame(toHost, toHost', x)
    BY <2>2 DEF ReqSame
  <2>4. EvLater(toProxy, toProxy', x)
    BY <1>1, EvKept
  <2>. QED
    BY <2>1, <2>3, <2>4, Others
<1>6. CASE x = h
  <2>0. PICK b \in Born : b = born'
    BY <1>1
  <2>1. h2g[h] = None /\ hostObj[h] = None /\ Silent(toHost, h) /\ hostIfaces[h] = None
    BY <1>1, FreeFacts
  <2>2. /\ Requests(q, None, h, b) /\ OneIn(q, h) /\ Announced(h, "new", q)
        /\ ~Announced(h, "create", q) /\ ~Announced(h, "destroy", q)
        /\ NotCallback(q, None, h)
    BY <1>2, <1>4, <2>0, <2>1, SendNew
  <2>3. Means(d, h, b) /\ Mentions(d, h)
    BY <1>3, <2>0 DEF Means, Mentions
  <2>4. Alive(q, None, h)
    BY <2>2 DEF Alive
  <2>5. Requests(toHost', None, h, b)
    BY <1>3, <1>4, <2>2, <2>3, <2>4, SendUse
  <2>6. OneIn(toHost', h) /\ ~Announced(h, "create", toHost')
    BY <1>3, <1>4, <2>2, JoinsMembers
  <2>7. PairInv(h, b)' /\ ~IsHostIdAvailable(h)' /\ hostIfaces'[h] = None
    BY <1>1, <2>1 DEF PairInv, IsHostIdAvailable
  <2>8. HostInv(h, b)'
    BY <1>1, <2>5, <2>6, <2>7, FreshClient
  <2>. QED
    BY <1>6, <2>8
<1>. QED
  BY <1>5, <1>6

-----------------------------------------------------------------------------
(* The guest's objects                                                     *)

\* The tables know a live object as it is.
LEMMA LiveFacts ==
  ASSUME ObjectInv, NEW g \in Guests, NEW i, Live(g, i)
  PROVE  /\ g \notin pendingGuest /\ guestObj[g] \in GuestObject /\ guestObj[g] # None
         /\ guestObj[g].state = "live" /\ guestObj[g].interface = i /\ interfaces[g] = i
         /\ i \in Interface /\ (i = "local" <=> g2h[g] = None)
<1>1. guestObj[g] # None /\ guestObj[g].state = "live" /\ guestObj[g].interface = i
  BY DEF Live
<1>2. guestObj[g] \in GuestObject
  BY <1>1 DEF ObjectInv, TypeOK
<1>3. GuestInv(g) /\ (g \in ClientIds \/ g \in ServerIds)
  BY DEF ObjectInv, Guests
<1>4. g \notin pendingGuest
  BY <1>1, <1>3 DEF GuestInv
<1>5. interfaces[g] = i /\ (i = "local" <=> g2h[g] = None)
  BY <1>1, <1>3, <1>4 DEF GuestInv
<1>6. i \in Interface
  BY <1>1, <1>2 DEF GuestObject
<1>. QED
  BY <1>1, <1>2, <1>4, <1>5, <1>6

\* The host has the object, or will have it when it has read the queue.
LEMMA LivePair ==
  ASSUME ObjectInv, NEW g \in Guests, NEW i, Live(g, i), i # "local"
  PROVE  /\ g2h[g] \in Hosts /\ g2h[g] # None /\ h2g[g2h[g]] = g /\ g # None
         /\ g2h[g] \notin pendingHost
         /\ g \in ClientIds <=> g2h[g] \in HostIds
         /\ \E n \in Born : /\ HostInv(g2h[g], n) /\ guestObj[g].born = n
                            /\ i # "callback" => /\ Alive(toHost, hostObj[g2h[g]], g2h[g])
                                                 /\ NotCallback(toHost, hostObj[g2h[g]], g2h[g])
<1>. DEFINE h == g2h[g]
<1>1. /\ g \notin pendingGuest /\ guestObj[g] # None /\ interfaces[g] = i /\ h # None
  BY LiveFacts
<1>2. h \in Hosts /\ h2g[h] = g /\ g # None
  BY <1>1, IdsAssumption DEF ObjectInv, TypeOK, Maps, Guests
<1>3. h \notin pendingHost /\ (g \in ClientIds <=> h \in HostIds)
  BY <1>1, <1>2 DEF ObjectInv, Maps, GuestInv
<1>4. PICK n \in Born : HostInv(h, n)
  BY <1>2 DEF ObjectInv
<1>. HIDE DEF h
<1>5. PairInv(h, n)
  BY <1>4 DEF HostInv
<1>6. /\ guestObj[g].born = n
      /\ i # "callback" => Alive(toHost, hostObj[h], h) /\ NotCallback(toHost, hostObj[h], h)
  BY <1>1, <1>2, <1>5 DEF PairInv
<1>. QED
  BY <1>1, <1>2, <1>3, <1>4, <1>6 DEF h

LEMMA CreateLocalEffect ==
  ASSUME ObjectInv, NEW g \in ClientIds, CreateLocal(g)
  PROVE  /\ g \in Guests /\ g \notin pendingGuest /\ g2h[g] = None /\ born' \in Born
         /\ interfaces' = [interfaces EXCEPT ![g] = "local"]
         /\ guestObj' = [guestObj EXCEPT ![g] = [interface |-> "local", born |-> born',
                                                 state |-> "live"]]
         /\ UNCHANGED <<g2h, h2g, hostIfaces, pendingHost, pendingGuest, fatal, creates, usedParams,
                        orphaned, inUse, deferred, hostState, toHost, toProxy>>
<1>1. guestObj[g] = None /\ GuestInv(g) /\ g \in Guests
  BY DEF CreateLocal, ObjectInv, Guests
<1>2. g \notin pendingGuest /\ IsGuestIdAvailable(g)
  BY <1>1 DEF GuestInv
<1>3. born' \in Born
  BY BoundsAssumption DEF CreateLocal, Bear, ObjectInv, TypeOK, Born
<1>. QED
  BY <1>1, <1>2, <1>3 DEF CreateLocal, IsGuestIdAvailable, TrackInterface, GuestNew

LEMMA DestroyLocalEffect ==
  ASSUME ObjectInv, NEW g \in ClientIds, DestroyLocal(g)
  PROVE  /\ g \in Guests /\ g \notin pendingGuest /\ g2h[g] = None
         /\ interfaces' = [interfaces EXCEPT ![g] = None]
         /\ guestObj' = [guestObj EXCEPT ![g] = None]
         /\ UNCHANGED <<g2h, h2g, hostIfaces, pendingHost, pendingGuest, context, hostState, born,
                        toHost, toProxy>>
<1>1. g \in Guests /\ Live(g, "local") /\ RemoveId(g) /\ GuestDeleteId(g) /\ TypeOK
  BY DEF DestroyLocal, Guests, ObjectInv
<1>2. g \notin pendingGuest /\ g2h[g] = None
  BY <1>1, LiveFacts
<1>3. None \notin Hosts
  BY IdsAssumption DEF Hosts
<1>4. h2g' = h2g /\ hostIfaces' = hostIfaces
  BY <1>1, <1>2, <1>3 DEF RemoveId, TypeOK
<1>5. g2h' = g2h /\ pendingGuest' = pendingGuest
  BY <1>1, <1>2 DEF RemoveId, TypeOK
<1>. QED
  BY <1>1, <1>2, <1>4, <1>5 DEF DestroyLocal, RemoveId, GuestDeleteId

LEMMA LocalHost ==
  ASSUME ObjectInv, NEW g \in ClientIds, CreateLocal(g) \/ DestroyLocal(g), NEW x \in Hosts
  PROVE  \E n \in Born : HostInv(x, n)'
<1>1. /\ g \in Guests /\ g2h[g] = None
      /\ \E u, v : interfaces' = [interfaces EXCEPT ![g] = u] /\ guestObj' = [guestObj EXCEPT ![g] = v]
      /\ UNCHANGED <<h2g, hostIfaces, pendingHost, pendingGuest, creates, usedParams, orphaned,
                     deferred, hostState, toHost, toProxy>>
  BY CreateLocalEffect, DestroyLocalEffect DEF context
<1>2. TypeOK /\ h2g[x] # g
  BY <1>1, IdsAssumption DEF ObjectInv, Maps, Hosts
<1>3. Undisturbed(x)
  BY <1>1, <1>2 DEF Undisturbed, TypeOK, hostState
<1>. QED
  BY <1>1, <1>3, ReqKept, EvKept, Others

-----------------------------------------------------------------------------
(* Requests on the guest's objects                                         *)

LEMMA AliveNotGone ==
  ASSUME NEW h, Alive(toHost, hostObj[h], h)
  PROVE  ~Gone(h)
<1>1. Silent(toHost, h) => ~Announced(h, "new", toHost)
  BY DEF Silent, Announced, Mentions
<1>. QED
  BY <1>1 DEF Gone, Alive

\* A request that changes nothing in the tables
LEMMA Used ==
  ASSUME ObjectInv, NEW x \in Hosts, NEW n, HostInv(x, n), Undisturbed(x),
         h2g[x] # None, x \notin pendingHost, h2g[x] \notin pendingGuest,
         Alive(toHost, hostObj[x], x), NotCallback(toHost, hostObj[x], x),
         NEW m \in Request, m.op \in {"submit", "refer"}, Means(m, x, n),
         toHost' = toHost \o <<m>>, UNCHANGED toProxy
  PROVE  HostInv(x, n)'
<1>1. Joins(toHost, m, toHost', Len(toHost))
  BY AppendJoins DEF ObjectInv, TypeOK
<1>2. hostObj'[x] = hostObj[x] /\ h2g'[x] = h2g[x] /\ Requests(toHost, hostObj[x], x, n)
  BY DEF Undisturbed, HostInv
<1>3. m.op # "new" /\ m.op # "destroy" /\ m.op # "create"
  OBVIOUS
<1>4. /\ Requests(toHost', hostObj'[x], x, n) /\ NotCallback(toHost', hostObj'[x], x)
      /\ Alive(toHost', hostObj'[x], x)
  BY <1>1, <1>2, <1>3, SendUse
<1>5. /\ Announced(x, "create", toHost') <=> Announced(x, "create", toHost)
      /\ Announced(x, "new", toHost') <=> Announced(x, "new", toHost)
      /\ OneIn(toHost, x) => OneIn(toHost', x)
  BY <1>1, <1>3, JoinsMembers
<1>6. PairInv(x, n)'
  BY <1>4 DEF HostInv, PairInv, Undisturbed
<1>7. DeferredInv(x)' /\ UsedObject(hostUses', hostObj'[x], x)
  BY DEF HostInv, DeferredInv, Undisturbed, UsedObject
<1>8. ASSUME x \in HostIds PROVE (EventInv(x, n) /\ FreeInv(x) /\ OrphanInv(x) /\ CreateInv(x, n))'
  <2>1. EventInv(x, n) /\ FreeInv(x) /\ OrphanInv(x) /\ CreateInv(x, n)
    BY <1>8 DEF HostInv
  <2>2. EventInv(x, n)'
    BY <2>1, AliveNotGone DEF EventInv
  <2>3. FreeInv(x)'
    BY <2>1, <1>2 DEF FreeInv, IsHostIdAvailable, Undisturbed
  <2>4. OrphanInv(x)'
    BY <2>1, <1>8 DEF OrphanInv, Undisturbed
  <2>5. InSet(hostCreates', x) <=> InSet(hostCreates, x)
    BY DEF InSet, Undisturbed
  <2>6. OneOf(hostCreates, x) => OneOf(hostCreates', x)
    BY DEF OneOf, Undisturbed
  <2>7. (Creating(x)' <=> Creating(x)) /\ (OneCreate(x) => OneCreate(x)')
    BY <1>5, <2>5, <2>6 DEF Creating, OneCreate
  <2>8. (LiveParams(x)' <=> LiveParams(x)) /\ (h2g'[x] \in usedParams' <=> h2g[x] \in usedParams)
    BY DEF LiveParams, Undisturbed
  <2>9. \A p \in hostCreates' : p.id = x => p.born = n
    BY <2>1 DEF CreateInv, Undisturbed
  <2>10. x \in creates' <=> x \in creates
    BY <1>8 DEF Undisturbed
  <2>11. orphaned'[x] = orphaned[x]
    BY <1>8 DEF Undisturbed
  <2>12. CreateInv(x, n)'
    BY <2>1, <2>7, <2>8, <2>9, <2>10, <2>11 DEF CreateInv
  <2>. QED
    BY <2>2, <2>3, <2>4, <2>12
<1>9. ASSUME x \in HostServerIds PROVE ServerInv(x, n)'
  BY <1>2, <1>4, <1>5, <1>9 DEF HostInv, ServerInv, Undisturbed
<1>. QED
  BY <1>4, <1>6, <1>7, <1>8, <1>9 DEF HostInv

LEMMA SubmitHost ==
  ASSUME ObjectInv, NEW g \in Guests, Submit(g), NEW x \in Hosts
  PROVE  \E n \in Born : HostInv(x, n)'
<1>. DEFINE h == g2h[g]
            m == Req("submit", h, guestObj[g].born)
<1>0. Live(g, "buffer") /\ TypeOK
  BY DEF Submit, ObjectInv
<1>1. PICK n \in Born :
        /\ h \in Hosts /\ h2g[h] = g /\ g # None /\ h \notin pendingHost /\ HostInv(h, n)
        /\ guestObj[g].born = n
        /\ Alive(toHost, hostObj[h], h) /\ NotCallback(toHost, hostObj[h], h)
  BY <1>0, LivePair
<1>2. g \notin pendingGuest
  BY <1>0, LiveFacts
<1>3. /\ toHost' = toHost \o <<m>>
      /\ UNCHANGED <<shadow, creates, usedParams, orphaned, deferred, guestObj, hostState, toProxy>>
  BY DEF Submit, Send
<1>4. /\ m \in Request /\ m.op = "submit" /\ Means(m, h, n) /\ \A y : Mentions(m, y) => y = h
  BY <1>1 DEF Req, Request, Means, Mentions
<1>5. Undisturbed(x)
  BY <1>0, <1>3 DEF Undisturbed, TypeOK, hostState, shadow
<1>. HIDE DEF m, h
<1>6. CASE x # h
  BY <1>0, <1>3, <1>4, <1>5, <1>6, ReqSent, EvKept, Others
<1>7. CASE x = h
  BY <1>1, <1>2, <1>3, <1>4, <1>5, <1>7, Used
<1>. QED
  BY <1>6, <1>7

\* Refer serves what the guest may name.
LEMMA ReferServes ==
  ASSUME ObjectInv, NEW g \in Guests, NEW a \in Guests, Refer(g, a)
  PROVE  /\ Serves(g) /\ ValidRequestArg(a, guestObj[a].interface) /\ fatal' = fatal
         /\ \/ UNCHANGED toHost
            \/ /\ ~Live(a, "local") /\ \E i : Live(a, i) /\ i \in {"surface", "offer"}
               /\ toHost' = toHost \o <<[op |-> "refer", id |-> g2h[g], born |-> guestObj[g].born,
                                    arg |-> [id |-> g2h[a], born |-> guestObj[a].born]]>>
<1>1. Live(g, "surface")
  BY DEF Refer
<1>2. PICK i \in {"surface", "offer", "local"} : Live(a, i)
  BY DEF Refer
<1>3. g \notin pendingGuest /\ g2h[g] # None
  BY <1>1, LiveFacts
<1>4. /\ a \notin pendingGuest /\ guestObj[a].interface = i /\ interfaces[a] = i
      /\ i = "local" <=> g2h[a] = None
  BY <1>2, LiveFacts
<1>5. Serves(g) /\ ValidRequestArg(a, guestObj[a].interface)
  BY <1>3, <1>4 DEF Serves, ValidRequestArg, GuestObjectMatches, IsLocalOnly
<1>6. IsLocalOnly(a) <=> i = "local"
  BY <1>4 DEF IsLocalOnly
<1>7. CASE i = "local"
  <2>1. UNCHANGED <<fatal, toHost>>
    BY <1>5, <1>6, <1>7 DEF Refer
  <2>. QED
    BY <1>5, <2>1
<1>8. CASE i # "local"
  <2>1. UNCHANGED fatal /\ Send(<<[op |-> "refer", id |-> g2h[g], born |-> guestObj[g].born,
                              arg |-> [id |-> g2h[a], born |-> guestObj[a].born]]>>)
    BY <1>5, <1>6, <1>8 DEF Refer
  <2>2. ~Live(a, "local")
    BY <1>4, <1>8 DEF Live
  <2>. QED
    BY <1>2, <1>5, <1>8, <2>1, <2>2 DEF Send
<1>. QED
  BY <1>7, <1>8

LEMMA ReferHost ==
  ASSUME ObjectInv, NEW g \in Guests, NEW a \in Guests, Refer(g, a), NEW x \in Hosts
  PROVE  \E n \in Born : HostInv(x, n)'
<1>. DEFINE h == g2h[g]
            k == g2h[a]
            m == [op |-> "refer", id |-> h, born |-> guestObj[g].born,
                  arg |-> [id |-> k, born |-> guestObj[a].born]]
<1>0. Live(g, "surface") /\ TypeOK
  BY DEF Refer, ObjectInv
<1>1. UNCHANGED <<shadow, creates, usedParams, orphaned, deferred, guestObj, hostState, toProxy>>
  BY DEF Refer
<1>2. Undisturbed(x)
  BY <1>0, <1>1 DEF Undisturbed, TypeOK, hostState, shadow
<1>3. CASE UNCHANGED toHost
  BY <1>1, <1>2, <1>3, ReqKept, EvKept, Others
<1>4. CASE ~UNCHANGED toHost
  <2>1. PICK i : Live(a, i) /\ i \in {"surface", "offer"} /\ toHost' = toHost \o <<m>>
    BY <1>4, ReferServes
  <2>2. PICK n \in Born :
          /\ h \in Hosts /\ h2g[h] = g /\ g # None /\ h \notin pendingHost /\ HostInv(h, n)
          /\ guestObj[g].born = n
          /\ Alive(toHost, hostObj[h], h) /\ NotCallback(toHost, hostObj[h], h)
    BY <1>0, LivePair
  <2>3. PICK p \in Born :
          /\ k \in Hosts /\ h2g[k] = a /\ a # None /\ k \notin pendingHost /\ HostInv(k, p)
          /\ guestObj[a].born = p
          /\ Alive(toHost, hostObj[k], k) /\ NotCallback(toHost, hostObj[k], k)
    BY <2>1, LivePair
  <2>4. g \notin pendingGuest /\ a \notin pendingGuest
    BY <1>0, <2>1, LiveFacts
  <2>5. m \in Request /\ m.op = "refer"
    BY <2>2, <2>3 DEF Request, Ref
  <2>6. /\ m.id = h /\ m.born = n /\ m.arg.id = k /\ m.arg.born = p
    BY <2>2, <2>3
  <2>7. h = k => g = a
    BY <2>2, <2>3
  <2>8. h = k => n = p
    BY <2>2, <2>3, <2>7
  <2>. HIDE DEF m, h, k
  <2>9. (\A y : Mentions(m, y) => y = h \/ y = k) /\ Means(m, h, n) /\ Means(m, k, p)
    BY <2>5, <2>6, <2>8 DEF Means, Mentions
  <2>10. CASE x # h /\ x # k
    BY <1>0, <1>1, <1>2, <2>1, <2>5, <2>9, <2>10, ReqSent, EvKept, Others
  <2>11. CASE x = h
    BY <1>1, <1>2, <2>1, <2>2, <2>4, <2>5, <2>9, <2>11, Used
  <2>12. CASE x = k
    BY <1>1, <1>2, <2>1, <2>3, <2>4, <2>5, <2>9, <2>12, Used
  <2>. QED
    BY <2>10, <2>11, <2>12
<1>. QED
  BY <1>3, <1>4

LEMMA CreateAsyncHost ==
  ASSUME ObjectInv, NEW g \in ClientIds, CreateAsync(g), NEW x \in Hosts
  PROVE  \E n \in Born : HostInv(x, n)'
<1>0. Live(g, "params") /\ TypeOK /\ g \notin usedParams /\ g \in Guests
  BY DEF CreateAsync, ObjectInv, Guests
<1>h. PICK h \in Hosts : h = g2h[g]
  BY <1>0, LivePair
<1>. DEFINE m == Req("create", h, guestObj[g].born)
<1>1. PICK n \in Born :
        /\ h \in Hosts /\ h2g[h] = g /\ g # None /\ h \notin pendingHost /\ HostInv(h, n)
        /\ guestObj[g].born = n /\ h \in HostIds
        /\ Alive(toHost, hostObj[h], h) /\ NotCallback(toHost, hostObj[h], h)
  BY <1>0, <1>h, LivePair
<1>2. g \notin pendingGuest /\ interfaces[g] = "params"
  BY <1>0, LiveFacts
<1>3. /\ toHost' = toHost \o <<m>>
      /\ creates' = creates \cup {h} /\ usedParams' = usedParams \cup {g}
      /\ UNCHANGED <<shadow, orphaned, deferred, guestObj, hostState, toProxy>>
  BY <1>h DEF CreateAsync, Send
<1>4. /\ m \in Request /\ m.op = "create" /\ Means(m, h, n) /\ \A y : Mentions(m, y) => y = h
  BY <1>1 DEF Req, Request, Means, Mentions
<1>. HIDE DEF m
<1>5. /\ hostObj'[h] = hostObj[h] /\ h2g'[h] = h2g[h] /\ hostUses' = hostUses
      /\ hostCreates' = hostCreates /\ hostIfaces' = hostIfaces /\ pendingHost' = pendingHost
      /\ interfaces' = interfaces /\ pendingGuest' = pendingGuest
  BY <1>3 DEF hostState, shadow
<1>6. CASE x # h
  <2>1. h2g[x] # g \/ h2g[x] = None
    BY <1>1, <1>6 DEF ObjectInv, Maps
  <2>2. Undisturbed(x)
    BY <1>1, <1>3, <1>6, <2>1 DEF Undisturbed, hostState, shadow
  <2>. QED
    BY <1>0, <1>3, <1>4, <1>6, <2>2, ReqSent, EvKept, Others
<1>7. CASE x = h
  <2>1. Joins(toHost, m, toHost', Len(toHost))
    BY <1>0, <1>3, <1>4, AppendJoins DEF TypeOK
  <2>2. /\ EventInv(h, n) /\ FreeInv(h) /\ OrphanInv(h) /\ CreateInv(h, n) /\ PairInv(h, n)
        /\ DeferredInv(h) /\ UsedObject(hostUses, hostObj[h], h)
        /\ Requests(toHost, hostObj[h], h, n)
    BY <1>1 DEF HostInv
  <2>3. LiveParams(h) /\ ~Creating(h) /\ OneCreate(h)
    BY <1>0, <1>1, <1>2, <2>2 DEF CreateInv, LiveParams
  <2>4. m.op # "new" /\ m.op # "destroy"
    BY <1>4
  <2>5. /\ Requests(toHost', hostObj'[h], h, n) /\ NotCallback(toHost', hostObj'[h], h)
        /\ Alive(toHost', hostObj'[h], h)
    BY <1>1, <1>4, <1>5, <2>1, <2>2, <2>4, SendUse
  <2>6. OneIn(toHost', h)
    BY <2>1, <2>3, JoinsMembers DEF Creating, OneCreate
  <2>7. PairInv(h, n)' /\ DeferredInv(h)' /\ UsedObject(hostUses', hostObj'[h], h)
    BY <1>3, <1>5, <2>2, <2>5 DEF PairInv, DeferredInv
  <2>8. EventInv(h, n)' /\ FreeInv(h)' /\ OrphanInv(h)'
    BY <1>1, <1>2, <1>3, <1>5, <2>2, AliveNotGone DEF EventInv, FreeInv, OrphanInv, IsHostIdAvailable
  <2>9. OneCreate(h)'
    BY <1>3, <1>5, <2>3, <2>6 DEF OneCreate, Creating
  <2>10. LiveParams(h)' /\ h2g'[h] \in usedParams' /\ h \in creates'
    BY <1>1, <1>3, <1>5, <2>3 DEF LiveParams
  <2>11. \A p \in hostCreates' : p.id = h => p.born = n
    BY <1>5, <2>2 DEF CreateInv
  <2>12. CreateInv(h, n)'
    BY <2>9, <2>10, <2>11 DEF CreateInv
  <2>13. h \notin HostServerIds
    BY <1>1, IdsAssumption
  <2>. QED
    BY <1>7, <2>5, <2>7, <2>8, <2>12, <2>13 DEF HostInv
<1>. QED
  BY <1>6, <1>7

-----------------------------------------------------------------------------
(* Destructors                                                             *)

\* The host ID of a destroyed client-range object waits for its delete_id.
LEMMA DestroyedClient ==
  ASSUME ObjectInv, NEW h \in HostIds, NEW n, HostInv(h, n), NEW g \in Guests,
         h2g[h] = g, Alive(toHost, hostObj[h], h), NotCallback(toHost, hostObj[h], h),
         NEW m \in Request, Is(m, "destroy", h), m.born = n, toHost' = toHost \o <<m>>,
         h2g' = h2g, hostIfaces' = hostIfaces, pendingHost' = pendingHost, hostState' = hostState,
         interfaces' = interfaces, pendingGuest' = pendingGuest \cup {g},
         guestObj'[g] # None => guestObj[g] # None /\ guestObj'[g].born = guestObj[g].born,
         h \notin deferred', EvLater(toProxy, toProxy', h),
         h \notin creates', orphaned'[h] = orphaned[h] \/ orphaned'[h] = g,
         orphaned'[h] # None => orphaned[h] # None \/ interfaces[g] = "params",
         h \in creates => orphaned'[h] # None
  PROVE  HostInv(h, n)'
<1>1. Joins(toHost, m, toHost', Len(toHost))
  BY AppendJoins DEF ObjectInv, TypeOK
<1>2. /\ EventInv(h, n) /\ FreeInv(h) /\ OrphanInv(h) /\ CreateInv(h, n) /\ PairInv(h, n)
      /\ UsedObject(hostUses, hostObj[h], h) /\ Requests(toHost, hostObj[h], h, n)
  BY DEF HostInv
<1>3. hostObj' = hostObj /\ hostUses' = hostUses /\ hostCreates' = hostCreates
  BY DEF hostState
<1>4. h \in Hosts /\ g # None /\ h \notin HostServerIds /\ h \notin pendingHost
  BY IdsAssumption DEF Hosts, Guests, ObjectInv, Maps
<1>5. m.op # "new" /\ m.op # "create" /\ m.id = h /\ Means(m, h, n) /\ Mentions(m, h)
  BY DEF Is, Means, Mentions, Request
<1>6. Requests(toHost', hostObj'[h], h, n) /\ NotCallback(toHost', hostObj'[h], h)
  BY <1>1, <1>2, <1>3, <1>5, SendUse
<1>7. /\ Announced(h, "create", toHost') <=> Announced(h, "create", toHost)
      /\ OneIn(toHost, h) => OneIn(toHost', h)
  BY <1>1, <1>5, JoinsMembers
<1>8. PairInv(h, n)'
  BY <1>2, <1>6 DEF PairInv
<1>9. DeferredInv(h)'
  BY DEF DeferredInv
<1>10. EventInv(h, n)'
  BY <1>2, AliveNotGone DEF EventInv, EvLater
<1>11. FreeInv(h)'
  BY <1>2, <1>4 DEF FreeInv, IsHostIdAvailable
<1>12. OrphanInv(h)'
  BY <1>2, <1>4 DEF OrphanInv
<1>13. (Creating(h)' => Creating(h)) /\ (OneCreate(h) => OneCreate(h)')
  BY <1>3, <1>7 DEF Creating, OneCreate, EvLater
<1>14. \A p \in hostCreates' : p.id = h => p.born = n
  BY <1>2, <1>3 DEF CreateInv
<1>15. ~LiveParams(h)'
  BY DEF LiveParams
<1>16. Creating(h)' => orphaned'[h] # None
  BY <1>2, <1>4, <1>13 DEF CreateInv
<1>17. CreateInv(h, n)'
  BY <1>2, <1>13, <1>14, <1>15, <1>16 DEF CreateInv
<1>. QED
  BY <1>2, <1>3, <1>4, <1>6, <1>8, <1>9, <1>10, <1>11, <1>12, <1>17 DEF HostInv

\* The host ID of a destroyed server-range object is forgotten at once.
LEMMA DestroyedServer ==
  ASSUME ObjectInv, NEW h \in HostServerIds, NEW n, HostInv(h, n), h2g[h] # None,
         Alive(toHost, hostObj[h], h), NotCallback(toHost, hostObj[h], h),
         NEW m \in Request, Is(m, "destroy", h), m.born = n, toHost' = toHost \o <<m>>,
         h2g'[h] = None, hostState' = hostState, h \notin deferred',
         EvLater(toProxy, toProxy', h)
  PROVE  HostInv(h, n)'
<1>1. Joins(toHost, m, toHost', Len(toHost))
  BY AppendJoins DEF ObjectInv, TypeOK
<1>2. ServerInv(h, n) /\ UsedObject(hostUses, hostObj[h], h) /\ Requests(toHost, hostObj[h], h, n)
  BY DEF HostInv
<1>3. hostObj' = hostObj /\ hostUses' = hostUses
  BY DEF hostState
<1>4. m.op # "new" /\ m.id = h /\ Means(m, h, n) /\ Mentions(m, h)
  BY DEF Is, Means, Mentions, Request
<1>5. Requests(toHost', hostObj'[h], h, n) /\ NotCallback(toHost', hostObj'[h], h)
  BY <1>1, <1>2, <1>3, <1>4, SendUse
<1>6. Announced(h, "new", toHost') <=> Announced(h, "new", toHost)
  BY <1>1, <1>4, JoinsMembers
<1>7. PairInv(h, n)' /\ DeferredInv(h)'
  BY DEF PairInv, DeferredInv
<1>8. ServerInv(h, n)'
  BY <1>2, <1>3, <1>5, <1>6 DEF ServerInv, EvLater
<1>9. h \notin HostIds
  BY IdsAssumption
<1>. QED
  BY <1>2, <1>3, <1>5, <1>7, <1>8, <1>9 DEF HostInv

\* remove_id of a pair
LEMMA RemovePair ==
  ASSUME TypeOK, NEW g \in Guests, g2h[g] # None, RemoveId(g)
  PROVE  /\ h2g' = [h2g EXCEPT ![g2h[g]] = None]
         /\ hostIfaces' = [hostIfaces EXCEPT ![g2h[g]] = None]
         /\ g2h' = [g2h EXCEPT ![g] = None]
         /\ interfaces' = [interfaces EXCEPT ![g] = None]
         /\ pendingGuest' = pendingGuest \ {g} /\ UNCHANGED pendingHost
BY DEF RemoveId, TypeOK

\* What a destructor that goes to the host at once does, of a live object or of
\* a buffer that waited for its release.
DestroySent(g, n) ==
  /\ toHost' = toHost \o <<Req("destroy", g2h[g], n)>>
  /\ g \in ClientIds =>
       pendingGuest' = pendingGuest \cup {g} /\ UNCHANGED <<g2h, h2g, interfaces, hostIfaces, pendingHost>>
  /\ g \in ServerIds =>
       /\ h2g' = [h2g EXCEPT ![g2h[g]] = None]
       /\ hostIfaces' = [hostIfaces EXCEPT ![g2h[g]] = None]
       /\ g2h' = [g2h EXCEPT ![g] = None]
       /\ interfaces' = [interfaces EXCEPT ![g] = None]
       /\ pendingGuest' = pendingGuest \ {g} /\ UNCHANGED pendingHost

LEMMA DestroySentEffect ==
  ASSUME TypeOK, NEW g \in Guests, NEW n, g2h[g] # None, Send(<<Req("destroy", g2h[g], n)>>),
         IF IsGuestServerId(g) THEN RemoveId(g) ELSE MarkPendingDestroy(g)
  PROVE  DestroySent(g, n)
<1>1. toHost' = toHost \o <<Req("destroy", g2h[g], n)>>
  BY DEF Send
<1>2. g \in ClientIds \/ g \in ServerIds
  BY DEF Guests
<1>3. g \in ClientIds <=> ~IsGuestServerId(g)
  BY <1>2, IdsAssumption DEF IsGuestServerId
<1>. QED
  BY <1>1, <1>2, <1>3, RemovePair, IdsAssumption DEF DestroySent, MarkPendingDestroy, IsGuestServerId

LEMMA DestroySentHost ==
  ASSUME ObjectInv, NEW g \in Guests, NEW n \in Born, NEW x \in Hosts,
         g2h[g] # None, HostInv(g2h[g], n), DestroySent(g, n),
         Alive(toHost, hostObj[g2h[g]], g2h[g]), NotCallback(toHost, hostObj[g2h[g]], g2h[g]),
         hostState' = hostState, \A y : EvLater(toProxy, toProxy', y),
         \A y \in Guests \ {g} : guestObj'[y] = guestObj[y],
         guestObj'[g] # None => guestObj[g] # None /\ guestObj'[g].born = guestObj[g].born,
         g2h[g] \notin deferred',
         \A y \in Hosts \ {g2h[g]} : y \in deferred' <=> y \in deferred,
         g2h[g] \notin creates',
         \A y \in HostIds \ {g2h[g]} : (y \in creates' <=> y \in creates) /\ orphaned'[y] = orphaned[y],
         g2h[g] \in HostIds =>
           /\ orphaned'[g2h[g]] = orphaned[g2h[g]] \/ orphaned'[g2h[g]] = g
           /\ orphaned'[g2h[g]] # None => orphaned[g2h[g]] # None \/ interfaces[g] = "params"
           /\ g2h[g] \in creates => orphaned'[g2h[g]] # None,
         \A y \in Guests \ {g} : y \in usedParams' <=> y \in usedParams
  PROVE  \E p \in Born : HostInv(x, p)'
<1>0. TypeOK
  BY DEF ObjectInv
<1>h. PICK h \in Hosts : h = g2h[g]
  BY <1>0 DEF TypeOK
<1>. DEFINE m == Req("destroy", h, n)
<1>1. h2g[h] = g /\ g # None /\ (g \in ClientIds <=> h \in HostIds)
  BY <1>h, IdsAssumption DEF ObjectInv, TypeOK, Maps, Guests, GuestInv
<1>2. (g \in ClientIds <=> g \notin ServerIds) /\ (h \in HostIds <=> h \notin HostServerIds)
  BY <1>1, IdsAssumption DEF Guests, Hosts
<1>3. m \in Request /\ Is(m, "destroy", h) /\ m.born = n /\ \A y : Mentions(m, y) => y = h
  BY <1>1 DEF Req, Request, Is, Mentions
<1>4. toHost' = toHost \o <<m>>
  BY <1>h DEF DestroySent
<1>5. CASE x # h
  <2>1. h2g[x] # g
    BY <1>1, <1>5 DEF ObjectInv, Maps
  <2>2. h2g[x] # None => h2g[x] \in Guests
    BY <1>0 DEF TypeOK
  <2>3. /\ h2g'[x] = h2g[x] /\ hostIfaces'[x] = hostIfaces[x] /\ pendingHost' = pendingHost
        /\ h2g[x] # None =>
             /\ guestObj'[h2g[x]] = guestObj[h2g[x]] /\ interfaces'[h2g[x]] = interfaces[h2g[x]]
             /\ h2g[x] \in pendingGuest' <=> h2g[x] \in pendingGuest
             /\ h2g[x] \in usedParams' <=> h2g[x] \in usedParams
    BY <1>0, <1>1, <1>2, <1>5, <1>h, <2>1, <2>2 DEF DestroySent, TypeOK
  <2>4. Undisturbed(x)
    BY <1>5, <1>h, <2>3 DEF Undisturbed, hostState
  <2>5. ReqSame(toHost, toHost', x)
    <3>. HIDE DEF m
    <3>. QED
      BY <1>0, <1>3, <1>4, <1>5, ReqSent
  <2>. QED
    BY <2>4, <2>5, Others
<1>6. CASE x = h /\ h \in HostIds
  <2>1. /\ h2g' = h2g /\ hostIfaces' = hostIfaces /\ pendingHost' = pendingHost
        /\ interfaces' = interfaces /\ pendingGuest' = pendingGuest \cup {g}
    BY <1>1, <1>6, <1>h DEF DestroySent
  <2>2. HostInv(h, n)'
    <3>. HIDE DEF m
    <3>. QED
      BY <1>h, <1>1, <1>3, <1>4, <1>6, <2>1, DestroyedClient
  <2>. QED
    BY <1>6, <2>2
<1>7. CASE x = h /\ h \in HostServerIds
  <2>1. h2g'[h] = None
    BY <1>0, <1>1, <1>2, <1>7, <1>h DEF DestroySent, TypeOK
  <2>2. HostInv(h, n)'
    <3>. HIDE DEF m
    <3>. QED
      BY <1>h, <1>1, <1>3, <1>4, <1>7, <2>1, DestroyedServer
  <2>. QED
    BY <1>7, <2>2
<1>. QED
  BY <1>2, <1>5, <1>6, <1>7

LEMMA LiveDestructible ==
  ASSUME ObjectInv, NEW g \in Guests, NEW i, Live(g, i), i \notin {"local", "callback"}
  PROVE  /\ g2h[g] # None
         /\ \E n \in Born : /\ HostInv(g2h[g], n) /\ guestObj[g].born = n
                            /\ Alive(toHost, hostObj[g2h[g]], g2h[g])
                            /\ NotCallback(toHost, hostObj[g2h[g]], g2h[g])
         /\ g2h[g] \notin deferred
         /\ i # "params" => g2h[g] \notin creates
         /\ g2h[g] \in HostIds => /\ orphaned[g2h[g]] = None
                                  /\ Creating(g2h[g]) => g2h[g] \in creates
<1>0. TypeOK
  BY DEF ObjectInv
<1>h. PICK h \in Hosts : h = g2h[g]
  BY LivePair
<1>1. g \notin pendingGuest /\ interfaces[g] = i
  BY LiveFacts
<1>2. PICK n \in Born :
        /\ h # None /\ h2g[h] = g /\ g # None /\ HostInv(h, n) /\ guestObj[g].born = n
        /\ Alive(toHost, hostObj[h], h) /\ NotCallback(toHost, hostObj[h], h)
  BY <1>h, LivePair
<1>3. h \notin deferred
  BY <1>1, <1>2 DEF HostInv, DeferredInv
<1>4. ASSUME h \in HostIds
      PROVE  /\ i # "params" => h \notin creates
             /\ orphaned[h] = None /\ (Creating(h) => h \in creates)
  <2>1. OrphanInv(h) /\ CreateInv(h, n)
    BY <1>2, <1>4 DEF HostInv
  <2>. QED
    BY <1>1, <1>2, <2>1 DEF OrphanInv, CreateInv, LiveParams
<1>5. h \in creates => h \in HostIds
  BY <1>0 DEF TypeOK
<1>. QED
  BY <1>h, <1>2, <1>3, <1>4, <1>5

LEMMA GuestDestroysEffect ==
  ASSUME TypeOK, NEW g \in Guests, guestObj[g] # None, GuestDestroys(g)
  PROVE  /\ \A y \in Guests \ {g} : guestObj'[y] = guestObj[y]
         /\ guestObj'[g] # None => guestObj'[g].born = guestObj[g].born
         /\ g \in ServerIds => guestObj'[g] = None
         /\ g \in ClientIds => guestObj'[g] # None /\ guestObj'[g].state = "destroyed"
         /\ guestObj' \in [Guests -> GuestObject \cup {None}]
<1>1. guestObj[g] \in GuestObject /\ guestObj \in [Guests -> GuestObject \cup {None}]
  BY DEF TypeOK
<1>2. [guestObj[g] EXCEPT !.state = "destroyed"] \in GuestObject
  BY <1>1 DEF GuestObject
<1>3. [guestObj[g] EXCEPT !.state = "destroyed"].born = guestObj[g].born
  BY <1>1 DEF GuestObject
<1>4. [guestObj[g] EXCEPT !.state = "destroyed"].state = "destroyed"
  BY <1>1 DEF GuestObject
<1>5. None \notin GuestObject
  BY TablesAssumption
<1>6. CASE g \in ServerIds
  <2>1. guestObj' = [guestObj EXCEPT ![g] = None] /\ g \notin ClientIds
    BY <1>6, IdsAssumption DEF GuestDestroys, IsGuestServerId
  <2>. QED
    BY <1>1, <2>1
<1>7. CASE g \notin ServerIds
  <2>. DEFINE o == [guestObj[g] EXCEPT !.state = "destroyed"]
  <2>1. guestObj' = [guestObj EXCEPT ![g] = o]
    BY <1>7 DEF GuestDestroys, IsGuestServerId
  <2>2. o \in GuestObject /\ o.born = guestObj[g].born /\ o.state = "destroyed" /\ o # None
    BY <1>2, <1>3, <1>4, <1>5
  <2>. HIDE DEF o
  <2>. QED
    BY <1>1, <1>7, <2>1, <2>2
<1>. QED
  BY <1>6, <1>7

LEMMA DestroyHost ==
  ASSUME ObjectInv, NEW g \in Guests, NEW i, Destroy(g, i), NEW x \in Hosts
  PROVE  \E n \in Born : HostInv(x, n)'
<1>0. TypeOK /\ Live(g, i) /\ i \in {"surface", "offer"} /\ GuestDestroys(g)
  BY DEF ObjectInv, Destroy
<1>1. guestObj[g] # None
  BY <1>0 DEF Live
<1>2. PICK n \in Born :
        /\ g2h[g] # None /\ HostInv(g2h[g], n) /\ guestObj[g].born = n
        /\ Alive(toHost, hostObj[g2h[g]], g2h[g]) /\ NotCallback(toHost, hostObj[g2h[g]], g2h[g])
        /\ g2h[g] \notin deferred /\ g2h[g] \notin creates
  BY <1>0, LiveDestructible
<1>3. DestroySent(g, n)
  BY <1>0, <1>2, DestroySentEffect DEF Destroy
<1>4. /\ \A y \in Guests \ {g} : guestObj'[y] = guestObj[y]
      /\ guestObj'[g] # None => guestObj'[g].born = guestObj[g].born
  BY <1>0, <1>1, GuestDestroysEffect
<1>5. /\ UNCHANGED <<creates, usedParams, orphaned, deferred, toProxy>> /\ hostState' = hostState
  BY DEF Destroy, context
<1>6. \A y : EvLater(toProxy, toProxy', y)
  BY <1>5, EvKept
<1>. QED
  BY <1>1, <1>2, <1>3, <1>4, <1>5, <1>6, DestroySentHost

LEMMA DestroyParamsHost ==
  ASSUME ObjectInv, NEW g \in ClientIds, DestroyParams(g), NEW x \in Hosts
  PROVE  \E n \in Born : HostInv(x, n)'
<1>0. TypeOK /\ Live(g, "params") /\ GuestDestroys(g) /\ g \in Guests
  BY DEF ObjectInv, DestroyParams, Guests
<1>1. guestObj[g] # None /\ interfaces[g] = "params"
  BY <1>0, LiveFacts
<1>2. PICK n \in Born :
        /\ g2h[g] # None /\ HostInv(g2h[g], n) /\ guestObj[g].born = n
        /\ Alive(toHost, hostObj[g2h[g]], g2h[g]) /\ NotCallback(toHost, hostObj[g2h[g]], g2h[g])
        /\ g2h[g] \notin deferred
  BY <1>0, LiveDestructible
<1>3. DestroySent(g, n)
  <2>1. ~IsGuestServerId(g)
    BY IdsAssumption DEF IsGuestServerId
  <2>. QED
    BY <1>0, <1>2, <2>1, DestroySentEffect DEF DestroyParams
<1>4. /\ \A y \in Guests \ {g} : guestObj'[y] = guestObj[y]
      /\ guestObj'[g] # None => guestObj'[g].born = guestObj[g].born
  BY <1>0, <1>1, GuestDestroysEffect
<1>5. /\ UNCHANGED <<deferred, toProxy>> /\ hostState' = hostState
      /\ creates' = creates \ {g2h[g]} /\ usedParams' = usedParams \ {g}
      /\ orphaned' = IF g2h[g] \in creates THEN [orphaned EXCEPT ![g2h[g]] = g] ELSE orphaned
  BY DEF DestroyParams, OrphanPending
<1>6. \A y : EvLater(toProxy, toProxy', y)
  BY <1>5, EvKept
<1>7. \A y \in HostIds \ {g2h[g]} : (y \in creates' <=> y \in creates) /\ orphaned'[y] = orphaned[y]
  BY <1>0, <1>5 DEF TypeOK
<1>8. g2h[g] \in HostIds =>
        /\ orphaned'[g2h[g]] = orphaned[g2h[g]] \/ orphaned'[g2h[g]] = g
        /\ g2h[g] \in creates => orphaned'[g2h[g]] # None
  BY <1>0, <1>5, IdsAssumption DEF TypeOK, Guests
<1>. QED
  BY <1>0, <1>1, <1>2, <1>3, <1>4, <1>5, <1>6, <1>7, <1>8, DestroySentHost

\* remove_guest_mapping of a pair
LEMMA UnmapPair ==
  ASSUME TypeOK, Maps, NEW g \in Guests, g2h[g] # None, RemoveGuestMapping(g)
  PROVE  /\ h2g' = [h2g EXCEPT ![g2h[g]] = None]
         /\ hostIfaces' = [hostIfaces EXCEPT ![g2h[g]] = IF @ = None THEN interfaces[g] ELSE @]
         /\ g2h' = [g2h EXCEPT ![g] = None]
         /\ interfaces' = [interfaces EXCEPT ![g] = None]
<1>1. g2h[g] \in Hosts /\ h2g[g2h[g]] = g
  BY DEF TypeOK, Maps
<1>2. h2g' = [h2g EXCEPT ![g2h[g]] = None]
  BY <1>1 DEF RemoveGuestMapping, TypeOK
<1>3. hostIfaces' = [hostIfaces EXCEPT ![g2h[g]] = IF @ = None THEN interfaces[g] ELSE @]
  BY <1>1 DEF RemoveGuestMapping, TypeOK
<1>. QED
  BY <1>2, <1>3 DEF RemoveGuestMapping

LEMMA DestroyTextInputHost ==
  ASSUME ObjectInv, NEW g \in ClientIds, DestroyTextInput(g), NEW x \in Hosts
  PROVE  \E n \in Born : HostInv(x, n)'
<1>0. TypeOK /\ Maps /\ Live(g, "text_input") /\ g \in Guests /\ RemoveGuestMapping(g)
  BY DEF ObjectInv, DestroyTextInput, Guests
<1>1. interfaces[g] = "text_input" /\ g2h[g] # None
  BY <1>0, LiveFacts
<1>h. PICK h \in Hosts : h = g2h[g]
  BY <1>0, LivePair
<1>2. h \in HostIds /\ h2g[h] = g /\ h \notin pendingHost
  BY <1>0, <1>h, LivePair
<1>3. PICK n \in Born : HostInv(h, n)
  BY DEF ObjectInv
<1>4. h \notin deferred /\ h \notin creates /\ orphaned[h] = None /\ ~Creating(h)
  BY <1>0, <1>h, <1>2, LiveDestructible
<1>5. /\ h2g' = [h2g EXCEPT ![h] = None]
      /\ hostIfaces' = [hostIfaces EXCEPT ![h] = IF @ = None THEN interfaces[g] ELSE @]
      /\ interfaces' = [interfaces EXCEPT ![g] = None]
  BY <1>0, <1>1, <1>h, UnmapPair
<1>6. /\ UNCHANGED <<pendingHost, pendingGuest, creates, usedParams, orphaned, deferred, hostObj, hostUses,
                     hostCreates, toHost, toProxy>>
      /\ guestObj' = [guestObj EXCEPT ![g] = None]
  BY DEF DestroyTextInput, context, hostState, GuestDeleteId
<1>7. CASE x # h
  <2>1. h2g[x] # g
    BY <1>0, <1>h, <1>7, IdsAssumption DEF Maps, Guests
  <2>2. Undisturbed(x)
    BY <1>0, <1>5, <1>6, <1>7, <2>1 DEF Undisturbed, TypeOK
  <2>. QED
    BY <1>6, <2>2, ReqKept, EvKept, Others
<1>8. CASE x = h
  <2>1. h2g'[h] = None /\ hostIfaces'[h] # None
    BY <1>0, <1>1, <1>5, TablesAssumption DEF TypeOK, Interface, GuestCreated
  <2>2. PairInv(h, n)' /\ DeferredInv(h)'
    BY <1>4, <1>6, <2>1 DEF PairInv, DeferredInv
  <2>3. (Gone(h)' <=> Gone(h)) /\ (Creating(h)' <=> Creating(h)) /\ (OneCreate(h)' <=> OneCreate(h))
    BY <1>6 DEF Gone, Creating, OneCreate
  <2>4. EventInv(h, n)' /\ FreeInv(h)' /\ OrphanInv(h)'
    BY <1>2, <1>3, <1>4, <1>6, <2>1, <2>3 DEF HostInv, EventInv, FreeInv, OrphanInv, IsHostIdAvailable
  <2>5. CreateInv(h, n)'
    BY <1>2, <1>3, <1>4, <1>6, <2>1, <2>3 DEF HostInv, CreateInv, LiveParams
  <2>6. h \notin HostServerIds
    BY <1>2, IdsAssumption
  <2>7. HostInv(h, n)'
    BY <1>3, <1>6, <2>2, <2>4, <2>5, <2>6 DEF HostInv
  <2>. QED
    BY <1>8, <2>7
<1>. QED
  BY <1>7, <1>8

LEMMA DestroyBufferHost ==
  ASSUME ObjectInv, NEW g \in Guests, DestroyBuffer(g), NEW x \in Hosts
  PROVE  \E n \in Born : HostInv(x, n)'
<1>0. TypeOK /\ Maps /\ Live(g, "buffer") /\ GuestDestroys(g)
  BY DEF ObjectInv, DestroyBuffer
<1>1. guestObj[g] # None /\ g \notin pendingGuest
  BY <1>0, LiveFacts
<1>2. PICK n \in Born :
        /\ g2h[g] # None /\ HostInv(g2h[g], n) /\ guestObj[g].born = n
        /\ Alive(toHost, hostObj[g2h[g]], g2h[g]) /\ NotCallback(toHost, hostObj[g2h[g]], g2h[g])
        /\ g2h[g] \notin deferred /\ g2h[g] \notin creates
        /\ g2h[g] \in HostIds => orphaned[g2h[g]] = None /\ ~Creating(g2h[g])
  BY <1>0, LiveDestructible
<1>4. /\ \A y \in Guests \ {g} : guestObj'[y] = guestObj[y]
      /\ guestObj'[g] # None => guestObj'[g].born = guestObj[g].born
  BY <1>0, <1>1, GuestDestroysEffect
<1>5. UNCHANGED <<creates, usedParams, orphaned, toProxy>> /\ hostState' = hostState
  BY DEF DestroyBuffer
<1>6. \A y : EvLater(toProxy, toProxy', y)
  BY <1>5, EvKept
<1>7. CASE g2h[g] \notin inUse
  <2>1. QueueBufferDestroy(g, n) /\ UNCHANGED deferred
    BY <1>2, <1>7 DEF DestroyBuffer
  <2>2. DestroySent(g, n)
    BY <1>0, <1>2, <2>1, DestroySentEffect DEF QueueBufferDestroy
  <2>. QED
    BY <1>1, <1>2, <1>4, <1>5, <1>6, <2>1, <2>2, DestroySentHost
<1>8. CASE g2h[g] \in inUse
  <2>h. PICK h \in Hosts : h = g2h[g]
    BY <1>0, LivePair
  <2>1. h2g[h] = g /\ h \notin pendingHost /\ g # None
    BY <1>0, <2>h, LivePair
  <2>2. RetireGuestObject(g) /\ deferred' = deferred \cup {h} /\ UNCHANGED toHost
    BY <1>8, <2>h DEF DestroyBuffer
  <2>3. /\ interfaces' = [interfaces EXCEPT ![g] = None] /\ pendingGuest' = pendingGuest \cup {g}
        /\ \A y \in Hosts \ {h} : hostIfaces'[y] = hostIfaces[y]
        /\ h2g' = h2g /\ pendingHost' = pendingHost
    BY <2>2, <2>h DEF RetireGuestObject
  <2>4. hostObj' = hostObj /\ hostUses' = hostUses /\ hostCreates' = hostCreates
    BY <1>5 DEF hostState
  <2>5. CASE x # h
    <3>1. h2g[x] # g /\ (h2g[x] # None => h2g[x] \in Guests)
      BY <1>0, <2>h, <2>1, <2>5 DEF Maps, TypeOK
    <3>2. Undisturbed(x)
      BY <1>0, <1>4, <1>5, <2>2, <2>3, <2>4, <2>5, <3>1 DEF Undisturbed, TypeOK
    <3>. QED
      BY <1>6, <2>2, <3>2, ReqKept, Others
  <2>6. CASE x = h
    <3>1. HostInv(h, n) /\ Alive(toHost, hostObj[h], h) /\ NotCallback(toHost, hostObj[h], h)
      BY <1>2, <2>h
    <3>2. /\ interfaces'[g] = None /\ g \in pendingGuest' /\ h \in deferred' /\ h2g'[h] = g
      BY <1>0, <2>1, <2>2, <2>3 DEF TypeOK
    <3>3. None # "params" /\ None # "callback"
      BY TablesAssumption DEF Interface, GuestCreated
    <3>4. DeferredInv(h)'
      BY <2>1, <3>2 DEF DeferredInv
    <3>5. PairInv(h, n)'
      BY <1>2, <1>4, <2>1, <2>2, <2>4, <3>1, <3>2, <3>3 DEF PairInv
    <3>6. (Gone(h)' <=> Gone(h)) /\ (Creating(h)' <=> Creating(h)) /\ (OneCreate(h)' <=> OneCreate(h))
      BY <1>5, <2>2, <2>4 DEF Gone, Creating, OneCreate
    <3>7. ASSUME h \in HostIds
          PROVE  (EventInv(h, n) /\ FreeInv(h) /\ OrphanInv(h) /\ CreateInv(h, n))'
      <4>1. /\ orphaned'[h] = None /\ h \notin creates' /\ ~Creating(h)'
        BY <1>2, <1>5, <2>h, <3>6, <3>7
      <4>2. EventInv(h, n)' /\ FreeInv(h)' /\ OrphanInv(h)'
        BY <1>5, <2>1, <2>3, <3>1, <3>2, <3>6, <3>7, <4>1
        DEF HostInv, EventInv, FreeInv, OrphanInv, IsHostIdAvailable
      <4>3. CreateInv(h, n)'
        BY <2>4, <3>1, <3>6, <3>7, <4>1 DEF HostInv, CreateInv
      <4>. QED
        BY <4>2, <4>3
    <3>8. ASSUME h \in HostServerIds PROVE ServerInv(h, n)'
      BY <1>5, <2>1, <2>2, <2>4, <3>1, <3>2, <3>3, <3>8 DEF HostInv, ServerInv
    <3>9. HostInv(h, n)'
      BY <2>2, <2>4, <3>1, <3>4, <3>5, <3>7, <3>8 DEF HostInv
    <3>. QED
      BY <2>6, <3>9
  <2>. QED
    BY <2>5, <2>6
<1>. QED
  BY <1>7, <1>8

-----------------------------------------------------------------------------
(* Events                                                                  *)

LEMMA TakeFacts ==
  ASSUME ObjectInv, NEW op, Take(op)
  PROVE  /\ Running /\ ev \in Event /\ ev.op = op /\ ev = toProxy[1] /\ ev.id \in Hosts
         /\ op \in {"done", "created", "failed", "delete_id"} => ev.id \in HostIds
         /\ op \in {"created", "offer"} => ev.new_id \in HostServerIds /\ ev.new_born \in Born
         /\ Loses(toProxy, toProxy', Len(toProxy) - 1)
         /\ \A y : EvLater(toProxy, toProxy', y)
<1>1. Running /\ toProxy # <<>> /\ ev.op = op /\ toProxy' = Tail(toProxy)
  BY DEF Take
<1>2. TypeOK /\ IdRanges
  BY DEF ObjectInv
<1>3. /\ Loses(toProxy, toProxy', Len(toProxy) - 1) /\ ev = toProxy[1] /\ ev \in Event
  BY <1>1, <1>2, TailLoses DEF TypeOK, ev
<1>4. \A y : EvLater(toProxy, toProxy', y)
  BY <1>1, <1>2, EvTaken
<1>5. ev.id \in Hosts /\ (op \in {"created", "offer"} => ev.new_id \in HostServerIds /\ ev.new_born \in Born)
  BY <1>1, <1>3 DEF Event
<1>6. 1 \in DOMAIN toProxy
  BY <1>3 DEF Loses
<1>7. op \in {"done", "created", "failed", "delete_id"} => ev.id \in HostIds
  BY <1>1, <1>2, <1>3, <1>6 DEF IdRanges
<1>. QED
  BY <1>1, <1>3, <1>4, <1>5, <1>7

\* A received event that changes no table
LEMMA DroppedHost ==
  ASSUME ObjectInv, NEW op, Take(op), NEW x \in Hosts,
         UNCHANGED <<h2g, hostIfaces, pendingHost, interfaces, pendingGuest, creates, usedParams, orphaned,
                     deferred, guestObj, hostState, toHost>>
  PROVE  \E n \in Born : HostInv(x, n)'
<1>1. EvLater(toProxy, toProxy', x)
  BY TakeFacts
<1>2. Undisturbed(x)
  BY DEF Undisturbed, hostState
<1>. QED
  BY <1>1, <1>2, ReqKept, Others

LEMMA OnEventHost ==
  ASSUME ObjectInv, OnEvent \/ OnRefer, NEW x \in Hosts
  PROVE  \E n \in Born : HostInv(x, n)'
<1>1. UNCHANGED <<shadow, context, guestObj, hostState, toHost>> /\ (Take("event") \/ Take("refer"))
  BY DEF OnEvent, OnRefer
<1>. QED
  BY <1>1, DroppedHost DEF shadow, context

\* retire_server_destroyed_object of a pair
LEMMA RetirePair ==
  ASSUME TypeOK, NEW g \in Guests, g2h[g] # None, RetireServerDestroyed(g)
  PROVE  /\ h2g' = [h2g EXCEPT ![g2h[g]] = None]
         /\ hostIfaces' = [hostIfaces EXCEPT ![g2h[g]] = None]
         /\ g2h' = [g2h EXCEPT ![g] = None]
         /\ interfaces' = [interfaces EXCEPT ![g] = None]
         /\ pendingHost' = pendingHost \cup {g2h[g]} /\ UNCHANGED pendingGuest
BY DEF RetireServerDestroyed, TypeOK

\* What done does: nothing, or the host ID is left waiting for its delete_id.
LEMMA OnDoneEffect ==
  ASSUME ObjectInv, OnDone
  PROVE  /\ Take("done") /\ UNCHANGED <<context, hostState, born, toHost>>
         /\ \/ UNCHANGED <<shadow, guestObj>> /\ out' = {}
            \/ /\ Dispatches(ev.id) /\ h2g[ev.id] = None /\ hostIfaces[ev.id] # None
               /\ hostIfaces' = [hostIfaces EXCEPT ![ev.id] = None]
               /\ pendingHost' = pendingHost \cup {ev.id}
               /\ UNCHANGED <<g2h, h2g, interfaces, pendingGuest, guestObj>> /\ out' = {}
            \/ /\ Dispatches(ev.id) /\ h2g[ev.id] # None /\ h2g[ev.id] \in Guests
               /\ g2h[h2g[ev.id]] = ev.id /\ h2g[ev.id] \notin pendingGuest
               /\ h2g' = [h2g EXCEPT ![ev.id] = None]
               /\ hostIfaces' = [hostIfaces EXCEPT ![ev.id] = None]
               /\ g2h' = [g2h EXCEPT ![h2g[ev.id]] = None]
               /\ interfaces' = [interfaces EXCEPT ![h2g[ev.id]] = None]
               /\ pendingHost' = pendingHost \cup {ev.id} /\ UNCHANGED pendingGuest
               /\ guestObj' = [guestObj EXCEPT ![h2g[ev.id]] = None]
               /\ Deliver(h2g[ev.id], ev.born)
<1>0. Take("done") /\ UNCHANGED <<context, hostState, born, toHost>>
  BY DEF OnDone
<1>1. ev.id \in Hosts /\ TypeOK /\ Maps
  BY <1>0, TakeFacts DEF ObjectInv
<1>2. CASE ~Dispatches(ev.id)
  BY <1>0, <1>2 DEF OnDone, Quiet
<1>3. CASE Dispatches(ev.id) /\ h2g[ev.id] = None
  <2>1. MarkPendingDestroyHost(ev.id) /\ Quiet /\ UNCHANGED guestObj
    BY <1>3 DEF OnDone
  <2>2. hostIfaces[ev.id] # None
    BY <1>3 DEF Dispatches, IfaceOf
  <2>. QED
    BY <1>0, <1>3, <2>1, <2>2 DEF MarkPendingDestroyHost, Quiet
<1>4. CASE Dispatches(ev.id) /\ h2g[ev.id] # None
  <2>1. /\ RetireServerDestroyed(h2g[ev.id]) /\ GuestDeleteId(h2g[ev.id])
        /\ Deliver(h2g[ev.id], ev.born)
    BY <1>4 DEF OnDone
  <2>2. h2g[ev.id] \in Guests /\ g2h[h2g[ev.id]] = ev.id /\ h2g[ev.id] \notin pendingGuest
    BY <1>1, <1>4 DEF TypeOK, Maps, Dispatches, PendingDestroy
  <2>3. g2h[h2g[ev.id]] # None
    BY <1>1, <2>2, IdsAssumption DEF Hosts
  <2>. QED
    BY <1>0, <1>1, <1>4, <2>1, <2>2, <2>3, RetirePair DEF GuestDeleteId
<1>. QED
  BY <1>2, <1>3, <1>4

LEMMA OnDoneHost ==
  ASSUME ObjectInv, OnDone, NEW x \in Hosts
  PROVE  \E n \in Born : HostInv(x, n)'
<1>0. Take("done") /\ TypeOK /\ Maps
  BY DEF OnDone, ObjectInv
<1>1. UNCHANGED <<creates, usedParams, orphaned, deferred, hostObj, hostUses, hostCreates, hostState, toHost>>
  BY DEF OnDone, context, hostState
<1>h. PICK h \in HostIds : h = ev.id
  BY <1>0, TakeFacts
<1>2. h \in Hosts /\ h \notin HostServerIds
  BY IdsAssumption DEF Hosts
<1>3. Is(toProxy[1], "done", h) /\ Loses(toProxy, toProxy', Len(toProxy) - 1) /\ Mentions(toProxy[1], h)
  BY <1>0, <1>h, TakeFacts DEF Is, Mentions
<1>4. \A y : EvLater(toProxy, toProxy', y)
  BY <1>0, TakeFacts
<1>5. CASE UNCHANGED <<shadow, guestObj>>
  BY <1>0, <1>1, <1>5, DroppedHost DEF shadow
<1>6. CASE ~UNCHANGED <<shadow, guestObj>>
  <2>1. PICK n \in Born : HostInv(h, n)
    BY <1>2 DEF ObjectInv
  <2>2. /\ Requests(toHost, hostObj[h], h, n) /\ UsedObject(hostUses, hostObj[h], h)
        /\ PairInv(h, n) /\ DeferredInv(h) /\ EventInv(h, n) /\ FreeInv(h) /\ OrphanInv(h)
        /\ CreateInv(h, n)
    BY <2>1 DEF HostInv
  <2>3. Gone(h)
    BY <1>3, <1>4, <2>2, TakeEvent DEF EventInv, EvLater
  <2>4. ~OnlyResults(toProxy, h)
    <3>1. 1 \in DOMAIN toProxy /\ ~IsResult(toProxy[1], h)
      BY <1>3 DEF Loses, IsResult, Is
    <3>. QED
      BY <1>3, <3>1 DEF OnlyResults
  <2>5. /\ h2g'[h] = None /\ hostIfaces'[h] = None /\ h \in pendingHost'
        /\ h2g[h] # None => h2g[h] \notin pendingGuest
        /\ \A y \in Hosts \ {h} : /\ h2g'[y] = h2g[y] /\ hostIfaces'[y] = hostIfaces[y]
                                  /\ y \in pendingHost' <=> y \in pendingHost
        /\ \A y \in Guests : h2g[h] # y => interfaces'[y] = interfaces[y] /\ guestObj'[y] = guestObj[y]
        /\ pendingGuest' = pendingGuest
    BY <1>0, <1>2, <1>6, <1>h, OnDoneEffect DEF TypeOK, shadow
  <2>6. CASE x # h
    <3>1. h2g[x] # None => h2g[x] \in Guests /\ h2g[x] # h2g[h]
      BY <1>0, <1>2, <2>6 DEF Maps, TypeOK
    <3>2. Undisturbed(x)
      BY <1>1, <2>5, <2>6, <3>1 DEF Undisturbed
    <3>. QED
      BY <1>1, <1>4, <3>2, ReqKept, Others
  <2>7. CASE x = h
    <3>1. h \notin deferred /\ orphaned[h] = None
      BY <2>2, <2>4, <2>5 DEF DeferredInv, OrphanInv
    <3>2. ~LiveParams(h)
      <4>1. ~Alive(toHost, hostObj[h], h)
        BY <2>3, AliveNotGone
      <4>. QED
        BY <2>2, <4>1 DEF LiveParams, PairInv
    <3>3. h \notin creates /\ ~Creating(h)
      BY <2>2, <3>1, <3>2 DEF CreateInv
    <3>4. Gone(h)'
      BY <1>1, <2>3 DEF Gone
    <3>5. ~Creating(h)' /\ OneCreate(h)'
      BY <1>1, <1>4, <2>2, <3>3 DEF Creating, OneCreate, CreateInv, EvLater
    <3>6. PairInv(h, n)' /\ DeferredInv(h)'
      BY <1>1, <2>5, <3>1 DEF PairInv, DeferredInv
    <3>7. EventInv(h, n)' /\ FreeInv(h)' /\ OrphanInv(h)'
      BY <1>1, <1>4, <2>2, <2>5, <3>1, <3>4 DEF EventInv, FreeInv, OrphanInv, IsHostIdAvailable, EvLater
    <3>8. CreateInv(h, n)'
      BY <1>1, <2>2, <3>3, <3>5 DEF CreateInv
    <3>9. HostInv(h, n)'
      BY <1>1, <1>2, <2>2, <3>6, <3>7, <3>8 DEF HostInv
    <3>. QED
      BY <2>7, <3>9
  <2>. QED
    BY <2>6, <2>7
<1>. QED
  BY <1>5, <1>6

\* What delete_id does: it frees a reserved host ID, unmaps params whose result
\* is still to come, removes a pair, or does nothing.
DeleteIdKeeps ==
  UNCHANGED <<shadow, creates, inUse, deferred, guestObj>>
DeleteIdFrees(h) ==
  /\ h \in pendingHost /\ pendingHost' = pendingHost \ {h}
  /\ UNCHANGED <<g2h, h2g, interfaces, hostIfaces, pendingGuest, creates, inUse, deferred, guestObj>>
DeleteIdUnmaps(h) ==
  /\ h \notin pendingHost /\ orphaned[h] # None /\ h2g[h] = orphaned[h]
  /\ h2g[h] \in Guests /\ g2h[h2g[h]] = h
  /\ h2g' = [h2g EXCEPT ![h] = None]
  /\ hostIfaces' = [hostIfaces EXCEPT ![h] = IF @ = None THEN interfaces[h2g[h]] ELSE @]
  /\ g2h' = [g2h EXCEPT ![h2g[h]] = None]
  /\ interfaces' = [interfaces EXCEPT ![h2g[h]] = None]
  /\ pendingGuest' = pendingGuest \ {h2g[h]}
  /\ guestObj' = [guestObj EXCEPT ![h2g[h]] = None]
  /\ UNCHANGED <<pendingHost, creates, inUse, deferred>>
DeleteIdRemoves(h) ==
  /\ h \notin pendingHost /\ orphaned[h] = None
  /\ h2g[h] # None /\ h2g[h] \in Guests /\ g2h[h2g[h]] = h
  /\ h2g' = [h2g EXCEPT ![h] = None] /\ hostIfaces' = [hostIfaces EXCEPT ![h] = None]
  /\ g2h' = [g2h EXCEPT ![h2g[h]] = None]
  /\ interfaces' = [interfaces EXCEPT ![h2g[h]] = None]
  /\ pendingGuest' = pendingGuest \ {h2g[h]}
  /\ guestObj' = [guestObj EXCEPT ![h2g[h]] = None]
  /\ creates' = creates \ {h} /\ inUse' = inUse \ {h} /\ deferred' = deferred \ {h}
  /\ UNCHANGED pendingHost

LEMMA OnDeleteIdEffect ==
  ASSUME ObjectInv, OnDeleteId, NEW h, h = ev.id
  PROVE  /\ Take("delete_id") /\ out' = {} /\ h \in HostIds
         /\ UNCHANGED <<usedParams, orphaned, fatal, hostState, born, toHost>>
         /\ DeleteIdKeeps \/ DeleteIdFrees(h) \/ DeleteIdUnmaps(h) \/ DeleteIdRemoves(h)
<1>0. Take("delete_id") /\ out' = {} /\ UNCHANGED <<usedParams, orphaned, fatal, hostState, born, toHost>>
  BY DEF OnDeleteId, Quiet
<1>1. h \in HostIds /\ h \in Hosts /\ TypeOK /\ Maps
  BY <1>0, TakeFacts DEF ObjectInv, Hosts
<1>2. h2g[h] # None => h2g[h] \in Guests /\ g2h[h2g[h]] = h /\ g2h[h2g[h]] # None
  BY <1>1, IdsAssumption DEF TypeOK, Maps, Hosts
<1>3. CASE h \in pendingHost
  <2>1. DeleteIdFrees(h)
    BY <1>3 DEF OnDeleteId, DeleteIdFrees, ConsumeHostDeleteId
  <2>. QED
    BY <1>0, <1>1, <2>1
<1>4. CASE h \notin pendingHost /\ orphaned[h] # None
  <2>1. CASE h2g[h] = orphaned[h]
    <3>1. /\ RemoveGuestMapping(h2g[h]) /\ ClearPendingDestroyGuest(h2g[h]) /\ GuestDeleteId(h2g[h])
          /\ UNCHANGED <<pendingHost, creates, inUse, deferred>>
      BY <1>1, <1>4, <2>1 DEF OnDeleteId
    <3>2. h2g[h] # None
      BY <1>4, <2>1
    <3>3. DeleteIdUnmaps(h)
      BY <1>1, <1>2, <1>4, <2>1, <3>1, <3>2, UnmapPair
      DEF DeleteIdUnmaps, ClearPendingDestroyGuest, GuestDeleteId
    <3>. QED
      BY <1>0, <1>1, <3>3
  <2>2. CASE h2g[h] # orphaned[h]
    <3>1. DeleteIdKeeps
      BY <1>1, <1>4, <2>2 DEF OnDeleteId, DeleteIdKeeps, shadow
    <3>. QED
      BY <1>0, <1>1, <3>1
  <2>. QED
    BY <2>1, <2>2
<1>5. CASE h \notin pendingHost /\ orphaned[h] = None
  <2>1. IF h2g[h] = None THEN UNCHANGED <<shadow, creates, inUse, deferred, guestObj>>
        ELSE /\ RemoveId(h2g[h]) /\ GuestDeleteId(h2g[h]) /\ creates' = creates \ {h}
             /\ inUse' = inUse \ {h} /\ deferred' = deferred \ {h}
    BY <1>5 DEF OnDeleteId
  <2>2. CASE h2g[h] = None
    BY <1>0, <1>1, <2>1, <2>2 DEF DeleteIdKeeps
  <2>3. CASE h2g[h] # None
    <3>1. DeleteIdRemoves(h)
      BY <1>1, <1>2, <1>5, <2>1, <2>3, RemovePair DEF DeleteIdRemoves, GuestDeleteId
    <3>. QED
      BY <1>0, <1>1, <3>1
  <2>. QED
    BY <2>2, <2>3
<1>. QED
  BY <1>3, <1>4, <1>5

LEMMA OnDeleteIdHost ==
  ASSUME ObjectInv, OnDeleteId, NEW x \in Hosts
  PROVE  \E n \in Born : HostInv(x, n)'
<1>0. Take("delete_id") /\ TypeOK /\ Maps
  BY DEF OnDeleteId, ObjectInv
<1>1. UNCHANGED <<usedParams, orphaned, hostObj, hostUses, hostCreates, hostState, toHost>>
  BY DEF OnDeleteId, hostState
<1>h. PICK h \in HostIds : h = ev.id
  BY <1>0, TakeFacts
<1>2. h \in Hosts /\ h \notin HostServerIds
  BY IdsAssumption DEF Hosts
<1>3. Is(toProxy[1], "delete_id", h) /\ Loses(toProxy, toProxy', Len(toProxy) - 1)
  BY <1>0, <1>h, TakeFacts DEF Is
<1>4. \A y : EvLater(toProxy, toProxy', y)
  BY <1>0, TakeFacts
<1>5. PICK n \in Born : HostInv(h, n)
  BY <1>2 DEF ObjectInv
<1>6. /\ Requests(toHost, hostObj[h], h, n) /\ UsedObject(hostUses, hostObj[h], h)
      /\ PairInv(h, n) /\ DeferredInv(h) /\ EventInv(h, n) /\ FreeInv(h) /\ OrphanInv(h)
      /\ CreateInv(h, n)
  BY <1>5 DEF HostInv
<1>7. Gone(h) /\ Gone(h)' /\ OnlyResults(toProxy', h)
  <2>1. Announced(h, "delete_id", toProxy)
    BY <1>3 DEF Announced, Loses, Is
  <2>2. Gone(h)
    BY <1>6, <2>1 DEF EventInv
  <2>. QED
    BY <1>1, <1>3, <1>6, <2>2, TakeEvent DEF EventInv, Gone
<1>8. ~Alive(toHost, hostObj[h], h)
  BY <1>7, AliveNotGone
<1>9. EventInv(h, n)' /\ Requests(toHost', hostObj'[h], h, n) /\ UsedObject(hostUses', hostObj'[h], h)
  BY <1>1, <1>4, <1>6, <1>7 DEF EventInv, EvLater
<1>10. (Creating(h)' => Creating(h)) /\ OneCreate(h)' /\ \A p \in hostCreates' : p.id = h => p.born = n
  BY <1>1, <1>4, <1>6 DEF Creating, OneCreate, CreateInv, EvLater
<1>11. ~Creating(h) => Silent(toProxy', h)
  BY <1>3, <1>4, <1>7, TakeEvent DEF Creating, EvLater
<1>12. ~LiveParams(h) /\ h \notin creates /\ (Creating(h) => orphaned[h] # None)
  <2>1. ~LiveParams(h)
    BY <1>6, <1>8 DEF LiveParams, PairInv
  <2>. QED
    BY <1>6, <2>1 DEF CreateInv
<1>13. CASE DeleteIdKeeps
  BY <1>0, <1>1, <1>13, DroppedHost DEF shadow, DeleteIdKeeps
<1>14. CASE DeleteIdFrees(h)
  <2>1. h2g'[h] = None /\ hostIfaces'[h] = None /\ orphaned'[h] = None /\ h \notin creates' /\ h \notin deferred'
    BY <1>0, <1>1, <1>2, <1>6, <1>12, <1>14 DEF DeleteIdFrees, Maps, FreeInv, OrphanInv, DeferredInv
  <2>2. ~Creating(h) /\ ~Creating(h)'
    BY <1>1, <1>10, <1>12, <2>1
  <2>3. PairInv(h, n)' /\ DeferredInv(h)' /\ OrphanInv(h)'
    BY <2>1 DEF PairInv, DeferredInv, OrphanInv
  <2>4. FreeInv(h)'
    BY <1>7, <1>11, <2>1, <2>2 DEF FreeInv
  <2>5. CreateInv(h, n)'
    BY <1>10, <2>1, <2>2 DEF CreateInv
  <2>6. HostInv(h, n)'
    BY <1>2, <1>9, <2>3, <2>4, <2>5 DEF HostInv
  <2>7. CASE x # h
    <3>1. Undisturbed(x)
      BY <1>1, <1>14, <2>7 DEF Undisturbed, DeleteIdFrees
    <3>. QED
      BY <1>1, <1>4, <3>1, ReqKept, Others
  <2>. QED
    BY <2>6, <2>7
<1>15. CASE DeleteIdUnmaps(h)
  <2>1. h2g[h] \in pendingGuest /\ interfaces[h2g[h]] = "params" /\ hostIfaces[h] = None /\ h2g[h] # None
    BY <1>6, <1>15 DEF DeleteIdUnmaps, OrphanInv, PairInv
  <2>2. /\ h2g'[h] = None /\ hostIfaces'[h] = "params" /\ h \notin pendingHost' /\ h \notin creates'
    BY <1>0, <1>2, <1>12, <1>15, <2>1 DEF DeleteIdUnmaps, TypeOK
  <2>3. None # "params"
    BY TablesAssumption DEF Interface, GuestCreated
  <2>4. h \notin deferred'
    BY <1>6, <1>15, <2>1, <2>3 DEF DeferredInv, DeleteIdUnmaps
  <2>5. PairInv(h, n)' /\ DeferredInv(h)' /\ OrphanInv(h)'
    BY <1>7, <2>2, <2>4 DEF PairInv, DeferredInv, OrphanInv
  <2>6. FreeInv(h)'
    BY <2>2, <2>3 DEF FreeInv, IsHostIdAvailable
  <2>7. CreateInv(h, n)'
    BY <1>1, <1>10, <1>12, <2>2 DEF CreateInv, LiveParams
  <2>8. HostInv(h, n)'
    BY <1>2, <1>9, <2>5, <2>6, <2>7 DEF HostInv
  <2>9. CASE x # h
    <3>1. h2g[x] # None => h2g[x] \in Guests /\ h2g[x] # h2g[h]
      BY <1>0, <1>2, <2>1, <2>9 DEF Maps, TypeOK
    <3>2. Undisturbed(x)
      BY <1>0, <1>1, <1>15, <2>9, <3>1 DEF Undisturbed, DeleteIdUnmaps, TypeOK
    <3>. QED
      BY <1>1, <1>4, <3>2, ReqKept, Others
  <2>. QED
    BY <2>8, <2>9
<1>16. CASE DeleteIdRemoves(h)
  <2>1. /\ h2g'[h] = None /\ hostIfaces'[h] = None /\ h \notin pendingHost' /\ h \notin creates'
        /\ orphaned'[h] = None /\ h \notin deferred'
    BY <1>0, <1>1, <1>2, <1>12, <1>16 DEF DeleteIdRemoves, TypeOK
  <2>2. ~Creating(h) /\ ~Creating(h)'
    BY <1>1, <1>10, <1>12, <2>1
  <2>3. PairInv(h, n)' /\ DeferredInv(h)' /\ OrphanInv(h)'
    BY <2>1 DEF PairInv, DeferredInv, OrphanInv
  <2>4. FreeInv(h)'
    BY <1>7, <1>11, <2>1, <2>2 DEF FreeInv
  <2>5. CreateInv(h, n)'
    BY <1>10, <2>1, <2>2 DEF CreateInv
  <2>6. HostInv(h, n)'
    BY <1>2, <1>9, <2>3, <2>4, <2>5 DEF HostInv
  <2>7. CASE x # h
    <3>1. h2g[x] # None => h2g[x] \in Guests /\ h2g[x] # h2g[h]
      BY <1>0, <1>2, <1>16, <2>7 DEF Maps, TypeOK, DeleteIdRemoves
    <3>2. Undisturbed(x)
      BY <1>0, <1>1, <1>16, <2>7, <3>1 DEF Undisturbed, DeleteIdRemoves, TypeOK
    <3>. QED
      BY <1>1, <1>4, <3>2, ReqKept, Others
  <2>. QED
    BY <2>6, <2>7
<1>. QED
  BY <1>h, <1>13, <1>14, <1>15, <1>16, OnDeleteIdEffect

-----------------------------------------------------------------------------
(* Objects the server creates                                              *)

\* The guest gets a server-range ID for the host's new object s.
Introduced(g, s, i, n) ==
  /\ g \in ServerIds /\ g \in Guests /\ s \in Hosts /\ n \in Born
  /\ g2h[g] = None /\ interfaces[g] = None /\ h2g[s] = None
  /\ g2h' = [g2h EXCEPT ![g] = s] /\ h2g' = [h2g EXCEPT ![s] = g]
  /\ interfaces' = [interfaces EXCEPT ![g] = i]
  /\ guestObj' = [guestObj EXCEPT ![g] = [interface |-> i, born |-> n, state |-> "live"]]
  /\ UNCHANGED <<hostIfaces, pendingHost, pendingGuest>>

LEMMA NewServerEffect ==
  ASSUME ObjectInv, NEW op \in {"created", "offer"}, Take(op), NEW i, NewServerObject(i),
         IsHostIdAvailable(ev.new_id)
  PROVE  \E g \in ServerIds : Introduced(g, ev.new_id, i, ev.new_born)
<1>1. PICK g \in ServerIds :
        /\ AllocateGuestServerId(g) /\ MapId(g, ev.new_id) /\ TrackInterface(g, i)
        /\ guestObj' = [guestObj EXCEPT ![g] = [interface |-> i, born |-> ev.new_born, state |-> "live"]]
  BY DEF NewServerObject
<1>2. g \in Guests /\ ev.new_id \in Hosts /\ TypeOK /\ ev.new_born \in Born
  BY TakeFacts DEF Guests, Hosts, ObjectInv
<1>3. g2h[g] = None /\ interfaces[g] = None /\ h2g[ev.new_id] = None
  BY <1>1 DEF AllocateGuestServerId, IsHostIdAvailable
<1>4. g2h' = [g2h EXCEPT ![g] = ev.new_id] /\ h2g' = [h2g EXCEPT ![ev.new_id] = g]
  BY <1>1, <1>2, <1>3, MapFresh
<1>. QED
  BY <1>1, <1>2, <1>3, <1>4 DEF Introduced, NewServerObject, TrackInterface

\* The event that introduces s is the only one, and the host has the object.
LEMMA IntroducedFacts ==
  ASSUME ObjectInv, NEW op \in {"created", "offer"}, Take(op), NEW s, s = ev.new_id, NEW n, HostInv(s, n)
  PROVE  /\ s \in HostServerIds /\ s \in Hosts /\ s \notin HostIds
         /\ ev.new_born = n /\ hostObj[s] # None /\ Silent(toHost, s) /\ h2g[s] = None
         /\ Meant(toProxy', s, n) /\ ~Coming(toProxy', s) /\ Fresh(toProxy', s, n)
         /\ NotCallback(toHost, hostObj[s], s) /\ Alive(toHost, hostObj[s], s) /\ s \notin deferred
<1>1. /\ s \in HostServerIds /\ Loses(toProxy, toProxy', Len(toProxy) - 1) /\ ev = toProxy[1]
      /\ ev.op = op /\ EvLater(toProxy, toProxy', s)
  BY TakeFacts
<1>2. s \in Hosts /\ s \notin HostIds
  BY <1>1, IdsAssumption DEF Hosts
<1>3. ServerInv(s, n) /\ DeferredInv(s)
  BY <1>1 DEF HostInv
<1>4. Introduces(toProxy[1], s)
  BY <1>1 DEF Introduces
<1>5. Coming(toProxy, s)
  BY <1>1, <1>4 DEF Coming, Loses
<1>6. hostObj[s] # None /\ Silent(toHost, s) /\ h2g[s] = None /\ NotCallback(toHost, hostObj[s], s)
  BY <1>3, <1>5 DEF ServerInv
<1>7. Meant(toProxy', s, n) /\ ~Coming(toProxy', s) /\ ev.new_born = n /\ Fresh(toProxy', s, n)
  BY <1>1, <1>3, <1>4, TakeEvent DEF ServerInv, EvLater
<1>8. Alive(toHost, hostObj[s], s)
  BY <1>6, SilentEvents DEF Alive
<1>9. s \notin deferred
  BY <1>3, <1>6 DEF DeferredInv
<1>. QED
  BY <1>1, <1>2, <1>6, <1>7, <1>8, <1>9

LEMMA IntroducedHost ==
  ASSUME ObjectInv, NEW op \in {"created", "offer"}, Take(op), NEW s, s = ev.new_id,
         NEW i \in {"offer", "buffer"}, NEW g, Introduced(g, s, i, ev.new_born),
         UNCHANGED <<deferred, hostState, toHost>>
  PROVE  \E n \in Born : HostInv(s, n)'
<1>0. TypeOK /\ s \in Hosts
  BY DEF ObjectInv, Introduced
<1>1. PICK n \in Born : HostInv(s, n)
  BY <1>0 DEF ObjectInv
<1>2. /\ s \in HostServerIds /\ s \notin HostIds
      /\ ev.new_born = n /\ hostObj[s] # None /\ Silent(toHost, s)
      /\ Meant(toProxy', s, n) /\ ~Coming(toProxy', s) /\ Fresh(toProxy', s, n)
      /\ NotCallback(toHost, hostObj[s], s) /\ Alive(toHost, hostObj[s], s) /\ s \notin deferred
  BY <1>1, IntroducedFacts
<1>3. /\ h2g'[s] = g /\ interfaces'[g] = i /\ guestObj'[g].born = n
  BY <1>0, <1>2 DEF Introduced, TypeOK
<1>g. g \notin pendingGuest'
  BY DEF ObjectInv, GuestInv, Introduced
<1>4. hostObj' = hostObj /\ hostUses' = hostUses /\ toHost' = toHost /\ deferred' = deferred
  BY DEF hostState
<1>5. PairInv(s, n)' /\ DeferredInv(s)'
  BY <1>2, <1>3, <1>4 DEF PairInv, DeferredInv
<1>6. ServerInv(s, n)'
  BY <1>1, <1>2, <1>3, <1>4, <1>g DEF HostInv, ServerInv
<1>7. HostInv(s, n)'
  BY <1>1, <1>2, <1>4, <1>5, <1>6 DEF HostInv
<1>. QED
  BY <1>7

LEMMA IntroducedOthers ==
  ASSUME ObjectInv, NEW g, NEW s, NEW i, NEW b, Introduced(g, s, i, b), NEW x \in Hosts, x # s
  PROVE  /\ h2g'[x] = h2g[x] /\ hostIfaces'[x] = hostIfaces[x]
         /\ h2g[x] # None =>
              /\ h2g[x] \in Guests /\ h2g[x] # g
              /\ guestObj'[h2g[x]] = guestObj[h2g[x]] /\ interfaces'[h2g[x]] = interfaces[h2g[x]]
<1>0. TypeOK /\ Maps /\ x # None
  BY IdsAssumption DEF ObjectInv, Hosts
<1>1. h2g[x] # None => h2g[x] \in Guests /\ h2g[x] # g
  BY <1>0 DEF Introduced, TypeOK, Maps
<1>. QED
  BY <1>0, <1>1 DEF Introduced, TypeOK

LEMMA OnOfferHost ==
  ASSUME ObjectInv, OnOffer, NEW x \in Hosts
  PROVE  \E n \in Born : HostInv(x, n)'
<1>0. /\ Take("offer")
      /\ UNCHANGED <<creates, usedParams, orphaned, inUse, deferred, hostState, toHost>>
  BY DEF OnOffer
<1>1. CASE UNCHANGED <<shadow, guestObj>>
  BY <1>0, <1>1, DroppedHost DEF shadow
<1>2. CASE ~UNCHANGED <<shadow, guestObj>>
  <2>1. NewServerObject("offer") /\ IsHostIdAvailable(ev.new_id)
    BY <1>2 DEF OnOffer
  <2>2. PICK g \in ServerIds : Introduced(g, ev.new_id, "offer", ev.new_born)
    BY <1>0, <2>1, NewServerEffect
  <2>3. CASE x = ev.new_id
    BY <1>0, <2>2, <2>3, IntroducedHost
  <2>4. CASE x # ev.new_id
    <3>0. /\ h2g'[x] = h2g[x] /\ hostIfaces'[x] = hostIfaces[x]
          /\ h2g[x] # None =>
               /\ guestObj'[h2g[x]] = guestObj[h2g[x]] /\ interfaces'[h2g[x]] = interfaces[h2g[x]]
      BY <2>2, <2>4, IntroducedOthers
    <3>1. Undisturbed(x)
      BY <1>0, <2>2, <3>0 DEF Undisturbed, Introduced, hostState
    <3>. QED
      BY <1>0, <3>1, TakeFacts, ReqKept, Others
  <2>. QED
    BY <2>3, <2>4
<1>. QED
  BY <1>1, <1>2

\* The result of a create arrives; orphaned params are forgotten.
LEMMA ResultTaken ==
  ASSUME ObjectInv, NEW op \in {"created", "failed"}, Take(op), NEW h \in HostIds, h = ev.id,
         NEW n, HostInv(h, n), ReqSame(toHost, toHost', h), hostState' = hostState,
         h2g'[h] = h2g[h], h \in pendingHost' <=> h \in pendingHost, deferred' = deferred,
         h2g[h] # None =>
           /\ guestObj'[h2g[h]] = guestObj[h2g[h]] /\ interfaces'[h2g[h]] = interfaces[h2g[h]]
           /\ h2g[h] \in pendingGuest' <=> h2g[h] \in pendingGuest,
         h \notin creates', orphaned'[h] = None,
         hostIfaces'[h] = IF h2g[h] = None /\ orphaned[h] # None THEN None ELSE hostIfaces[h]
  PROVE  HostInv(h, n)'
<1>1. /\ Loses(toProxy, toProxy', Len(toProxy) - 1) /\ IsResult(toProxy[1], h)
      /\ EvLater(toProxy, toProxy', h)
  BY TakeFacts DEF IsResult
<1>2. /\ Requests(toHost, hostObj[h], h, n) /\ UsedObject(hostUses, hostObj[h], h)
      /\ PairInv(h, n) /\ DeferredInv(h) /\ EventInv(h, n) /\ FreeInv(h) /\ OrphanInv(h)
      /\ CreateInv(h, n)
  BY DEF HostInv
<1>3. hostObj' = hostObj /\ hostUses' = hostUses /\ hostCreates' = hostCreates
  BY DEF hostState
<1>4. /\ Silent(toHost', h) <=> Silent(toHost, h)
      /\ \A o : Announced(h, o, toHost') <=> Announced(h, o, toHost)
      /\ NotCallback(toHost', hostObj'[h], h) <=> NotCallback(toHost, hostObj[h], h)
      /\ Requests(toHost', hostObj'[h], h, n)
      /\ OneIn(toHost, h) => OneIn(toHost', h)
  BY <1>2, <1>3 DEF ReqSame
<1>5. Alive(toHost', hostObj'[h], h) <=> Alive(toHost, hostObj[h], h)
  BY <1>3, <1>4 DEF Alive
<1>6. Gone(h)' <=> Gone(h)
  BY <1>3, <1>4 DEF Gone
<1>7. HasResult(toProxy, h) /\ ~HasResult(toProxy', h)
  <2>1. 1 \in DOMAIN toProxy
    BY <1>1 DEF Loses
  <2>2. OneResult(toProxy, h)
    BY <1>2 DEF CreateInv, OneCreate
  <2>. QED
    BY <1>1, <2>1, <2>2, TakeEvent DEF HasResult
<1>8. ~Creating(h)' /\ OneCreate(h)'
  BY <1>1, <1>2, <1>3, <1>4, <1>7 DEF Creating, OneCreate, CreateInv, EvLater
<1>9. CreateInv(h, n)'
  BY <1>2, <1>3, <1>8 DEF CreateInv
<1>10. OrphanInv(h)' /\ DeferredInv(h)'
  BY <1>2 DEF OrphanInv, DeferredInv
<1>11. PairInv(h, n)'
  BY <1>2, <1>4, <1>5 DEF PairInv
<1>12. EventInv(h, n)'
  BY <1>1, <1>2, <1>6 DEF EventInv, EvLater
<1>13. FreeInv(h)'
  <2>1. ASSUME IsHostIdAvailable(h)' PROVE Gone(h)' /\ Silent(toProxy', h)
    <3>1. h2g[h] = None /\ h \notin pendingHost
      BY <2>1 DEF IsHostIdAvailable
    <3>2. CASE orphaned[h] # None
      BY <1>1, <1>2, <1>6, <1>7, <3>1, <3>2, TakeEvent DEF OrphanInv, EvLater
    <3>3. CASE orphaned[h] = None
      <4>1. IsHostIdAvailable(h)
        BY <2>1, <3>1, <3>3 DEF IsHostIdAvailable
      <4>. QED
        BY <1>1, <1>2, <1>6, <4>1 DEF FreeInv, EvLater
    <3>. QED
      BY <3>2, <3>3
  <2>2. h \in pendingHost' => hostIfaces'[h] = None
    BY <1>2 DEF FreeInv
  <2>. QED
    BY <1>8, <2>1, <2>2 DEF FreeInv
<1>14. h \notin HostServerIds
  BY IdsAssumption
<1>. QED
  BY <1>2, <1>3, <1>4, <1>9, <1>10, <1>11, <1>12, <1>13, <1>14 DEF HostInv

LEMMA OnFailedHost ==
  ASSUME ObjectInv, OnFailed, NEW x \in Hosts
  PROVE  \E n \in Born : HostInv(x, n)'
<1>0. /\ Take("failed") /\ TypeOK
      /\ UNCHANGED <<g2h, h2g, interfaces, pendingHost, pendingGuest, usedParams, deferred, guestObj, hostState,
                     toHost>>
  BY DEF OnFailed, ObjectInv
<1>h. PICK h \in HostIds : h = ev.id
  BY <1>0, TakeFacts
<1>1. CASE UNCHANGED <<hostIfaces, creates, orphaned>>
  BY <1>0, <1>1, DroppedHost
<1>2. CASE ~UNCHANGED <<hostIfaces, creates, orphaned>>
  <2>0. h \in Hosts
    BY DEF Hosts
  <2>1. /\ creates' = creates \ {h} /\ orphaned'[h] = None
        /\ hostIfaces'[h] = IF h2g[h] = None /\ orphaned[h] # None THEN None ELSE hostIfaces[h]
        /\ \A y \in Hosts \ {h} : hostIfaces'[y] = hostIfaces[y]
        /\ \A y \in HostIds \ {h} : orphaned'[y] = orphaned[y]
    <3>1. CASE Orphan(h)
      <4>1. ForgetOrphan(h) /\ creates' = creates \ {h}
        BY <1>2, <1>h, <3>1 DEF OnFailed
      <4>. QED
        BY <1>0, <2>0, <4>1 DEF ForgetOrphan, RemoveHostInterface, TypeOK
    <3>2. CASE ~Orphan(h)
      <4>1. UNCHANGED <<hostIfaces, orphaned>> /\ creates' = creates \ {h}
        BY <1>2, <1>h, <3>2 DEF OnFailed
      <4>2. orphaned[h] = None
        BY <3>2 DEF Orphan
      <4>. QED
        BY <4>1, <4>2
    <3>. QED
      BY <3>1, <3>2
  <2>2. CASE x = h
    <3>1. PICK n \in Born : HostInv(h, n)
      BY <2>0 DEF ObjectInv
    <3>2. HostInv(h, n)'
      BY <1>0, <1>h, <2>1, <3>1, ReqKept, ResultTaken
    <3>. QED
      BY <2>2, <3>2
  <2>3. CASE x # h
    <3>1. Undisturbed(x)
      BY <1>0, <2>1, <2>3 DEF Undisturbed, hostState
    <3>. QED
      BY <1>0, <3>1, TakeFacts, ReqKept, Others
  <2>. QED
    BY <2>2, <2>3
<1>. QED
  BY <1>1, <1>2

\* What created does: nothing, an orphaned buffer destroyed, or a new object.
CreatedOrphan(h, s) ==
  /\ IsHostIdAvailable(s)
  /\ orphaned' = [orphaned EXCEPT ![h] = None]
  /\ hostIfaces' = IF h2g[h] = None /\ orphaned[h] # None THEN [hostIfaces EXCEPT ![h] = None]
                   ELSE hostIfaces
  /\ pendingHost' = pendingHost \cup {s}
  /\ toHost' = toHost \o <<Req("destroy", s, ev.new_born)>>
  /\ UNCHANGED <<g2h, h2g, interfaces, pendingGuest, fatal, guestObj>> /\ out' = {}
CreatedObject(h, s) ==
  /\ IsHostIdAvailable(s) /\ orphaned[h] = None /\ ~PendingDestroy(h)
  /\ \E g \in ServerIds : Introduced(g, s, "buffer", ev.new_born)
  /\ Deliver(h2g[h], ev.born)
  /\ UNCHANGED <<orphaned, fatal, toHost>>

LEMMA OnCreatedEffect ==
  ASSUME ObjectInv, OnCreated
  PROVE  /\ Take("created") /\ UNCHANGED <<usedParams, inUse, deferred, hostState, born>>
         /\ \/ /\ fatal' \in {fatal, "host_new_id"} /\ out' = {}
               /\ UNCHANGED <<shadow, creates, orphaned, guestObj, toHost>>
            \/ /\ creates' = creates \ {ev.id} /\ (Dispatches(ev.id) \/ AllowsOrphan(ev.id))
               /\ CreatedOrphan(ev.id, ev.new_id) \/ CreatedObject(ev.id, ev.new_id)
<1>0. Take("created") /\ UNCHANGED <<usedParams, inUse, deferred, hostState, born>>
  BY DEF OnCreated
<1>1. CASE ~Dispatches(ev.id) /\ ~AllowsOrphan(ev.id)
  BY <1>0, <1>1 DEF OnCreated, Quiet
<1>2. CASE (Dispatches(ev.id) \/ AllowsOrphan(ev.id)) /\ ~IsHostIdAvailable(ev.new_id)
  BY <1>0, <1>2 DEF OnCreated, Quiet
<1>3. CASE (Dispatches(ev.id) \/ AllowsOrphan(ev.id)) /\ IsHostIdAvailable(ev.new_id)
  <2>1. CASE Orphan(ev.id)
    <3>1. /\ ForgetOrphan(ev.id) /\ pendingHost' = pendingHost \cup {ev.new_id}
          /\ creates' = creates \ {ev.id} /\ Send(<<Req("destroy", ev.new_id, ev.new_born)>>) /\ Quiet
          /\ UNCHANGED <<g2h, h2g, interfaces, pendingGuest, fatal, guestObj>>
      BY <1>3, <2>1 DEF OnCreated
    <3>2. CreatedOrphan(ev.id, ev.new_id)
      BY <1>3, <3>1 DEF CreatedOrphan, ForgetOrphan, RemoveHostInterface, Send, Quiet
    <3>. QED
      BY <1>0, <1>3, <3>1, <3>2
  <2>2. CASE ~Orphan(ev.id)
    <3>1. /\ NewServerObject("buffer") /\ creates' = creates \ {ev.id} /\ Deliver(h2g[ev.id], ev.born)
          /\ UNCHANGED <<orphaned, fatal, toHost>>
      BY <1>3, <2>2 DEF OnCreated
    <3>2. \E g \in ServerIds : Introduced(g, ev.new_id, "buffer", ev.new_born)
      BY <1>0, <1>3, <3>1, NewServerEffect
    <3>3. orphaned[ev.id] = None /\ ~PendingDestroy(ev.id)
      BY <2>2 DEF Orphan
    <3>4. CreatedObject(ev.id, ev.new_id)
      BY <1>3, <3>1, <3>2, <3>3 DEF CreatedObject
    <3>. QED
      BY <1>0, <1>3, <3>1, <3>4
  <2>. QED
    BY <2>1, <2>2
<1>. QED
  BY <1>1, <1>2, <1>3

LEMMA OnCreatedHost ==
  ASSUME ObjectInv, OnCreated, NEW x \in Hosts
  PROVE  \E n \in Born : HostInv(x, n)'
<1>0. /\ Take("created") /\ TypeOK /\ UNCHANGED <<usedParams, deferred, hostState>>
  BY DEF OnCreated, ObjectInv
<1>h. PICK h \in HostIds : h = ev.id
  BY <1>0, TakeFacts
<1>s. PICK s \in HostServerIds : s = ev.new_id
  BY <1>0, TakeFacts
<1>1. h \in Hosts /\ s \in Hosts /\ h # s /\ s \notin HostIds
  BY IdsAssumption DEF Hosts
<1>2. \A y : EvLater(toProxy, toProxy', y)
  BY <1>0, TakeFacts
<1>3. PICK n \in Born : HostInv(h, n)
  BY <1>1 DEF ObjectInv
<1>4. CASE UNCHANGED <<shadow, creates, orphaned, guestObj, toHost>>
  BY <1>0, <1>4, DroppedHost DEF shadow
<1>5. CASE creates' = creates \ {h} /\ CreatedOrphan(h, s)
  <2>. DEFINE m == Req("destroy", s, ev.new_born)
  <2>1. toHost' = toHost \o <<m>> /\ h2g' = h2g
    BY <1>5, <1>s DEF CreatedOrphan
  <2>2. m \in Request /\ Is(m, "destroy", s) /\ m.born = ev.new_born /\ \A y : Mentions(m, y) => y = s
    BY <1>0, <1>1, TakeFacts DEF Req, Request, Is, Mentions
  <2>. HIDE DEF m
  <2>3. CASE x = s
    <3>1. PICK p \in Born : HostInv(s, p)
      BY <1>1 DEF ObjectInv
    <3>2. /\ ev.new_born = p /\ hostObj[s] # None /\ h2g[s] = None
          /\ ~Coming(toProxy', s) /\ Fresh(toProxy', s, p)
          /\ NotCallback(toHost, hostObj[s], s) /\ Alive(toHost, hostObj[s], s) /\ s \notin deferred
      BY <1>0, <1>s, <3>1, IntroducedFacts
    <3>3. Joins(toHost, m, toHost', Len(toHost))
      BY <1>0, <2>1, <2>2, AppendJoins DEF TypeOK
    <3>4. hostObj' = hostObj /\ hostUses' = hostUses /\ deferred' = deferred
      BY <1>0 DEF hostState
    <3>5. m.op # "new" /\ m.id = s /\ Means(m, s, p) /\ Mentions(m, s)
      BY <2>2, <3>2 DEF Is, Means, Mentions, Request
    <3>6. Requests(toHost, hostObj[s], s, p) /\ ServerInv(s, p) /\ UsedObject(hostUses, hostObj[s], s)
      BY <3>1 DEF HostInv
    <3>7. Requests(toHost', hostObj'[s], s, p) /\ NotCallback(toHost', hostObj'[s], s)
      BY <3>2, <3>3, <3>4, <3>5, <3>6, SendUse
    <3>8. Announced(s, "new", toHost') <=> Announced(s, "new", toHost)
      BY <3>3, <3>5, JoinsMembers
    <3>9. ServerInv(s, p)' /\ PairInv(s, p)' /\ DeferredInv(s)'
      BY <2>1, <3>2, <3>4, <3>6, <3>7, <3>8 DEF ServerInv, PairInv, DeferredInv
    <3>10. HostInv(s, p)'
      BY <1>1, <3>4, <3>6, <3>7, <3>9 DEF HostInv
    <3>. QED
      BY <2>3, <3>10
  <2>4. CASE x # s
    <3>1. ReqSame(toHost, toHost', x)
      BY <1>0, <2>1, <2>2, <2>4, ReqSent
    <3>2. /\ pendingHost' = pendingHost \cup {s}
          /\ UNCHANGED <<interfaces, pendingGuest, guestObj>>
          /\ orphaned'[h] = None /\ (\A y \in HostIds \ {h} : orphaned'[y] = orphaned[y])
          /\ hostIfaces'[h] = IF h2g[h] = None /\ orphaned[h] # None THEN None ELSE hostIfaces[h]
          /\ \A y \in Hosts \ {h} : hostIfaces'[y] = hostIfaces[y]
      BY <1>0, <1>1, <1>5 DEF CreatedOrphan, TypeOK
    <3>3. CASE x = h
      <4>1. HostInv(h, n)'
        BY <1>0, <1>h, <1>1, <1>3, <1>5, <2>1, <3>1, <3>2, <3>3, ResultTaken
      <4>. QED
        BY <3>3, <4>1
    <3>4. CASE x # h
      <4>1. Undisturbed(x)
        BY <1>0, <1>5, <2>1, <2>4, <3>2, <3>4 DEF Undisturbed, hostState
      <4>. QED
        BY <1>2, <3>1, <4>1, Others
    <3>. QED
      BY <3>3, <3>4
  <2>. QED
    BY <2>3, <2>4
<1>6. CASE creates' = creates \ {h} /\ CreatedObject(h, s)
  <2>1. PICK g \in ServerIds : Introduced(g, s, "buffer", ev.new_born)
    BY <1>6 DEF CreatedObject
  <2>2. orphaned[h] = None /\ UNCHANGED <<orphaned, toHost>>
    BY <1>6 DEF CreatedObject
  <2>3. CASE x = s
    BY <1>0, <1>s, <2>1, <2>2, <2>3, IntroducedHost
  <2>4. CASE x # s
    <3>0. UNCHANGED <<pendingHost, pendingGuest>>
      BY <2>1 DEF Introduced
    <3>1. /\ h2g'[x] = h2g[x] /\ hostIfaces'[x] = hostIfaces[x]
          /\ h2g[x] # None =>
               /\ guestObj'[h2g[x]] = guestObj[h2g[x]] /\ interfaces'[h2g[x]] = interfaces[h2g[x]]
      BY <2>1, <2>4, IntroducedOthers
    <3>2. ReqSame(toHost, toHost', x)
      BY <2>2, ReqKept
    <3>3. CASE x = h
      <4>1. HostInv(h, n)'
        BY <1>0, <1>h, <1>3, <1>6, <2>2, <3>0, <3>1, <3>2, <3>3, ResultTaken
      <4>. QED
        BY <3>3, <4>1
    <3>4. CASE x # h
      <4>1. Undisturbed(x)
        BY <1>0, <1>6, <2>2, <3>0, <3>1, <3>4 DEF Undisturbed, hostState
      <4>. QED
        BY <1>2, <3>2, <4>1, Others
    <3>. QED
      BY <3>3, <3>4
  <2>. QED
    BY <2>3, <2>4
<1>. QED
  BY <1>h, <1>s, <1>4, <1>5, <1>6, OnCreatedEffect

\* A release lets a deferred destructor go, which names the buffer it meant.
LEMMA ReleaseFacts ==
  ASSUME ObjectInv, Take("release"), NEW h, h = ev.id, h \in deferred, h2g[h] # None
  PROVE  /\ h2g[h] \in Guests /\ g2h[h2g[h]] = h /\ h \in Hosts /\ h # None
         /\ h2g[h] \in pendingGuest /\ h \notin creates /\ ev.born \in Born
         /\ HostInv(h, ev.born) /\ Alive(toHost, hostObj[h], h) /\ NotCallback(toHost, hostObj[h], h)
<1>0. TypeOK /\ Maps /\ h \in Hosts
  BY TakeFacts DEF ObjectInv
<1>1. h2g[h] \in Guests /\ g2h[h2g[h]] = h /\ h # None
  BY <1>0, IdsAssumption DEF TypeOK, Maps, Hosts
<1>2. PICK n \in Born : HostInv(h, n)
  BY <1>0 DEF ObjectInv
<1>3. h2g[h] \in pendingGuest /\ interfaces[h2g[h]] = None
  BY <1>2 DEF HostInv, DeferredInv
<1>4. interfaces[h2g[h]] # "callback"
  BY <1>3, TablesAssumption DEF Interface, GuestCreated
<1>5. Alive(toHost, hostObj[h], h) /\ NotCallback(toHost, hostObj[h], h)
  BY <1>2, <1>4 DEF HostInv, PairInv
<1>6. h \notin creates
  <2>1. h \in HostIds => h \notin creates
    BY <1>2, <1>3 DEF HostInv, CreateInv, LiveParams
  <2>. QED
    BY <1>0, <2>1 DEF TypeOK
<1>7. Events(toProxy, h, n) \/ Meant(toProxy, h, n)
  BY <1>0, <1>2 DEF HostInv, EventInv, ServerInv, Hosts
<1>8. Means(ev, h, n)
  BY <1>7, TakeFacts, TakeEvent
<1>9. ev.born = n
  BY <1>8 DEF Means
<1>. QED
  BY <1>0, <1>1, <1>2, <1>3, <1>5, <1>6, <1>9

LEMMA OnReleaseHost ==
  ASSUME ObjectInv, OnRelease, NEW x \in Hosts
  PROVE  \E n \in Born : HostInv(x, n)'
<1>0. /\ Take("release") /\ TypeOK
      /\ UNCHANGED <<creates, usedParams, orphaned, fatal, guestObj, hostState, born>>
  BY DEF OnRelease, ObjectInv
<1>1. CASE ev.id \in deferred /\ h2g[ev.id] # None
  <2>h. PICK h \in Hosts : h = ev.id
    BY <1>0, TakeFacts
  <2>g. PICK g \in Guests : g = h2g[h]
    BY <1>0, <1>1, <2>h, ReleaseFacts
  <2>n. PICK n \in Born : n = ev.born
    BY <1>0, <1>1, ReleaseFacts
  <2>1. /\ g2h[g] = h /\ g2h[g] # None /\ h \notin creates /\ HostInv(h, n)
        /\ Alive(toHost, hostObj[h], h) /\ NotCallback(toHost, hostObj[h], h)
    BY <1>0, <1>1, <2>h, <2>g, <2>n, ReleaseFacts
  <2>2. QueueBufferDestroy(g, n) /\ deferred' = deferred \ {h}
    BY <1>1, <2>h, <2>g, <2>n DEF OnRelease
  <2>3. DestroySent(g, n)
    BY <1>0, <2>1, <2>2, DestroySentEffect DEF QueueBufferDestroy
  <2>4. \A y : EvLater(toProxy, toProxy', y)
    BY <1>0, TakeFacts
  <2>. QED
    BY <1>0, <2>1, <2>2, <2>3, <2>4, DestroySentHost
<1>2. CASE ~(ev.id \in deferred /\ h2g[ev.id] # None)
  <2>1. UNCHANGED <<shadow, deferred, toHost>>
    BY <1>2 DEF OnRelease
  <2>. QED
    BY <1>0, <2>1, DroppedHost DEF shadow
<1>. QED
  BY <1>1, <1>2

-----------------------------------------------------------------------------
(* The host reads a request                                                *)

TablesKept == UNCHANGED <<shadow, context, guestObj>>

LEMMA KeptTables ==
  ASSUME TablesKept
  PROVE  UNCHANGED <<g2h, h2g, interfaces, hostIfaces, pendingHost, pendingGuest, creates, usedParams,
                     orphaned, inUse, deferred, fatal, guestObj>>
BY DEF TablesKept, shadow, context

LEMMA SilentRequests ==
  ASSUME NEW q, NEW h, Silent(q, h), NEW o, NEW n, o # None => o.born = n
  PROVE  /\ Requests(q, o, h, n) /\ OneIn(q, h)
         /\ (o # None => o.interface # "callback") => NotCallback(q, o, h)
<1>1. \A i \in DOMAIN q : ~Mentions(q[i], h)
  BY DEF Silent
<1>2. OneIn(q, h)
  BY <1>1 DEF OneIn, Is, Mentions
<1>3. (o # None => o.interface # "callback") => NotCallback(q, o, h)
  BY <1>1 DEF NotCallback, Is, Mentions
<1>4. Requests(q, o, h, n)
  BY <1>1 DEF Requests, Is, Mentions, Means
<1>. QED
  BY <1>2, <1>3, <1>4

\* What is said of an ID the host is about to read of
LEMMA ReadFacts ==
  ASSUME NEW h \in Hosts, NEW n, HostInv(h, n), NEW k, Loses(toHost, toHost', k), Mentions(toHost[1], h)
  PROVE  /\ ~Silent(toHost, h) /\ ~Gone(h)
         /\ h \in HostIds =>
              /\ ~Announced(h, "delete_id", toProxy) /\ ~IsHostIdAvailable(h)
              /\ orphaned[h] # None => h2g[h] # None
         /\ h \in HostServerIds => ~Coming(toProxy, h)
<1>1. 1 \in DOMAIN toHost
  BY DEF Loses
<1>2. ~Silent(toHost, h) /\ ~Gone(h)
  BY <1>1 DEF Silent, Gone
<1>3. h \in HostIds => EventInv(h, n) /\ FreeInv(h) /\ OrphanInv(h)
  BY DEF HostInv
<1>4. h \in HostServerIds => ServerInv(h, n)
  BY DEF HostInv
<1>. QED
  BY <1>2, <1>3, <1>4 DEF EventInv, FreeInv, OrphanInv, ServerInv

\* A request that leaves the host with an object under h
LEMMA ReadHost ==
  ASSUME NEW h \in Hosts, NEW n, HostInv(h, n), NEW k, Loses(toHost, toHost', k), Mentions(toHost[1], h),
         TablesKept, UNCHANGED toProxy, Requests(toHost', hostObj'[h], h, n), hostObj'[h] # None,
         Announced(h, "destroy", toHost') => Announced(h, "destroy", toHost),
         Announced(h, "new", toHost') => Announced(h, "new", toHost),
         NotCallback(toHost, hostObj[h], h) => NotCallback(toHost', hostObj'[h], h),
         UsedObject(hostUses', hostObj'[h], h),
         Creating(h)' => Creating(h), OneCreate(h) => OneCreate(h)',
         \A p \in hostCreates' : p.id = h => p.born = n \/ h \notin HostIds
  PROVE  HostInv(h, n)'
<1>1. UNCHANGED <<g2h, h2g, interfaces, hostIfaces, pendingHost, pendingGuest, creates, usedParams,
                  orphaned, deferred, guestObj, toProxy>>
  BY KeptTables
<1>2. PairInv(h, n) /\ DeferredInv(h)
  BY DEF HostInv
<1>3. Alive(toHost, hostObj[h], h) => Alive(toHost', hostObj'[h], h)
  BY DEF Alive
<1>4. PairInv(h, n)' /\ DeferredInv(h)'
  BY <1>1, <1>2, <1>3 DEF PairInv, DeferredInv
<1>5. ASSUME h \in HostIds PROVE (EventInv(h, n) /\ FreeInv(h) /\ OrphanInv(h) /\ CreateInv(h, n))'
  <2>1. EventInv(h, n) /\ FreeInv(h) /\ OrphanInv(h) /\ CreateInv(h, n)
    BY <1>5 DEF HostInv
  <2>2. /\ ~Announced(h, "delete_id", toProxy) /\ ~IsHostIdAvailable(h)
        /\ orphaned[h] # None => h2g[h] # None
    BY <1>5, ReadFacts
  <2>3. EventInv(h, n)' /\ FreeInv(h)' /\ OrphanInv(h)'
    BY <1>1, <2>1, <2>2 DEF EventInv, FreeInv, OrphanInv, IsHostIdAvailable
  <2>4. LiveParams(h)' <=> LiveParams(h)
    BY <1>1 DEF LiveParams
  <2>5. CreateInv(h, n)'
    BY <1>1, <1>5, <2>1, <2>4 DEF CreateInv
  <2>. QED
    BY <2>3, <2>5
<1>6. ASSUME h \in HostServerIds PROVE ServerInv(h, n)'
  <2>1. ServerInv(h, n)
    BY <1>6 DEF HostInv
  <2>2. ~Coming(toProxy, h)
    BY <1>6, ReadFacts
  <2>. QED
    BY <1>1, <2>1, <2>2 DEF ServerInv
<1>. QED
  BY <1>4, <1>5, <1>6 DEF HostInv

LEMMA ReceiveFacts ==
  ASSUME ObjectInv, HostReceive
  PROVE  /\ toHost[1] \in Request /\ toHost[1].id \in Hosts /\ 1 \in DOMAIN toHost
         /\ toHost[1] = Head(toHost)
         /\ toHost[1].op \in {"new", "create"} => toHost[1].id \in HostIds
         /\ Loses(toHost, toHost', Len(toHost) - 1)
         /\ TablesKept /\ UNCHANGED born /\ out' = {}
<1>1. toHost # <<>> /\ toHost' = Tail(toHost) /\ toHost \in Seq(Request) /\ IdRanges
  BY DEF HostReceive, ObjectInv, TypeOK
<1>2. Loses(toHost, toHost', Len(toHost) - 1) /\ toHost[1] \in Request /\ toHost[1] = Head(toHost)
  BY <1>1, TailLoses
<1>3. 1 \in DOMAIN toHost
  BY <1>2 DEF Loses
<1>4. toHost[1].op \in {"new", "create"} => toHost[1].id \in HostIds
  BY <1>1, <1>3 DEF IdRanges
<1>5. toHost[1].id \in Hosts
  BY <1>2 DEF Request
<1>6. TablesKept /\ UNCHANGED born /\ out' = {}
  BY DEF HostReceive, TablesKept, Quiet
<1>. QED
  BY <1>2, <1>3, <1>4, <1>5, <1>6

LEMMA ReadOthers ==
  ASSUME ObjectInv, HostReceive, NEW x \in Hosts, ~Mentions(toHost[1], x),
         hostObj'[x] = hostObj[x], x \in hostUses' => x \in hostUses,
         \A p : p \in hostCreates' /\ p.id = x <=> p \in hostCreates /\ p.id = x,
         EvLater(toProxy, toProxy', x)
  PROVE  \E n \in Born : HostInv(x, n)'
<1>1. toHost[1] \in Request /\ Loses(toHost, toHost', Len(toHost) - 1) /\ TablesKept
  BY ReceiveFacts
<1>2. ReqSame(toHost, toHost', x)
  BY <1>1, LosesSame, SameReqs, RequestPlain DEF Touches
<1>3. Undisturbed(x)
  BY <1>1, KeptTables DEF Undisturbed
<1>. QED
  BY <1>2, <1>3, Others

LEMMA ReceiveNew ==
  ASSUME ObjectInv, HostReceive, toHost[1].op = "new", NEW x \in Hosts
  PROVE  \E n \in Born : HostInv(x, n)'
<1>0. TypeOK
  BY DEF ObjectInv
<1>1. /\ toHost[1] \in Request /\ toHost[1].id \in HostIds /\ toHost[1] = Head(toHost)
      /\ Loses(toHost, toHost', Len(toHost) - 1) /\ TablesKept
  BY ReceiveFacts
<1>r. PICK r \in Request : r = toHost[1]
  BY <1>1
<1>2. /\ hostObj' = [hostObj EXCEPT ![r.id] = [interface |-> r.interface, born |-> r.born]]
      /\ UNCHANGED <<hostCreates, hostUses, toProxy>>
  BY <1>1, <1>r DEF HostReceive
<1>3. \A y : Mentions(r, y) <=> y = r.id
  BY <1>r DEF Mentions
<1>4. CASE x # r.id
  <2>1. hostObj'[x] = hostObj[x]
    BY <1>0, <1>2, <1>4 DEF TypeOK
  <2>. QED
    BY <1>2, <1>3, <1>4, <1>r, <2>1, EvKept, ReadOthers
<1>5. CASE x = r.id
  <2>1. PICK n \in Born : HostInv(x, n)
    BY DEF ObjectInv
  <2>2. Is(toHost[1], "new", x) /\ Mentions(toHost[1], x) /\ Requests(toHost, hostObj[x], x, n)
    BY <1>3, <1>5, <1>r, <2>1 DEF Is, HostInv
  <2>3. hostObj'[x].born = toHost[1].born /\ hostObj'[x].interface = toHost[1].interface
    BY <1>0, <1>2, <1>5, <1>r DEF TypeOK
  <2>4. hostObj'[x] # None
    <3>1. [interface |-> r.interface, born |-> r.born] \in HostObject
      BY <1>r DEF HostObject, Request
    <3>2. hostObj'[x] = [interface |-> r.interface, born |-> r.born]
      BY <1>0, <1>2, <1>5 DEF TypeOK
    <3>. QED
      BY <3>1, <3>2, TablesAssumption
  <2>5. /\ Requests(toHost', hostObj'[x], x, n) /\ ~Announced(x, "new", toHost')
        /\ \A op : op # "new" => (Announced(x, op, toHost') <=> Announced(x, op, toHost))
        /\ NotCallback(toHost, hostObj[x], x) => NotCallback(toHost', hostObj'[x], x)
        /\ OneIn(toHost, x) => OneIn(toHost', x)
    BY <1>1, <2>2, <2>3, <2>4, ReadNew
  <2>6. UsedObject(hostUses', hostObj'[x], x)
    <3>1. hostObj[x] = None
      BY <1>1, <2>2 DEF Requests, Loses
    <3>. QED
      BY <1>2, <2>1, <3>1 DEF HostInv, UsedObject
  <2>7. (Creating(x)' => Creating(x)) /\ (OneCreate(x) => OneCreate(x)')
    BY <1>2, <2>5 DEF Creating, OneCreate
  <2>8. \A p \in hostCreates' : p.id = x => p.born = n \/ x \notin HostIds
    BY <1>2, <2>1 DEF HostInv, CreateInv
  <2>9. HostInv(x, n)'
    BY <1>1, <1>2, <2>1, <2>2, <2>4, <2>5, <2>6, <2>7, <2>8, ReadHost
  <2>. QED
    BY <2>9
<1>. QED
  BY <1>4, <1>5

LEMMA ReceiveUse ==
  ASSUME ObjectInv, HostReceive, toHost[1].op \in {"create", "refer", "submit"}, NEW x \in Hosts
  PROVE  \E n \in Born : HostInv(x, n)'
<1>1. /\ toHost[1] \in Request /\ toHost[1] = Head(toHost)
      /\ toHost[1].op = "create" => toHost[1].id \in HostIds
      /\ Loses(toHost, toHost', Len(toHost) - 1) /\ TablesKept
  BY ReceiveFacts
<1>r. PICK r \in Request : r = toHost[1]
  BY <1>1
<1>2. /\ UNCHANGED <<hostObj, toProxy>>
      /\ hostCreates' = IF r.op = "create" THEN hostCreates \cup {[id |-> r.id, born |-> r.born]}
                        ELSE hostCreates
      /\ hostUses' = IF r.op = "submit" THEN hostUses \cup {r.id} ELSE hostUses
  BY <1>1, <1>r DEF HostReceive, hostState
<1>3. CASE ~Mentions(r, x)
  <2>1. r.id # x
    BY <1>3 DEF Mentions
  <2>. QED
    BY <1>2, <1>3, <1>r, <2>1, EvKept, ReadOthers
<1>4. CASE Mentions(r, x)
  <2>1. PICK n \in Born : HostInv(x, n)
    BY DEF ObjectInv
  <2>2. Requests(toHost, hostObj[x], x, n) /\ 1 \in DOMAIN toHost
    BY <1>1, <2>1 DEF HostInv, Loses
  <2>3. toHost[1].op \notin {"new", "destroy"}
    OBVIOUS
  <2>4. /\ hostObj[x] # None /\ Requests(toHost', hostObj[x], x, n)
        /\ \A op : op # r.op => (Announced(x, op, toHost') <=> Announced(x, op, toHost))
        /\ NotCallback(toHost, hostObj[x], x) => NotCallback(toHost', hostObj[x], x)
        /\ OneIn(toHost, x) => /\ OneIn(toHost', x)
                               /\ Is(toHost[1], "create", x) => ~Announced(x, "create", toHost')
    BY <1>1, <1>4, <1>r, <2>2, <2>3, ReadUse
  <2>5. UsedObject(hostUses', hostObj'[x], x)
    <3>1. hostObj[x].interface # "callback"
      BY <1>4, <1>r, <2>2, <2>3, <2>4 DEF Requests, NotCallback
    <3>. QED
      BY <1>2, <2>4, <3>1 DEF UsedObject
  <2>6. CASE r.op # "create" \/ r.id # x
    <3>1. Announced(x, "create", toHost') => Announced(x, "create", toHost)
      <4>1. CASE r.op # "create"
        BY <2>4, <4>1
      <4>2. CASE r.op = "create" /\ r.id # x
        BY <1>4, <4>2 DEF Mentions
      <4>. QED
        BY <2>6, <4>1, <4>2
    <3>2. \A p : p \in hostCreates' /\ p.id = x <=> p \in hostCreates /\ p.id = x
      BY <1>2, <2>6
    <3>3. InSet(hostCreates', x) <=> InSet(hostCreates, x)
      BY <3>2 DEF InSet
    <3>4. OneOf(hostCreates, x) => OneOf(hostCreates', x)
      BY <3>2 DEF OneOf
    <3>5. (Creating(x)' => Creating(x)) /\ (OneCreate(x) => OneCreate(x)')
      BY <1>2, <2>4, <3>1, <3>3, <3>4 DEF Creating, OneCreate
    <3>6. \A p \in hostCreates' : p.id = x => p.born = n \/ x \notin HostIds
      BY <2>1, <3>2 DEF HostInv, CreateInv
    <3>7. r.op # "new" /\ r.op # "destroy"
      BY <1>r
    <3>8. HostInv(x, n)'
      BY <1>1, <1>2, <1>4, <1>r, <2>1, <2>4, <2>5, <3>5, <3>6, <3>7, ReadHost
    <3>. QED
      BY <3>8
  <2>7. CASE r.op = "create" /\ r.id = x
    <3>1. Is(toHost[1], "create", x) /\ Announced(x, "create", toHost) /\ x \in HostIds
      BY <1>1, <1>r, <2>2, <2>7 DEF Is, Announced
    <3>2. OneCreate(x) /\ CreateInv(x, n)
      BY <2>1, <3>1 DEF HostInv, CreateInv
    <3>3. r.born = n
      BY <1>r, <2>2, <2>7 DEF Requests, Means
    <3>4. ~InSet(hostCreates, x) /\ ~HasResult(toProxy, x) /\ OneResult(toProxy, x) /\ OneIn(toHost, x)
      BY <3>1, <3>2 DEF OneCreate
    <3>5. \A p \in hostCreates' : p.id = x => p = [id |-> r.id, born |-> r.born]
      BY <1>2, <2>7, <3>4 DEF InSet
    <3>6. OneOf(hostCreates', x) /\ \A p \in hostCreates' : p.id = x => p.born = n
      BY <3>3, <3>5 DEF OneOf
    <3>7. Creating(x) /\ OneCreate(x)'
      BY <1>2, <2>4, <3>1, <3>4, <3>6 DEF Creating, OneCreate
    <3>8. HostInv(x, n)'
      BY <1>1, <1>2, <1>4, <1>r, <2>1, <2>4, <2>5, <2>7, <3>6, <3>7, ReadHost
    <3>. QED
      BY <3>8
  <2>. QED
    BY <2>6, <2>7
<1>. QED
  BY <1>3, <1>4

LEMMA ReceiveDestroy ==
  ASSUME ObjectInv, HostReceive, toHost[1].op = "destroy", NEW x \in Hosts
  PROVE  \E n \in Born : HostInv(x, n)'
<1>0. TypeOK
  BY DEF ObjectInv
<1>1. /\ toHost[1] \in Request /\ toHost[1].id \in Hosts /\ toHost[1] = Head(toHost) /\ 1 \in DOMAIN toHost
      /\ Loses(toHost, toHost', Len(toHost) - 1) /\ TablesKept
  BY ReceiveFacts
<1>h. PICK h \in Hosts : h = toHost[1].id
  BY <1>1
<1>b. PICK b \in Born : b = toHost[1].born
  BY <1>1 DEF Request
<1>. DEFINE m == Req("delete_id", h, b)
<1>2. /\ hostObj' = [hostObj EXCEPT ![h] = None] /\ hostUses' = hostUses \ {h} /\ UNCHANGED hostCreates
      /\ IF h \in HostIds THEN toProxy' = toProxy \o <<m>> ELSE UNCHANGED toProxy
  BY <1>1, <1>h, <1>b DEF HostReceive, Emit
<1>3. (\A y : Mentions(toHost[1], y) <=> y = h) /\ Is(toHost[1], "destroy", h)
  BY <1>h DEF Mentions, Is
<1>4. m \in Event /\ Is(m, "delete_id", h) /\ m.born = b /\ \A y : Touches(m, y) <=> y = h
  BY DEF Req, Event, Is, Touches, Mentions, Introduces
<1>5. ~Is(m, "done", h) /\ \A y : ~IsResult(m, y) /\ ~Introduces(m, y)
  BY <1>4 DEF Is, IsResult, Introduces
<1>. HIDE DEF m
<1>6. CASE x # h
  <2>1. hostObj'[x] = hostObj[x] /\ (x \in hostUses' => x \in hostUses)
    BY <1>0, <1>2, <1>6 DEF TypeOK
  <2>2. EvLater(toProxy, toProxy', x)
    BY <1>0, <1>2, <1>4, <1>6, EvSent, EvKept
  <2>. QED
    BY <1>2, <1>3, <1>6, <2>1, <2>2, ReadOthers
<1>7. CASE x = h
  <2>1. PICK n \in Born : HostInv(h, n)
    BY DEF ObjectInv
  <2>2. Requests(toHost, hostObj[h], h, n) /\ PairInv(h, n) /\ DeferredInv(h)
    BY <2>1 DEF HostInv
  <2>3. b = n /\ Means(m, h, n)
    BY <1>1, <1>3, <1>4, <1>b, <2>2 DEF Requests, Means, Is
  <2>4. Silent(toHost', h) /\ Announced(h, "destroy", toHost)
    BY <1>1, <1>3, <2>2, ReadDestroy DEF Announced, Is
  <2>5. hostObj'[h] = None /\ h \notin hostUses'
    BY <1>0, <1>2 DEF TypeOK
  <2>6. Gone(h)' /\ ~Alive(toHost, hostObj[h], h) /\ UsedObject(hostUses', hostObj'[h], h)
    BY <2>4, <2>5 DEF Gone, Alive, UsedObject
  <2>7. /\ Requests(toHost', hostObj'[h], h, n) /\ OneIn(toHost', h) /\ NotCallback(toHost', hostObj'[h], h)
    BY <2>4, <2>5, SilentRequests
  <2>8. \A op : ~Announced(h, op, toHost')
    BY <2>4, SilentEvents
  <2>9. UNCHANGED <<g2h, h2g, interfaces, hostIfaces, pendingHost, pendingGuest, creates, usedParams,
                    orphaned, deferred, guestObj>>
    BY <1>1, KeptTables
  <2>10. PairInv(h, n)' /\ DeferredInv(h)'
    BY <2>2, <2>6, <2>7, <2>9 DEF PairInv, DeferredInv
  <2>11. ASSUME h \in HostIds PROVE (EventInv(h, n) /\ FreeInv(h) /\ OrphanInv(h) /\ CreateInv(h, n))'
    <3>1. EventInv(h, n) /\ FreeInv(h) /\ OrphanInv(h) /\ CreateInv(h, n)
      BY <2>1, <2>11 DEF HostInv
    <3>2. /\ ~Announced(h, "delete_id", toProxy) /\ ~IsHostIdAvailable(h)
          /\ orphaned[h] # None => h2g[h] # None
      BY <1>1, <1>3, <2>1, <2>11, ReadFacts
    <3>3. Joins(toProxy, m, toProxy', Len(toProxy))
      BY <1>0, <1>2, <1>4, <2>11, AppendJoins DEF TypeOK
    <3>4. Events(toProxy', h, n)
      BY <1>5, <2>3, <3>1, <3>2, <3>3, JoinsMeanings DEF EventInv
    <3>5. EventInv(h, n)' /\ FreeInv(h)' /\ OrphanInv(h)'
      BY <2>6, <2>9, <3>1, <3>2, <3>4 DEF EventInv, FreeInv, OrphanInv, IsHostIdAvailable
    <3>6. (HasResult(toProxy', h) <=> HasResult(toProxy, h)) /\ (OneResult(toProxy, h) => OneResult(toProxy', h))
      BY <1>5, <3>3, JoinsEvents
    <3>7. (Creating(h)' => Creating(h)) /\ (OneCreate(h) => OneCreate(h)')
      BY <1>2, <2>7, <2>8, <3>6 DEF Creating, OneCreate
    <3>8. LiveParams(h)' <=> LiveParams(h)
      BY <2>9 DEF LiveParams
    <3>9. CreateInv(h, n)'
      BY <1>2, <2>9, <3>1, <3>7, <3>8 DEF CreateInv
    <3>. QED
      BY <3>5, <3>9
  <2>12. ASSUME h \in HostServerIds PROVE ServerInv(h, n)'
    <3>1. ServerInv(h, n) /\ ~Coming(toProxy, h)
      BY <1>1, <1>3, <2>1, <2>12, ReadFacts DEF HostInv
    <3>2. toProxy' = toProxy
      BY <1>2, <2>12, IdsAssumption
    <3>. QED
      BY <2>7, <2>8, <2>9, <3>1, <3>2 DEF ServerInv
  <2>13. HostInv(h, n)'
    BY <2>6, <2>7, <2>10, <2>11, <2>12 DEF HostInv
  <2>. QED
    BY <1>7, <2>13
<1>. QED
  BY <1>6, <1>7

LEMMA HostReceiveHost ==
  ASSUME ObjectInv, HostReceive, NEW x \in Hosts
  PROVE  \E n \in Born : HostInv(x, n)'
<1>1. toHost[1].op \in {"new", "destroy", "create", "submit", "refer"}
  BY ReceiveFacts DEF Request
<1>. QED
  BY <1>1, ReceiveNew, ReceiveUse, ReceiveDestroy

-----------------------------------------------------------------------------
(* The host sends an event                                                 *)

\* An event of, or about, an object the host has
LEMMA EmitHost ==
  ASSUME ObjectInv, NEW x \in Hosts, NEW n, HostInv(x, n), hostObj[x] # None, hostObj'[x] = hostObj[x],
         x \in hostUses' => x \in hostUses, UNCHANGED <<hostCreates, toHost>>, TablesKept,
         NEW m \in Event, toProxy' = toProxy \o <<m>>, Means(m, x, n), ~Introduces(m, x),
         m.op \notin {"done", "created", "failed", "delete_id"}
  PROVE  HostInv(x, n)'
<1>0. TypeOK
  BY DEF ObjectInv
<1>1. UNCHANGED <<g2h, h2g, interfaces, hostIfaces, pendingHost, pendingGuest, creates, usedParams,
                  orphaned, deferred, guestObj, toHost>>
  BY KeptTables
<1>2. Joins(toProxy, m, toProxy', Len(toProxy))
  BY <1>0, AppendJoins DEF TypeOK
<1>3. ~IsResult(m, x) /\ ~Is(m, "done", x) /\ ~Is(m, "delete_id", x) /\ ~Gone(x)
  BY DEF IsResult, Is, Gone
<1>4. /\ HasResult(toProxy', x) <=> HasResult(toProxy, x)
      /\ OneResult(toProxy, x) => OneResult(toProxy', x)
      /\ Coming(toProxy', x) <=> Coming(toProxy, x)
  BY <1>2, <1>3, JoinsEvents
<1>5. PairInv(x, n)' /\ DeferredInv(x)'
  BY <1>1 DEF HostInv, PairInv, DeferredInv
<1>6. UsedObject(hostUses', hostObj'[x], x) /\ Requests(toHost', hostObj'[x], x, n)
  BY <1>1 DEF HostInv, UsedObject
<1>7. ASSUME x \in HostIds
      PROVE  (EventInv(x, n) /\ FreeInv(x) /\ OrphanInv(x) /\ CreateInv(x, n))'
  <2>1. EventInv(x, n) /\ FreeInv(x) /\ OrphanInv(x) /\ CreateInv(x, n)
    BY <1>7 DEF HostInv
  <2>2. ~Announced(x, "delete_id", toProxy) /\ ~IsHostIdAvailable(x) /\ (orphaned[x] # None => h2g[x] # None)
    BY <1>3, <2>1 DEF EventInv, FreeInv, OrphanInv
  <2>3. ~Announced(x, "delete_id", toProxy')
    BY <1>2, <1>3, <2>2, JoinsEvents
  <2>4. Events(toProxy', x, n)
    BY <1>2, <1>3, <2>1, <2>2, JoinsMeanings DEF EventInv
  <2>5. EventInv(x, n)' /\ FreeInv(x)' /\ OrphanInv(x)'
    BY <1>1, <2>1, <2>2, <2>3, <2>4 DEF EventInv, FreeInv, OrphanInv, IsHostIdAvailable
  <2>6. (Creating(x)' => Creating(x)) /\ (OneCreate(x) => OneCreate(x)')
    BY <1>1, <1>4 DEF Creating, OneCreate
  <2>7. LiveParams(x)' <=> LiveParams(x)
    BY <1>1 DEF LiveParams
  <2>8. CreateInv(x, n)'
    BY <1>1, <2>1, <2>6, <2>7 DEF CreateInv
  <2>. QED
    BY <2>5, <2>8
<1>8. ASSUME x \in HostServerIds PROVE ServerInv(x, n)'
  <2>1. ServerInv(x, n)
    BY <1>8 DEF HostInv
  <2>2. Fresh(toProxy', x, n) /\ (Meant(toProxy, x, n) => Meant(toProxy', x, n))
    BY <1>2, <2>1, JoinsMeanings DEF ServerInv
  <2>. QED
    BY <1>1, <1>4, <2>1, <2>2 DEF ServerInv
<1>. QED
  BY <1>5, <1>6, <1>7, <1>8 DEF HostInv

LEMMA EmitOthers ==
  ASSUME ObjectInv, NEW x \in Hosts, hostObj'[x] = hostObj[x], x \in hostUses' => x \in hostUses,
         \A p : p \in hostCreates' /\ p.id = x <=> p \in hostCreates /\ p.id = x,
         UNCHANGED toHost, TablesKept, EvLater(toProxy, toProxy', x)
  PROVE  \E n \in Born : HostInv(x, n)'
<1>1. Undisturbed(x)
  BY KeptTables DEF Undisturbed
<1>. QED
  BY <1>1, ReqKept, Others

\* The host names its objects by the incarnation they have.
LEMMA HostBorn ==
  ASSUME ObjectInv, NEW x \in Hosts, hostObj[x] # None
  PROVE  /\ hostObj[x] \in HostObject /\ hostObj[x].born \in Born
         /\ hostObj[x].interface \in Interface /\ HostInv(x, hostObj[x].born)
<1>1. hostObj[x] \in HostObject
  BY DEF ObjectInv, TypeOK
<1>2. PICK n \in Born : HostInv(x, n)
  BY DEF ObjectInv
<1>3. hostObj[x].born = n
  BY <1>2 DEF HostInv, Requests
<1>. QED
  BY <1>1, <1>2, <1>3 DEF HostObject

LEMMA LeavesTables == ASSUME HostLeaves PROVE TablesKept /\ toHost' = toHost /\ out' = {}
BY DEF HostLeaves, TablesKept, Quiet

LEMMA HostEmitsHost ==
  ASSUME ObjectInv, NEW h \in Hosts, HostEmits(h), NEW x \in Hosts
  PROVE  \E n \in Born : HostInv(x, n)'
<1>0. TypeOK /\ hostObj[h] # None /\ TablesKept /\ UNCHANGED <<hostObj, hostUses, hostCreates, toHost>>
  BY LeavesTables DEF ObjectInv, HostEmits, hostState
<1>b. PICK b \in Born : b = hostObj[h].born /\ HostInv(h, b)
  BY <1>0, HostBorn
<1>. DEFINE m == Req("event", h, b)
<1>1. toProxy' = toProxy \o <<m>>
  BY <1>b DEF HostEmits, Emit
<1>2. /\ m \in Event /\ m.op = "event" /\ Means(m, h, b) /\ ~Introduces(m, h)
      /\ \A y : Touches(m, y) => y = h
  BY DEF Req, Event, Means, Touches, Mentions, Introduces
<1>. HIDE DEF m
<1>3. CASE x = h
  BY <1>0, <1>b, <1>1, <1>2, <1>3, EmitHost
<1>4. CASE x # h
  BY <1>0, <1>1, <1>2, <1>4, EvSent, EmitOthers
<1>. QED
  BY <1>3, <1>4

LEMMA HostRefersHost ==
  ASSUME ObjectInv, NEW h \in Hosts, NEW a \in Hosts, HostRefers(h, a), NEW x \in Hosts
  PROVE  \E n \in Born : HostInv(x, n)'
<1>0. /\ TypeOK /\ hostObj[h] # None /\ hostObj[a] # None /\ TablesKept
      /\ UNCHANGED <<hostObj, hostUses, hostCreates, toHost>>
  BY LeavesTables DEF ObjectInv, HostRefers, hostState
<1>b. PICK b \in Born : b = hostObj[h].born /\ HostInv(h, b)
  BY <1>0, HostBorn
<1>c. PICK c \in Born : c = hostObj[a].born /\ HostInv(a, c)
  BY <1>0, HostBorn
<1>i. PICK i \in Interface : i = hostObj[a].interface
  BY <1>0, HostBorn
<1>. DEFINE m == [op |-> "refer", id |-> h, born |-> b, arg |-> [id |-> a, born |-> c], expects |-> i]
<1>1. toProxy' = toProxy \o <<m>>
  BY <1>b, <1>c, <1>i DEF HostRefers, Emit
<1>2. m \in Event
  BY DEF Event, Ref
<1>3. m.op = "refer" /\ m.id = h /\ m.born = b /\ m.arg.id = a /\ m.arg.born = c
  OBVIOUS
<1>4. h = a => b = c
  BY <1>b, <1>c
<1>. HIDE DEF m
<1>5. /\ Means(m, h, b) /\ Means(m, a, c) /\ (\A y : ~Introduces(m, y))
      /\ \A y : Touches(m, y) => y = h \/ y = a
  BY <1>3, <1>4 DEF Means, Touches, Mentions, Introduces
<1>6. CASE x = h
  BY <1>0, <1>b, <1>1, <1>2, <1>3, <1>5, <1>6, EmitHost
<1>7. CASE x = a
  BY <1>0, <1>c, <1>1, <1>2, <1>3, <1>5, <1>7, EmitHost
<1>8. CASE x # h /\ x # a
  BY <1>0, <1>1, <1>2, <1>5, <1>8, EvSent, EmitOthers
<1>. QED
  BY <1>6, <1>7, <1>8

LEMMA HostReleaseHost ==
  ASSUME ObjectInv, NEW h \in Hosts, HostRelease(h), NEW x \in Hosts
  PROVE  \E n \in Born : HostInv(x, n)'
<1>0. /\ TypeOK /\ h \in hostUses /\ hostUses' = hostUses \ {h} /\ TablesKept
      /\ UNCHANGED <<hostObj, hostCreates, toHost>>
  BY LeavesTables DEF ObjectInv, HostRelease
<1>1. hostObj[h] # None
  <2>1. PICK n \in Born : HostInv(h, n)
    BY DEF ObjectInv
  <2>. QED
    BY <1>0, <2>1 DEF HostInv, UsedObject
<1>b. PICK b \in Born : b = hostObj[h].born /\ HostInv(h, b)
  BY <1>1, HostBorn
<1>. DEFINE m == Req("release", h, b)
<1>2. toProxy' = toProxy \o <<m>>
  BY <1>b DEF HostRelease, Emit
<1>3. /\ m \in Event /\ m.op = "release" /\ Means(m, h, b) /\ ~Introduces(m, h)
      /\ \A y : Touches(m, y) => y = h
  BY DEF Req, Event, Means, Touches, Mentions, Introduces
<1>. HIDE DEF m
<1>4. CASE x = h
  BY <1>0, <1>b, <1>1, <1>2, <1>3, <1>4, EmitHost
<1>5. CASE x # h
  BY <1>0, <1>2, <1>3, <1>5, EvSent, EmitOthers
<1>. QED
  BY <1>4, <1>5

LEMMA HostDoneHost ==
  ASSUME ObjectInv, NEW h \in HostIds, HostDone(h), NEW x \in Hosts
  PROVE  \E n \in Born : HostInv(x, n)'
<1>0. /\ TypeOK /\ hostObj[h] # None /\ hostObj[h].interface = "callback" /\ TablesKept
      /\ hostObj' = [hostObj EXCEPT ![h] = None] /\ UNCHANGED <<hostUses, hostCreates, toHost>>
      /\ h \in Hosts /\ h \notin HostServerIds
  BY LeavesTables, IdsAssumption DEF ObjectInv, HostDone, Hosts
<1>b. PICK b \in Born : b = hostObj[h].born /\ HostInv(h, b)
  BY <1>0, HostBorn
<1>. DEFINE d == Req("done", h, b)
            e == Req("delete_id", h, b)
            q == toProxy \o <<d>>
<1>1. toProxy' = toProxy \o <<d, e>>
  BY <1>b DEF HostDone, Emit
<1>2. /\ d \in Event /\ Is(d, "done", h) /\ Means(d, h, b) /\ \A y : Touches(d, y) => y = h
  BY <1>0 DEF Req, Event, Is, Means, Touches, Mentions, Introduces
<1>3. /\ e \in Event /\ Is(e, "delete_id", h) /\ Means(e, h, b) /\ \A y : Touches(e, y) => y = h
  BY <1>0 DEF Req, Event, Is, Means, Touches, Mentions, Introduces
<1>4. Joins(toProxy, d, q, Len(toProxy)) /\ Joins(q, e, toProxy', Len(toProxy) + 1)
  BY <1>0, <1>1, <1>2, <1>3, AppendJoins, AppendTwice DEF TypeOK
<1>. HIDE DEF d, e, q
<1>5. CASE x # h
  <2>1. EvLater(toProxy, q, x) /\ EvLater(q, toProxy', x)
    BY <1>2, <1>3, <1>4, <1>5, JoinsSame, SameEvents
  <2>2. EvLater(toProxy, toProxy', x)
    BY <2>1 DEF EvLater
  <2>3. hostObj'[x] = hostObj[x]
    BY <1>0, <1>5 DEF TypeOK
  <2>. QED
    BY <1>0, <2>2, <2>3, EmitOthers
<1>6. CASE x = h
  <2>1. /\ Requests(toHost, hostObj[h], h, b) /\ UsedObject(hostUses, hostObj[h], h) /\ PairInv(h, b)
        /\ DeferredInv(h) /\ EventInv(h, b) /\ FreeInv(h) /\ OrphanInv(h) /\ CreateInv(h, b)
    BY <1>b DEF HostInv
  <2>2. Silent(toHost, h) /\ ~NotCallback(toHost, hostObj[h], h)
    <3>1. ~NotCallback(toHost, hostObj[h], h)
      BY <1>0 DEF NotCallback
    <3>2. \A i \in DOMAIN toHost : Mentions(toHost[i], h) => toHost[i].op = "new"
      BY <2>1, <3>1 DEF Requests
    <3>3. \A i \in DOMAIN toHost : ~Is(toHost[i], "new", h)
      BY <1>0, <2>1 DEF Requests
    <3>. QED
      BY <3>1, <3>2, <3>3 DEF Silent, Is, Mentions
  <2>3. hostObj'[h] = None /\ h \notin hostUses'
    BY <1>0, <2>1 DEF TypeOK, UsedObject
  <2>4. /\ Requests(toHost', hostObj'[h], h, b) /\ UsedObject(hostUses', hostObj'[h], h) /\ Gone(h)'
    BY <1>0, <2>2, <2>3, SilentRequests DEF UsedObject, Gone
  <2>5. ~Gone(h)
    BY <1>0 DEF Gone
  <2>6. UNCHANGED <<g2h, h2g, interfaces, hostIfaces, pendingHost, pendingGuest, creates, usedParams,
                    orphaned, deferred, guestObj>>
    BY <1>0, KeptTables
  <2>7. ~Announced(h, "delete_id", toProxy) /\ ~IsHostIdAvailable(h) /\ (orphaned[h] # None => h2g[h] # None)
    BY <2>1, <2>5 DEF EventInv, FreeInv, OrphanInv
  <2>8. h2g[h] # None => interfaces[h2g[h]] = "callback" /\ h \notin deferred
    <3>1. None # "callback"
      BY TablesAssumption DEF Interface, GuestCreated
    <3>. QED
      BY <2>1, <2>2, <3>1 DEF PairInv, DeferredInv
  <2>9. PairInv(h, b)' /\ DeferredInv(h)'
    BY <2>1, <2>6, <2>8 DEF PairInv, DeferredInv
  <2>10. Events(toProxy', h, b)
    BY <1>2, <1>3, <1>4, <2>1, <2>7, JoinsDone DEF EventInv
  <2>11. EventInv(h, b)' /\ FreeInv(h)' /\ OrphanInv(h)'
    BY <2>1, <2>4, <2>6, <2>7, <2>10 DEF EventInv, FreeInv, OrphanInv, IsHostIdAvailable
  <2>12. (HasResult(toProxy', h) <=> HasResult(toProxy, h)) /\ (OneResult(toProxy, h) => OneResult(toProxy', h))
    <3>1. ~IsResult(d, h) /\ ~IsResult(e, h)
      BY <1>2, <1>3 DEF Is, IsResult
    <3>2. (HasResult(q, h) <=> HasResult(toProxy, h)) /\ (OneResult(toProxy, h) => OneResult(q, h))
      BY <1>4, <3>1, JoinsEvents
    <3>3. (HasResult(toProxy', h) <=> HasResult(q, h)) /\ (OneResult(q, h) => OneResult(toProxy', h))
      BY <1>4, <3>1, JoinsEvents
    <3>. QED
      BY <3>2, <3>3
  <2>13. (Creating(h)' => Creating(h)) /\ (OneCreate(h) => OneCreate(h)')
    BY <1>0, <2>12 DEF Creating, OneCreate
  <2>14. LiveParams(h)' <=> LiveParams(h)
    BY <2>6 DEF LiveParams
  <2>15. CreateInv(h, b)'
    BY <1>0, <2>1, <2>6, <2>13, <2>14 DEF CreateInv
  <2>16. HostInv(h, b)'
    BY <1>0, <2>4, <2>9, <2>11, <2>15 DEF HostInv
  <2>. QED
    BY <1>6, <2>16
<1>. QED
  BY <1>5, <1>6

\* The host reuses a server-range ID only when nothing knows the old object.
LEMMA ServerIdFree ==
  ASSUME ObjectInv, NEW s \in HostServerIds, hostObj[s] = None
  PROVE  /\ s \in Hosts /\ s \notin HostIds /\ h2g[s] = None /\ Silent(toHost, s)
         /\ ~Coming(toProxy, s) /\ s \notin deferred
<1>1. s \in Hosts /\ s \notin HostIds
  BY IdsAssumption DEF Hosts
<1>2. PICK n \in Born : HostInv(s, n)
  BY <1>1 DEF ObjectInv
<1>3. Requests(toHost, hostObj[s], s, n) /\ PairInv(s, n) /\ DeferredInv(s) /\ ServerInv(s, n)
  BY <1>2 DEF HostInv
<1>4. ~Announced(s, "new", toHost) /\ ~Coming(toProxy, s)
  BY <1>3 DEF ServerInv
<1>5. Silent(toHost, s)
  <2>1. \A i \in DOMAIN toHost : Mentions(toHost[i], s) => toHost[i].op = "new"
    BY <1>3, <1>4 DEF Requests
  <2>2. \A i \in DOMAIN toHost : ~Is(toHost[i], "new", s)
    BY <1>4 DEF Announced, Is
  <2>3. \A i \in DOMAIN toHost : Mentions(toHost[i], s) => toHost[i].id = s
    BY <2>1 DEF Mentions
  <2>. QED
    BY <2>1, <2>2, <2>3 DEF Silent, Is
<1>6. ~Alive(toHost, hostObj[s], s)
  BY <1>4 DEF Alive
<1>7. h2g[s] = None
  BY <1>3, <1>6 DEF PairInv, ServerInv
<1>8. s \notin deferred
  BY <1>3, <1>7 DEF DeferredInv
<1>. QED
  BY <1>1, <1>4, <1>5, <1>7, <1>8

LEMMA BroughtHost ==
  ASSUME ObjectInv, NEW s \in HostServerIds, hostObj[s] = None, NEW n,
         hostObj'[s] # None, hostObj'[s].born = n, hostObj'[s].interface # "callback",
         UNCHANGED <<hostUses, toHost>>, TablesKept,
         NEW m \in Event, toProxy' = toProxy \o <<m>>, ~Mentions(m, s), Introduces(m, s), m.new_born = n
  PROVE  HostInv(s, n)'
<1>0. TypeOK
  BY DEF ObjectInv
<1>1. /\ s \in Hosts /\ s \notin HostIds /\ h2g[s] = None /\ Silent(toHost, s)
      /\ ~Coming(toProxy, s) /\ s \notin deferred
  BY ServerIdFree
<1>2. h2g' = h2g /\ deferred' = deferred
  BY KeptTables
<1>3. Joins(toProxy, m, toProxy', Len(toProxy))
  BY <1>0, AppendJoins DEF TypeOK
<1>4. Means(m, s, n)
  BY DEF Means, Mentions
<1>5. Fresh(toProxy', s, n)
  BY <1>1, <1>3, <1>4, JoinsMeanings
<1>6. Requests(toHost', hostObj'[s], s, n) /\ NotCallback(toHost', hostObj'[s], s)
  BY <1>1, SilentRequests
<1>7. ~Announced(s, "new", toHost')
  BY <1>1, SilentEvents
<1>8. ServerInv(s, n)' /\ PairInv(s, n)' /\ DeferredInv(s)'
  BY <1>1, <1>2, <1>5, <1>6, <1>7 DEF ServerInv, PairInv, DeferredInv
<1>9. UsedObject(hostUses', hostObj'[s], s)
  BY DEF UsedObject
<1>. QED
  BY <1>1, <1>6, <1>8, <1>9 DEF HostInv

LEMMA HostOffersHost ==
  ASSUME ObjectInv, NEW h \in HostIds, NEW s \in HostServerIds, HostOffers(h, s), NEW x \in Hosts
  PROVE  \E n \in Born : HostInv(x, n)'
<1>0. /\ TypeOK /\ hostObj[h] # None /\ hostObj[s] = None /\ TablesKept
      /\ UNCHANGED <<hostUses, hostCreates, toHost>> /\ h \in Hosts /\ s \in Hosts /\ h # s
  BY LeavesTables, IdsAssumption DEF ObjectInv, HostOffers, Hosts
<1>b. PICK b \in Born : b = hostObj[h].born /\ HostInv(h, b)
  BY <1>0, HostBorn
<1>c. PICK c \in Born : c = born'
  BY <1>0, BoundsAssumption DEF HostOffers, Bear, TypeOK, Born
<1>. DEFINE m == [op |-> "offer", id |-> h, born |-> b, new_id |-> s, new_born |-> c]
            o == [interface |-> "offer", born |-> c]
<1>1. toProxy' = toProxy \o <<m>> /\ hostObj' = [hostObj EXCEPT ![s] = o]
  BY <1>b, <1>c DEF HostOffers, Emit
<1>2. m \in Event
  BY <1>0 DEF Event
<1>3. m.op = "offer" /\ m.id = h /\ m.born = b /\ m.new_id = s /\ m.new_born = c
  OBVIOUS
<1>4. o \in HostObject /\ o.interface # "callback" /\ o.born = c
  BY DEF HostObject, Interface
<1>. HIDE DEF m, o
<1>5. /\ Means(m, h, b) /\ ~Introduces(m, h) /\ Introduces(m, s) /\ ~Mentions(m, s)
      /\ \A y : Touches(m, y) => y = h \/ y = s
  BY <1>0, <1>3 DEF Means, Touches, Mentions, Introduces
<1>6. /\ hostObj'[s] = o /\ o # None /\ \A y \in Hosts \ {s} : hostObj'[y] = hostObj[y]
  BY <1>0, <1>1, <1>4, TablesAssumption DEF TypeOK
<1>7. CASE x = h
  BY <1>0, <1>b, <1>1, <1>2, <1>3, <1>5, <1>6, <1>7, EmitHost
<1>8. CASE x = s
  BY <1>0, <1>1, <1>2, <1>3, <1>4, <1>5, <1>6, <1>8, BroughtHost
<1>9. CASE x # h /\ x # s
  BY <1>0, <1>1, <1>2, <1>5, <1>6, <1>9, EvSent, EmitOthers
<1>. QED
  BY <1>7, <1>8, <1>9

\* The answer to a create, the only one
LEMMA AnsweredHost ==
  ASSUME ObjectInv, NEW p \in hostCreates, NEW h, h = p.id, hostObj'[h] = hostObj[h],
         hostCreates' = hostCreates \ {p}, UNCHANGED <<hostUses, toHost>>, TablesKept,
         NEW m \in Event, toProxy' = toProxy \o <<m>>, IsResult(m, h), m.born = p.born
  PROVE  \E n \in Born : HostInv(h, n)'
<1>0. TypeOK /\ h \in HostIds /\ h \in Hosts /\ h \notin HostServerIds
  BY IdsAssumption DEF ObjectInv, TypeOK, Hosts
<1>1. PICK n \in Born : HostInv(h, n)
  BY <1>0 DEF ObjectInv
<1>2. /\ Requests(toHost, hostObj[h], h, n) /\ UsedObject(hostUses, hostObj[h], h) /\ PairInv(h, n)
      /\ DeferredInv(h) /\ EventInv(h, n) /\ FreeInv(h) /\ OrphanInv(h) /\ CreateInv(h, n)
  BY <1>0, <1>1 DEF HostInv
<1>3. UNCHANGED <<g2h, h2g, interfaces, hostIfaces, pendingHost, pendingGuest, creates, usedParams,
                  orphaned, deferred, guestObj, toHost>>
  BY KeptTables
<1>4. Joins(toProxy, m, toProxy', Len(toProxy))
  BY <1>0, AppendJoins DEF TypeOK
<1>5. /\ p.born = n /\ InSet(hostCreates, h) /\ Creating(h) /\ OneCreate(h)
  BY <1>2 DEF CreateInv, InSet, Creating
<1>6. Means(m, h, n) /\ ~Is(m, "done", h) /\ ~Is(m, "delete_id", h) /\ Mentions(m, h)
  BY <1>5 DEF Means, Is, IsResult, Mentions
<1>7. /\ Events(toProxy', h, n) /\ (OnlyResults(toProxy, h) => OnlyResults(toProxy', h))
      /\ Announced(h, "delete_id", toProxy') => Announced(h, "delete_id", toProxy)
  BY <1>2, <1>4, <1>6, JoinsMeanings, JoinsEvents DEF EventInv
<1>8. ~Announced(h, "create", toHost) /\ ~HasResult(toProxy, h) /\ OneOf(hostCreates, h)
  BY <1>5 DEF OneCreate
<1>9. ~InSet(hostCreates', h) /\ OneOf(hostCreates', h)
  BY <1>8 DEF InSet, OneOf
<1>10. OneResult(toProxy', h)
  BY <1>4, <1>5, <1>8, JoinsEvents DEF OneCreate
<1>11. OneCreate(h)'
  BY <1>3, <1>5, <1>8, <1>9, <1>10 DEF OneCreate
<1>12. LiveParams(h)' <=> LiveParams(h)
  BY <1>3 DEF LiveParams
<1>13. CreateInv(h, n)'
  BY <1>2, <1>3, <1>5, <1>11, <1>12 DEF CreateInv
<1>14. Gone(h)' <=> Gone(h)
  BY <1>3 DEF Gone
<1>15. EventInv(h, n)' /\ OrphanInv(h)'
  BY <1>2, <1>3, <1>7, <1>14 DEF EventInv, OrphanInv
<1>16. FreeInv(h)'
  BY <1>2, <1>3, <1>5 DEF FreeInv, IsHostIdAvailable
<1>17. PairInv(h, n)' /\ DeferredInv(h)'
  BY <1>2, <1>3 DEF PairInv, DeferredInv
<1>18. HostInv(h, n)'
  BY <1>0, <1>2, <1>3, <1>13, <1>15, <1>16, <1>17 DEF HostInv
<1>. QED
  BY <1>18

LEMMA HostCreatedHost ==
  ASSUME ObjectInv, NEW p \in hostCreates, NEW s \in HostServerIds, HostCreated(p, s), NEW x \in Hosts
  PROVE  \E n \in Born : HostInv(x, n)'
<1>0. /\ TypeOK /\ hostObj[s] = None /\ TablesKept /\ hostCreates' = hostCreates \ {p}
      /\ UNCHANGED <<hostUses, toHost>> /\ s \in Hosts
  BY LeavesTables DEF ObjectInv, HostCreated, Hosts
<1>h. PICK h \in HostIds : h = p.id
  BY <1>0 DEF TypeOK
<1>b. PICK b \in Born : b = p.born
  BY <1>0 DEF TypeOK
<1>c. PICK c \in Born : c = born'
  BY <1>0, BoundsAssumption DEF HostCreated, Bear, TypeOK, Born
<1>1. h \in Hosts /\ h # s
  BY IdsAssumption DEF Hosts
<1>. DEFINE m == [op |-> "created", id |-> h, born |-> b, new_id |-> s, new_born |-> c]
            o == [interface |-> "buffer", born |-> c]
<1>2. toProxy' = toProxy \o <<m>> /\ hostObj' = [hostObj EXCEPT ![s] = o]
  BY <1>h, <1>b, <1>c DEF HostCreated, Emit
<1>3. m \in Event
  BY <1>1 DEF Event
<1>4. m.op = "created" /\ m.id = h /\ m.born = b /\ m.new_id = s /\ m.new_born = c
  OBVIOUS
<1>5. o \in HostObject /\ o.interface # "callback" /\ o.born = c
  BY DEF HostObject, Interface, GuestCreated
<1>. HIDE DEF m, o
<1>6. /\ IsResult(m, h) /\ Introduces(m, s) /\ ~Mentions(m, s)
      /\ \A y : Touches(m, y) => y = h \/ y = s
  BY <1>1, <1>4 DEF IsResult, Touches, Mentions, Introduces
<1>7. /\ hostObj'[s] = o /\ o # None /\ \A y \in Hosts \ {s} : hostObj'[y] = hostObj[y]
  BY <1>0, <1>2, <1>5, TablesAssumption DEF TypeOK
<1>8. CASE x = h
  <2>1. hostObj'[h] = hostObj[h] /\ m.born = p.born
    BY <1>1, <1>4, <1>7, <1>b
  <2>2. \E n \in Born : HostInv(h, n)'
    BY <1>0, <1>h, <1>2, <1>3, <1>6, <2>1, AnsweredHost
  <2>. QED
    BY <1>8, <2>2
<1>9. CASE x = s
  BY <1>0, <1>2, <1>3, <1>4, <1>5, <1>6, <1>7, <1>9, BroughtHost
<1>10. CASE x # h /\ x # s
  BY <1>0, <1>h, <1>2, <1>3, <1>6, <1>7, <1>10, EvSent, EmitOthers
<1>. QED
  BY <1>8, <1>9, <1>10

LEMMA HostFailedHost ==
  ASSUME ObjectInv, NEW p \in hostCreates, HostFailed(p), NEW x \in Hosts
  PROVE  \E n \in Born : HostInv(x, n)'
<1>0. /\ TypeOK /\ TablesKept /\ hostCreates' = hostCreates \ {p} /\ UNCHANGED <<hostObj, hostUses, toHost>>
  BY LeavesTables DEF ObjectInv, HostFailed
<1>h. PICK h \in HostIds : h = p.id
  BY <1>0 DEF TypeOK
<1>b. PICK b \in Born : b = p.born
  BY <1>0 DEF TypeOK
<1>1. h \in Hosts
  BY DEF Hosts
<1>. DEFINE m == Req("failed", h, b)
<1>2. toProxy' = toProxy \o <<m>>
  BY <1>h, <1>b DEF HostFailed, Emit
<1>3. m \in Event /\ m.born = p.born /\ IsResult(m, h) /\ \A y : Touches(m, y) => y = h
  BY <1>1, <1>b DEF Req, Event, IsResult, Touches, Mentions, Introduces
<1>. HIDE DEF m
<1>4. CASE x = h
  <2>1. \E n \in Born : HostInv(h, n)'
    BY <1>0, <1>h, <1>2, <1>3, AnsweredHost
  <2>. QED
    BY <1>4, <2>1
<1>5. CASE x # h
  BY <1>0, <1>h, <1>2, <1>3, <1>5, EvSent, EmitOthers
<1>. QED
  BY <1>4, <1>5

-----------------------------------------------------------------------------
(* The tables and the guest's objects                                      *)

TablesType ==
  /\ g2h \in [Guests -> Hosts \cup {None}] /\ h2g \in [Hosts -> Guests \cup {None}]
  /\ interfaces \in [Guests -> Interface \cup {None}]
  /\ hostIfaces \in [Hosts -> Interface \cup {None}]
  /\ pendingHost \in SUBSET Hosts /\ pendingGuest \in SUBSET Guests
  /\ guestObj \in [Guests -> GuestObject \cup {None}]

Tables == TablesType /\ Maps /\ \A g \in Guests : GuestInv(g)

LEMMA InvTables == ASSUME ObjectInv PROVE Tables
BY DEF ObjectInv, TypeOK, Tables, TablesType

LEMMA TablesSame ==
  ASSUME Tables, UNCHANGED <<g2h, h2g, interfaces, pendingGuest, guestObj>>,
         pendingHost' \in SUBSET Hosts, hostIfaces' \in [Hosts -> Interface \cup {None}],
         \A h \in Hosts : h \in pendingHost' => h \in pendingHost \/ h2g[h] = None
  PROVE  Tables'
<1>1. TablesType' /\ Maps'
  BY DEF Tables, TablesType, Maps
<1>2. \A g \in Guests : GuestInv(g)'
  BY DEF Tables, GuestInv, IsGuestIdAvailable
<1>. QED
  BY <1>1, <1>2 DEF Tables

\* A new pair
LEMMA TablesPaired ==
  ASSUME Tables, NEW g \in Guests, NEW h \in Hosts, NEW i \in Interface, NEW n \in Born,
         g2h[g] = None, h2g[h] = None, h \notin pendingHost, g \notin pendingGuest, i # "local",
         g \in ClientIds <=> h \in HostIds,
         g2h' = [g2h EXCEPT ![g] = h], h2g' = [h2g EXCEPT ![h] = g],
         interfaces' = [interfaces EXCEPT ![g] = i],
         guestObj' = [guestObj EXCEPT ![g] = [interface |-> i, born |-> n, state |-> "live"]],
         UNCHANGED <<pendingHost, pendingGuest>>, hostIfaces' \in [Hosts -> Interface \cup {None}]
  PROVE  Tables'
<1>. DEFINE o == [interface |-> i, born |-> n, state |-> "live"]
<1>1. o \in GuestObject /\ o # None /\ o.state = "live" /\ o.interface = i
  BY TablesAssumption DEF GuestObject
<1>2. g # None /\ h # None
  BY IdsAssumption DEF Guests, Hosts
<1>3. guestObj' = [guestObj EXCEPT ![g] = o]
  OBVIOUS
<1>. HIDE DEF o
<1>4. TablesType'
  BY <1>1, <1>3 DEF Tables, TablesType
<1>5. Maps'
  <2>1. /\ \A y \in Guests : g2h'[y] = IF y = g THEN h ELSE g2h[y]
        /\ \A y \in Hosts : h2g'[y] = IF y = h THEN g ELSE h2g[y]
    BY DEF Tables, TablesType
  <2>2. ASSUME NEW y \in Guests, g2h'[y] # None PROVE h2g'[g2h'[y]] = y
    <3>1. CASE y = g
      BY <2>1, <3>1
    <3>2. CASE y # g
      <4>1. g2h'[y] = g2h[y] /\ g2h[y] \in Hosts /\ h2g[g2h[y]] = y
        BY <2>1, <2>2, <3>2 DEF Tables, TablesType, Maps
      <4>2. g2h[y] # h
        BY <4>1, IdsAssumption DEF Guests
      <4>. QED
        BY <2>1, <4>1, <4>2
    <3>. QED
      BY <3>1, <3>2
  <2>3. ASSUME NEW y \in Hosts, h2g'[y] # None PROVE g2h'[h2g'[y]] = y /\ y \notin pendingHost
    <3>1. CASE y = h
      BY <2>1, <3>1
    <3>2. CASE y # h
      <4>1. /\ h2g'[y] = h2g[y] /\ h2g[y] \in Guests /\ g2h[h2g[y]] = y
            /\ y \notin pendingHost
        BY <2>1, <2>3, <3>2 DEF Tables, TablesType, Maps
      <4>2. h2g[y] # g
        BY <4>1, IdsAssumption DEF Hosts
      <4>. QED
        BY <2>1, <4>1, <4>2
    <3>. QED
      BY <3>1, <3>2
  <2>. QED
    BY <2>2, <2>3 DEF Maps
<1>6. ASSUME NEW x \in Guests PROVE GuestInv(x)'
  <2>1. CASE x # g
    <3>1. /\ g2h'[x] = g2h[x] /\ interfaces'[x] = interfaces[x] /\ guestObj'[x] = guestObj[x]
          /\ pendingGuest' = pendingGuest
      BY <1>3, <2>1 DEF Tables, TablesType
    <3>. QED
      BY <3>1 DEF Tables, GuestInv, IsGuestIdAvailable
  <2>2. CASE x = g
    <3>1. g2h'[g] = h /\ interfaces'[g] = i /\ guestObj'[g] = o /\ g \notin pendingGuest'
      BY <1>3 DEF Tables, TablesType
    <3>. QED
      BY <1>1, <1>2, <2>2, <3>1 DEF GuestInv
  <2>. QED
    BY <2>1, <2>2
<1>. QED
  BY <1>4, <1>5, <1>6 DEF Tables

\* A pair removed, with the guest's object
LEMMA TablesUnpaired ==
  ASSUME Tables, NEW g \in Guests, NEW h \in Hosts, g2h[g] = h,
         g2h' = [g2h EXCEPT ![g] = None], h2g' = [h2g EXCEPT ![h] = None],
         interfaces' = [interfaces EXCEPT ![g] = None],
         guestObj' \in [Guests -> GuestObject \cup {None}], guestObj'[g] = None,
         \A y \in Guests \ {g} : guestObj'[y] = guestObj[y],
         g \notin pendingGuest', pendingGuest' \ {g} = pendingGuest \ {g},
         pendingHost \in SUBSET pendingHost', pendingHost' \in SUBSET (pendingHost \cup {h}),
         hostIfaces' \in [Hosts -> Interface \cup {None}]
  PROVE  Tables'
<1>1. h # None /\ g # None
  BY IdsAssumption DEF Guests, Hosts
<1>2. h2g[h] = g
  BY <1>1 DEF Tables, Maps
<1>3. TablesType'
  BY DEF Tables, TablesType
<1>4. Maps'
  <2>1. \A x \in Guests : g2h'[x] # None => h2g'[g2h'[x]] = x
    BY <1>1, <1>2 DEF Tables, TablesType, Maps
  <2>2. \A x \in Hosts : h2g'[x] # None => g2h'[h2g'[x]] = x
    BY <1>1, <1>2 DEF Tables, TablesType, Maps
  <2>3. \A x \in Hosts : h2g'[x] # None => x # h /\ h2g[x] # None
    BY DEF Tables, TablesType
  <2>4. \A x \in Hosts : h2g'[x] # None => x \notin pendingHost'
    BY <2>3 DEF Tables, Maps
  <2>. QED
    BY <2>1, <2>2, <2>4 DEF Maps
<1>5. ASSUME NEW x \in Guests PROVE GuestInv(x)'
  <2>1. CASE x # g
    <3>1. /\ g2h'[x] = g2h[x] /\ interfaces'[x] = interfaces[x] /\ guestObj'[x] = guestObj[x]
          /\ x \in pendingGuest' <=> x \in pendingGuest
      BY <2>1 DEF Tables, TablesType
    <3>. QED
      BY <3>1 DEF Tables, GuestInv, IsGuestIdAvailable
  <2>2. CASE x = g
    <3>1. g2h'[g] = None /\ interfaces'[g] = None
      BY DEF Tables, TablesType
    <3>. QED
      BY <2>2, <3>1 DEF GuestInv, IsGuestIdAvailable
  <2>. QED
    BY <2>1, <2>2
<1>. QED
  BY <1>3, <1>4, <1>5 DEF Tables

\* A destructor is under way, or waits for a release
LEMMA TablesPending ==
  ASSUME Tables, NEW g \in Guests, g2h[g] # None, UNCHANGED <<g2h, h2g, pendingHost>>,
         pendingGuest' = pendingGuest \cup {g},
         interfaces' \in [Guests -> Interface \cup {None}],
         \A y \in Guests \ {g} : interfaces'[y] = interfaces[y] /\ guestObj'[y] = guestObj[y],
         guestObj' \in [Guests -> GuestObject \cup {None}],
         g \in ServerIds => guestObj'[g] = None,
         g \in ClientIds => guestObj'[g] # None /\ guestObj'[g].state = "destroyed",
         hostIfaces' \in [Hosts -> Interface \cup {None}]
  PROVE  Tables'
<1>1. TablesType' /\ Maps'
  BY DEF Tables, TablesType, Maps
<1>2. ASSUME NEW x \in Guests PROVE GuestInv(x)'
  <2>1. CASE x # g
    BY <2>1 DEF Tables, GuestInv, IsGuestIdAvailable
  <2>2. CASE x = g
    BY <2>2 DEF Tables, GuestInv
  <2>. QED
    BY <2>1, <2>2
<1>. QED
  BY <1>1, <1>2 DEF Tables

\* An object the proxy serves by itself
LEMMA TablesLocal ==
  ASSUME Tables, NEW g \in Guests, g2h[g] = None, g \notin pendingGuest,
         NEW i \in {"local", None}, NEW o, interfaces' = [interfaces EXCEPT ![g] = i],
         guestObj' = [guestObj EXCEPT ![g] = o],
         \/ i = None /\ o = None
         \/ i = "local" /\ o \in GuestObject /\ o.state = "live" /\ o.interface = "local",
         UNCHANGED <<g2h, h2g, hostIfaces, pendingHost, pendingGuest>>
  PROVE  Tables'
<1>1. TablesType' /\ Maps'
  BY DEF Tables, TablesType, Maps, Interface
<1>2. ASSUME NEW x \in Guests PROVE GuestInv(x)'
  <2>1. CASE x # g
    <3>1. interfaces'[x] = interfaces[x] /\ guestObj'[x] = guestObj[x]
      BY <2>1 DEF Tables, TablesType
    <3>. QED
      BY <3>1 DEF Tables, GuestInv, IsGuestIdAvailable
  <2>2. CASE x = g
    <3>1. interfaces'[g] = i /\ guestObj'[g] = o /\ g2h'[g] = None /\ g \notin pendingGuest'
      BY DEF Tables, TablesType
    <3>2. None # "local" /\ None \notin GuestObject
      BY TablesAssumption DEF Interface
    <3>. QED
      BY <2>2, <3>1, <3>2 DEF GuestInv, IsGuestIdAvailable
  <2>. QED
    BY <2>1, <2>2
<1>. QED
  BY <1>1, <1>2 DEF Tables

-----------------------------------------------------------------------------
(* The rest of the state: the context's sets, the host and the queues      *)

Ranged(q, ops) == \A i \in DOMAIN q : q[i].op \in ops => q[i].id \in HostIds
NewOps == {"new", "create"}
ResultOps == {"done", "created", "failed", "delete_id"}

ContextType ==
  /\ creates \in SUBSET HostIds /\ usedParams \in SUBSET ClientIds
  /\ orphaned \in [HostIds -> ClientIds \cup {None}]
  /\ inUse \in SUBSET Hosts /\ deferred \in SUBSET Hosts
  /\ fatal \in {"no", "host_new_id"}
HostType ==
  /\ hostObj \in [Hosts -> HostObject \cup {None}]
  /\ hostCreates \in SUBSET [id : HostIds, born : Born] /\ hostUses \in SUBSET Hosts
  /\ born \in Born
RequestQueue == toHost \in Seq(Request) /\ Ranged(toHost, NewOps)
EventQueue == toProxy \in Seq(Event) /\ Ranged(toProxy, ResultOps)
OutType == out \subseteq Ref(Guests)

Rest == ContextType /\ HostType /\ RequestQueue /\ EventQueue /\ OutType

LEMMA InvRest == ASSUME ObjectInv PROVE Rest
BY DEF ObjectInv, TypeOK, IdRanges, Rest, ContextType, HostType, RequestQueue, EventQueue, OutType,
       Ranged, NewOps, ResultOps

LEMMA InvParts ==
  ASSUME Tables', Rest', \A h \in Hosts : \E n \in Born : HostInv(h, n)'
  PROVE  ObjectInv'
BY DEF ObjectInv, TypeOK, IdRanges, Rest, ContextType, HostType, RequestQueue, EventQueue, OutType,
       Ranged, NewOps, ResultOps, Tables, TablesType

LEMMA RangedAppend ==
  ASSUME NEW T, NEW q \in Seq(T), NEW m \in T, NEW ops, Ranged(q, ops),
         m.op \in ops => m.id \in HostIds
  PROVE  q \o <<m>> \in Seq(T) /\ Ranged(q \o <<m>>, ops)
<1>1. Joins(q, m, q \o <<m>>, Len(q)) /\ q \o <<m>> \in Seq(T)
  BY AppendJoins
<1>. DEFINE r == q \o <<m>>
<1>2. \A i \in DOMAIN r : r[i] = m \/ (i \in DOMAIN q /\ r[i] = q[i])
  BY <1>1 DEF Joins
<1>. HIDE DEF r
<1>3. Ranged(r, ops)
  BY <1>2 DEF Ranged
<1>. QED
  BY <1>1, <1>3 DEF r

LEMMA RangedTail ==
  ASSUME NEW T, NEW q \in Seq(T), q # <<>>, NEW ops, Ranged(q, ops)
  PROVE  Tail(q) \in Seq(T) /\ Ranged(Tail(q), ops)
<1>1. Loses(q, Tail(q), Len(q) - 1) /\ Tail(q) \in Seq(T)
  BY TailLoses
<1>2. \A i \in DOMAIN Tail(q) : i + 1 \in DOMAIN q /\ Tail(q)[i] = q[i + 1]
  BY <1>1 DEF Loses
<1>. QED
  BY <1>1, <1>2 DEF Ranged

\* One request more, on the same events or on one less.
LEMMA QueuesSent ==
  ASSUME Rest, NEW m \in Request, toHost' = toHost \o <<m>>, m.op \in NewOps => m.id \in HostIds
  PROVE  RequestQueue'
BY RangedAppend DEF Rest, RequestQueue

LEMMA QueuesTaken ==
  ASSUME Rest, NEW op, Take(op)
  PROVE  EventQueue'
BY RangedTail DEF Rest, EventQueue, Take

LEMMA QueuesEmitted ==
  ASSUME Rest, NEW m \in Event, toProxy' = toProxy \o <<m>>, m.op \in ResultOps => m.id \in HostIds
  PROVE  EventQueue'
BY RangedAppend DEF Rest, EventQueue

LEMMA QueuesKept ==
  ASSUME Rest
  PROVE  /\ UNCHANGED toHost => RequestQueue'
         /\ UNCHANGED toProxy => EventQueue'
         /\ UNCHANGED context => ContextType'
         /\ UNCHANGED hostState /\ born' \in Born => HostType'
         /\ out' = {} => OutType'
BY DEF Rest, RequestQueue, EventQueue, ContextType, HostType, OutType, context, hostState

\* The requests the proxy sends are requests.
LEMMA RequestTypes ==
  ASSUME NEW h \in Hosts, NEW n \in Born
  PROVE  /\ \A op \in {"destroy", "create", "submit"} : /\ Req(op, h, n) \in Request
                                                        /\ Req(op, h, n).op = op /\ Req(op, h, n).id = h
         /\ \A i \in Interface : NewReq(h, i, n) \in Request
         /\ \A op \in {"event", "done", "failed", "release", "delete_id"} :
              /\ Req(op, h, n) \in Event /\ Req(op, h, n).op = op /\ Req(op, h, n).id = h
BY DEF Request, Event, Req, NewReq

-----------------------------------------------------------------------------
(* Tables and types, step by step: the guest's requests                    *)

LEMMA CreateRest ==
  ASSUME ObjectInv, NEW g \in ClientIds, NEW h \in HostIds, NEW i \in GuestCreated, Create(g, h, i)
  PROVE  Tables' /\ Rest'
<1>0. Tables /\ Rest
  BY InvTables, InvRest
<1>1. /\ g \in Guests /\ h \in Hosts /\ g \notin pendingGuest
      /\ g2h[g] = None /\ IsHostIdAvailable(h) /\ born' \in Born
      /\ g2h' = [g2h EXCEPT ![g] = h] /\ h2g' = [h2g EXCEPT ![h] = g]
      /\ interfaces' = [interfaces EXCEPT ![g] = i]
      /\ guestObj' = [guestObj EXCEPT ![g] = [interface |-> i, born |-> born', state |-> "live"]]
      /\ hostIfaces' = IF i = "text_input" THEN [hostIfaces EXCEPT ![h] = i] ELSE hostIfaces
      /\ toHost' = toHost \o <<NewReq(h, i, born')>> /\ NewReq(h, i, born') \in Request
      /\ UNCHANGED <<pendingHost, pendingGuest, fatal, creates, usedParams, orphaned, inUse,
                     deferred, hostState, toProxy>>
  BY CreateEffect
<1>2. PICK n \in Born : n = born'
  BY <1>1
<1>3. i \in Interface /\ i # "local" /\ (g \in ClientIds <=> h \in HostIds)
  BY DEF Interface, GuestCreated
<1>4. hostIfaces' \in [Hosts -> Interface \cup {None}]
  BY <1>0, <1>1, <1>3 DEF Tables, TablesType
<1>5. h2g[h] = None /\ h \notin pendingHost
  BY <1>1 DEF IsHostIdAvailable
<1>6. guestObj' = [guestObj EXCEPT ![g] = [interface |-> i, born |-> n, state |-> "live"]]
  BY <1>1, <1>2
<1>7. Tables'
  BY <1>0, <1>1, <1>3, <1>4, <1>5, <1>6, TablesPaired
<1>8. RequestQueue'
  BY <1>0, <1>1, QueuesSent DEF NewReq
<1>9. OutType' /\ EventQueue' /\ HostType'
  BY <1>0, <1>1, QueuesKept DEF Create, Quiet
<1>10. ContextType'
  BY <1>0, <1>1 DEF Rest, ContextType
<1>. QED
  BY <1>7, <1>8, <1>9, <1>10 DEF Rest

LEMMA LocalRest ==
  ASSUME ObjectInv, NEW g \in ClientIds, CreateLocal(g) \/ DestroyLocal(g)
  PROVE  Tables' /\ Rest'
<1>0. Tables /\ Rest
  BY InvTables, InvRest
<1>1. CASE CreateLocal(g)
  <2>1. /\ g \in Guests /\ g \notin pendingGuest /\ g2h[g] = None /\ born' \in Born
        /\ interfaces' = [interfaces EXCEPT ![g] = "local"]
        /\ guestObj' = [guestObj EXCEPT ![g] = [interface |-> "local", born |-> born',
                                                state |-> "live"]]
        /\ UNCHANGED <<g2h, h2g, hostIfaces, pendingHost, pendingGuest, fatal, creates, usedParams,
                       orphaned, inUse, deferred, hostState, toHost, toProxy>>
    BY <1>1, CreateLocalEffect
  <2>2. PICK o : o = [interface |-> "local", born |-> born', state |-> "live"]
    OBVIOUS
  <2>3. o \in GuestObject /\ o.state = "live" /\ o.interface = "local"
    BY <2>1, <2>2 DEF GuestObject, Interface
  <2>4. Tables'
    <3>1. PICK i \in {"local", None} : i = "local"
      OBVIOUS
    <3>2. interfaces' = [interfaces EXCEPT ![g] = i] /\ guestObj' = [guestObj EXCEPT ![g] = o]
      BY <2>1, <2>2, <3>1
    <3>. QED
      BY <1>0, <2>1, <2>3, <3>1, <3>2, TablesLocal
  <2>5. OutType' /\ EventQueue' /\ RequestQueue' /\ HostType'
    BY <1>0, <1>1, <2>1, QueuesKept DEF CreateLocal, Quiet
  <2>6. ContextType'
    BY <1>0, <2>1 DEF Rest, ContextType
  <2>. QED
    BY <2>4, <2>5, <2>6 DEF Rest
<1>2. CASE DestroyLocal(g)
  <2>1. /\ g \in Guests /\ g \notin pendingGuest /\ g2h[g] = None
        /\ interfaces' = [interfaces EXCEPT ![g] = None]
        /\ guestObj' = [guestObj EXCEPT ![g] = None]
        /\ UNCHANGED <<g2h, h2g, hostIfaces, pendingHost, pendingGuest, context, hostState, born,
                       toHost, toProxy>>
    BY <1>2, DestroyLocalEffect
  <2>2. PICK i \in {"local", None} : i = None
    OBVIOUS
  <2>3. interfaces' = [interfaces EXCEPT ![g] = i]
    BY <2>1, <2>2
  <2>4. Tables'
    BY <1>0, <2>1, <2>2, <2>3, TablesLocal
  <2>5. Rest'
    BY <1>0, <1>2, <2>1, QueuesKept DEF Rest, HostType, DestroyLocal, Quiet
  <2>. QED
    BY <2>4, <2>5
<1>. QED
  BY <1>1, <1>2

\* Nothing changes but the context and the wire.
LEMMA ShadowKept ==
  ASSUME Tables, UNCHANGED <<shadow, guestObj>>
  PROVE  Tables'
BY TablesSame DEF shadow, Tables, TablesType

\* What a live object with a host object means to the host.
LEMMA LiveRef ==
  ASSUME ObjectInv, NEW g \in Guests, NEW i, Live(g, i), i # "local"
  PROVE  /\ g2h[g] \in Hosts /\ guestObj[g].born \in Born
         /\ g \in ClientIds <=> g2h[g] \in HostIds
BY LivePair

LEMMA ReferRest ==
  ASSUME ObjectInv, NEW g \in Guests, NEW a \in Guests, Refer(g, a)
  PROVE  Tables' /\ Rest'
<1>0. Tables /\ Rest
  BY InvTables, InvRest
<1>1. /\ Live(g, "surface") /\ Quiet
      /\ UNCHANGED <<shadow, creates, usedParams, orphaned, inUse, deferred, guestObj, hostState, born,
                     toProxy>>
  BY DEF Refer
<1>2. fatal' = fatal
  BY ReferServes
<1>3. Tables'
  BY <1>0, <1>1, ShadowKept
<1>4. OutType' /\ EventQueue'
  BY <1>0, <1>1, QueuesKept DEF Quiet
<1>5. ContextType' /\ HostType'
  BY <1>0, <1>1, <1>2 DEF Rest, ContextType, HostType, hostState
<1>6. RequestQueue'
  <2>1. CASE UNCHANGED toHost
    BY <1>0, <2>1, QueuesKept
  <2>2. CASE /\ ~Live(a, "local") /\ \E i : Live(a, i) /\ i \in {"surface", "offer"}
             /\ toHost' = toHost \o <<[op |-> "refer", id |-> g2h[g], born |-> guestObj[g].born,
                                        arg |-> [id |-> g2h[a], born |-> guestObj[a].born]]>>
    <3>1. PICK m : m = [op |-> "refer", id |-> g2h[g], born |-> guestObj[g].born,
                        arg |-> [id |-> g2h[a], born |-> guestObj[a].born]]
      OBVIOUS
    <3>2. g2h[g] \in Hosts /\ guestObj[g].born \in Born
      BY <1>1, LiveRef
    <3>3. g2h[a] \in Hosts /\ guestObj[a].born \in Born
      BY <2>2, LiveRef
    <3>4. m \in Request /\ m.op \notin NewOps
      BY <3>1, <3>2, <3>3 DEF Request, Ref, NewOps
    <3>. QED
      BY <1>0, <2>2, <3>1, <3>4, QueuesSent
  <2>. QED
    BY <2>1, <2>2, ReferServes
<1>. QED
  BY <1>3, <1>4, <1>5, <1>6 DEF Rest

LEMMA CreateAsyncRest ==
  ASSUME ObjectInv, NEW g \in ClientIds, CreateAsync(g)
  PROVE  Tables' /\ Rest'
<1>0. Tables /\ Rest /\ g \in Guests
  BY InvTables, InvRest DEF Guests
<1>1. /\ Live(g, "params") /\ Quiet /\ creates' = creates \cup {g2h[g]}
      /\ usedParams' = usedParams \cup {g}
      /\ toHost' = toHost \o <<Req("create", g2h[g], guestObj[g].born)>>
      /\ UNCHANGED <<shadow, orphaned, inUse, deferred, fatal, guestObj, hostState, born, toProxy>>
  BY DEF CreateAsync, Send
<1>2. g2h[g] \in Hosts /\ g2h[g] \in HostIds /\ guestObj[g].born \in Born
  BY <1>0, <1>1, LiveRef
<1>3. Tables'
  BY <1>0, <1>1, ShadowKept
<1>4. OutType' /\ EventQueue'
  BY <1>0, <1>1, QueuesKept DEF Quiet
<1>5. ContextType' /\ HostType'
  BY <1>0, <1>1, <1>2 DEF Rest, ContextType, HostType, hostState
<1>6. RequestQueue'
  BY <1>0, <1>1, <1>2, RequestTypes, QueuesSent
<1>. QED
  BY <1>3, <1>4, <1>5, <1>6 DEF Rest

LEMMA SubmitRest ==
  ASSUME ObjectInv, NEW g \in Guests, Submit(g)
  PROVE  Tables' /\ Rest'
<1>0. Tables /\ Rest
  BY InvTables, InvRest
<1>1. /\ Live(g, "buffer") /\ Quiet /\ inUse' = inUse \cup {g2h[g]}
      /\ toHost' = toHost \o <<Req("submit", g2h[g], guestObj[g].born)>>
      /\ UNCHANGED <<shadow, creates, usedParams, orphaned, deferred, fatal, guestObj, hostState, born,
                     toProxy>>
  BY DEF Submit, Send
<1>2. g2h[g] \in Hosts /\ guestObj[g].born \in Born
  BY <1>1, LiveRef
<1>3. Tables'
  BY <1>0, <1>1, ShadowKept
<1>4. OutType' /\ EventQueue'
  BY <1>0, <1>1, QueuesKept DEF Quiet
<1>5. ContextType' /\ HostType'
  BY <1>0, <1>1, <1>2 DEF Rest, ContextType, HostType, hostState
<1>6. Req("submit", g2h[g], guestObj[g].born).op \notin NewOps
  BY DEF Req, NewOps
<1>7. RequestQueue'
  BY <1>0, <1>1, <1>2, <1>6, RequestTypes, QueuesSent
<1>. QED
  BY <1>3, <1>4, <1>5, <1>7 DEF Rest

LEMMA RangedTwo ==
  ASSUME NEW T, NEW q \in Seq(T), NEW m \in T, NEW p \in T, NEW ops, Ranged(q, ops),
         m.op \in ops => m.id \in HostIds, p.op \in ops => p.id \in HostIds
  PROVE  q \o <<m, p>> \in Seq(T) /\ Ranged(q \o <<m, p>>, ops)
<1>1. q \o <<m>> \in Seq(T) /\ Ranged(q \o <<m>>, ops)
  BY RangedAppend
<1>2. Joins(q \o <<m>>, p, q \o <<m, p>>, Len(q) + 1) /\ q \o <<m, p>> \in Seq(T)
  BY AppendTwice
<1>. DEFINE s == q \o <<m>>
            r == q \o <<m, p>>
<1>3. \A i \in DOMAIN r : r[i] = p \/ (i \in DOMAIN s /\ r[i] = s[i])
  BY <1>2 DEF Joins
<1>4. Ranged(s, ops)
  BY <1>1
<1>. HIDE DEF r, s
<1>5. Ranged(r, ops)
  BY <1>3, <1>4 DEF Ranged
<1>. QED
  BY <1>2, <1>5 DEF r

\* A destructor sent: a client-range pair waits for delete_id, a server-range one goes.
LEMMA DestroySentTables ==
  ASSUME Tables, NEW g \in Guests, NEW n, g2h[g] # None, DestroySent(g, n),
         \A y \in Guests \ {g} : guestObj'[y] = guestObj[y],
         guestObj' \in [Guests -> GuestObject \cup {None}],
         g \in ServerIds => guestObj'[g] = None,
         g \in ClientIds => guestObj'[g] # None /\ guestObj'[g].state = "destroyed"
  PROVE  Tables'
<1>1. CASE g \in ClientIds
  <2>1. pendingGuest' = pendingGuest \cup {g} /\ UNCHANGED <<g2h, h2g, interfaces, hostIfaces, pendingHost>>
    BY <1>1 DEF DestroySent
  <2>2. interfaces' \in [Guests -> Interface \cup {None}] /\ hostIfaces' \in [Hosts -> Interface \cup {None}]
    BY <2>1 DEF Tables, TablesType
  <2>3. \A y \in Guests \ {g} : interfaces'[y] = interfaces[y] /\ guestObj'[y] = guestObj[y]
    BY <2>1
  <2>. QED
    BY <2>1, <2>2, <2>3, TablesPending
<1>2. CASE g \in ServerIds
  <2>h. PICK h \in Hosts : h = g2h[g]
    BY DEF Tables, TablesType
  <2>1. /\ h2g' = [h2g EXCEPT ![h] = None] /\ hostIfaces' = [hostIfaces EXCEPT ![h] = None]
        /\ g2h' = [g2h EXCEPT ![g] = None] /\ interfaces' = [interfaces EXCEPT ![g] = None]
        /\ pendingGuest' = pendingGuest \ {g} /\ UNCHANGED pendingHost
    BY <1>2, <2>h DEF DestroySent
  <2>2. hostIfaces' \in [Hosts -> Interface \cup {None}]
    BY <2>1 DEF Tables, TablesType
  <2>3. /\ g2h[g] = h /\ guestObj'[g] = None /\ g \notin pendingGuest'
        /\ pendingGuest' \ {g} = pendingGuest \ {g}
        /\ pendingHost \in SUBSET pendingHost' /\ pendingHost' \in SUBSET (pendingHost \cup {h})
    BY <1>2, <2>h, <2>1
  <2>. QED
    BY <2>1, <2>2, <2>3, TablesUnpaired
<1>. QED
  BY <1>1, <1>2 DEF Guests

LEMMA DestroySentQueue ==
  ASSUME Rest, NEW h \in Hosts, NEW n \in Born, toHost' = toHost \o <<Req("destroy", h, n)>>
  PROVE  RequestQueue'
<1>1. Req("destroy", h, n) \in Request /\ Req("destroy", h, n).op \notin NewOps
  BY RequestTypes DEF NewOps
<1>. QED
  BY <1>1, QueuesSent

LEMMA DestroyRest ==
  ASSUME ObjectInv, NEW g \in Guests, NEW i, Destroy(g, i)
  PROVE  Tables' /\ Rest'
<1>0. Tables /\ Rest /\ TypeOK
  BY InvTables, InvRest DEF ObjectInv
<1>1. /\ Live(g, i) /\ i \in {"surface", "offer"} /\ GuestDestroys(g) /\ Quiet
      /\ Send(<<Req("destroy", g2h[g], guestObj[g].born)>>)
      /\ IF IsGuestServerId(g) THEN RemoveId(g) ELSE MarkPendingDestroy(g)
      /\ UNCHANGED <<context, hostState, born, toProxy>>
  BY DEF Destroy
<1>2. /\ g2h[g] \in Hosts /\ guestObj[g].born \in Born /\ guestObj[g] # None /\ g2h[g] # None
  BY <1>1, LiveRef, LivePair, LiveFacts
<1>3. DestroySent(g, guestObj[g].born)
  BY <1>0, <1>1, <1>2, DestroySentEffect
<1>4. Tables'
  BY <1>0, <1>1, <1>2, <1>3, GuestDestroysEffect, DestroySentTables
<1>5. RequestQueue'
  BY <1>0, <1>2, <1>3, DestroySentQueue DEF DestroySent
<1>6. OutType' /\ EventQueue' /\ ContextType' /\ HostType'
  BY <1>0, <1>1, QueuesKept DEF Quiet, Rest, HostType
<1>. QED
  BY <1>4, <1>5, <1>6 DEF Rest

LEMMA DestroyParamsRest ==
  ASSUME ObjectInv, NEW g \in ClientIds, DestroyParams(g)
  PROVE  Tables' /\ Rest'
<1>0. Tables /\ Rest /\ TypeOK /\ g \in Guests
  BY InvTables, InvRest DEF ObjectInv, Guests
<1>1. /\ Live(g, "params") /\ GuestDestroys(g) /\ Quiet
      /\ OrphanPending(g2h[g], g) /\ creates' = creates \ {g2h[g]} /\ usedParams' = usedParams \ {g}
      /\ Send(<<Req("destroy", g2h[g], guestObj[g].born)>>) /\ MarkPendingDestroy(g)
      /\ UNCHANGED <<inUse, deferred, fatal, hostState, born, toProxy>>
  BY DEF DestroyParams
<1>2. /\ g2h[g] \in Hosts /\ guestObj[g].born \in Born /\ guestObj[g] # None /\ g2h[g] # None
  BY <1>0, <1>1, LiveRef, LivePair, LiveFacts
<1>3. DestroySent(g, guestObj[g].born)
  <2>1. ~IsGuestServerId(g)
    BY IdsAssumption DEF IsGuestServerId
  <2>. QED
    BY <1>0, <1>1, <1>2, <2>1, DestroySentEffect
<1>4. Tables'
  BY <1>0, <1>1, <1>2, <1>3, GuestDestroysEffect, DestroySentTables
<1>5. RequestQueue'
  BY <1>0, <1>2, <1>3, DestroySentQueue DEF DestroySent
<1>6. OutType' /\ EventQueue' /\ HostType'
  BY <1>0, <1>1, QueuesKept DEF Quiet, Rest, HostType
<1>7. orphaned' \in [HostIds -> ClientIds \cup {None}]
  BY <1>0, <1>1 DEF OrphanPending, Rest, ContextType
<1>8. ContextType'
  BY <1>0, <1>1, <1>7 DEF Rest, ContextType
<1>. QED
  BY <1>4, <1>5, <1>6, <1>8 DEF Rest

LEMMA DestroyBufferRest ==
  ASSUME ObjectInv, NEW g \in Guests, DestroyBuffer(g)
  PROVE  Tables' /\ Rest'
<1>0. Tables /\ Rest /\ TypeOK
  BY InvTables, InvRest DEF ObjectInv
<1>1. /\ Live(g, "buffer") /\ GuestDestroys(g) /\ Quiet
      /\ UNCHANGED <<creates, usedParams, orphaned, inUse, fatal, hostState, born, toProxy>>
  BY DEF DestroyBuffer
<1>2. /\ g2h[g] \in Hosts /\ guestObj[g].born \in Born /\ guestObj[g] # None /\ g2h[g] # None
  BY <1>1, LiveRef, LivePair, LiveFacts
<1>3. /\ \A y \in Guests \ {g} : guestObj'[y] = guestObj[y]
      /\ g \in ServerIds => guestObj'[g] = None
      /\ g \in ClientIds => guestObj'[g] # None /\ guestObj'[g].state = "destroyed"
      /\ guestObj' \in [Guests -> GuestObject \cup {None}]
  BY <1>0, <1>1, <1>2, GuestDestroysEffect
<1>4. OutType' /\ EventQueue' /\ HostType'
  BY <1>0, <1>1, QueuesKept DEF Quiet, Rest, HostType
<1>5. CASE g2h[g] \in inUse
  <2>1. RetireGuestObject(g) /\ deferred' = deferred \cup {g2h[g]} /\ UNCHANGED toHost
    BY <1>5 DEF DestroyBuffer
  <2>2. interfaces[g] = "buffer"
    BY <1>1, LiveFacts
  <2>3. /\ UNCHANGED <<g2h, h2g, pendingHost>> /\ pendingGuest' = pendingGuest \cup {g}
        /\ interfaces' \in [Guests -> Interface \cup {None}]
        /\ \A y \in Guests \ {g} : interfaces'[y] = interfaces[y]
    BY <1>0, <2>1 DEF RetireGuestObject, Tables, TablesType
  <2>4. hostIfaces' \in [Hosts -> Interface \cup {None}]
    BY <1>0, <2>1 DEF RetireGuestObject, Tables, TablesType
  <2>5. Tables'
    BY <1>0, <1>2, <1>3, <2>3, <2>4, TablesPending
  <2>6. ContextType' /\ RequestQueue'
    BY <1>0, <1>1, <1>2, <2>1, QueuesKept DEF Rest, ContextType
  <2>. QED
    BY <1>4, <2>5, <2>6 DEF Rest
<1>6. CASE g2h[g] \notin inUse
  <2>1. QueueBufferDestroy(g, guestObj[g].born) /\ UNCHANGED deferred
    BY <1>6 DEF DestroyBuffer
  <2>2. DestroySent(g, guestObj[g].born)
    BY <1>0, <1>2, <2>1, DestroySentEffect DEF QueueBufferDestroy
  <2>3. Tables'
    BY <1>0, <1>2, <1>3, <2>2, DestroySentTables
  <2>4. RequestQueue'
    BY <1>0, <1>2, <2>2, DestroySentQueue DEF DestroySent
  <2>5. ContextType'
    BY <1>0, <1>1, <2>1 DEF Rest, ContextType
  <2>. QED
    BY <1>4, <2>3, <2>4, <2>5 DEF Rest
<1>. QED
  BY <1>5, <1>6

LEMMA DestroyTextInputRest ==
  ASSUME ObjectInv, NEW g \in ClientIds, DestroyTextInput(g)
  PROVE  Tables' /\ Rest'
<1>0. Tables /\ Rest /\ TypeOK /\ Maps /\ g \in Guests
  BY InvTables, InvRest DEF ObjectInv, Guests
<1>1. /\ Live(g, "text_input") /\ RemoveGuestMapping(g) /\ GuestDeleteId(g) /\ Quiet
      /\ UNCHANGED <<pendingHost, pendingGuest, context, hostState, born, toHost, toProxy>>
  BY DEF DestroyTextInput
<1>2. g2h[g] # None /\ g \notin pendingGuest /\ interfaces[g] = "text_input"
  BY <1>0, <1>1, LivePair, LiveFacts
<1>h. PICK h \in Hosts : h = g2h[g]
  BY <1>0, <1>2 DEF TypeOK
<1>3. /\ h2g' = [h2g EXCEPT ![h] = None]
      /\ hostIfaces' = [hostIfaces EXCEPT ![h] = IF @ = None THEN interfaces[g] ELSE @]
      /\ g2h' = [g2h EXCEPT ![g] = None] /\ interfaces' = [interfaces EXCEPT ![g] = None]
  BY <1>0, <1>1, <1>2, <1>h, UnmapPair
<1>4. hostIfaces' \in [Hosts -> Interface \cup {None}]
  BY <1>0, <1>2, <1>3 DEF Tables, TablesType, Interface, GuestCreated
<1>5. /\ guestObj' \in [Guests -> GuestObject \cup {None}] /\ guestObj'[g] = None
      /\ \A y \in Guests \ {g} : guestObj'[y] = guestObj[y]
  BY <1>0, <1>1 DEF GuestDeleteId, Tables, TablesType
<1>6. /\ g \notin pendingGuest' /\ pendingGuest' \ {g} = pendingGuest \ {g}
      /\ pendingHost \in SUBSET pendingHost' /\ pendingHost' \in SUBSET (pendingHost \cup {h})
  BY <1>1, <1>2
<1>7. Tables'
  BY <1>0, <1>h, <1>3, <1>4, <1>5, <1>6, TablesUnpaired
<1>8. Rest'
  BY <1>0, <1>1, QueuesKept DEF Rest, HostType, Quiet
<1>. QED
  BY <1>7, <1>8

LEMMA InternalSyncRest ==
  ASSUME ObjectInv, NEW h \in HostIds, InternalSync(h)
  PROVE  Tables' /\ Rest'
<1>0. Tables /\ Rest /\ h \in Hosts
  BY InvTables, InvRest DEF Hosts
<1>1. /\ Bear /\ TrackHostInterface(h, "callback") /\ Quiet
      /\ toHost' = toHost \o <<NewReq(h, "callback", born')>>
      /\ UNCHANGED <<g2h, h2g, interfaces, pendingHost, pendingGuest, context, guestObj, hostState, toProxy>>
  BY DEF InternalSync, Send
<1>2. born' \in Born
  BY <1>0, <1>1, BoundsAssumption DEF Bear, Born, Rest, HostType
<1>3. "callback" \in Interface
  BY DEF Interface, GuestCreated
<1>4. hostIfaces' \in [Hosts -> Interface \cup {None}]
  BY <1>0, <1>1, <1>3 DEF TrackHostInterface, Tables, TablesType
<1>5. pendingHost' \in SUBSET Hosts /\ \A y \in Hosts : y \in pendingHost' => y \in pendingHost
  BY <1>0, <1>1 DEF Tables, TablesType
<1>6. Tables'
  BY <1>0, <1>1, <1>4, <1>5, TablesSame
<1>7. RequestQueue'
  <2>1. NewReq(h, "callback", born') \in Request /\ NewReq(h, "callback", born').id \in HostIds
    BY <1>0, <1>2, <1>3 DEF NewReq, Request
  <2>. QED
    BY <1>0, <1>1, <2>1, QueuesSent
<1>8. OutType' /\ EventQueue' /\ ContextType' /\ HostType'
  BY <1>0, <1>1, <1>2, QueuesKept DEF Quiet
<1>. QED
  BY <1>6, <1>7, <1>8 DEF Rest

LEMMA InternalParamsRest ==
  ASSUME ObjectInv, NEW h \in HostIds, InternalParams(h)
  PROVE  Tables' /\ Rest'
<1>0. Tables /\ Rest /\ h \in Hosts
  BY InvTables, InvRest DEF Hosts
<1>1. /\ Bear /\ IsHostIdAvailable(h) /\ pendingHost' = pendingHost \cup {h} /\ Quiet
      /\ toHost' = toHost \o <<NewReq(h, "params", born'), Req("destroy", h, born')>>
      /\ UNCHANGED <<g2h, h2g, interfaces, hostIfaces, pendingGuest, context, guestObj, hostState, toProxy>>
  BY DEF InternalParams, Send, AllocateHostId
<1>2. born' \in Born
  BY <1>0, <1>1, BoundsAssumption DEF Bear, Born, Rest, HostType
<1>3. /\ hostIfaces' \in [Hosts -> Interface \cup {None}] /\ pendingHost' \in SUBSET Hosts
      /\ \A y \in Hosts : y \in pendingHost' => y \in pendingHost \/ h2g[y] = None
  BY <1>0, <1>1 DEF Tables, TablesType, IsHostIdAvailable
<1>4. Tables'
  BY <1>0, <1>1, <1>3, TablesSame
<1>5. RequestQueue'
  <2>1. PICK m, k : m = NewReq(h, "params", born') /\ k = Req("destroy", h, born')
    OBVIOUS
  <2>2. m \in Request /\ k \in Request /\ m.id \in HostIds /\ k.id \in HostIds
    BY <1>0, <1>2, <2>1 DEF NewReq, Req, Request, Interface, GuestCreated
  <2>3. Ranged(toHost', NewOps) /\ toHost' \in Seq(Request)
    BY <1>0, <1>1, <2>1, <2>2, RangedTwo DEF Rest, RequestQueue
  <2>. QED
    BY <2>3 DEF RequestQueue
<1>6. OutType' /\ EventQueue' /\ ContextType' /\ HostType'
  BY <1>0, <1>1, <1>2, QueuesKept DEF Quiet
<1>. QED
  BY <1>4, <1>5, <1>6 DEF Rest

-----------------------------------------------------------------------------
(* Tables and types: the host's events                                     *)

LEMMA EventFields ==
  ASSUME ObjectInv, NEW op, Take(op)
  PROVE  /\ ev.id \in Hosts /\ ev.born \in Born
         /\ op = "refer" => ev.arg.id \in Hosts /\ ev.arg.born \in Born
BY TakeFacts DEF Event, Ref

LEMMA Delivered ==
  ASSUME NEW g \in Guests, NEW n \in Born, Deliver(g, n)
  PROVE  OutType'
BY DEF Deliver, OutType, Ref

LEMMA OnEventRest ==
  ASSUME ObjectInv, OnEvent
  PROVE  Tables' /\ Rest'
<1>0. Tables /\ Rest /\ Take("event") /\ UNCHANGED <<shadow, context, guestObj, hostState, born, toHost>>
  BY InvTables, InvRest DEF OnEvent
<1>1. Tables' /\ EventQueue' /\ RequestQueue' /\ ContextType' /\ HostType'
  BY <1>0, ShadowKept, QueuesTaken, QueuesKept DEF Rest, HostType
<1>2. OutType'
  <2>1. CASE Dispatches(ev.id) /\ h2g[ev.id] # None
    <3>1. h2g[ev.id] \in Guests /\ ev.born \in Born
      BY <1>0, <2>1, EventFields DEF Tables, TablesType
    <3>. QED
      BY <2>1, <3>1, Delivered DEF OnEvent
  <2>2. CASE ~(Dispatches(ev.id) /\ h2g[ev.id] # None)
    BY <1>0, <2>2, QueuesKept DEF OnEvent, Quiet
  <2>. QED
    BY <2>1, <2>2
<1>. QED
  BY <1>1, <1>2 DEF Rest

LEMMA OnReferRest ==
  ASSUME ObjectInv, OnRefer
  PROVE  Tables' /\ Rest'
<1>0. Tables /\ Rest /\ Take("refer") /\ UNCHANGED <<shadow, context, guestObj, hostState, born, toHost>>
  BY InvTables, InvRest DEF OnRefer
<1>1. Tables' /\ EventQueue' /\ RequestQueue' /\ ContextType' /\ HostType'
  BY <1>0, ShadowKept, QueuesTaken, QueuesKept DEF Rest, HostType
<1>2. OutType'
  <2>1. CASE /\ Dispatches(ev.id) /\ h2g[ev.id] # None /\ ValidEventArg(ev.arg.id, ev.expects)
    <3>1. /\ h2g[ev.id] \in Guests /\ ev.born \in Born
          /\ h2g[ev.arg.id] \in Guests /\ ev.arg.born \in Born
      BY <1>0, <2>1, EventFields DEF Tables, TablesType, ValidEventArg
    <3>2. out' = {[id |-> h2g[ev.id], born |-> ev.born],
                  [id |-> h2g[ev.arg.id], born |-> ev.arg.born]}
      BY <2>1 DEF OnRefer
    <3>. QED
      BY <3>1, <3>2 DEF OutType, Ref
  <2>2. CASE ~(/\ Dispatches(ev.id) /\ h2g[ev.id] # None /\ ValidEventArg(ev.arg.id, ev.expects))
    BY <1>0, <2>2, QueuesKept DEF OnRefer, Quiet
  <2>. QED
    BY <2>1, <2>2
<1>. QED
  BY <1>1, <1>2 DEF Rest

LEMMA OnDoneRest ==
  ASSUME ObjectInv, OnDone
  PROVE  Tables' /\ Rest'
<1>0. Tables /\ Rest /\ Take("done") /\ UNCHANGED <<context, hostState, born, toHost>>
  BY InvTables, InvRest, OnDoneEffect
<1>1. EventQueue' /\ RequestQueue' /\ ContextType' /\ HostType'
  BY <1>0, QueuesTaken, QueuesKept DEF Rest, HostType
<1>h. PICK h \in Hosts : h = ev.id
  BY <1>0, EventFields
<1>2. CASE UNCHANGED <<shadow, guestObj>> /\ out' = {}
  BY <1>0, <1>1, <1>2, ShadowKept, QueuesKept DEF Rest
<1>3. CASE /\ Dispatches(ev.id) /\ h2g[ev.id] = None /\ hostIfaces[ev.id] # None
           /\ hostIfaces' = [hostIfaces EXCEPT ![ev.id] = None]
           /\ pendingHost' = pendingHost \cup {ev.id}
           /\ UNCHANGED <<g2h, h2g, interfaces, pendingGuest, guestObj>> /\ out' = {}
  <2>1. /\ hostIfaces' \in [Hosts -> Interface \cup {None}] /\ pendingHost' \in SUBSET Hosts
        /\ \A y \in Hosts : y \in pendingHost' => y \in pendingHost \/ h2g[y] = None
    BY <1>0, <1>h, <1>3 DEF Tables, TablesType
  <2>2. Tables'
    BY <1>0, <1>3, <2>1, TablesSame
  <2>. QED
    BY <1>0, <1>1, <1>3, <2>2, QueuesKept DEF Rest
<1>4. CASE /\ Dispatches(ev.id) /\ h2g[ev.id] # None /\ h2g[ev.id] \in Guests
           /\ g2h[h2g[ev.id]] = ev.id /\ h2g[ev.id] \notin pendingGuest
           /\ h2g' = [h2g EXCEPT ![ev.id] = None]
           /\ hostIfaces' = [hostIfaces EXCEPT ![ev.id] = None]
           /\ g2h' = [g2h EXCEPT ![h2g[ev.id]] = None]
           /\ interfaces' = [interfaces EXCEPT ![h2g[ev.id]] = None]
           /\ pendingHost' = pendingHost \cup {ev.id} /\ UNCHANGED pendingGuest
           /\ guestObj' = [guestObj EXCEPT ![h2g[ev.id]] = None]
           /\ Deliver(h2g[ev.id], ev.born)
  <2>g. PICK g \in Guests : g = h2g[h]
    BY <1>h, <1>4
  <2>1. /\ g2h[g] = h /\ h2g' = [h2g EXCEPT ![h] = None] /\ hostIfaces' = [hostIfaces EXCEPT ![h] = None]
        /\ g2h' = [g2h EXCEPT ![g] = None] /\ interfaces' = [interfaces EXCEPT ![g] = None]
        /\ g \notin pendingGuest' /\ pendingGuest' = pendingGuest
        /\ pendingHost' = pendingHost \cup {h} /\ guestObj' = [guestObj EXCEPT ![g] = None]
    BY <1>h, <1>4, <2>g
  <2>2. /\ hostIfaces' \in [Hosts -> Interface \cup {None}]
        /\ guestObj' \in [Guests -> GuestObject \cup {None}] /\ guestObj'[g] = None
        /\ \A y \in Guests \ {g} : guestObj'[y] = guestObj[y]
    BY <1>0, <2>1 DEF Tables, TablesType
  <2>3. pendingHost \in SUBSET pendingHost' /\ pendingHost' \in SUBSET (pendingHost \cup {h})
    BY <2>1
  <2>4. Tables'
    BY <1>0, <2>1, <2>2, <2>3, TablesUnpaired
  <2>5. OutType'
    BY <1>0, <1>4, EventFields, Delivered
  <2>. QED
    BY <1>1, <2>4, <2>5 DEF Rest
<1>. QED
  BY <1>2, <1>3, <1>4, OnDoneEffect

LEMMA OnDeleteIdRest ==
  ASSUME ObjectInv, OnDeleteId
  PROVE  Tables' /\ Rest'
<1>h. PICK h \in Hosts : h = ev.id
  BY EventFields DEF OnDeleteId
<1>0. /\ Tables /\ Rest /\ Take("delete_id") /\ out' = {} /\ h \in HostIds
      /\ UNCHANGED <<usedParams, orphaned, fatal, hostState, born, toHost>>
      /\ DeleteIdKeeps \/ DeleteIdFrees(h) \/ DeleteIdUnmaps(h) \/ DeleteIdRemoves(h)
  BY <1>h, InvTables, InvRest, OnDeleteIdEffect
<1>1. EventQueue' /\ RequestQueue' /\ HostType' /\ OutType'
  BY <1>0, QueuesTaken, QueuesKept DEF Rest, HostType
<1>2. ContextType'
  BY <1>0 DEF Rest, ContextType, DeleteIdKeeps, DeleteIdFrees, DeleteIdUnmaps, DeleteIdRemoves
<1>3. Rest'
  BY <1>1, <1>2 DEF Rest
<1>4. CASE DeleteIdKeeps
  BY <1>0, <1>4, <1>3, ShadowKept DEF DeleteIdKeeps
<1>5. CASE DeleteIdFrees(h)
  <2>1. /\ hostIfaces' \in [Hosts -> Interface \cup {None}] /\ pendingHost' \in SUBSET Hosts
        /\ \A y \in Hosts : y \in pendingHost' => y \in pendingHost
        /\ UNCHANGED <<g2h, h2g, interfaces, pendingGuest, guestObj>>
    BY <1>0, <1>5 DEF Tables, TablesType, DeleteIdFrees
  <2>. QED
    BY <1>0, <1>3, <2>1, TablesSame
<1>6. CASE DeleteIdUnmaps(h) \/ DeleteIdRemoves(h)
  <2>g. PICK g \in Guests : g = h2g[h]
    BY <1>6 DEF DeleteIdUnmaps, DeleteIdRemoves
  <2>1. /\ g2h[g] = h /\ h2g' = [h2g EXCEPT ![h] = None]
        /\ g2h' = [g2h EXCEPT ![g] = None] /\ interfaces' = [interfaces EXCEPT ![g] = None]
        /\ pendingGuest' = pendingGuest \ {g}
        /\ pendingHost' = pendingHost /\ guestObj' = [guestObj EXCEPT ![g] = None]
        /\ \/ hostIfaces' = [hostIfaces EXCEPT ![h] = None]
           \/ hostIfaces' = [hostIfaces EXCEPT ![h] = IF @ = None THEN interfaces[g] ELSE @]
    BY <1>6, <2>g DEF DeleteIdUnmaps, DeleteIdRemoves
  <2>2. /\ hostIfaces' \in [Hosts -> Interface \cup {None}]
        /\ guestObj' \in [Guests -> GuestObject \cup {None}] /\ guestObj'[g] = None
        /\ \A y \in Guests \ {g} : guestObj'[y] = guestObj[y]
    BY <1>0, <2>1 DEF Tables, TablesType
  <2>3. /\ g \notin pendingGuest' /\ pendingGuest' \ {g} = pendingGuest \ {g}
        /\ pendingHost \in SUBSET pendingHost' /\ pendingHost' \in SUBSET (pendingHost \cup {h})
    BY <2>1
  <2>. QED
    BY <1>0, <1>3, <2>1, <2>2, <2>3, TablesUnpaired
<1>. QED
  BY <1>0, <1>4, <1>5, <1>6

LEMMA IntroducedTables ==
  ASSUME Tables, NEW g, NEW s \in HostServerIds, NEW i \in {"offer", "buffer"}, NEW n,
         Introduced(g, s, i, n), IsHostIdAvailable(s)
  PROVE  Tables'
<1>1. /\ g \in ServerIds /\ g \in Guests /\ s \in Hosts /\ n \in Born
      /\ g2h[g] = None /\ h2g[s] = None /\ s \notin pendingHost
      /\ g2h' = [g2h EXCEPT ![g] = s] /\ h2g' = [h2g EXCEPT ![s] = g]
      /\ interfaces' = [interfaces EXCEPT ![g] = i]
      /\ guestObj' = [guestObj EXCEPT ![g] = [interface |-> i, born |-> n, state |-> "live"]]
      /\ UNCHANGED <<hostIfaces, pendingHost, pendingGuest>>
  BY DEF Introduced, IsHostIdAvailable
<1>2. i \in Interface /\ i # "local"
  BY DEF Interface, GuestCreated
<1>3. g \in ClientIds <=> s \in HostIds
  BY <1>1, IdsAssumption
<1>4. g \notin pendingGuest
  BY <1>1 DEF Tables, GuestInv
<1>5. hostIfaces' \in [Hosts -> Interface \cup {None}]
  BY <1>1 DEF Tables, TablesType
<1>. QED
  BY <1>1, <1>2, <1>3, <1>4, <1>5, TablesPaired

LEMMA OnOfferRest ==
  ASSUME ObjectInv, OnOffer
  PROVE  Tables' /\ Rest'
<1>0. /\ Tables /\ Rest /\ Take("offer")
      /\ UNCHANGED <<creates, usedParams, orphaned, inUse, deferred, hostState, born, toHost>>
  BY InvTables, InvRest DEF OnOffer
<1>1. EventQueue' /\ RequestQueue' /\ HostType'
  BY <1>0, QueuesTaken, QueuesKept DEF Rest, HostType
<1>2. CASE ~Dispatches(ev.id) \/ h2g[ev.id] = None \/ ~IsHostIdAvailable(ev.new_id)
  <2>1. out' = {} /\ UNCHANGED <<shadow, guestObj>> /\ fatal' \in {fatal, "host_new_id"}
    BY <1>2 DEF OnOffer, Quiet
  <2>2. ContextType'
    BY <1>0, <2>1 DEF Rest, ContextType
  <2>. QED
    BY <1>0, <1>1, <2>1, <2>2, ShadowKept, QueuesKept DEF Rest
<1>3. CASE Dispatches(ev.id) /\ h2g[ev.id] # None /\ IsHostIdAvailable(ev.new_id)
  <2>1. NewServerObject("offer") /\ Deliver(h2g[ev.id], ev.born) /\ UNCHANGED fatal
    BY <1>3 DEF OnOffer
  <2>2. PICK g \in ServerIds : Introduced(g, ev.new_id, "offer", ev.new_born)
    BY <1>0, <1>3, <2>1, NewServerEffect
  <2>3. ev.new_id \in HostServerIds
    BY <1>0, TakeFacts
  <2>4. Tables'
    BY <1>0, <1>3, <2>2, <2>3, IntroducedTables
  <2>5. h2g[ev.id] \in Guests /\ ev.born \in Born
    BY <1>0, <1>3, EventFields DEF Tables, TablesType
  <2>6. ContextType'
    BY <1>0, <2>1 DEF Rest, ContextType
  <2>. QED
    BY <1>1, <2>1, <2>4, <2>5, <2>6, Delivered DEF Rest
<1>. QED
  BY <1>2, <1>3

LEMMA OnCreatedRest ==
  ASSUME ObjectInv, OnCreated
  PROVE  Tables' /\ Rest'
<1>0. /\ Tables /\ Rest /\ Take("created") /\ UNCHANGED <<usedParams, inUse, deferred, hostState, born>>
  BY InvTables, InvRest, OnCreatedEffect
<1>1. EventQueue' /\ HostType'
  BY <1>0, QueuesTaken, QueuesKept DEF Rest, HostType
<1>h. PICK h \in HostIds, s \in HostServerIds, b \in Born : h = ev.id /\ s = ev.new_id /\ b = ev.new_born
  BY <1>0, TakeFacts
<1>i. h \in Hosts /\ s \in Hosts
  BY DEF Hosts
<1>2. CASE /\ fatal' \in {fatal, "host_new_id"} /\ out' = {}
           /\ UNCHANGED <<shadow, creates, orphaned, guestObj, toHost>>
  <2>1. ContextType'
    BY <1>0, <1>2 DEF Rest, ContextType
  <2>. QED
    BY <1>0, <1>1, <1>2, <2>1, ShadowKept, QueuesKept DEF Rest
<1>3. CASE creates' = creates \ {h} /\ CreatedOrphan(h, s)
  <2>1. /\ UNCHANGED <<g2h, h2g, interfaces, pendingGuest, fatal, guestObj>> /\ out' = {}
        /\ orphaned' = [orphaned EXCEPT ![h] = None] /\ pendingHost' = pendingHost \cup {s}
        /\ toHost' = toHost \o <<Req("destroy", s, b)>> /\ IsHostIdAvailable(s)
    BY <1>3, <1>h DEF CreatedOrphan
  <2>2. hostIfaces' \in [Hosts -> Interface \cup {None}]
    BY <1>0, <1>3 DEF CreatedOrphan, Tables, TablesType
  <2>3. /\ pendingHost' \in SUBSET Hosts
        /\ \A y \in Hosts : y \in pendingHost' => y \in pendingHost \/ h2g[y] = None
    BY <1>0, <1>i, <2>1 DEF IsHostIdAvailable, Tables, TablesType
  <2>4. Tables'
    BY <1>0, <2>1, <2>2, <2>3, TablesSame
  <2>5. RequestQueue'
    BY <1>0, <1>i, <2>1, DestroySentQueue
  <2>6. ContextType'
    BY <1>0, <1>3, <2>1 DEF Rest, ContextType
  <2>. QED
    BY <1>0, <1>1, <2>1, <2>4, <2>5, <2>6, QueuesKept DEF Rest
<1>4. CASE creates' = creates \ {h} /\ CreatedObject(h, s) /\ (Dispatches(h) \/ AllowsOrphan(h))
  <2>1. PICK g \in ServerIds : Introduced(g, s, "buffer", b)
    BY <1>4, <1>h DEF CreatedObject
  <2>2. Tables'
    BY <1>0, <1>4, <2>1, IntroducedTables DEF CreatedObject
  <2>3. ContextType' /\ RequestQueue'
    BY <1>0, <1>4, QueuesKept DEF Rest, ContextType, CreatedObject
  <2>4. h2g[h] # None
    <3>1. PICK n \in Born : HostInv(h, n)
      BY <1>i DEF ObjectInv
    <3>2. Creating(h)
      <4>1. 1 \in DOMAIN toProxy /\ toProxy[1].op = "created" /\ toProxy[1].id = h
        BY <1>0, <1>h, TakeFacts DEF Loses
      <4>. QED
        BY <4>1 DEF Creating, HasResult, IsResult
    <3>3. CreateInv(h, n)
      BY <3>1 DEF HostInv
    <3>. QED
      BY <1>4, <3>2, <3>3 DEF CreateInv, LiveParams, CreatedObject
  <2>5. h2g[h] \in Guests /\ ev.born \in Born
    BY <1>0, <1>i, <2>4, EventFields DEF Tables, TablesType
  <2>6. OutType'
    BY <1>4, <2>5, Delivered DEF CreatedObject
  <2>. QED
    BY <1>1, <2>2, <2>3, <2>6 DEF Rest
<1>. QED
  BY <1>h, <1>2, <1>3, <1>4, OnCreatedEffect

LEMMA OnFailedRest ==
  ASSUME ObjectInv, OnFailed
  PROVE  Tables' /\ Rest'
<1>0. /\ Tables /\ Rest /\ Take("failed")
      /\ UNCHANGED <<g2h, h2g, interfaces, pendingHost, pendingGuest, usedParams, inUse, deferred, fatal,
                     guestObj, hostState, born, toHost>>
  BY InvTables, InvRest DEF OnFailed
<1>1. EventQueue' /\ RequestQueue' /\ HostType'
  BY <1>0, QueuesTaken, QueuesKept DEF Rest, HostType
<1>2. CASE UNCHANGED <<hostIfaces, creates, orphaned>> /\ Quiet
  <2>1. Tables'
    BY <1>0, <1>2, ShadowKept DEF shadow
  <2>2. ContextType'
    BY <1>0, <1>2 DEF Rest, ContextType
  <2>. QED
    BY <1>0, <1>1, <1>2, <2>1, <2>2, QueuesKept DEF Rest, Quiet
<1>3. CASE ~(~Dispatches(ev.id) /\ ~AllowsOrphan(ev.id))
  <2>h. PICK h \in HostIds : h = ev.id
    BY <1>0, TakeFacts
  <2>1. creates' = creates \ {h}
    BY <1>3, <2>h DEF OnFailed
  <2>2. CASE Orphan(h)
    <3>1. ForgetOrphan(h) /\ Quiet
      BY <1>3, <2>2, <2>h DEF OnFailed
    <3>2. hostIfaces' \in [Hosts -> Interface \cup {None}]
      BY <1>0, <3>1 DEF ForgetOrphan, RemoveHostInterface, Tables, TablesType
    <3>3. pendingHost' \in SUBSET Hosts /\ \A y \in Hosts : y \in pendingHost' => y \in pendingHost
      BY <1>0 DEF Tables, TablesType
    <3>4. Tables'
      BY <1>0, <3>2, <3>3, TablesSame
    <3>5. ContextType'
      BY <1>0, <2>1, <3>1 DEF Rest, ContextType, ForgetOrphan
    <3>. QED
      BY <1>0, <1>1, <3>1, <3>4, <3>5, QueuesKept DEF Rest, Quiet
  <2>3. CASE ~Orphan(h)
    <3>1. Deliver(h2g[h], ev.born) /\ UNCHANGED <<hostIfaces, orphaned>>
      BY <1>3, <2>3, <2>h DEF OnFailed
    <3>2. Tables'
      BY <1>0, <3>1, ShadowKept DEF shadow
    <3>3. ContextType'
      BY <1>0, <2>1, <3>1 DEF Rest, ContextType
    <3>4. h2g[h] # None
      <4>1. PICK n \in Born : HostInv(h, n)
        BY DEF ObjectInv, Hosts
      <4>2. Creating(h)
        <5>1. 1 \in DOMAIN toProxy /\ toProxy[1].op = "failed" /\ toProxy[1].id = h
          BY <1>0, <2>h, TakeFacts DEF Loses
        <5>. QED
          BY <5>1 DEF Creating, HasResult, IsResult
      <4>3. CreateInv(h, n)
        BY <4>1 DEF HostInv
      <4>. QED
        BY <2>3, <4>2, <4>3 DEF CreateInv, LiveParams, Orphan
    <3>5. h2g[h] \in Guests /\ ev.born \in Born
      BY <1>0, <2>h, <3>4, EventFields DEF Tables, TablesType
    <3>. QED
      BY <1>1, <3>1, <3>2, <3>3, <3>5, Delivered DEF Rest
  <2>. QED
    BY <2>2, <2>3
<1>. QED
  BY <1>2, <1>3 DEF OnFailed

LEMMA OnReleaseRest ==
  ASSUME ObjectInv, OnRelease
  PROVE  Tables' /\ Rest'
<1>0. /\ Tables /\ Rest /\ TypeOK /\ Take("release")
      /\ UNCHANGED <<creates, usedParams, orphaned, fatal, guestObj, hostState, born>>
  BY InvTables, InvRest DEF OnRelease, ObjectInv
<1>1. EventQueue' /\ HostType'
  BY <1>0, QueuesTaken, QueuesKept DEF Rest, HostType
<1>h. PICK h \in Hosts, n \in Born : h = ev.id /\ n = ev.born
  BY <1>0, EventFields
<1>2. CASE h \in deferred /\ h2g[h] # None
  <2>1. /\ QueueBufferDestroy(h2g[h], n) /\ deferred' = deferred \ {h} /\ inUse' = inUse \ {h} /\ Quiet
    BY <1>2, <1>h DEF OnRelease
  <2>g. PICK g \in Guests : g = h2g[h]
    BY <1>0, <1>2, <1>h, ReleaseFacts
  <2>2. g2h[g] = h /\ g2h[g] # None /\ g \in pendingGuest
    BY <1>0, <1>2, <1>h, <2>g, ReleaseFacts
  <2>3. DestroySent(g, n)
    BY <1>0, <2>1, <2>2, <2>g, DestroySentEffect DEF QueueBufferDestroy
  <2>4. /\ \A y \in Guests \ {g} : guestObj'[y] = guestObj[y]
        /\ guestObj' \in [Guests -> GuestObject \cup {None}]
        /\ g \in ServerIds => guestObj'[g] = None
        /\ g \in ClientIds => guestObj'[g] # None /\ guestObj'[g].state = "destroyed"
    BY <1>0, <2>2 DEF Tables, TablesType, GuestInv
  <2>5. Tables'
    BY <1>0, <2>2, <2>3, <2>4, DestroySentTables
  <2>6. RequestQueue'
    BY <1>0, <2>2, <2>3, DestroySentQueue DEF DestroySent
  <2>7. ContextType' /\ OutType'
    BY <1>0, <2>1, QueuesKept DEF Rest, ContextType, Quiet
  <2>. QED
    BY <1>1, <2>5, <2>6, <2>7 DEF Rest
<1>3. CASE h \notin deferred /\ h2g[h] # None /\ Dispatches(h)
  <2>1. inUse' = inUse \ {h} /\ Deliver(h2g[h], n) /\ UNCHANGED <<shadow, deferred, toHost>>
    BY <1>3, <1>h DEF OnRelease
  <2>2. ContextType' /\ RequestQueue' /\ Tables'
    BY <1>0, <2>1, QueuesKept, ShadowKept DEF Rest, ContextType
  <2>3. h2g[h] \in Guests
    BY <1>0, <1>3 DEF Tables, TablesType
  <2>. QED
    BY <1>1, <2>1, <2>2, <2>3, Delivered DEF Rest
<1>4. CASE ~(h \in deferred /\ h2g[h] # None) /\ ~(h \notin deferred /\ h2g[h] # None /\ Dispatches(h))
  <2>1. Quiet /\ UNCHANGED <<shadow, inUse, deferred, toHost>>
    BY <1>4, <1>h DEF OnRelease
  <2>2. ContextType' /\ RequestQueue' /\ Tables' /\ OutType'
    BY <1>0, <2>1, QueuesKept, ShadowKept DEF Rest, ContextType, Quiet
  <2>. QED
    BY <1>1, <2>2 DEF Rest
<1>. QED
  BY <1>2, <1>3, <1>4

-----------------------------------------------------------------------------
(* Tables and types: the host's steps                                      *)

LEMMA HostKeeps ==
  ASSUME ObjectInv, TablesKept
  PROVE  Tables' /\ ContextType'
<1>1. UNCHANGED <<shadow, context, guestObj>> /\ Tables /\ Rest
  BY InvTables, InvRest DEF TablesKept
<1>. QED
  BY <1>1, ShadowKept, QueuesKept

LEMMA HostReceiveRest ==
  ASSUME ObjectInv, HostReceive
  PROVE  Tables' /\ Rest'
<1>0. Rest /\ TablesKept /\ UNCHANGED born /\ out' = {} /\ toHost # <<>> /\ toHost' = Tail(toHost)
  BY InvRest, ReceiveFacts DEF HostReceive
<1>1. Tables' /\ ContextType' /\ OutType'
  BY <1>0, HostKeeps, QueuesKept
<1>2. RequestQueue'
  BY <1>0, RangedTail DEF Rest, RequestQueue
<1>m. PICK m \in Request : m = toHost[1] /\ m = Head(toHost)
  BY ReceiveFacts
<1>3. m.id \in Hosts /\ m.born \in Born /\ (m.op \in {"new", "create"} => m.id \in HostIds)
  BY <1>m, ReceiveFacts DEF Request
<1>4. /\ hostObj \in [Hosts -> HostObject \cup {None}]
      /\ hostCreates \in SUBSET [id : HostIds, born : Born] /\ hostUses \in SUBSET Hosts /\ born' \in Born
  BY <1>0 DEF Rest, HostType
<1>5. CASE m.op = "new"
  <2>1. /\ hostObj' = [hostObj EXCEPT ![m.id] = [interface |-> m.interface, born |-> m.born]]
        /\ UNCHANGED <<hostCreates, hostUses, toProxy>>
    BY <1>m, <1>5 DEF HostReceive
  <2>2. [interface |-> m.interface, born |-> m.born] \in HostObject
    BY <1>5 DEF Request, HostObject
  <2>3. HostType'
    BY <1>4, <2>1, <2>2 DEF HostType
  <2>. QED
    BY <1>0, <1>1, <1>2, <2>1, <2>3, QueuesKept DEF Rest
<1>6. CASE m.op = "destroy"
  <2>1. /\ hostObj' = [hostObj EXCEPT ![m.id] = None] /\ hostUses' = hostUses \ {m.id}
        /\ IF m.id \in HostIds THEN Emit(<<Req("delete_id", m.id, m.born)>>) ELSE UNCHANGED toProxy
        /\ UNCHANGED hostCreates
    BY <1>m, <1>6 DEF HostReceive
  <2>2. HostType'
    BY <1>4, <2>1 DEF HostType
  <2>3. CASE m.id \in HostIds
    <3>1. toProxy' = toProxy \o <<Req("delete_id", m.id, m.born)>>
      BY <2>1, <2>3 DEF Emit
    <3>2. Req("delete_id", m.id, m.born) \in Event /\ Req("delete_id", m.id, m.born).id = m.id
      BY <1>3, RequestTypes
    <3>3. EventQueue'
      BY <1>0, <2>3, <3>1, <3>2, QueuesEmitted
    <3>. QED
      BY <1>1, <1>2, <2>2, <3>3 DEF Rest
  <2>4. CASE m.id \notin HostIds
    BY <1>0, <1>1, <1>2, <2>1, <2>2, <2>4, QueuesKept DEF Rest
  <2>. QED
    BY <2>3, <2>4
<1>7. CASE m.op = "create"
  <2>1. /\ hostCreates' = hostCreates \cup {[id |-> m.id, born |-> m.born]}
        /\ UNCHANGED <<hostObj, hostUses, toProxy>>
    BY <1>m, <1>7 DEF HostReceive
  <2>2. HostType'
    BY <1>3, <1>4, <1>7, <2>1 DEF HostType
  <2>. QED
    BY <1>0, <1>1, <1>2, <2>1, <2>2, QueuesKept DEF Rest
<1>8. CASE m.op = "refer"
  <2>1. UNCHANGED <<hostObj, hostCreates, hostUses, toProxy>>
    BY <1>m, <1>8 DEF HostReceive, hostState
  <2>2. HostType'
    BY <1>4, <2>1 DEF HostType
  <2>. QED
    BY <1>0, <1>1, <1>2, <2>1, <2>2, QueuesKept DEF Rest
<1>9. CASE m.op = "submit"
  <2>1. hostUses' = hostUses \cup {m.id} /\ UNCHANGED <<hostObj, hostCreates, toProxy>>
    BY <1>m, <1>9 DEF HostReceive
  <2>2. HostType'
    BY <1>3, <1>4, <2>1 DEF HostType
  <2>. QED
    BY <1>0, <1>1, <1>2, <2>1, <2>2, QueuesKept DEF Rest
<1>10. m.op \in {"new", "destroy", "create", "refer", "submit"}
  BY DEF Request
<1>. QED
  BY <1>5, <1>6, <1>7, <1>8, <1>9, <1>10

\* One event more from the host
LEMMA EmitRest ==
  ASSUME ObjectInv, HostLeaves, NEW m \in Event, toProxy' = toProxy \o <<m>>,
         m.op \in ResultOps => m.id \in HostIds, HostType'
  PROVE  Tables' /\ Rest'
<1>1. TablesKept /\ toHost' = toHost /\ out' = {} /\ Rest
  BY LeavesTables, InvRest
<1>. QED
  BY <1>1, HostKeeps, QueuesKept, QueuesEmitted DEF Rest

LEMMA HostEmitsRest ==
  ASSUME ObjectInv, NEW h \in Hosts, HostEmits(h)
  PROVE  Tables' /\ Rest'
<1>1. /\ HostLeaves /\ hostObj[h].born \in Born /\ UNCHANGED <<hostState, born>>
      /\ toProxy' = toProxy \o <<Req("event", h, hostObj[h].born)>>
  BY HostBorn DEF HostEmits, Emit
<1>2. Req("event", h, hostObj[h].born) \in Event /\ Req("event", h, hostObj[h].born).op \notin ResultOps
  BY <1>1, RequestTypes DEF ResultOps
<1>3. HostType'
  BY <1>1, InvRest, QueuesKept DEF Rest, HostType
<1>. QED
  BY <1>1, <1>2, <1>3, EmitRest

LEMMA HostRefersRest ==
  ASSUME ObjectInv, NEW h \in Hosts, NEW a \in Hosts, HostRefers(h, a)
  PROVE  Tables' /\ Rest'
<1>0. PICK m : m = [op |-> "refer", id |-> h, born |-> hostObj[h].born,
                    arg |-> [id |-> a, born |-> hostObj[a].born], expects |-> hostObj[a].interface]
  OBVIOUS
<1>1. /\ HostLeaves /\ UNCHANGED <<hostState, born>> /\ toProxy' = toProxy \o <<m>>
      /\ hostObj[h] # None /\ hostObj[a] # None
  BY <1>0 DEF HostRefers, Emit
<1>2. hostObj[h].born \in Born /\ hostObj[a].born \in Born /\ hostObj[a].interface \in Interface
  BY <1>1, HostBorn
<1>3. m \in Event /\ m.op \notin ResultOps
  BY <1>0, <1>2 DEF Event, Ref, ResultOps
<1>4. HostType'
  BY <1>1, InvRest, QueuesKept DEF Rest, HostType
<1>. QED
  BY <1>1, <1>3, <1>4, EmitRest

LEMMA HostDoneRest ==
  ASSUME ObjectInv, NEW h \in HostIds, HostDone(h)
  PROVE  Tables' /\ Rest'
<1>0. Rest /\ h \in Hosts
  BY InvRest DEF Hosts
<1>1. /\ HostLeaves /\ hostObj' = [hostObj EXCEPT ![h] = None] /\ hostObj[h] # None
      /\ UNCHANGED <<hostCreates, hostUses, born>>
      /\ toProxy' = toProxy \o <<Req("done", h, hostObj[h].born), Req("delete_id", h, hostObj[h].born)>>
  BY DEF HostDone, Emit
<1>2. hostObj[h].born \in Born
  BY <1>0, <1>1, HostBorn
<1>m. PICK m, k : m = Req("done", h, hostObj[h].born) /\ k = Req("delete_id", h, hostObj[h].born)
  OBVIOUS
<1>3. m \in Event /\ k \in Event /\ m.id \in HostIds /\ k.id \in HostIds
  BY <1>0, <1>2, <1>m, RequestTypes
<1>4. toProxy' \in Seq(Event) /\ Ranged(toProxy', ResultOps)
  BY <1>0, <1>1, <1>m, <1>3, RangedTwo DEF Rest, EventQueue
<1>5. HostType'
  BY <1>0, <1>1 DEF Rest, HostType
<1>6. TablesKept /\ toHost' = toHost /\ out' = {}
  BY <1>1, LeavesTables
<1>. QED
  BY <1>0, <1>4, <1>5, <1>6, HostKeeps, QueuesKept DEF Rest, EventQueue

LEMMA HostOffersRest ==
  ASSUME ObjectInv, NEW h \in HostIds, NEW s \in HostServerIds, HostOffers(h, s)
  PROVE  Tables' /\ Rest'
<1>0. Rest /\ h \in Hosts /\ s \in Hosts
  BY InvRest DEF Hosts
<1>m. PICK m : m = [op |-> "offer", id |-> h, born |-> hostObj[h].born, new_id |-> s, new_born |-> born']
  OBVIOUS
<1>1. /\ HostLeaves /\ hostObj' = [hostObj EXCEPT ![s] = [interface |-> "offer", born |-> born']]
      /\ hostObj[h] # None /\ UNCHANGED <<hostCreates, hostUses>> /\ Bear /\ toProxy' = toProxy \o <<m>>
  BY <1>m DEF HostOffers, Emit
<1>2. born' \in Born
  BY <1>0, <1>1, BoundsAssumption DEF Bear, Born, Rest, HostType
<1>3. hostObj[h].born \in Born
  BY <1>0, <1>1, HostBorn
<1>4. m \in Event /\ m.op \notin ResultOps
  BY <1>0, <1>m, <1>2, <1>3 DEF Event, ResultOps
<1>5. [interface |-> "offer", born |-> born'] \in HostObject
  BY <1>2 DEF HostObject, Interface
<1>6. HostType'
  BY <1>0, <1>1, <1>2, <1>5 DEF Rest, HostType
<1>. QED
  BY <1>1, <1>4, <1>6, EmitRest

LEMMA HostCreatedRest ==
  ASSUME ObjectInv, NEW p \in hostCreates, NEW s \in HostServerIds, HostCreated(p, s)
  PROVE  Tables' /\ Rest'
<1>0. Rest /\ s \in Hosts
  BY InvRest DEF Hosts
<1>m. PICK m : m = [op |-> "created", id |-> p.id, born |-> p.born, new_id |-> s, new_born |-> born']
  OBVIOUS
<1>1. /\ HostLeaves /\ hostObj' = [hostObj EXCEPT ![s] = [interface |-> "buffer", born |-> born']]
      /\ hostCreates' = hostCreates \ {p} /\ UNCHANGED hostUses /\ Bear /\ toProxy' = toProxy \o <<m>>
  BY <1>m DEF HostCreated, Emit
<1>2. born' \in Born
  BY <1>0, <1>1, BoundsAssumption DEF Bear, Born, Rest, HostType
<1>3. p.id \in HostIds /\ p.born \in Born
  BY <1>0 DEF Rest, HostType
<1>4. m \in Event /\ m.id \in HostIds
  BY <1>0, <1>m, <1>2, <1>3 DEF Event, Hosts
<1>5. [interface |-> "buffer", born |-> born'] \in HostObject
  BY <1>2 DEF HostObject, Interface, GuestCreated
<1>6. HostType'
  BY <1>0, <1>1, <1>2, <1>5 DEF Rest, HostType
<1>. QED
  BY <1>1, <1>4, <1>6, EmitRest

LEMMA HostFailedRest ==
  ASSUME ObjectInv, NEW p \in hostCreates, HostFailed(p)
  PROVE  Tables' /\ Rest'
<1>0. Rest
  BY InvRest
<1>1. /\ HostLeaves /\ hostCreates' = hostCreates \ {p} /\ UNCHANGED <<hostObj, hostUses, born>>
      /\ toProxy' = toProxy \o <<Req("failed", p.id, p.born)>>
  BY DEF HostFailed, Emit
<1>2. p.id \in HostIds /\ p.id \in Hosts /\ p.born \in Born
  BY <1>0 DEF Rest, HostType, Hosts
<1>3. Req("failed", p.id, p.born) \in Event /\ Req("failed", p.id, p.born).id \in HostIds
  BY <1>2, RequestTypes
<1>4. HostType'
  BY <1>0, <1>1 DEF Rest, HostType
<1>. QED
  BY <1>1, <1>3, <1>4, EmitRest

LEMMA HostReleaseRest ==
  ASSUME ObjectInv, NEW h \in Hosts, HostRelease(h)
  PROVE  Tables' /\ Rest'
<1>0. Rest
  BY InvRest
<1>1. /\ HostLeaves /\ h \in hostUses /\ hostUses' = hostUses \ {h} /\ UNCHANGED <<hostObj, hostCreates, born>>
      /\ toProxy' = toProxy \o <<Req("release", h, hostObj[h].born)>>
  BY DEF HostRelease, Emit
<1>2. hostObj[h] # None
  BY <1>1 DEF ObjectInv, HostInv, UsedObject
<1>3. Req("release", h, hostObj[h].born) \in Event /\ Req("release", h, hostObj[h].born).op \notin ResultOps
  BY <1>2, HostBorn, RequestTypes DEF ResultOps
<1>4. HostType'
  BY <1>0, <1>1 DEF Rest, HostType
<1>. QED
  BY <1>1, <1>3, <1>4, EmitRest

-----------------------------------------------------------------------------
(* The invariant                                                           *)

LEMMA InitInv == ASSUME Init PROVE ObjectInv
<1>1. /\ g2h = [g \in Guests |-> None] /\ h2g = [h \in Hosts |-> None]
      /\ interfaces = [g \in Guests |-> None] /\ hostIfaces = [h \in Hosts |-> None]
      /\ pendingHost = {} /\ pendingGuest = {} /\ creates = {} /\ usedParams = {}
      /\ orphaned = [h \in HostIds |-> None] /\ inUse = {} /\ deferred = {} /\ fatal = "no"
      /\ guestObj = [g \in Guests |-> None] /\ hostObj = [h \in Hosts |-> None]
      /\ hostCreates = {} /\ hostUses = {} /\ born = 0 /\ toHost = <<>> /\ toProxy = <<>> /\ out = {}
  BY DEF Init
<1>2. DOMAIN toHost = {} /\ DOMAIN toProxy = {} /\ toHost \in Seq(Request) /\ toProxy \in Seq(Event)
  BY <1>1
<1>3. 0 \in Born
  BY BoundsAssumption DEF Born
<1>4. TypeOK /\ Maps /\ IdRanges /\ fatal \notin {"guest_new_id", "guest_object"}
  BY <1>1, <1>2, <1>3 DEF TypeOK, Maps, IdRanges
<1>5. \A g \in Guests : GuestInv(g)
  BY <1>1 DEF GuestInv, IsGuestIdAvailable
<1>6. ASSUME NEW h \in Hosts PROVE HostInv(h, 0)
  <2>1. /\ h2g[h] = None /\ hostIfaces[h] = None /\ hostObj[h] = None
        /\ h \notin pendingHost /\ h \notin deferred /\ h \notin creates /\ h \notin hostUses
        /\ h \in HostIds => orphaned[h] = None
    BY <1>1
  <2>2. Silent(toHost, h) /\ Silent(toProxy, h)
    BY <1>2 DEF Silent
  <2>3. /\ Requests(toHost, hostObj[h], h, 0) /\ OneIn(toHost, h) /\ NotCallback(toHost, hostObj[h], h)
    BY <2>1, <2>2, SilentRequests
  <2>4. /\ Events(toProxy, h, 0) /\ OneResult(toProxy, h) /\ ~HasResult(toProxy, h)
        /\ ~Announced(h, "delete_id", toProxy)
    BY <2>2, SilentEvents
  <2>5. ~Announced(h, "create", toHost) /\ ~Announced(h, "new", toHost)
    BY <2>2, SilentEvents
  <2>6. ~Coming(toProxy, h) /\ Fresh(toProxy, h, 0)
    BY <1>2 DEF Coming, Fresh
  <2>7. ~InSet(hostCreates, h) /\ OneOf(hostCreates, h)
    BY <1>1 DEF InSet, OneOf
  <2>8. ~Creating(h) /\ OneCreate(h)
    BY <2>3, <2>4, <2>5, <2>7 DEF Creating, OneCreate
  <2>9. PairInv(h, 0) /\ DeferredInv(h) /\ UsedObject(hostUses, hostObj[h], h)
    BY <2>1 DEF PairInv, DeferredInv, UsedObject
  <2>10. ASSUME h \in HostIds PROVE EventInv(h, 0) /\ FreeInv(h) /\ OrphanInv(h) /\ CreateInv(h, 0)
    <3>1. EventInv(h, 0)
      BY <2>4 DEF EventInv
    <3>2. FreeInv(h)
      BY <2>1, <2>2, <2>8 DEF FreeInv, Gone
    <3>3. OrphanInv(h)
      BY <2>1, <2>10 DEF OrphanInv
    <3>4. CreateInv(h, 0)
      BY <1>1, <2>1, <2>8 DEF CreateInv
    <3>. QED
      BY <3>1, <3>2, <3>3, <3>4
  <2>11. ASSUME h \in HostServerIds PROVE ServerInv(h, 0)
    BY <2>1, <2>3, <2>5, <2>6 DEF ServerInv
  <2>. QED
    BY <2>3, <2>9, <2>10, <2>11 DEF HostInv
<1>. QED
  BY <1>3, <1>4, <1>5, <1>6 DEF ObjectInv

LEMMA GuestStepInv == ASSUME ObjectInv, GuestStep PROVE ObjectInv'
<1>1. CASE \E g \in ClientIds, h \in HostIds, i \in GuestCreated \ {"callback"} : Create(g, h, i)
  BY <1>1, CreateHost, CreateRest, InvParts
<1>2. CASE \E g \in ClientIds, h \in HostIds : OnSync(g, h)
  <2>1. "callback" \in GuestCreated
    BY DEF GuestCreated
  <2>. QED
    BY <1>2, <2>1, CreateHost, CreateRest, InvParts DEF OnSync
<1>3. CASE \E g \in ClientIds, a \in Guests : Refer(g, a)
  BY <1>3, ReferHost, ReferRest, InvParts DEF Guests
<1>4. CASE \E g \in ClientIds : CreateLocal(g) \/ DestroyLocal(g)
  BY <1>4, LocalHost, LocalRest, InvParts
<1>5. CASE \E g \in Guests, i \in Interface : Destroy(g, i)
  BY <1>5, DestroyHost, DestroyRest, InvParts
<1>6. CASE \E g \in ClientIds : DestroyTextInput(g)
  BY <1>6, DestroyTextInputHost, DestroyTextInputRest, InvParts
<1>7. CASE \E g \in ClientIds : CreateAsync(g)
  BY <1>7, CreateAsyncHost, CreateAsyncRest, InvParts
<1>8. CASE \E g \in ClientIds : DestroyParams(g)
  BY <1>8, DestroyParamsHost, DestroyParamsRest, InvParts
<1>9. CASE \E g \in Guests : Submit(g)
  BY <1>9, SubmitHost, SubmitRest, InvParts
<1>10. CASE \E g \in Guests : DestroyBuffer(g)
  BY <1>10, DestroyBufferHost, DestroyBufferRest, InvParts
<1>. QED
  BY <1>1, <1>2, <1>3, <1>4, <1>5, <1>6, <1>7, <1>8, <1>9, <1>10 DEF GuestStep

LEMMA ProxyStepInv == ASSUME ObjectInv, ProxyStep PROVE ObjectInv'
<1>1. CASE OnEvent \/ OnRefer
  BY <1>1, OnEventHost, OnEventRest, OnReferRest, InvParts
<1>2. CASE OnDone
  BY <1>2, OnDoneHost, OnDoneRest, InvParts
<1>3. CASE OnDeleteId
  BY <1>3, OnDeleteIdHost, OnDeleteIdRest, InvParts
<1>4. CASE OnOffer
  BY <1>4, OnOfferHost, OnOfferRest, InvParts
<1>5. CASE OnCreated
  BY <1>5, OnCreatedHost, OnCreatedRest, InvParts
<1>6. CASE OnFailed
  BY <1>6, OnFailedHost, OnFailedRest, InvParts
<1>7. CASE OnRelease
  BY <1>7, OnReleaseHost, OnReleaseRest, InvParts
<1>. QED
  BY <1>1, <1>2, <1>3, <1>4, <1>5, <1>6, <1>7 DEF ProxyStep

LEMMA HostStepInv == ASSUME ObjectInv, HostStep PROVE ObjectInv'
<1>0. HostIds \subseteq Hosts
  BY DEF Hosts
<1>1. CASE HostReceive
  BY <1>1, HostReceiveHost, HostReceiveRest, InvParts
<1>2. CASE \E h \in Hosts : HostEmits(h)
  BY <1>2, HostEmitsHost, HostEmitsRest, InvParts
<1>3. CASE \E h \in HostIds, a \in Hosts : HostRefers(h, a)
  BY <1>0, <1>3, HostRefersHost, HostRefersRest, InvParts
<1>4. CASE \E h \in HostIds : HostDone(h)
  BY <1>4, HostDoneHost, HostDoneRest, InvParts
<1>5. CASE \E h \in HostIds, s \in HostServerIds : HostOffers(h, s)
  BY <1>5, HostOffersHost, HostOffersRest, InvParts
<1>6. CASE \E p \in hostCreates, s \in HostServerIds : HostCreated(p, s)
  BY <1>6, HostCreatedHost, HostCreatedRest, InvParts
<1>7. CASE \E p \in hostCreates : HostFailed(p)
  BY <1>7, HostFailedHost, HostFailedRest, InvParts
<1>8. CASE \E h \in Hosts : HostRelease(h)
  BY <1>8, HostReleaseHost, HostReleaseRest, InvParts
<1>. QED
  BY <1>1, <1>2, <1>3, <1>4, <1>5, <1>6, <1>7, <1>8 DEF HostStep

LEMMA StutterInv == ASSUME ObjectInv, UNCHANGED vars PROVE ObjectInv'
<1>1. UNCHANGED <<shadow, context, guestObj, hostState, born, toHost, toProxy, out>>
  BY DEF vars
<1>2. Tables' /\ Rest'
  BY <1>1, InvTables, InvRest, ShadowKept, QueuesKept DEF Rest, HostType, OutType
<1>3. ASSUME NEW h \in Hosts PROVE \E n \in Born : HostInv(h, n)'
  <2>1. Undisturbed(h)
    BY <1>1 DEF Undisturbed, shadow, context, hostState
  <2>. QED
    BY <1>1, <2>1, ReqKept, EvKept, Others
<1>. QED
  BY <1>2, <1>3, InvParts

LEMMA NextInv == ASSUME ObjectInv, [Next]_vars PROVE ObjectInv'
<1>1. CASE \E h \in HostIds : InternalSync(h)
  BY <1>1, InternalSyncHost, InternalSyncRest, InvParts
<1>2. CASE \E h \in HostIds : InternalParams(h)
  BY <1>2, InternalParamsHost, InternalParamsRest, InvParts
<1>. QED
  BY <1>1, <1>2, GuestStepInv, ProxyStepInv, HostStepInv, StutterInv DEF Next

\* For any number of IDs, objects and messages in flight, everything that names a
\* host ID is of one incarnation, and the tables describe the guest's objects:
\* what the shadow table's methods (state.rs) keep up together with the
\* generated dispatchers and the lifetime handlers.
THEOREM ObjectInvariant == Spec => []ObjectInv
<1>1. Init => ObjectInv
  BY InitInv
<1>2. ObjectInv /\ [Next]_vars => ObjectInv'
  BY NextInv
<1>. QED
  BY <1>1, <1>2, PTL DEF Spec

\* The two maps of the shadow table stay one bijection, clear of reserved IDs,
\* through map_id, remove_id, remove_guest_mapping and
\* retire_server_destroyed_object.
THEOREM MapsStayInverse == Spec => []MapsAreInverse
<1>1. ObjectInv => MapsAreInverse
  BY DEF ObjectInv, Maps, MapsAreInverse
<1>. QED
  BY <1>1, ObjectInvariant, PTL

\* A guest that keeps to the protocol is never disconnected by
\* generate_request_validations or is_guest_id_available, however late the
\* events about its destroyed objects come.
THEOREM GuestIsNeverRefused == Spec => []GuestNeverRefused
<1>1. ASSUME ObjectInv PROVE GuestNeverRefused
  <2>1. ASSUME NEW g \in Guests, NEW i \in Interface, Live(g, i) PROVE Serves(g) /\ ValidRequestArg(g, i)
    <3>1. g \notin pendingGuest /\ interfaces[g] = i /\ (i = "local" <=> g2h[g] = None)
      BY <1>1, <2>1, LiveFacts
    <3>. QED
      BY <3>1 DEF Serves, ValidRequestArg, IsLocalOnly, GuestObjectMatches
  <2>. QED
    BY <1>1, <2>1 DEF GuestNeverRefused, ObjectInv
<1>. QED
  BY <1>1, ObjectInvariant, PTL

\* What the next request says of a host ID is what the host has under it.
LEMMA NextRequest ==
  ASSUME NEW q, NEW k, NEW r, Loses(q, r, k), NEW o, NEW h, NEW n, Requests(q, o, h, n), Mentions(q[1], h)
  PROVE  /\ Is(q[1], "new", h) => o = None
         /\ q[1].op # "new" => o # None /\ o.born = n
         /\ Means(q[1], h, n)
<1>1. 1 \in DOMAIN q /\ \A i \in DOMAIN q : i =< 1 => i = 1
  BY DEF Loses
<1>2. Means(q[1], h, n) /\ (Is(q[1], "new", h) => o = None) /\ (o # None => o.born = n)
  BY <1>1 DEF Requests
<1>3. ASSUME q[1].op # "new", o = None PROVE FALSE
  <2>1. Announced(h, "new", q)
    BY <1>1, <1>3 DEF Requests
  <2>2. PICK i \in DOMAIN q : q[i].op = "new" /\ q[i].id = h
    BY <2>1 DEF Announced
  <2>3. i =< 1
    BY <1>1, <2>2 DEF Requests, Is
  <2>. QED
    BY <1>1, <1>3, <2>2, <2>3
<1>. QED
  BY <1>2, <1>3

\* Every request the host reads names the objects the guest meant, although
\* allocate_host_id reuses IDs as soon as their delete_id has come.
THEOREM RequestsReachTheirObject == Spec => []RequestsNameTheirObject
<1>1. ASSUME ObjectInv PROVE RequestsNameTheirObject
  <2>1. SUFFICES ASSUME toHost # <<>>
        PROVE  IF toHost[1].op = "new" THEN hostObj[toHost[1].id] = None
               ELSE HostHas(toHost[1]) /\ (toHost[1].op = "refer" => HostHas(toHost[1].arg))
    <3>1. toHost # <<>> => Head(toHost) = toHost[1]
      BY <1>1, TailLoses DEF ObjectInv, TypeOK
    <3>. QED
      BY <3>1 DEF RequestsNameTheirObject
  <2>2. Loses(toHost, Tail(toHost), Len(toHost) - 1) /\ toHost[1] \in Request
    BY <1>1, <2>1, TailLoses DEF ObjectInv, TypeOK
  <2>h. PICK h \in Hosts : h = toHost[1].id
    BY <2>2 DEF Request
  <2>3. PICK n \in Born : Requests(toHost, hostObj[h], h, n)
    BY <1>1 DEF ObjectInv, HostInv
  <2>4. /\ Is(toHost[1], "new", h) => hostObj[h] = None
        /\ toHost[1].op # "new" => hostObj[h] # None /\ hostObj[h].born = n
        /\ Means(toHost[1], h, n)
    BY <2>h, <2>2, <2>3, NextRequest DEF Mentions
  <2>5. CASE toHost[1].op = "new"
    BY <2>h, <2>4, <2>5 DEF Is
  <2>6. CASE toHost[1].op # "new"
    <3>1. HostHas(toHost[1])
      BY <2>h, <2>4, <2>6 DEF HostHas, Means
    <3>2. ASSUME toHost[1].op = "refer" PROVE HostHas(toHost[1].arg)
      <4>a. PICK a \in Hosts : a = toHost[1].arg.id
        BY <2>2, <3>2 DEF Request, Ref
      <4>1. PICK k \in Born : Requests(toHost, hostObj[a], a, k)
        BY <1>1 DEF ObjectInv, HostInv
      <4>2. hostObj[a] # None /\ hostObj[a].born = k /\ Means(toHost[1], a, k)
        BY <2>2, <2>6, <3>2, <4>a, <4>1, NextRequest DEF Mentions
      <4>. QED
        BY <3>2, <4>a, <4>2 DEF HostHas, Means
    <3>. QED
      BY <2>6, <3>1, <3>2
  <2>. QED
    BY <2>5, <2>6
<1>. QED
  BY <1>1, ObjectInvariant, PTL

-----------------------------------------------------------------------------
(* Events reach their objects                                              *)

\* r is an object the guest has and has not destroyed.
ReachesLive(r) == /\ guestObj[r.id] # None
                  /\ guestObj[r.id].born = r.born /\ guestObj[r.id].state = "live"

\* A message that gets past the stale-event filter means the guest's object.
LEMMA PairedLive ==
  ASSUME ObjectInv, NEW op, Take(op), NEW h \in Hosts, h2g[h] # None, ~PendingDestroy(h)
  PROVE  /\ ev.id = h => ReachesLive([id |-> h2g[h], born |-> ev.born])
         /\ op = "refer" /\ ev.arg.id = h => ReachesLive([id |-> h2g[h], born |-> ev.arg.born])
<1>1. PICK n \in Born : HostInv(h, n)
  BY DEF ObjectInv
<1>g. PICK g \in Guests : g = h2g[h]
  BY DEF ObjectInv, TypeOK
<1>2. g \notin pendingGuest /\ g2h[g] = h /\ h # None
  BY <1>g, IdsAssumption DEF PendingDestroy, ObjectInv, Maps, Hosts
<1>3. guestObj[g] # None /\ guestObj[g].state = "live"
  BY <1>2 DEF ObjectInv, GuestInv, IsGuestIdAvailable
<1>4. guestObj[g].born = n
  BY <1>g, <1>1, <1>3 DEF HostInv, PairInv
<1>5. Events(toProxy, h, n) \/ Meant(toProxy, h, n)
  BY <1>1 DEF HostInv, EventInv, ServerInv, Hosts
<1>6. Means(toProxy[1], h, n) /\ ev = toProxy[1] /\ ev.op = op
  BY <1>5, TakeFacts, TakeEvent
<1>. QED
  BY <1>g, <1>3, <1>4, <1>6 DEF ReachesLive, Means

\* The result of a create is for live params, or the params are orphaned.
LEMMA ResultPaired ==
  ASSUME ObjectInv, NEW op \in {"created", "failed"}, Take(op), NEW h \in HostIds, h = ev.id,
         orphaned[h] = None
  PROVE  h2g[h] # None /\ ~PendingDestroy(h)
<1>1. PICK n \in Born : HostInv(h, n)
  BY DEF ObjectInv, Hosts
<1>2. 1 \in DOMAIN toProxy /\ toProxy[1].op = op /\ toProxy[1].id = h
  BY TakeFacts DEF Loses
<1>3. Creating(h)
  BY <1>2 DEF Creating, HasResult, IsResult
<1>. QED
  BY <1>1, <1>3 DEF HostInv, CreateInv, LiveParams, PendingDestroy

LEMMA EventsReach ==
  ASSUME ObjectInv, Next
  PROVE  \A r \in out' : ReachesLive(r)
<1>1. CASE OnEvent
  <2>1. CASE Dispatches(ev.id) /\ h2g[ev.id] # None
    <3>1. out' = {[id |-> h2g[ev.id], born |-> ev.born]} /\ Take("event")
      BY <1>1, <2>1 DEF OnEvent, Deliver
    <3>2. ReachesLive([id |-> h2g[ev.id], born |-> ev.born])
      BY <2>1, <3>1, EventFields, PairedLive DEF Dispatches
    <3>. QED
      BY <3>1, <3>2
  <2>2. CASE ~(Dispatches(ev.id) /\ h2g[ev.id] # None)
    BY <1>1, <2>2 DEF OnEvent, Quiet
  <2>. QED
    BY <2>1, <2>2
<1>2. CASE OnRefer
  <2>1. CASE Dispatches(ev.id) /\ h2g[ev.id] # None /\ ValidEventArg(ev.arg.id, ev.expects)
    <3>1. /\ out' = {[id |-> h2g[ev.id], born |-> ev.born],
                     [id |-> h2g[ev.arg.id], born |-> ev.arg.born]}
          /\ Take("refer")
      BY <1>2, <2>1 DEF OnRefer
    <3>2. ReachesLive([id |-> h2g[ev.id], born |-> ev.born])
      BY <2>1, <3>1, EventFields, PairedLive DEF Dispatches
    <3>3. ReachesLive([id |-> h2g[ev.arg.id], born |-> ev.arg.born])
      BY <2>1, <3>1, EventFields, PairedLive DEF ValidEventArg
    <3>. QED
      BY <3>1, <3>2, <3>3
  <2>2. CASE ~(Dispatches(ev.id) /\ h2g[ev.id] # None /\ ValidEventArg(ev.arg.id, ev.expects))
    BY <1>2, <2>2 DEF OnRefer, Quiet
  <2>. QED
    BY <2>1, <2>2
<1>3. CASE OnDone
  <2>1. out' = {} \/ (Dispatches(ev.id) /\ h2g[ev.id] # None /\ Deliver(h2g[ev.id], ev.born))
    BY <1>3, OnDoneEffect
  <2>2. CASE Dispatches(ev.id) /\ h2g[ev.id] # None /\ Deliver(h2g[ev.id], ev.born)
    <3>1. ReachesLive([id |-> h2g[ev.id], born |-> ev.born])
      BY <1>3, <2>2, EventFields, PairedLive DEF Dispatches, OnDone
    <3>. QED
      BY <2>2, <3>1 DEF Deliver
  <2>. QED
    BY <2>1, <2>2
<1>4. CASE OnOffer
  <2>1. CASE Dispatches(ev.id) /\ h2g[ev.id] # None /\ IsHostIdAvailable(ev.new_id)
    <3>1. Deliver(h2g[ev.id], ev.born) /\ Take("offer")
      BY <1>4, <2>1 DEF OnOffer
    <3>2. ReachesLive([id |-> h2g[ev.id], born |-> ev.born])
      BY <2>1, <3>1, EventFields, PairedLive DEF Dispatches
    <3>. QED
      BY <3>1, <3>2 DEF Deliver
  <2>2. CASE ~(Dispatches(ev.id) /\ h2g[ev.id] # None /\ IsHostIdAvailable(ev.new_id))
    BY <1>4, <2>2 DEF OnOffer, Quiet
  <2>. QED
    BY <2>1, <2>2
<1>5. CASE OnCreated
  <2>1. Take("created") /\ (out' = {} \/ CreatedObject(ev.id, ev.new_id))
    BY <1>5, OnCreatedEffect DEF CreatedOrphan
  <2>2. CASE CreatedObject(ev.id, ev.new_id)
    <3>1. orphaned[ev.id] = None /\ Deliver(h2g[ev.id], ev.born)
      BY <2>2 DEF CreatedObject
    <3>2. ev.id \in HostIds /\ ev.id \in Hosts
      BY <2>1, TakeFacts
    <3>3. h2g[ev.id] # None /\ ~PendingDestroy(ev.id)
      BY <2>1, <3>1, <3>2, ResultPaired
    <3>4. ReachesLive([id |-> h2g[ev.id], born |-> ev.born])
      BY <2>1, <3>2, <3>3, PairedLive
    <3>. QED
      BY <3>1, <3>4 DEF Deliver
  <2>. QED
    BY <2>1, <2>2
<1>6. CASE OnFailed
  <2>1. CASE out' = {}
    BY <2>1
  <2>2. CASE ~Orphan(ev.id) /\ Deliver(h2g[ev.id], ev.born)
    <3>1. Take("failed") /\ orphaned[ev.id] = None
      BY <1>6, <2>2 DEF OnFailed, Orphan
    <3>2. ev.id \in HostIds /\ ev.id \in Hosts
      BY <3>1, TakeFacts
    <3>3. h2g[ev.id] # None /\ ~PendingDestroy(ev.id)
      BY <3>1, <3>2, ResultPaired
    <3>4. ReachesLive([id |-> h2g[ev.id], born |-> ev.born])
      BY <3>1, <3>2, <3>3, PairedLive
    <3>. QED
      BY <2>2, <3>4 DEF Deliver
  <2>. QED
    BY <1>6, <2>1, <2>2 DEF OnFailed, Quiet
<1>7. CASE OnRelease
  <2>1. CASE ev.id \notin deferred /\ h2g[ev.id] # None /\ Dispatches(ev.id)
    <3>1. Deliver(h2g[ev.id], ev.born) /\ Take("release")
      BY <1>7, <2>1 DEF OnRelease
    <3>2. ReachesLive([id |-> h2g[ev.id], born |-> ev.born])
      BY <2>1, <3>1, EventFields, PairedLive DEF Dispatches
    <3>. QED
      BY <3>1, <3>2 DEF Deliver
  <2>2. CASE ~(ev.id \notin deferred /\ h2g[ev.id] # None /\ Dispatches(ev.id))
    <3>1. Quiet
      BY <1>7, <2>2 DEF OnRelease
    <3>. QED
      BY <3>1 DEF Quiet
  <2>. QED
    BY <2>1, <2>2
<1>8. CASE OnDeleteId
  BY <1>8 DEF OnDeleteId, Quiet
<1>9. CASE GuestStep
  BY <1>9 DEF GuestStep, Create, OnSync, Refer, CreateLocal, DestroyLocal, Destroy, DestroyTextInput,
              CreateAsync, DestroyParams, Submit, DestroyBuffer, Quiet
<1>10. CASE HostStep
  BY <1>10 DEF HostStep, HostReceive, HostEmits, HostRefers, HostDone, HostOffers, HostCreated,
               HostFailed, HostRelease, HostLeaves, Quiet
<1>11. CASE \E h \in HostIds : InternalSync(h) \/ InternalParams(h)
  BY <1>11 DEF InternalSync, InternalParams, Quiet
<1>. QED
  BY <1>1, <1>2, <1>3, <1>4, <1>5, <1>6, <1>7, <1>8, <1>9, <1>10, <1>11 DEF Next, ProxyStep

\* An event is delivered to the very object it was sent for, and names the very
\* object the host meant, while the guest has destroyed neither: the stale-event
\* filter (pending_host_event_is_stale, proxy.rs) and the argument validations.
THEOREM EventsReachTheirObject == Spec => EventReachesItsObject
<1>1. ASSUME ObjectInv, [Next]_vars
      PROVE  [\A r \in out' : /\ guestObj[r.id] # None
                              /\ guestObj[r.id].born = r.born
                              /\ guestObj[r.id].state = "live"]_vars
  BY <1>1, EventsReach DEF ReachesLive
<1>. QED
  BY <1>1, ObjectInvariant, PTL DEF Spec, EventReachesItsObject

-----------------------------------------------------------------------------
(* Nothing is left behind                                                  *)

CreatedIn(q, s) == \E i \in DOMAIN q : q[i].op = "created" /\ q[i].new_id = s
Awaited(h) == h \in pendingHost \/ (PendingDestroy(h) /\ h \notin deferred)
HasBuffer(s) == hostObj[s] # None /\ hostObj[s].interface = "buffer"

\* One ID's share of NothingLeftBehind
Settled(h) ==
  /\ h \in HostIds => (Awaited(h) => \/ Announced(h, "destroy", toHost)
                                     \/ Announced(h, "delete_id", toProxy))
  /\ h \in HostServerIds /\ fatal = "no" /\ HasBuffer(h) =>
       h2g[h] # None \/ Announced(h, "destroy", toHost) \/ CreatedIn(toProxy, h)

LEMMA SettledAll == NothingLeftBehind <=> \A h \in Hosts : Settled(h)
<1>1. ASSUME NEW h \in HostIds PROVE h \in Hosts /\ h \notin HostServerIds
  BY IdsAssumption DEF Hosts
<1>2. ASSUME NEW h \in HostServerIds PROVE h \in Hosts /\ h \notin HostIds
  BY IdsAssumption DEF Hosts
<1>3. PendingAwaitsDeleteId <=> \A h \in HostIds : Settled(h)
  BY <1>1 DEF PendingAwaitsDeleteId, Settled, Awaited
<1>4. NoOrphanedBuffer <=> \A s \in HostServerIds : Settled(s)
  BY <1>2 DEF NoOrphanedBuffer, Settled, HasBuffer, CreatedIn
<1>. QED
  BY <1>3, <1>4 DEF NothingLeftBehind, Hosts

\* r has every message of q.
Grows(q, r) == \A i \in DOMAIN q : \E j \in DOMAIN r : r[j] = q[i]

LEMMA GrowsSays ==
  ASSUME NEW q, NEW r, Grows(q, r), NEW h
  PROVE  /\ \A op : Announced(h, op, q) => Announced(h, op, r)
         /\ CreatedIn(q, h) => CreatedIn(r, h)
<1>1. \A op : Announced(h, op, q) => Announced(h, op, r)
  BY DEF Grows, Announced
<1>2. CreatedIn(q, h) => CreatedIn(r, h)
  BY DEF Grows, CreatedIn
<1>. QED
  BY <1>1, <1>2

LEMMA SeqWider ==
  ASSUME NEW T, NEW q \in Seq(T), NEW m
  PROVE  q \in Seq(T \cup {m})
BY SeqDef

LEMMA GrowsOne ==
  ASSUME NEW T, NEW q \in Seq(T), NEW m
  PROVE  Grows(q, q \o <<m>>) /\ \E j \in DOMAIN (q \o <<m>>) : (q \o <<m>>)[j] = m
<1>1. Joins(q, m, q \o <<m>>, Len(q))
  <2>1. q \in Seq(T \cup {m}) /\ m \in T \cup {m}
    BY SeqWider
  <2>. QED
    BY <2>1, AppendJoins
<1>. DEFINE r == q \o <<m>>
            k == Len(q)
<1>2. Joins(q, m, r, k)
  BY <1>1
<1>. HIDE DEF r, k
<1>3. (\A i \in DOMAIN q : i \in DOMAIN r /\ r[i] = q[i]) /\ k + 1 \in DOMAIN r /\ r[k + 1] = m
  BY <1>2 DEF Joins
<1>4. Grows(q, r) /\ \E j \in DOMAIN r : r[j] = m
  BY <1>3 DEF Grows
<1>. QED
  BY <1>4 DEF r

LEMMA GrowsTwo ==
  ASSUME NEW T, NEW q \in Seq(T), NEW m, NEW p
  PROVE  Grows(q, q \o <<m, p>>) /\ \E j \in DOMAIN (q \o <<m, p>>) : (q \o <<m, p>>)[j] = p
<1>1. PICK S : q \in Seq(S) /\ m \in S /\ p \in S
  <2>1. q \in Seq(T \cup {m}) /\ q \in Seq((T \cup {m}) \cup {p})
    BY SeqWider
  <2>. QED
    BY <2>1
<1>. DEFINE r == q \o <<m>>
            s == q \o <<m, p>>
            k == Len(q) + 1
<1>2. Joins(r, p, s, k)
  BY <1>1, AppendTwice
<1>3. Grows(q, r)
  BY GrowsOne
<1>. HIDE DEF r, s, k
<1>4. (\A i \in DOMAIN r : i \in DOMAIN s /\ s[i] = r[i]) /\ k + 1 \in DOMAIN s /\ s[k + 1] = p
  BY <1>2 DEF Joins
<1>5. Grows(q, s)
  BY <1>3, <1>4 DEF Grows
<1>6. \E j \in DOMAIN s : s[j] = p
  BY <1>4
<1>. QED
  BY <1>5, <1>6 DEF s

\* A destructor sent
LEMMA DestroyAnnounced ==
  ASSUME NEW T, NEW q \in Seq(T), NEW h, NEW n, NEW op
  PROVE  Announced(h, op, q \o <<Req(op, h, n)>>)
<1>m. PICK m : m = Req(op, h, n)
  OBVIOUS
<1>1. PICK j \in DOMAIN (q \o <<m>>) : (q \o <<m>>)[j] = m
  BY GrowsOne
<1>2. m.op = op /\ m.id = h
  BY <1>m DEF Req
<1>3. Announced(h, op, q \o <<m>>)
  BY <1>1, <1>2 DEF Announced
<1>. QED
  BY <1>m, <1>3

\* What is on the wire stays there until it is received.
LEMMA TakenStays ==
  ASSUME ObjectInv, NEW op, Take(op), NEW h
  PROVE  /\ op # "delete_id" \/ ev.id # h =>
              (Announced(h, "delete_id", toProxy) => Announced(h, "delete_id", toProxy'))
         /\ op # "created" \/ ev.new_id # h => (CreatedIn(toProxy, h) => CreatedIn(toProxy', h))
<1>1. Loses(toProxy, toProxy', Len(toProxy) - 1) /\ ev = toProxy[1] /\ ev.op = op
  BY TakeFacts
<1>2. ASSUME NEW i \in DOMAIN toProxy, i # 1
      PROVE  i - 1 \in DOMAIN toProxy' /\ toProxy'[i - 1] = toProxy[i]
  BY <1>1, <1>2 DEF Loses
<1>3. op # "delete_id" \/ ev.id # h =>
        (Announced(h, "delete_id", toProxy) => Announced(h, "delete_id", toProxy'))
  BY <1>1, <1>2 DEF Announced
<1>4. op # "created" \/ ev.new_id # h => (CreatedIn(toProxy, h) => CreatedIn(toProxy', h))
  BY <1>1, <1>2 DEF CreatedIn
<1>. QED
  BY <1>3, <1>4

LEMMA SettledKept ==
  ASSUME NEW h \in Hosts, Settled(h), h \in HostIds => (Awaited(h)' => Awaited(h)),
         h \in HostServerIds /\ fatal' = "no" =>
           /\ HasBuffer(h)' => HasBuffer(h)
           /\ h2g[h] # None => h2g'[h] # None
           /\ fatal = "no",
         Announced(h, "destroy", toHost) => Announced(h, "destroy", toHost'),
         Announced(h, "delete_id", toProxy) => Announced(h, "delete_id", toProxy'),
         CreatedIn(toProxy, h) => CreatedIn(toProxy', h)
  PROVE  Settled(h)'
BY DEF Settled

\* Everything about h but the messages in flight stays.
Steady(h) ==
  /\ h \in HostIds => /\ h2g'[h] # None => h2g'[h] = h2g[h]
                      /\ h \in pendingHost' => h \in pendingHost
                      /\ h2g[h] # None /\ h2g[h] \in pendingGuest' => h2g[h] \in pendingGuest
                      /\ h2g'[h] # None /\ h \in deferred => h \in deferred'
  /\ h \in HostServerIds /\ h2g[h] # None => h2g'[h] # None

LEMMA SteadyAwaited ==
  ASSUME NEW h \in HostIds, Steady(h)
  PROVE  Awaited(h)' => Awaited(h)
BY DEF Steady, Awaited, PendingDestroy

\* Requests sent, in a step that leaves the host alone.
LEMMA SettledSent ==
  ASSUME NEW h \in Hosts, Settled(h), Steady(h), Grows(toHost, toHost'),
         UNCHANGED <<toProxy, hostState>>, fatal' = fatal
  PROVE  Settled(h)'
<1>1. Announced(h, "destroy", toHost) => Announced(h, "destroy", toHost')
  BY GrowsSays
<1>2. HasBuffer(h)' => HasBuffer(h)
  BY DEF HasBuffer, hostState
<1>3. h \in HostIds => (Awaited(h)' => Awaited(h))
  BY SteadyAwaited
<1>. QED
  BY <1>1, <1>2, <1>3, SettledKept DEF Steady

\* An event taken that is neither a delete_id nor a created.
LEMMA SettledTaken ==
  ASSUME ObjectInv, NEW op, Take(op), NEW h \in Hosts, Settled(h), Steady(h), Grows(toHost, toHost'),
         op # "delete_id" \/ ev.id # h, op # "created" \/ ev.new_id # h,
         UNCHANGED hostState, fatal' = "no" => fatal = "no"
  PROVE  Settled(h)'
<1>1. Announced(h, "destroy", toHost) => Announced(h, "destroy", toHost')
  BY GrowsSays
<1>2. /\ Announced(h, "delete_id", toProxy) => Announced(h, "delete_id", toProxy')
      /\ CreatedIn(toProxy, h) => CreatedIn(toProxy', h)
  BY TakenStays
<1>3. HasBuffer(h)' => HasBuffer(h)
  BY DEF HasBuffer, hostState
<1>4. h \in HostIds => (Awaited(h)' => Awaited(h))
  BY SteadyAwaited
<1>. QED
  BY <1>1, <1>2, <1>3, <1>4, SettledKept DEF Steady

LEMMA GrowsSame == ASSUME NEW q PROVE Grows(q, q)
BY DEF Grows

LEMMA GuestGrows ==
  ASSUME ObjectInv, UNCHANGED toHost \/ (\E m : toHost' = toHost \o <<m>>)
                      \/ (\E m, p : toHost' = toHost \o <<m, p>>)
  PROVE  Grows(toHost, toHost')
<1>1. toHost \in Seq(Request)
  BY DEF ObjectInv, TypeOK
<1>2. CASE UNCHANGED toHost
  BY <1>2, GrowsSame
<1>3. CASE \E m : toHost' = toHost \o <<m>>
  BY <1>1, <1>3, GrowsOne
<1>4. CASE \E m, p : toHost' = toHost \o <<m, p>>
  BY <1>1, <1>4, GrowsTwo
<1>. QED
  BY <1>2, <1>3, <1>4

\* A destructor sent for the pair of g
LEMMA SettledDestroySent ==
  ASSUME ObjectInv, NEW g \in Guests, NEW n, g2h[g] # None, DestroySent(g, n),
         \A y \in Hosts \ {g2h[g]} : y \in deferred => y \in deferred',
         UNCHANGED hostState, fatal' = fatal, NEW x \in Hosts, Settled(x),
         Announced(x, "delete_id", toProxy) => Announced(x, "delete_id", toProxy'),
         CreatedIn(toProxy, x) => CreatedIn(toProxy', x)
  PROVE  Settled(x)'
<1>h. PICK h \in Hosts : h = g2h[g]
  BY DEF ObjectInv, TypeOK
<1>0. TypeOK /\ Maps /\ toHost \in Seq(Request)
  BY DEF ObjectInv, TypeOK
<1>1. toHost' = toHost \o <<Req("destroy", h, n)>>
  BY <1>h DEF DestroySent
<1>2. Grows(toHost, toHost')
  BY <1>1, GuestGrows
<1>3. CASE x = h
  <2>1. Announced(x, "destroy", toHost')
    BY <1>0, <1>1, <1>3, DestroyAnnounced
  <2>. QED
    BY <2>1 DEF Settled
<1>4. CASE x # h
  <2>1. h2g[h] = g
    BY <1>0, <1>h DEF Maps
  <2>2. h2g[x] # None => h2g[x] # g
    BY <1>0, <1>4, <1>h DEF Maps
  <2>3. CASE g \in ClientIds
    <3>1. pendingGuest' = pendingGuest \cup {g} /\ UNCHANGED <<h2g, pendingHost>>
      BY <2>3 DEF DestroySent
    <3>2. Steady(x)
      BY <1>4, <1>h, <2>2, <3>1 DEF Steady
    <3>. QED
      BY <1>2, <3>2, GrowsSays, SteadyAwaited, SettledKept DEF Steady, HasBuffer, hostState
  <2>4. CASE g \in ServerIds
    <3>1. h2g'[x] = h2g[x] /\ pendingGuest' = pendingGuest \ {g} /\ UNCHANGED pendingHost
      BY <1>0, <1>4, <1>h, <2>4 DEF DestroySent, TypeOK
    <3>2. Steady(x)
      BY <1>4, <1>h, <3>1 DEF Steady
    <3>. QED
      BY <1>2, <3>2, GrowsSays, SteadyAwaited, SettledKept DEF Steady, HasBuffer, hostState
  <2>. QED
    BY <2>3, <2>4 DEF Guests
<1>. QED
  BY <1>3, <1>4

\* Each request of the guest, and each internal one
LEMMA GuestSettled ==
  ASSUME ObjectInv, GuestStep, NEW x \in Hosts, Settled(x)
  PROVE  Settled(x)'
<1>0. TypeOK /\ Maps
  BY DEF ObjectInv
<1>1. ASSUME NEW g \in ClientIds, NEW h \in HostIds, NEW i \in GuestCreated, Create(g, h, i)
      PROVE  Settled(x)'
  <2>1. /\ g \in Guests /\ g \notin pendingGuest /\ h2g' = [h2g EXCEPT ![h] = g] /\ h2g[h] = None
        /\ UNCHANGED <<pendingHost, pendingGuest, fatal, deferred, hostState, toProxy>>
        /\ toHost' = toHost \o <<NewReq(h, i, born')>>
    BY <1>1, CreateEffect DEF IsHostIdAvailable
  <2>2. Grows(toHost, toHost') /\ g # None
    BY <2>1, GuestGrows, IdsAssumption DEF Guests
  <2>3. CASE x = h
    <3>1. h2g'[x] = g /\ x \notin HostServerIds /\ (x \in pendingHost' => x \in pendingHost)
      BY <1>0, <2>1, <2>3, IdsAssumption DEF TypeOK
    <3>2. Awaited(x)' => Awaited(x)
      BY <2>1, <3>1 DEF Awaited, PendingDestroy
    <3>. QED
      BY <2>1, <2>2, <3>1, <3>2, GrowsSays, SettledKept
  <2>4. CASE x # h
    <3>1. Steady(x)
      BY <1>0, <2>1, <2>4 DEF Steady, TypeOK
    <3>. QED
      BY <2>1, <2>2, <3>1, SettledSent
  <2>. QED
    BY <2>3, <2>4
<1>2. CASE \E g \in ClientIds, h \in HostIds : OnSync(g, h)
  BY <1>1, <1>2 DEF OnSync, GuestCreated
<1>3. ASSUME NEW g \in Guests, NEW a \in Guests, Refer(g, a) PROVE Settled(x)'
  <2>1. UNCHANGED <<shadow, deferred, hostState, toProxy>> /\ fatal' = fatal
    BY <1>3, ReferServes DEF Refer
  <2>2. Grows(toHost, toHost')
    BY <1>3, ReferServes, GuestGrows
  <2>3. Steady(x)
    BY <2>1 DEF Steady, shadow
  <2>. QED
    BY <2>1, <2>2, <2>3, SettledSent
<1>4. ASSUME NEW g \in ClientIds, CreateLocal(g) \/ DestroyLocal(g) PROVE Settled(x)'
  <2>1. UNCHANGED <<h2g, pendingHost, pendingGuest, deferred, fatal, hostState, toHost, toProxy>>
    BY <1>4, CreateLocalEffect, DestroyLocalEffect DEF context
  <2>2. Steady(x)
    BY <2>1 DEF Steady
  <2>. QED
    BY <2>1, <2>2, GuestGrows, SettledSent
<1>5. ASSUME NEW g \in Guests, NEW i, Destroy(g, i) PROVE Settled(x)'
  <2>1. /\ Live(g, i) /\ i # "local" /\ UNCHANGED <<deferred, fatal, hostState, toProxy>>
        /\ Send(<<Req("destroy", g2h[g], guestObj[g].born)>>)
        /\ IF IsGuestServerId(g) THEN RemoveId(g) ELSE MarkPendingDestroy(g)
    BY <1>5 DEF Destroy, context
  <2>2. g2h[g] # None
    BY <2>1, LivePair
  <2>3. DestroySent(g, guestObj[g].born)
    BY <1>0, <2>1, <2>2, DestroySentEffect
  <2>. QED
    BY <2>1, <2>2, <2>3, SettledDestroySent
<1>6. ASSUME NEW g \in ClientIds, DestroyTextInput(g) PROVE Settled(x)'
  <2>1. /\ g \in Guests /\ Live(g, "text_input") /\ RemoveGuestMapping(g)
        /\ UNCHANGED <<pendingHost, pendingGuest, deferred, fatal, hostState, toHost, toProxy>>
    BY <1>6 DEF DestroyTextInput, Guests, context
  <2>2. g2h[g] \in HostIds /\ g2h[g] # None
    BY <2>1, LivePair
  <2>3. h2g' = [h2g EXCEPT ![g2h[g]] = None]
    BY <1>0, <2>1, <2>2, UnmapPair
  <2>4. /\ h2g'[x] # None => h2g'[x] = h2g[x]
        /\ x \in HostServerIds => h2g'[x] = h2g[x]
    BY <1>0, <2>2, <2>3, IdsAssumption DEF TypeOK
  <2>5. Steady(x)
    BY <2>1, <2>4 DEF Steady
  <2>. QED
    BY <2>1, <2>5, GuestGrows, SettledSent
<1>7. ASSUME NEW g \in ClientIds, CreateAsync(g) PROVE Settled(x)'
  <2>1. /\ UNCHANGED <<shadow, deferred, fatal, hostState, toProxy>>
        /\ toHost' = toHost \o <<Req("create", g2h[g], guestObj[g].born)>>
    BY <1>7 DEF CreateAsync, Send
  <2>2. Steady(x)
    BY <2>1 DEF Steady, shadow
  <2>. QED
    BY <2>1, <2>2, GuestGrows, SettledSent
<1>8. ASSUME NEW g \in ClientIds, DestroyParams(g) PROVE Settled(x)'
  <2>1. /\ g \in Guests /\ Live(g, "params") /\ UNCHANGED <<deferred, fatal, hostState, toProxy>>
        /\ Send(<<Req("destroy", g2h[g], guestObj[g].born)>>) /\ MarkPendingDestroy(g)
    BY <1>8 DEF DestroyParams, Guests
  <2>2. g2h[g] # None /\ ~IsGuestServerId(g)
    BY <2>1, LivePair, IdsAssumption DEF IsGuestServerId
  <2>3. DestroySent(g, guestObj[g].born)
    BY <1>0, <2>1, <2>2, DestroySentEffect
  <2>. QED
    BY <2>1, <2>2, <2>3, SettledDestroySent
<1>9. ASSUME NEW g \in Guests, Submit(g) PROVE Settled(x)'
  <2>1. /\ UNCHANGED <<shadow, deferred, fatal, hostState, toProxy>>
        /\ toHost' = toHost \o <<Req("submit", g2h[g], guestObj[g].born)>>
    BY <1>9 DEF Submit, Send
  <2>2. Steady(x)
    BY <2>1 DEF Steady, shadow
  <2>. QED
    BY <2>1, <2>2, GuestGrows, SettledSent
<1>10. ASSUME NEW g \in Guests, DestroyBuffer(g) PROVE Settled(x)'
  <2>1. Live(g, "buffer") /\ UNCHANGED <<fatal, hostState, toProxy>>
    BY <1>10 DEF DestroyBuffer
  <2>2. g2h[g] # None /\ h2g[g2h[g]] = g /\ g2h[g] \in Hosts
    BY <2>1, LivePair
  <2>3. CASE g2h[g] \in inUse
    <3>1. /\ UNCHANGED <<h2g, pendingHost, toHost>> /\ pendingGuest' = pendingGuest \cup {g}
          /\ deferred' = deferred \cup {g2h[g]}
      BY <1>10, <2>3 DEF DestroyBuffer, RetireGuestObject
    <3>2. h2g[x] = g /\ h2g[x] # None => x \in deferred'
      BY <1>0, <3>1 DEF Maps
    <3>3. Awaited(x)' => Awaited(x)
      BY <3>1, <3>2 DEF Awaited, PendingDestroy
    <3>. QED
      BY <2>1, <3>1, <3>3, SettledKept DEF HasBuffer, hostState
  <2>4. CASE g2h[g] \notin inUse
    <3>1. QueueBufferDestroy(g, guestObj[g].born) /\ UNCHANGED deferred
      BY <1>10, <2>4 DEF DestroyBuffer
    <3>2. DestroySent(g, guestObj[g].born)
      BY <1>0, <2>2, <3>1, DestroySentEffect DEF QueueBufferDestroy
    <3>. QED
      BY <2>1, <2>2, <3>1, <3>2, SettledDestroySent
  <2>. QED
    BY <2>3, <2>4
<1>. QED
  BY <1>1, <1>2, <1>3, <1>4, <1>5, <1>6, <1>7, <1>8, <1>9, <1>10 DEF GuestStep, Guests

LEMMA InternalSettled ==
  ASSUME ObjectInv, NEW h \in HostIds, InternalSync(h) \/ InternalParams(h), NEW x \in Hosts, Settled(x)
  PROVE  Settled(x)'
<1>1. CASE InternalSync(h)
  <2>1. /\ UNCHANGED <<h2g, pendingHost, pendingGuest, deferred, fatal, hostState, toProxy>>
        /\ toHost' = toHost \o <<NewReq(h, "callback", born')>>
    BY <1>1 DEF InternalSync, Send, context
  <2>2. Steady(x)
    BY <2>1 DEF Steady
  <2>. QED
    BY <2>1, <2>2, GuestGrows, SettledSent
<1>2. CASE InternalParams(h)
  <2>1. /\ UNCHANGED <<h2g, pendingGuest, deferred, fatal, hostState, toProxy>>
        /\ pendingHost' = pendingHost \cup {h}
        /\ toHost' = toHost \o <<NewReq(h, "params", born'), Req("destroy", h, born')>>
    BY <1>2 DEF InternalParams, Send, context
  <2>2. Grows(toHost, toHost')
    BY <2>1, GuestGrows
  <2>3. CASE x = h
    <3>m. PICK m, p : m = NewReq(h, "params", born') /\ p = Req("destroy", h, born')
      OBVIOUS
    <3>1. toHost \in Seq(Request) /\ toHost' = toHost \o <<m, p>>
      BY <2>1, <3>m DEF ObjectInv, TypeOK
    <3>2. \E j \in DOMAIN toHost' : toHost'[j] = p
      BY <3>1, GrowsTwo
    <3>3. Announced(x, "destroy", toHost')
      BY <2>3, <3>m, <3>2 DEF Announced, Req
    <3>. QED
      BY <3>3 DEF Settled
  <2>4. CASE x # h
    <3>1. Steady(x)
      BY <2>1, <2>4 DEF Steady
    <3>. QED
      BY <2>1, <2>2, <3>1, SettledSent
  <2>. QED
    BY <2>3, <2>4
<1>. QED
  BY <1>1, <1>2

\* The result of a create is never dropped: its params are live, or orphaned.
LEMMA CreatedDispatched ==
  ASSUME ObjectInv, Take("created")
  PROVE  Dispatches(ev.id) \/ AllowsOrphan(ev.id)
<1>h. PICK h \in HostIds : h = ev.id
  BY TakeFacts
<1>0. /\ h \in Hosts /\ "params" # None
  BY TablesAssumption DEF Hosts, Interface, GuestCreated
<1>1. PICK n \in Born : HostInv(h, n)
  BY <1>0 DEF ObjectInv
<1>2. 1 \in DOMAIN toProxy /\ toProxy[1].op = "created" /\ toProxy[1].id = h
  BY <1>h, TakeFacts DEF Loses
<1>3. Creating(h)
  BY <1>2 DEF Creating, HasResult, IsResult
<1>4. PairInv(h, n) /\ CreateInv(h, n) /\ OrphanInv(h)
  BY <1>1 DEF HostInv
<1>5. CASE h \in creates
  <2>1. h2g[h] # None /\ h2g[h] \notin pendingGuest /\ interfaces[h2g[h]] = "params" /\ hostIfaces[h] = None
    BY <1>4, <1>5 DEF CreateInv, LiveParams, PairInv
  <2>. QED
    BY <1>0, <1>h, <2>1 DEF Dispatches, IfaceOf, PendingDestroy, IsEventSenderKnown
<1>6. CASE orphaned[h] # None
  <2>1. /\ h2g[h] = None => hostIfaces[h] = "params"
        /\ h2g[h] # None => interfaces[h2g[h]] = "params" /\ hostIfaces[h] = None
    BY <1>4, <1>6 DEF OrphanInv, PairInv
  <2>2. IfaceOf(h) = "params"
    BY <1>0, <2>1 DEF IfaceOf
  <2>. QED
    BY <1>6, <1>h, <2>2 DEF AllowsOrphan
<1>. QED
  BY <1>3, <1>4, <1>5, <1>6 DEF CreateInv

LEMMA IntroducedSteady ==
  ASSUME ObjectInv, NEW g, NEW s \in HostServerIds, NEW i, NEW b, Introduced(g, s, i, b),
         UNCHANGED deferred, NEW x \in Hosts
  PROVE  Steady(x) /\ (x = s => h2g'[x] # None)
<1>1. /\ g # None /\ h2g' = [h2g EXCEPT ![s] = g] /\ h2g \in [Hosts -> Guests \cup {None}]
      /\ UNCHANGED <<pendingHost, pendingGuest>>
  BY IdsAssumption DEF Introduced, Guests, ObjectInv, TypeOK
<1>2. (x \in HostIds => h2g'[x] = h2g[x]) /\ (x = s => h2g'[x] = g) /\ (x # s => h2g'[x] = h2g[x])
  BY <1>1, IdsAssumption
<1>. QED
  BY <1>1, <1>2 DEF Steady

LEMMA ProxySettled ==
  ASSUME ObjectInv, ProxyStep, NEW x \in Hosts, Settled(x)
  PROVE  Settled(x)'
<1>0. TypeOK /\ Maps
  BY DEF ObjectInv
<1>1. CASE OnEvent \/ OnRefer
  <2>1. UNCHANGED <<shadow, deferred, fatal, hostState, toHost>>
    BY <1>1 DEF OnEvent, OnRefer, context
  <2>2. Steady(x)
    BY <2>1 DEF Steady, shadow
  <2>. QED
    BY <1>1, <2>1, <2>2, GuestGrows, SettledTaken DEF OnEvent, OnRefer
<1>2. CASE OnDone
  <2>h. PICK h \in HostIds : h = ev.id
    BY <1>2, TakeFacts DEF OnDone
  <2>1. /\ Take("done") /\ UNCHANGED <<context, hostState, toHost>>
        /\ \/ UNCHANGED shadow
           \/ /\ h2g' = [h2g EXCEPT ![h] = None] \/ UNCHANGED h2g
              /\ pendingHost' = pendingHost \cup {h} /\ UNCHANGED pendingGuest
    BY <1>2, <2>h, OnDoneEffect
  <2>2. CASE x = h
    <3>1. PICK n \in Born : HostInv(x, n)
      BY DEF ObjectInv
    <3>2. Events(toProxy, x, n) /\ x \notin HostServerIds
      BY <2>2, <3>1, IdsAssumption DEF HostInv, EventInv
    <3>3. Is(toProxy[1], "done", x) /\ Loses(toProxy, toProxy', Len(toProxy) - 1)
      BY <2>1, <2>2, <2>h, TakeFacts DEF Is
    <3>4. Announced(x, "delete_id", toProxy')
      BY <3>2, <3>3, TakeEvent
    <3>. QED
      BY <3>2, <3>4 DEF Settled
  <2>3. CASE x # h
    <3>1. /\ h2g'[x] = h2g[x] /\ (x \in pendingHost' => x \in pendingHost)
          /\ pendingGuest' = pendingGuest /\ deferred' = deferred /\ fatal' = fatal
      BY <1>0, <2>1, <2>3 DEF TypeOK, shadow, context
    <3>2. Steady(x)
      BY <3>1 DEF Steady
    <3>. QED
      BY <2>1, <3>1, <3>2, GuestGrows, SettledTaken
  <2>. QED
    BY <2>2, <2>3
<1>3. CASE OnDeleteId
  <2>h. PICK h \in Hosts : h = ev.id
    BY <1>3, EventFields DEF OnDeleteId
  <2>1. /\ Take("delete_id") /\ h \in HostIds /\ UNCHANGED <<fatal, hostState, toHost>>
        /\ DeleteIdKeeps \/ DeleteIdFrees(h) \/ DeleteIdUnmaps(h) \/ DeleteIdRemoves(h)
    BY <1>3, <2>h, OnDeleteIdEffect
  <2>2. CASE x = h
    <3>1. h \notin pendingHost' /\ h2g'[h] = None
      <4>1. CASE DeleteIdFrees(h)
        BY <1>0, <4>1 DEF DeleteIdFrees, Maps
      <4>2. CASE DeleteIdUnmaps(h) \/ DeleteIdRemoves(h)
        BY <1>0, <4>2 DEF DeleteIdUnmaps, DeleteIdRemoves, TypeOK
      <4>3. CASE DeleteIdKeeps
        <5>1. h \notin pendingHost
          BY <1>3, <2>h, <4>3 DEF OnDeleteId, DeleteIdKeeps, shadow, ConsumeHostDeleteId
        <5>2. CASE orphaned[h] # None
          <6>1. h2g[h] # None => h2g[h] = orphaned[h]
            <7>1. PICK n \in Born : HostInv(h, n)
              BY DEF ObjectInv
            <7>. QED
              BY <2>1, <5>2, <7>1 DEF HostInv, OrphanInv
          <6>2. h2g[h] = orphaned[h] => RemoveGuestMapping(h2g[h])
            BY <1>3, <2>h, <2>1, <5>1, <5>2 DEF OnDeleteId
          <6>3. h2g[h] = orphaned[h] => h2g'[h] = None
            BY <1>0, <5>2, <6>2 DEF RemoveGuestMapping, Maps
          <6>. QED
            BY <4>3, <5>1, <6>1, <6>3 DEF DeleteIdKeeps, shadow
        <5>3. CASE orphaned[h] = None
          <6>1. h2g[h] = None \/ RemoveId(h2g[h])
            BY <1>3, <2>h, <5>1, <5>3 DEF OnDeleteId
          <6>2. RemoveId(h2g[h]) => h2g[h] = None \/ h2g'[h] = None
            BY <1>0 DEF RemoveId, Maps
          <6>. QED
            BY <4>3, <5>1, <6>1, <6>2 DEF DeleteIdKeeps, shadow
        <5>. QED
          BY <5>2, <5>3
      <4>. QED
        BY <2>1, <4>1, <4>2, <4>3
    <3>2. x \notin HostServerIds
      BY <2>1, <2>2, IdsAssumption
    <3>. QED
      BY <2>2, <3>1, <3>2 DEF Settled, Awaited, PendingDestroy
  <2>3. CASE x # h
    <3>1. /\ h2g'[x] = h2g[x] /\ (x \in pendingHost' => x \in pendingHost)
          /\ \A y : y \in pendingGuest' => y \in pendingGuest
          /\ x \in deferred => x \in deferred'
      BY <1>0, <2>1, <2>3 DEF TypeOK, DeleteIdKeeps, DeleteIdFrees, DeleteIdUnmaps, DeleteIdRemoves, shadow
    <3>2. Steady(x)
      BY <3>1 DEF Steady
    <3>. QED
      BY <2>h, <2>1, <2>3, <3>2, GuestGrows, SettledTaken
  <2>. QED
    BY <2>2, <2>3
<1>4. CASE OnOffer
  <2>0. Take("offer") /\ fatal = "no" /\ UNCHANGED <<deferred, hostState, toHost>>
    BY <1>4 DEF OnOffer, Take, Running
  <2>1. CASE Dispatches(ev.id) /\ h2g[ev.id] # None /\ IsHostIdAvailable(ev.new_id)
    <3>1. NewServerObject("offer")
      BY <1>4, <2>1 DEF OnOffer
    <3>2. PICK g \in ServerIds : Introduced(g, ev.new_id, "offer", ev.new_born)
      BY <2>0, <2>1, <3>1, NewServerEffect
    <3>3. Steady(x)
      BY <2>0, <3>2, TakeFacts, IntroducedSteady
    <3>. QED
      BY <2>0, <3>3, GuestGrows, SettledTaken
  <2>2. CASE ~(Dispatches(ev.id) /\ h2g[ev.id] # None /\ IsHostIdAvailable(ev.new_id))
    <3>1. UNCHANGED shadow
      BY <1>4, <2>2 DEF OnOffer
    <3>2. Steady(x)
      BY <2>0, <3>1 DEF Steady, shadow
    <3>. QED
      BY <2>0, <3>2, GuestGrows, SettledTaken
  <2>. QED
    BY <2>1, <2>2
<1>5. CASE OnCreated
  <2>0. Take("created") /\ fatal = "no" /\ UNCHANGED <<deferred, hostState>> /\ ev.new_id \in HostServerIds
    BY <1>5, TakeFacts DEF OnCreated, Take, Running
  <2>s. PICK s \in HostServerIds : s = ev.new_id
    BY <2>0
  <2>1. CASE UNCHANGED <<shadow, toHost>> /\ fatal' = "host_new_id"
    <3>1. Awaited(x)' => Awaited(x)
      BY <2>0, <2>1 DEF Awaited, PendingDestroy, shadow
    <3>2. x \in HostIds => ev.new_id # x
      BY <2>0, IdsAssumption
    <3>3. x \in HostIds => (Announced(x, "delete_id", toProxy) => Announced(x, "delete_id", toProxy'))
      BY <2>0, TakenStays
    <3>. QED
      BY <2>1, <3>1, <3>3 DEF Settled
  <2>2. CASE CreatedOrphan(ev.id, s)
    <3>1. /\ UNCHANGED <<h2g, pendingGuest>> /\ pendingHost' = pendingHost \cup {s}
          /\ toHost' = toHost \o <<Req("destroy", s, ev.new_born)>>
      BY <2>2 DEF CreatedOrphan
    <3>2. toHost \in Seq(Request)
      BY <1>0 DEF TypeOK
    <3>3. CASE x = s
      <4>1. Announced(x, "destroy", toHost')
        BY <3>1, <3>2, <3>3, DestroyAnnounced
      <4>. QED
        BY <4>1 DEF Settled
    <3>4. CASE x # s
      <4>1. Steady(x)
        BY <2>0, <3>1, <3>4 DEF Steady
      <4>2. Grows(toHost, toHost')
        BY <3>1, GuestGrows
      <4>. QED
        BY <2>0, <2>s, <3>4, <4>1, <4>2, SettledTaken
    <3>. QED
      BY <3>3, <3>4
  <2>3. CASE CreatedObject(ev.id, s)
    <3>1. PICK g \in ServerIds : Introduced(g, s, "buffer", ev.new_born)
      BY <2>3 DEF CreatedObject
    <3>2. Steady(x) /\ (x = s => h2g'[x] # None)
      BY <2>0, <3>1, IntroducedSteady
    <3>3. CASE x = s
      <4>1. x \notin HostIds
        BY <3>3, IdsAssumption
      <4>. QED
        BY <3>2, <3>3, <4>1 DEF Settled
    <3>4. CASE x # s
      BY <2>0, <2>3, <2>s, <3>2, <3>4, GuestGrows, SettledTaken DEF CreatedObject
    <3>. QED
      BY <3>3, <3>4
  <2>4. Dispatches(ev.id) \/ AllowsOrphan(ev.id)
    BY <2>0, CreatedDispatched
  <2>5. CASE ~IsHostIdAvailable(ev.new_id)
    BY <1>5, <2>1, <2>4, <2>5 DEF OnCreated
  <2>6. CASE IsHostIdAvailable(ev.new_id)
    <3>1. creates' = creates \ {ev.id} /\ fatal' = fatal
      BY <1>5, <2>4, <2>6 DEF OnCreated
    <3>2. CASE Orphan(ev.id)
      <4>1. /\ ForgetOrphan(ev.id) /\ pendingHost' = pendingHost \cup {ev.new_id}
            /\ Send(<<Req("destroy", ev.new_id, ev.new_born)>>) /\ Quiet
            /\ UNCHANGED <<g2h, h2g, interfaces, pendingGuest, fatal, guestObj>>
        BY <1>5, <2>4, <2>6, <3>2 DEF OnCreated
      <4>2. CreatedOrphan(ev.id, s)
        BY <2>6, <2>s, <4>1 DEF CreatedOrphan, ForgetOrphan, RemoveHostInterface, Send, Quiet
      <4>. QED
        BY <2>2, <4>2
    <3>3. CASE ~Orphan(ev.id)
      <4>1. /\ NewServerObject("buffer") /\ Deliver(h2g[ev.id], ev.born)
            /\ UNCHANGED <<orphaned, fatal, toHost>>
        BY <1>5, <2>4, <2>6, <3>3 DEF OnCreated
      <4>2. \E g \in ServerIds : Introduced(g, ev.new_id, "buffer", ev.new_born)
        BY <2>0, <2>6, <4>1, NewServerEffect
      <4>3. CreatedObject(ev.id, s)
        BY <2>6, <2>s, <3>3, <4>1, <4>2 DEF CreatedObject, Orphan
      <4>. QED
        BY <2>3, <4>3
    <3>. QED
      BY <3>2, <3>3
  <2>. QED
    BY <2>5, <2>6
<1>6. CASE OnFailed
  <2>1. Take("failed") /\ UNCHANGED <<h2g, pendingHost, pendingGuest, deferred, fatal, hostState, toHost>>
    BY <1>6 DEF OnFailed
  <2>2. Steady(x)
    BY <2>1 DEF Steady
  <2>. QED
    BY <2>1, <2>2, GuestGrows, SettledTaken
<1>7. CASE OnRelease
  <2>0. Take("release") /\ UNCHANGED <<fatal, hostState>>
    BY <1>7 DEF OnRelease
  <2>h. PICK h \in Hosts, n \in Born : h = ev.id /\ n = ev.born
    BY <2>0, EventFields
  <2>1. CASE h \in deferred /\ h2g[h] # None
    <3>1. QueueBufferDestroy(h2g[h], n) /\ deferred' = deferred \ {h}
      BY <1>7, <2>1, <2>h DEF OnRelease
    <3>g. PICK g \in Guests : g = h2g[h]
      BY <2>0, <2>1, <2>h, ReleaseFacts
    <3>2. g2h[g] = h /\ g2h[g] # None
      BY <2>0, <2>1, <2>h, <3>g, ReleaseFacts
    <3>3. DestroySent(g, n)
      BY <1>0, <3>1, <3>2, <3>g, DestroySentEffect DEF QueueBufferDestroy
    <3>4. /\ Announced(x, "delete_id", toProxy) => Announced(x, "delete_id", toProxy')
          /\ CreatedIn(toProxy, x) => CreatedIn(toProxy', x)
      BY <2>0, TakenStays
    <3>. QED
      BY <2>0, <3>1, <3>2, <3>3, <3>4, SettledDestroySent
  <2>2. CASE ~(h \in deferred /\ h2g[h] # None)
    <3>1. UNCHANGED <<shadow, deferred, toHost>>
      BY <1>7, <2>2, <2>h DEF OnRelease
    <3>2. Steady(x)
      BY <3>1 DEF Steady, shadow
    <3>. QED
      BY <2>0, <3>1, <3>2, GuestGrows, SettledTaken
  <2>. QED
    BY <2>1, <2>2
<1>. QED
  BY <1>1, <1>2, <1>3, <1>4, <1>5, <1>6, <1>7 DEF ProxyStep

LEMMA TablesAwaited ==
  ASSUME TablesKept, NEW h
  PROVE  /\ Awaited(h)' <=> Awaited(h)
         /\ h2g' = h2g /\ fatal' = fatal
BY DEF TablesKept, Awaited, PendingDestroy, shadow, context

\* The host reads a request.
LEMMA ReceiveSettled ==
  ASSUME ObjectInv, HostReceive, NEW x \in Hosts, Settled(x)
  PROVE  Settled(x)'
<1>0. /\ toHost[1] = Head(toHost) /\ toHost[1].id \in Hosts /\ TablesKept
      /\ toHost[1] \in Request
      /\ toHost[1].op \in {"new", "create"} => toHost[1].id \in HostIds
      /\ Loses(toHost, toHost', Len(toHost) - 1)
  BY ReceiveFacts
<1>m. PICK m \in Request : m = toHost[1] /\ m = Head(toHost)
  BY <1>0
<1>1. ~Is(m, "destroy", x) => (Announced(x, "destroy", toHost) => Announced(x, "destroy", toHost'))
  BY <1>0, <1>m, TakeEvent
<1>2. toProxy \in Seq(Event) /\ hostObj \in [Hosts -> HostObject \cup {None}]
  BY DEF ObjectInv, TypeOK
<1>3. CASE m.op # "destroy"
  <2>1. UNCHANGED toProxy
    BY <1>m, <1>3 DEF HostReceive, Request
  <2>2. x \in HostServerIds => hostObj'[x] = hostObj[x]
    <3>1. m.op = "new" /\ x \in HostServerIds => m.id # x
      BY <1>0, <1>m, IdsAssumption
    <3>2. \/ hostObj' = hostObj
          \/ /\ m.op = "new"
             /\ hostObj' = [hostObj EXCEPT ![m.id] = [interface |-> m.interface, born |-> m.born]]
      BY <1>m, <1>3 DEF HostReceive, Request, hostState
    <3>. QED
      BY <1>2, <3>1, <3>2
  <2>3. Announced(x, "destroy", toHost) => Announced(x, "destroy", toHost')
    BY <1>1, <1>3 DEF Is
  <2>. QED
    BY <1>0, <2>1, <2>2, <2>3, TablesAwaited, SettledKept DEF HasBuffer
<1>4. CASE m.op = "destroy"
  <2>1. /\ hostObj' = [hostObj EXCEPT ![m.id] = None]
        /\ IF m.id \in HostIds THEN toProxy' = toProxy \o <<Req("delete_id", m.id, m.born)>>
           ELSE UNCHANGED toProxy
    BY <1>m, <1>4 DEF HostReceive, Emit
  <2>2. Grows(toProxy, toProxy')
    BY <1>2, <2>1, GrowsOne, GrowsSame
  <2>3. CASE x = m.id
    <3>1. x \in HostIds => Announced(x, "delete_id", toProxy')
      BY <1>2, <2>1, <2>3, DestroyAnnounced
    <3>2. hostObj'[x] = None
      BY <1>2, <2>1, <2>3
    <3>. QED
      BY <3>1, <3>2 DEF Settled, HasBuffer
  <2>4. CASE x # m.id
    <3>1. Announced(x, "destroy", toHost) => Announced(x, "destroy", toHost')
      BY <1>1, <2>4 DEF Is
    <3>2. hostObj'[x] = hostObj[x]
      BY <1>2, <2>1, <2>4
    <3>. QED
      BY <1>0, <2>2, <3>1, <3>2, GrowsSays, TablesAwaited, SettledKept DEF HasBuffer
  <2>. QED
    BY <2>3, <2>4
<1>. QED
  BY <1>3, <1>4

\* The host sends events; only a created brings a buffer.
LEMMA EmitSettled ==
  ASSUME ObjectInv, HostLeaves, NEW x \in Hosts, Settled(x), Grows(toProxy, toProxy'),
         HasBuffer(x)' => HasBuffer(x) \/ CreatedIn(toProxy', x)
  PROVE  Settled(x)'
<1>1. TablesKept /\ toHost' = toHost
  BY LeavesTables
<1>2. CASE CreatedIn(toProxy', x) /\ ~(x \in HostIds)
  BY <1>2 DEF Settled
<1>3. CASE ~CreatedIn(toProxy', x) \/ x \in HostIds
  BY <1>1, <1>3, GrowsSays, TablesAwaited, SettledKept, IdsAssumption
<1>. QED
  BY <1>2, <1>3

LEMMA HostSettled ==
  ASSUME ObjectInv, HostStep, NEW x \in Hosts, Settled(x)
  PROVE  Settled(x)'
<1>0. toProxy \in Seq(Event) /\ hostObj \in [Hosts -> HostObject \cup {None}]
  BY DEF ObjectInv, TypeOK
<1>1. CASE HostReceive
  BY <1>1, ReceiveSettled
<1>2. CASE \/ \E h \in Hosts : HostEmits(h)
           \/ \E h \in HostIds, a \in Hosts : HostRefers(h, a)
           \/ \E p \in hostCreates : HostFailed(p)
           \/ \E h \in Hosts : HostRelease(h)
  <2>1. HostLeaves /\ hostObj' = hostObj /\ \E m : toProxy' = toProxy \o <<m>>
    BY <1>2 DEF HostEmits, HostRefers, HostFailed, HostRelease, Emit, hostState
  <2>2. Grows(toProxy, toProxy')
    BY <1>0, <2>1, GrowsOne
  <2>. QED
    BY <2>1, <2>2, EmitSettled DEF HasBuffer
<1>3. ASSUME NEW h \in HostIds, HostDone(h) PROVE Settled(x)'
  <2>1. HostLeaves /\ hostObj' = [hostObj EXCEPT ![h] = None] /\ \E m, p : toProxy' = toProxy \o <<m, p>>
    BY <1>3 DEF HostDone, Emit
  <2>2. Grows(toProxy, toProxy')
    BY <1>0, <2>1, GrowsTwo
  <2>3. HasBuffer(x)' => HasBuffer(x)
    BY <1>0, <2>1 DEF HasBuffer
  <2>. QED
    BY <2>1, <2>2, <2>3, EmitSettled
<1>4. ASSUME NEW h \in HostIds, NEW s \in HostServerIds, HostOffers(h, s) PROVE Settled(x)'
  <2>1. /\ HostLeaves /\ hostObj' = [hostObj EXCEPT ![s] = [interface |-> "offer", born |-> born']]
        /\ \E m : toProxy' = toProxy \o <<m>>
    BY <1>4 DEF HostOffers, Emit
  <2>2. Grows(toProxy, toProxy')
    BY <1>0, <2>1, GrowsOne
  <2>3. HasBuffer(x)' => HasBuffer(x)
    BY <1>0, <2>1 DEF HasBuffer
  <2>. QED
    BY <2>1, <2>2, <2>3, EmitSettled
<1>5. ASSUME NEW p \in hostCreates, NEW s \in HostServerIds, HostCreated(p, s) PROVE Settled(x)'
  <2>m. PICK m : m = [op |-> "created", id |-> p.id, born |-> p.born, new_id |-> s, new_born |-> born']
    OBVIOUS
  <2>1. /\ HostLeaves /\ hostObj' = [hostObj EXCEPT ![s] = [interface |-> "buffer", born |-> born']]
        /\ toProxy' = toProxy \o <<m>>
    BY <1>5, <2>m DEF HostCreated, Emit
  <2>2. Grows(toProxy, toProxy') /\ \E j \in DOMAIN toProxy' : toProxy'[j] = m
    BY <1>0, <2>1, GrowsOne
  <2>3. HasBuffer(x)' => HasBuffer(x) \/ x = s
    BY <1>0, <2>1 DEF HasBuffer
  <2>4. CreatedIn(toProxy', s)
    BY <2>m, <2>2 DEF CreatedIn
  <2>. QED
    BY <2>1, <2>2, <2>3, <2>4, EmitSettled
<1>. QED
  BY <1>1, <1>2, <1>3, <1>4, <1>5 DEF HostStep

LEMMA NextSettled ==
  ASSUME ObjectInv, [Next]_vars, \A x \in Hosts : Settled(x), NEW x \in Hosts
  PROVE  Settled(x)'
<1>1. CASE UNCHANGED vars
  <2>1. UNCHANGED <<h2g, pendingHost, pendingGuest, deferred, fatal, toHost, toProxy, hostState>>
    BY <1>1 DEF vars, shadow, context
  <2>2. Steady(x)
    BY <2>1 DEF Steady
  <2>. QED
    BY <2>1, <2>2, GrowsSame, SettledSent
<1>. QED
  BY <1>1, GuestSettled, ProxySettled, HostSettled, InternalSettled DEF Next

\* Nothing is left behind when a destructor crosses an answer: each reserved
\* client-range ID has its destructor or its delete_id under way (delete_id,
\* wl_display.rs), and a buffer created for params the guest destroyed first is
\* mapped, destroyed or about to be (on_created, linux_dmabuf.rs).
THEOREM NothingIsLeftBehind == Spec => []NothingLeftBehind
<1>1. Init => NothingLeftBehind
  <2>1. ASSUME Init, NEW x \in Hosts PROVE Settled(x)
    <3>1. h2g[x] = None /\ x \notin pendingHost /\ hostObj[x] = None
      BY <2>1 DEF Init
    <3>. QED
      BY <3>1 DEF Settled, Awaited, PendingDestroy, HasBuffer
  <2>. QED
    BY <2>1, SettledAll
<1>2. ASSUME ObjectInv, NothingLeftBehind, [Next]_vars PROVE NothingLeftBehind'
  <2>1. \A x \in Hosts : Settled(x)
    BY <1>2, SettledAll
  <2>2. \A x \in Hosts : Settled(x)'
    BY <1>2, <2>1, NextSettled
  <2>3. HostIds \subseteq Hosts /\ HostServerIds \subseteq Hosts
    BY DEF Hosts
  <2>4. PendingAwaitsDeleteId'
    BY <2>2, <2>3 DEF PendingAwaitsDeleteId, Settled, Awaited
  <2>5. NoOrphanedBuffer'
    BY <2>2, <2>3 DEF NoOrphanedBuffer, Settled, HasBuffer, CreatedIn
  <2>. QED
    BY <2>4, <2>5 DEF NothingLeftBehind
<1>. QED
  BY <1>1, <1>2, ObjectInvariant, PTL DEF Spec
=============================================================================
