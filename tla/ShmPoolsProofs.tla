--------------------------- MODULE ShmPoolsProofs ---------------------------
(***************************************************************************)
(* Proofs about ShmPools for any number of pools, buffers, formats and     *)
(* host IDs and every way the proxy can be started.                        *)
(***************************************************************************)
EXTENDS ShmPools, SequenceTheorems, TLAPS

-----------------------------------------------------------------------------
(* The steps, by what they may change                                      *)

\* Steps on the formats and the host globals.
FormatStep ==
  \/ \E f \in Formats : OnShmFormat(f) \/ OnDmabufFormat(f)
  \/ ShmGlobal \/ ShmGlobalRemove \/ DmabufGlobal \/ DmabufGlobalRemove
  \/ \E s \in ShmIds : BindShm(s) \/ OnShmRelease(s)

\* Requests on pools and buffers that take effect.
PoolStep ==
  \/ \E s \in ShmIds, p \in PoolIds, size, file \in Sizes, kernel \in BOOLEAN :
       OnCreatePool(s, p, size, file, kernel)
  \/ \E p \in PoolIds, size, file \in Sizes, kernel \in BOOLEAN :
       OnResize(p, size, file, kernel)
  \/ \E p \in PoolIds : OnDestroyPool(p)
BufferStep ==
  \/ \E p \in PoolIds, b \in BufIds, f \in Formats, end \in Sizes, temp, buf \in HostIds,
        alloc \in Allocations :
       \/ \E k \in 1..Planes(f) :
            OnCreateBufferDirectFails(p, b, f, end, temp, buf, alloc, k)
       \/ OnCreateBuffer(p, b, f, end, temp, buf, alloc)
  \/ \E b \in BufIds : OnDestroyBuffer(b)
  \/ \E h \in HostIds : OnDeleteId(h)

\* Every step is of one of these kinds; a refused request changes only life.
LEMMA StepKinds ==
  ASSUME [Next]_vars
  PROVE  \/ FormatStep
         \/ (PoolStep \/ BufferStep \/ HostReceive \/ Teardown)
              /\ UNCHANGED <<cfg, formatVars>>
         \/ UNCHANGED <<cfg, formatVars, pools, stalePools, arcs, bufs, reserved,
                        hostVars, memVars, made>>
              /\ (life' = life \/ life = "up")
<1>. DEFINE Quiet == UNCHANGED <<cfg, formatVars, pools, stalePools, arcs, bufs, reserved,
                                hostVars, memVars, made>> /\ (life' = life \/ life = "up")
<1>1. ASSUME NEW p \in PoolIds, NEW b \in BufIds, OnCreateBufferStale(p, b) PROVE Quiet
  BY <1>1 DEF OnCreateBufferStale, vars
<1>2. ASSUME NEW p \in PoolIds, NEW b \in BufIds, NEW f, NEW end,
             \/ OnCreateBufferInvalid(p, b, f, end)
             \/ OnCreateBufferNoStorage(p, b, f, end)
             \/ OnCreateBufferShmFails(p, b, f, end)
      PROVE  Quiet
  BY <1>2 DEF OnCreateBufferInvalid, OnCreateBufferNoStorage, OnCreateBufferShmFails,
              Asked, Error
<1>3. PoolStep => UNCHANGED <<cfg, formatVars>>
  BY DEF PoolStep, OnCreatePool, OnResize, OnDestroyPool
<1>4. ASSUME NEW p, NEW b, NEW f, NEW end, NEW temp, NEW buf, NEW alloc,
             \/ \E k \in 1..Planes(f) :
                  OnCreateBufferDirectFails(p, b, f, end, temp, buf, alloc, k)
             \/ OnCreateBuffer(p, b, f, end, temp, buf, alloc)
      PROVE  UNCHANGED <<cfg, formatVars>>
  BY <1>4 DEF OnCreateBufferDirectFails, OnCreateBuffer
<1>5. (\E b \in BufIds : OnDestroyBuffer(b)) \/ (\E h \in HostIds : OnDeleteId(h))
        => UNCHANGED <<cfg, formatVars>>
  BY DEF OnDestroyBuffer, OnDeleteId
<1>6. BufferStep => UNCHANGED <<cfg, formatVars>>
  BY <1>4, <1>5 DEF BufferStep
<1>7. HostReceive \/ Teardown => UNCHANGED <<cfg, formatVars>>
  BY DEF HostReceive, Teardown
<1>8. UNCHANGED vars => Quiet
  BY DEF vars
<1>9. Next => FormatStep \/ PoolStep \/ BufferStep \/ HostReceive \/ Teardown \/ Quiet
  <2>. HIDE DEF Quiet
  <2>. QED
    BY <1>1, <1>2 DEF Next, FormatStep, PoolStep, BufferStep
<1>. QED
  BY <1>3, <1>6, <1>7, <1>8, <1>9

-----------------------------------------------------------------------------
(* Formats follow the host objects that announced them                     *)

\* The three format sets are what the bound objects announced, and a guest was
\* told of the planar format only by a proxy that can store it.
FormatInv ==
  /\ told \in [DOMAIN told -> SUBSET Formats]
  /\ wlF = {f \in Formats : <<"wl", f>> \in announced}
  /\ dmaF = {f \in Formats : <<"dma", f>> \in announced}
  /\ hostF = wlF \cup dmaF
  /\ \A s \in DOMAIN told : Planar \in told[s] =>
       cfg.virtwl # "none" \/ (cfg.gpu /\ cfg.gbm)

LEMMA RecordKeepsTold ==
  ASSUME FormatInv, NEW f \in Formats, RecordFormat(f), UNCHANGED cfg
  PROVE  /\ told' \in [DOMAIN told' -> SUBSET Formats]
         /\ \A s \in DOMAIN told' : Planar \in told'[s] =>
              cfg.virtwl # "none" \/ (cfg.gpu /\ cfg.gbm)
<1>1. /\ DOMAIN told' = DOMAIN told
      /\ \A s \in DOMAIN told : \/ told'[s] = told[s]
                                \/ /\ told'[s] = told[s] \cup {f}
                                   /\ guest_shm_format_available(f)'
  BY DEF RecordFormat, FormatInv
<1>2. f = Planar /\ guest_shm_format_available(f)' =>
        cfg.virtwl # "none" \/ (cfg.gpu /\ cfg.gbm)
  BY DEF guest_shm_format_available
<1>3. told' \in [DOMAIN told' -> SUBSET Formats]
  BY <1>1 DEF RecordFormat, FormatInv
<1>. QED
  BY <1>1, <1>2, <1>3 DEF FormatInv

LEMMA FormatNext == FormatInv /\ [Next]_vars => FormatInv'
<1>. SUFFICES ASSUME FormatInv, [Next]_vars PROVE FormatInv'
  OBVIOUS
<1>. USE DEF formatVars
<1>1. ASSUME NEW f \in Formats, OnShmFormat(f) PROVE FormatInv'
  <2>1. /\ announced' = announced \cup {<<"wl", f>>} /\ wlF' = wlF \cup {f}
        /\ hostF' = hostF \cup {f} /\ UNCHANGED <<cfg, dmaF>> /\ RecordFormat(f)
    BY <1>1 DEF OnShmFormat, RecordFormat
  <2>2. wlF' = {x \in Formats : <<"wl", x>> \in announced'}
    BY <2>1 DEF FormatInv
  <2>3. dmaF' = {x \in Formats : <<"dma", x>> \in announced'}
    BY <2>1 DEF FormatInv
  <2>. QED
    BY <2>1, <2>2, <2>3, RecordKeepsTold DEF FormatInv
<1>2. ASSUME NEW f \in Formats, OnDmabufFormat(f) PROVE FormatInv'
  <2>1. /\ announced' = announced \cup {<<"dma", f>>} /\ dmaF' = dmaF \cup {f}
        /\ hostF' = hostF \cup {f} /\ UNCHANGED <<cfg, wlF>> /\ RecordFormat(f)
    BY <1>2 DEF OnDmabufFormat, RecordFormat
  <2>2. wlF' = {x \in Formats : <<"wl", x>> \in announced'}
    BY <2>1 DEF FormatInv
  <2>3. dmaF' = {x \in Formats : <<"dma", x>> \in announced'}
    BY <2>1 DEF FormatInv
  <2>. QED
    BY <2>1, <2>2, <2>3, RecordKeepsTold DEF FormatInv
<1>3. CASE ShmGlobalRemove
  <2>1. /\ announced' = {a \in announced : a[1] # "wl"} /\ wlF' = {}
        /\ hostF' = hostF \ (wlF \ dmaF) /\ UNCHANGED <<cfg, dmaF, told>>
    BY <1>3 DEF ShmGlobalRemove, Without
  <2>2. \A x : <<"wl", x>> \notin announced'
                 /\ (<<"dma", x>> \in announced' <=> <<"dma", x>> \in announced)
    BY <2>1
  <2>. QED
    BY <2>1, <2>2 DEF FormatInv
<1>4. CASE DmabufGlobalRemove
  <2>1. /\ announced' = {a \in announced : a[1] # "dma"} /\ dmaF' = {}
        /\ hostF' = hostF \ (dmaF \ wlF) /\ UNCHANGED <<cfg, wlF, told>>
    BY <1>4 DEF DmabufGlobalRemove, Without
  <2>2. \A x : <<"dma", x>> \notin announced'
                 /\ (<<"wl", x>> \in announced' <=> <<"wl", x>> \in announced)
    BY <2>1
  <2>. QED
    BY <2>1, <2>2 DEF FormatInv
<1>5. ASSUME NEW s \in ShmIds, BindShm(s) PROVE FormatInv'
  <2>1. /\ DOMAIN told' = DOMAIN told \cup {s}
        /\ told' \in [DOMAIN told' -> SUBSET Formats]
        /\ told'[s] = {f \in Formats : guest_shm_format_available(f)}
        /\ \A t \in DOMAIN told \ {s} : told'[t] = told[t]
        /\ UNCHANGED <<cfg, announced, wlF, dmaF, hostF>>
    BY <1>5 DEF BindShm, FormatInv
  <2>2. Planar \in told'[s] => cfg.virtwl # "none" \/ (cfg.gpu /\ cfg.gbm)
    BY <2>1 DEF guest_shm_format_available
  <2>. QED
    BY <2>1, <2>2 DEF FormatInv
<1>6. ASSUME NEW s \in ShmIds, OnShmRelease(s) PROVE FormatInv'
  BY <1>6 DEF OnShmRelease, FormatInv
<1>7. CASE UNCHANGED <<cfg, announced, wlF, dmaF, hostF, told>>
  BY <1>7 DEF FormatInv
<1>8. CASE UNCHANGED <<cfg, formatVars>>
  BY <1>7, <1>8
<1>. QED
  BY <1>1, <1>2, <1>3, <1>4, <1>5, <1>6, <1>7, <1>8, StepKinds
  DEF FormatStep, ShmGlobal, DmabufGlobal

LEMMA FormatAccepted == FormatInv => ToldIsAccepted
BY DEF FormatInv, ToldIsAccepted, guest_shm_format_available, Sources

-----------------------------------------------------------------------------
(* Pools stay with the wl_shm they were created under                      *)

\* What is not stale was made under the wl_shm that is bound now.
GlobalInv ==
  /\ hostShm \in Nat /\ gens \in Nat /\ DOMAIN shmGen = DOMAIN told
  /\ \A s \in DOMAIN told \ staleShm : shmGen[s] = hostShm /\ hostShm # 0
  /\ pools \in [PoolIds -> Nat] /\ arcs \in Seq([size : Nat, gen : Nat])
  /\ \A p \in PoolIds : pools[p] =< Len(arcs)
  /\ \A p \in PoolIds \ stalePools : pools[p] # 0 =>
       arcs[pools[p]].gen = hostShm /\ hostShm # 0

\* Growing a pool changes nothing but its size.
LEMMA ResizedArcs ==
  ASSUME NEW a \in 1..Len(arcs), NEW n \in Nat, arcs \in Seq([size : Nat, gen : Nat]),
         arcs' = [arcs EXCEPT ![a].size = n]
  PROVE  /\ arcs' \in Seq([size : Nat, gen : Nat]) /\ Len(arcs') = Len(arcs)
         /\ arcs'[a].size = n
         /\ \A i \in 1..Len(arcs) :
              arcs'[i].gen = arcs[i].gen /\ (i # a => arcs'[i] = arcs[i])
<1>. DEFINE R == [size : Nat, gen : Nat]
            r == [arcs[a] EXCEPT !.size = n]
<1>1. arcs[a] \in R /\ DOMAIN arcs = 1..Len(arcs)
  BY ElementOfSeq, LenProperties
<1>2. r \in R /\ r.gen = arcs[a].gen /\ r.size = n
  BY <1>1
<1>3. arcs' = [arcs EXCEPT ![a] = r]
  OBVIOUS
<1>. HIDE DEF r, R
<1>4. arcs \in Seq(R)
  BY DEF R
<1>5. /\ [arcs EXCEPT ![a] = r] \in Seq(R) /\ Len([arcs EXCEPT ![a] = r]) = Len(arcs)
      /\ \A j \in 1..Len(arcs) : [arcs EXCEPT ![a] = r][j] = IF j = a THEN r ELSE arcs[j]
  BY <1>2, <1>4, ExceptSeq
<1>. QED
  BY <1>2, <1>3, <1>5 DEF R

LEMMA GlobalNext == GlobalInv /\ [Next]_vars => GlobalInv'
<1>. SUFFICES ASSUME GlobalInv, [Next]_vars PROVE GlobalInv'
  OBVIOUS
<1>. USE DEF formatVars
<1>1. ASSUME NEW f \in Formats, OnShmFormat(f) \/ OnDmabufFormat(f) PROVE GlobalInv'
  BY <1>1 DEF OnShmFormat, OnDmabufFormat, RecordFormat, GlobalInv
<1>2. CASE ShmGlobal
  BY <1>2 DEF ShmGlobal, GlobalInv
<1>3. CASE ShmGlobalRemove
  BY <1>3 DEF ShmGlobalRemove, StalePoolsAfterRemove, GlobalInv
<1>4. CASE DmabufGlobal \/ DmabufGlobalRemove
  BY <1>4 DEF DmabufGlobal, DmabufGlobalRemove, GlobalInv
<1>5. ASSUME NEW s \in ShmIds, BindShm(s) \/ OnShmRelease(s) PROVE GlobalInv'
  BY <1>5 DEF BindShm, OnShmRelease, GlobalInv
<1>6. ASSUME NEW s \in ShmIds, NEW p \in PoolIds, NEW size \in Sizes, NEW file \in Sizes,
             NEW kernel \in BOOLEAN, OnCreatePool(s, p, size, file, kernel),
             UNCHANGED formatVars
      PROVE  GlobalInv'
  <2>. DEFINE a == [size |-> size, gen |-> shmGen[s]]
  <2>1. CASE UNCHANGED <<pools, arcs>>
    BY <1>6, <2>1 DEF OnCreatePool, GlobalInv
  <2>2. CASE ~UNCHANGED <<pools, arcs>>
    <3>1. /\ s \in DOMAIN told \ staleShm /\ pools[p] = 0
          /\ arcs' = Append(arcs, a) /\ pools' = [pools EXCEPT ![p] = Len(arcs')]
          /\ UNCHANGED stalePools
      BY <1>6, <2>2 DEF OnCreatePool, Error
    <3>2. shmGen[s] = hostShm /\ hostShm # 0 /\ a \in [size : Nat, gen : Nat]
      BY <3>1, ShmAssumption DEF GlobalInv
    <3>3. /\ arcs' \in Seq([size : Nat, gen : Nat]) /\ Len(arcs') = Len(arcs) + 1
          /\ arcs'[Len(arcs) + 1] = a /\ \A i \in 1..Len(arcs) : arcs'[i] = arcs[i]
      BY <3>1, <3>2, AppendProperties DEF GlobalInv
    <3>. HIDE DEF a
    <3>4. pools' \in [PoolIds -> Nat] /\ \A q \in PoolIds : pools'[q] =< Len(arcs')
      BY <3>1, <3>3 DEF GlobalInv
    <3>5. a.gen = hostShm
      BY <3>2 DEF a
    <3>6. ASSUME NEW q \in PoolIds \ stalePools, pools'[q] # 0
          PROVE  arcs'[pools'[q]].gen = hostShm
      BY <3>1, <3>3, <3>5, <3>6 DEF GlobalInv
    <3>. QED
      BY <1>6, <3>1, <3>2, <3>3, <3>4, <3>6 DEF GlobalInv
  <2>. QED
    BY <2>1, <2>2
<1>7. ASSUME NEW p \in PoolIds, NEW size \in Sizes, NEW file \in Sizes,
             NEW kernel \in BOOLEAN, OnResize(p, size, file, kernel), UNCHANGED formatVars
      PROVE  GlobalInv'
  <2>1. CASE UNCHANGED arcs
    BY <1>7, <2>1 DEF OnResize, GlobalInv
  <2>2. CASE ~UNCHANGED arcs
    <3>1. arcs' = [arcs EXCEPT ![pools[p]].size = size] /\ pools[p] # 0
            /\ UNCHANGED <<pools, stalePools>>
      BY <1>7, <2>2 DEF OnResize, Error
    <3>2. pools[p] \in 1..Len(arcs) /\ size \in Nat
      BY <3>1, ShmAssumption DEF GlobalInv
    <3>3. /\ arcs' \in Seq([size : Nat, gen : Nat]) /\ Len(arcs') = Len(arcs)
          /\ \A i \in 1..Len(arcs) : arcs'[i].gen = arcs[i].gen
      <4>1. arcs \in Seq([size : Nat, gen : Nat]) /\ arcs' = [arcs EXCEPT ![pools[p]].size = size]
        BY <3>1 DEF GlobalInv
      <4>. QED
        BY <3>2, <4>1, ResizedArcs, Zenon
    <3>. QED
      BY <1>7, <3>1, <3>3 DEF GlobalInv
  <2>. QED
    BY <2>1, <2>2
<1>8. ASSUME NEW p \in PoolIds, OnDestroyPool(p), UNCHANGED formatVars PROVE GlobalInv'
  BY <1>8 DEF OnDestroyPool, GlobalInv
<1>9. CASE Teardown /\ UNCHANGED formatVars
  BY <1>9 DEF Teardown, GlobalInv
<1>10. CASE UNCHANGED <<formatVars, pools, stalePools, arcs>>
  BY <1>10 DEF GlobalInv
<1>11. BufferStep \/ HostReceive => UNCHANGED <<pools, stalePools, arcs>>
  BY DEF BufferStep, HostReceive, OnCreateBufferDirectFails, OnCreateBuffer,
         OnDestroyBuffer, OnDeleteId
<1>. QED
  BY <1>1, <1>2, <1>3, <1>4, <1>5, <1>6, <1>7, <1>8, <1>9, <1>10, <1>11, StepKinds
  DEF FormatStep, PoolStep

\* Objects of a removed wl_shm are not served by its replacement, and a format
\* told to a guest stays acceptable while some bound object announces it.
THEOREM PoolsFollowTheirGlobal == Spec => FollowsItsGlobal
<1>. DEFINE Served == \A b \in BufIds : bufs[b] = None /\ bufs'[b] # None
                                        => arcs[bufs'[b].arc].gen = hostShm
<1>1. Init => FormatInv /\ GlobalInv
  BY EmptySeq DEF Init, FormatInv, GlobalInv
<1>2. ASSUME GlobalInv, [Next]_vars PROVE Served
  <2>. SUFFICES ASSUME NEW b \in BufIds, bufs[b] = None, bufs'[b] # None
                PROVE  arcs[bufs'[b].arc].gen = hostShm
    OBVIOUS
  <2>1. ASSUME NEW p \in PoolIds, NEW c \in BufIds, NEW f, NEW end, NEW temp, NEW buf,
               NEW alloc, OnCreateBuffer(p, c, f, end, temp, buf, alloc)
        PROVE  arcs[bufs'[b].arc].gen = hostShm
    <3>1. /\ pools[p] # 0 /\ p \notin stalePools
          /\ bufs' = [bufs EXCEPT ![c] = Buffer(p, end, buf, made + 1, f, alloc)]
      BY <2>1 DEF OnCreateBuffer, Asked
    <3>2. bufs'[b] = Buffer(p, end, buf, made + 1, f, alloc)
      BY <3>1
    <3>3. bufs'[b].arc = pools[p]
      BY <3>2 DEF Buffer
    <3>. QED
      BY <1>2, <3>1, <3>3 DEF GlobalInv
  <2>2. ASSUME NEW c \in BufIds, OnDestroyBuffer(c) PROVE FALSE
    BY <2>2 DEF OnDestroyBuffer
  <2>3. ASSUME NEW h, OnDeleteId(h) PROVE FALSE
    BY <2>3 DEF OnDeleteId
  <2>4. CASE Teardown
    BY <2>4 DEF Teardown
  <2>5. CASE UNCHANGED bufs
    BY <2>5
  <2>6. FormatStep \/ PoolStep \/ HostReceive => UNCHANGED bufs
    BY DEF FormatStep, PoolStep, HostReceive, OnShmFormat, OnDmabufFormat, ShmGlobal,
           ShmGlobalRemove, DmabufGlobal, DmabufGlobalRemove, BindShm, OnShmRelease,
           OnCreatePool, OnResize, OnDestroyPool
  <2>7. ASSUME NEW p, NEW c, NEW f, NEW end, NEW temp, NEW buf, NEW alloc, NEW k,
               OnCreateBufferDirectFails(p, c, f, end, temp, buf, alloc, k)
        PROVE  UNCHANGED bufs
    BY <2>7 DEF OnCreateBufferDirectFails
  <2>. QED
    BY <1>2, <2>1, <2>2, <2>3, <2>4, <2>5, <2>6, <2>7, StepKinds DEF BufferStep
<1>. QED
  BY <1>1, <1>2, FormatNext, GlobalNext, FormatAccepted, PTL DEF Spec, FollowsItsGlobal

-----------------------------------------------------------------------------
(* Descriptors in the stream to the host                                   *)

SentBy(N) == {Sent(n, j) : n \in N, j \in {1, 2}}

Ids == HostIds \cup {0}
Targets == Ids \cup {"dmabuf", "shm"}
Message ==
  [op : {"create", "add", "destroy"}, on : Targets, id : Ids, made : Nat,
   fds : SUBSET SentBy(Nat)]

\* Requests that carry each descriptor once, made for the storage numbers N.
Requests(q, N) ==
  /\ q \in Seq(Message)
  /\ QueuedFds(q) \subseteq SentBy(N)
  /\ \A i, j \in 1..Len(q) : i # j => q[i].fds \cap q[j].fds = {}

\* What is open for a pool, for storage and for a request is never the same.
LEMMA OpenKinds ==
  /\ \A a : PoolMem(a)[1] = "pool"
  /\ \A n : Storage(n)[1] = "storage"
  /\ \A n, i : Sent(n, i)[1] = "sent"
  /\ \A a, b : PoolMem(a) = PoolMem(b) => a = b
  /\ \A m, n : Storage(m) = Storage(n) => m = n
  /\ \A m, n, i, j : Sent(m, i) = Sent(n, j) => m = n /\ i = j
BY DEF PoolMem, Storage, Sent

LEMMA InTargets ==
  /\ "dmabuf" \in Targets /\ "shm" \in Targets
  /\ \A id \in Ids : id \in Targets
  /\ \A id \in HostIds : id \in Ids
BY Zenon DEF Targets, Ids

LEMMA MsgType ==
  ASSUME NEW op \in {"create", "add", "destroy"}, NEW on \in Targets, NEW id \in Ids,
         NEW n \in Nat, NEW files \in SUBSET SentBy(Nat)
  PROVE  /\ Msg(op, on, id, n, files) \in Message
         /\ Msg(op, on, id, n, files).fds = files
BY DEF Msg, Message

LEMMA InQueue ==
  ASSUME NEW q \in Seq(Message)
  PROVE  /\ DOMAIN q = 1..Len(q) /\ Len(q) \in Nat
         /\ \A x : x \in QueuedFds(q) <=> \E i \in 1..Len(q) : x \in q[i].fds
BY LenProperties DEF QueuedFds

LEMMA JoinedQueues ==
  ASSUME NEW q \in Seq(Message), NEW r \in Seq(Message)
  PROVE  /\ q \o r \in Seq(Message) /\ Len(q \o r) = Len(q) + Len(r)
         /\ \A i \in 1..Len(q) + Len(r) :
              (q \o r)[i] = IF i <= Len(q) THEN q[i] ELSE r[i - Len(q)]
BY ConcatProperties

LEMMA ConcatRequests ==
  ASSUME NEW q, NEW r, NEW N, NEW M, Requests(q, N), Requests(r, M),
         QueuedFds(q) \cap QueuedFds(r) = {}
  PROVE  /\ Requests(q \o r, N \cup M)
         /\ QueuedFds(q \o r) = QueuedFds(q) \cup QueuedFds(r)
<1>. DEFINE t == q \o r
<1>1. q \in Seq(Message) /\ r \in Seq(Message)
  BY DEF Requests
<1>2. /\ t \in Seq(Message) /\ Len(t) = Len(q) + Len(r)
      /\ \A i \in 1..Len(q) + Len(r) : t[i] = IF i <= Len(q) THEN q[i] ELSE r[i - Len(q)]
  BY <1>1, JoinedQueues
<1>3. Len(q) \in Nat /\ Len(r) \in Nat
  BY <1>1, LenProperties
<1>. HIDE DEF t
<1>4. ASSUME NEW i \in 1..Len(t)
      PROVE  t[i] = IF i <= Len(q) THEN q[i] ELSE r[i - Len(q)]
  BY <1>2
<1>5. \A i \in 1..Len(q) : i \in 1..Len(t) /\ t[i] = q[i]
  BY <1>2, <1>3
<1>6. \A i \in 1..Len(r) : i + Len(q) \in 1..Len(t) /\ t[i + Len(q)] = r[i]
  BY <1>2, <1>3
<1>7. \A i \in 1..Len(t) : \/ i \in 1..Len(q) /\ t[i] = q[i]
                           \/ /\ i \notin 1..Len(q)
                              /\ i - Len(q) \in 1..Len(r) /\ t[i] = r[i - Len(q)]
  BY <1>2, <1>3
<1>8. QueuedFds(t) = QueuedFds(q) \cup QueuedFds(r)
  <2>1. ASSUME NEW x \in QueuedFds(t) PROVE x \in QueuedFds(q) \cup QueuedFds(r)
    BY <1>1, <1>2, <1>7, <2>1, InQueue
  <2>2. ASSUME NEW x \in QueuedFds(q) PROVE x \in QueuedFds(t)
    BY <1>1, <1>2, <1>5, <2>2, InQueue
  <2>3. ASSUME NEW x \in QueuedFds(r) PROVE x \in QueuedFds(t)
    <3>1. PICK i \in 1..Len(r) : x \in r[i].fds
      BY <1>1, <2>3, InQueue
    <3>2. i + Len(q) \in 1..Len(t) /\ x \in t[i + Len(q)].fds
      BY <1>6, <3>1
    <3>. QED
      BY <1>2, <3>2, InQueue
  <2>. QED
    BY <2>1, <2>2, <2>3
<1>9. QueuedFds(t) \subseteq SentBy(N \cup M)
  BY <1>8 DEF Requests, SentBy
<1>10. ASSUME NEW i \in 1..Len(t), NEW j \in 1..Len(t), i # j, NEW x,
              x \in t[i].fds, x \in t[j].fds
       PROVE  FALSE
  <2>1. CASE i \in 1..Len(q) /\ j \in 1..Len(q)
    BY <1>5, <1>10, <2>1 DEF Requests
  <2>2. CASE i \notin 1..Len(q) /\ j \notin 1..Len(q)
    <3>1. i - Len(q) # j - Len(q)
      BY <1>3, <1>10
    <3>. QED
      BY <1>7, <1>10, <2>2, <3>1 DEF Requests
  <2>3. CASE i \in 1..Len(q) /\ j \notin 1..Len(q)
    BY <1>1, <1>7, <1>10, <2>3, InQueue
  <2>4. CASE i \notin 1..Len(q) /\ j \in 1..Len(q)
    BY <1>1, <1>7, <1>10, <2>4, InQueue
  <2>. QED
    BY <2>1, <2>2, <2>3, <2>4
<1>. QED
  BY <1>2, <1>8, <1>9, <1>10 DEF Requests, t

\* A request without descriptors adds nothing.
LEMMA BareRequests ==
  ASSUME NEW q \in Seq(Message), \A i \in 1..Len(q) : q[i].fds = {}, NEW N
  PROVE  Requests(q, N) /\ QueuedFds(q) = {}
BY InQueue DEF Requests

LEMMA PrefixRequests ==
  ASSUME NEW q, NEW N, Requests(q, N), NEW k \in 1..Len(q)
  PROVE  Requests(SubSeq(q, 1, k), N)
<1>. DEFINE t == SubSeq(q, 1, k)
<1>1. q \in Seq(Message) /\ Len(q) \in Nat /\ \A i \in 1..Len(q) : q[i] \in Message
  BY ElementOfSeq, LenProperties DEF Requests
<1>2. /\ t \in Seq(Message) /\ Len(t) = k
      /\ \A i \in 1..k : i \in 1..Len(q) /\ t[i] = q[i]
  BY <1>1, SubSeqProperties
<1>. HIDE DEF t
<1>3. ASSUME NEW x \in QueuedFds(t) PROVE x \in QueuedFds(q)
  BY <1>1, <1>2, InQueue
<1>4. \A i, j \in 1..Len(t) : i # j => t[i].fds \cap t[j].fds = {}
  BY <1>2 DEF Requests
<1>. QED
  BY <1>2, <1>3, <1>4 DEF Requests, t

\* A creation request, the planes, and two requests that end it.
LEMMA FramedRequests ==
  ASSUME NEW m \in Message, NEW m1 \in Message, NEW m2 \in Message,
         m.fds = {}, m1.fds = {}, m2.fds = {}, NEW N, NEW adds, Requests(adds, N)
  PROVE  /\ Requests(<<m>> \o adds \o <<m1, m2>>, N)
         /\ Len(<<m>> \o adds \o <<m1, m2>>) = Len(adds) + 3
         /\ (<<m>> \o adds \o <<m1, m2>>)[Len(adds) + 3] = m2
<1>. DEFINE first == <<m>>
            last == <<m1, m2>>
            front == first \o adds
<1>1. /\ first \in Seq(Message) /\ Len(first) = 1 /\ first[1].fds = {}
      /\ last \in Seq(Message) /\ Len(last) = 2 /\ last[1].fds = {} /\ last[2] = m2
  OBVIOUS
<1>2. adds \in Seq(Message) /\ Len(adds) \in Nat
  BY LenProperties DEF Requests
<1>. HIDE DEF first, last
<1>3. /\ Requests(first, N) /\ QueuedFds(first) = {}
      /\ Requests(last, N) /\ QueuedFds(last) = {}
  <2>1. \A i \in 1..Len(first) : first[i].fds = {}
    BY <1>1
  <2>2. \A i \in 1..Len(last) : last[i].fds = {}
    BY <1>1
  <2>. QED
    BY <1>1, <2>1, <2>2, BareRequests
<1>4. Requests(front, N)
  BY <1>3, ConcatRequests
<1>5. Len(front) = Len(adds) + 1 /\ front \in Seq(Message)
  <2>1. Len(front) = Len(first) + Len(adds) /\ front \in Seq(Message)
    BY <1>1, <1>2, JoinedQueues, Zenon
  <2>. QED
    BY <1>1, <1>2, <2>1
<1>. HIDE DEF front
<1>6. Requests(front \o last, N)
  BY <1>3, <1>4, ConcatRequests
<1>7. /\ Len(front \o last) = Len(front) + Len(last)
      /\ \A i \in 1..Len(front) + Len(last) :
           (front \o last)[i] = IF i <= Len(front) THEN front[i] ELSE last[i - Len(front)]
  BY <1>1, <1>5, JoinedQueues
<1>8. Len(adds) + 3 \in 1..Len(front) + Len(last) /\ Len(adds) + 3 - Len(front) = 2
        /\ ~(Len(adds) + 3 <= Len(front)) /\ Len(front) + Len(last) = Len(adds) + 3
  BY <1>1, <1>2, <1>5
<1>9. (front \o last)[Len(adds) + 3] = m2
  BY <1>1, <1>7, <1>8
<1>. QED
  BY <1>6, <1>7, <1>8, <1>9 DEF front, first, last

\* The requests of one creation: complete, or cut off where a plane had no
\* descriptor.
LEMMA DirectRequestsSent ==
  ASSUME NEW params \in HostIds, NEW buf \in HostIds, NEW n \in Nat, NEW f
  PROVE  /\ Requests(DirectRequests(params, buf, n, f), {n})
         /\ Len(DirectRequests(params, buf, n, f)) = Planes(f) + 3
         /\ DirectRequests(params, buf, n, f)[Planes(f) + 3].fds = {}
<1>. DEFINE Add(i) == Msg("add", params, params, n, {Sent(n, i)})
            adds == [i \in 1..Planes(f) |-> Add(i)]
<1>1. Planes(f) \in {1, 2}
  BY DEF Planes
<1>2. \A i \in {1, 2} : Sent(n, i) \in SentBy({n}) /\ {Sent(n, i)} \in SUBSET SentBy(Nat)
  BY DEF SentBy
<1>3. ASSUME NEW op \in {"create", "destroy"}, NEW on \in Targets, NEW id \in Ids
      PROVE  Msg(op, on, id, n, {}) \in Message /\ Msg(op, on, id, n, {}).fds = {}
  BY MsgType
<1>4. ASSUME NEW i \in {1, 2} PROVE Add(i) \in Message /\ Add(i).fds = {Sent(n, i)}
  BY <1>2, MsgType, InTargets
<1>. HIDE DEF Add
<1>5. /\ adds \in Seq(Message) /\ Len(adds) = Planes(f)
      /\ \A i \in 1..Planes(f) : i \in {1, 2} /\ adds[i].fds = {Sent(n, i)}
  <2>1. CASE Planes(f) = 1
    <3>1. adds = <<Add(1)>>
      BY <2>1
    <3>. HIDE DEF adds
    <3>. QED
      BY <1>4, <2>1, <3>1
  <2>2. CASE Planes(f) = 2
    <3>1. adds = <<Add(1), Add(2)>>
      BY <2>2
    <3>. HIDE DEF adds
    <3>. QED
      BY <1>4, <2>2, <3>1
  <2>. QED
    BY <1>1, <2>1, <2>2
<1>. HIDE DEF adds
<1>6. Requests(adds, {n})
  <2>1. \A i, j \in 1..Len(adds) : i # j => adds[i].fds \cap adds[j].fds = {}
    BY <1>5, OpenKinds
  <2>2. QueuedFds(adds) \subseteq SentBy({n})
    BY <1>2, <1>5, InQueue
  <2>. QED
    BY <1>5, <2>1, <2>2 DEF Requests
<1>. DEFINE m == Msg("create", "dmabuf", params, n, {})
            m1 == Msg("create", params, buf, n, {})
            m2 == Msg("destroy", params, params, n, {})
<1>7. /\ m \in Message /\ m1 \in Message /\ m2 \in Message
      /\ m.fds = {} /\ m1.fds = {} /\ m2.fds = {}
  BY <1>3, InTargets
<1>8. DirectRequests(params, buf, n, f) = <<m>> \o adds \o <<m1, m2>>
  BY DEF DirectRequests, adds, Add
<1>. HIDE DEF m, m1, m2
<1>9. /\ Requests(<<m>> \o adds \o <<m1, m2>>, {n})
      /\ Len(<<m>> \o adds \o <<m1, m2>>) = Len(adds) + 3
      /\ (<<m>> \o adds \o <<m1, m2>>)[Len(adds) + 3] = m2
  BY <1>6, <1>7, FramedRequests
<1>. QED
  BY <1>5, <1>7, <1>8, <1>9

LEMMA DirectRemainsSent ==
  ASSUME NEW params \in HostIds, NEW buf \in HostIds, NEW n \in Nat, NEW f,
         NEW k \in 1..Planes(f)
  PROVE  Requests(DirectRemains(DirectRequests(params, buf, n, f), k), {n})
<1>. DEFINE reqs == DirectRequests(params, buf, n, f)
            end == <<reqs[Len(reqs)]>>
<1>1. /\ Requests(reqs, {n}) /\ k \in 1..Len(reqs) /\ k # 0
      /\ Len(reqs) \in 1..Len(reqs) /\ reqs[Len(reqs)].fds = {}
  <2>1. /\ Requests(reqs, {n}) /\ Len(reqs) = Planes(f) + 3
        /\ reqs[Planes(f) + 3].fds = {}
    BY DirectRequestsSent
  <2>2. Planes(f) \in {1, 2}
    BY DEF Planes
  <2>. HIDE DEF reqs
  <2>. QED
    BY <2>1, <2>2
<1>. HIDE DEF reqs
<1>2. Requests(SubSeq(reqs, 1, k), {n})
  BY <1>1, PrefixRequests
<1>3. end \in Seq(Message) /\ Len(end) = 1 /\ end[1].fds = {}
  <2>1. reqs[Len(reqs)] \in Message
    BY <1>1, ElementOfSeq DEF Requests
  <2>. QED
    BY <1>1, <2>1
<1>. HIDE DEF end
<1>4. Requests(end, {n}) /\ QueuedFds(end) = {}
  BY <1>3, BareRequests
<1>5. Requests(SubSeq(reqs, 1, k) \o end, {n})
  BY <1>2, <1>4, ConcatRequests
<1>. QED
  BY <1>1, <1>5 DEF DirectRemains, reqs, end

LEMMA ShmRequestsSent ==
  ASSUME NEW pool \in HostIds, NEW buf \in HostIds, NEW n \in Nat
  PROVE  Requests(ShmRequests(pool, buf, n), {n})
<1>. DEFINE m == Msg("create", "shm", pool, n, {Sent(n, 1)})
            m1 == Msg("create", pool, buf, n, {})
            m2 == Msg("destroy", pool, pool, n, {})
            reqs == <<m, m1, m2>>
<1>1. Sent(n, 1) \in SentBy({n}) /\ {Sent(n, 1)} \in SUBSET SentBy(Nat)
  BY DEF SentBy
<1>2. m \in Message /\ m.fds = {Sent(n, 1)}
  BY <1>1, MsgType, InTargets
<1>3. m1 \in Message /\ m2 \in Message /\ m1.fds = {} /\ m2.fds = {}
  BY MsgType, InTargets
<1>4. ShmRequests(pool, buf, n) = reqs
  BY DEF ShmRequests
<1>. HIDE DEF m, m1, m2
<1>5. /\ reqs \in Seq(Message) /\ Len(reqs) = 3
      /\ reqs[1].fds = {Sent(n, 1)} /\ reqs[2].fds = {} /\ reqs[3].fds = {}
  BY <1>2, <1>3
<1>. HIDE DEF reqs
<1>6. QueuedFds(reqs) \subseteq SentBy({n})
  BY <1>1, <1>5, InQueue
<1>7. \A i, j \in 1..Len(reqs) : i # j => reqs[i].fds \cap reqs[j].fds = {}
  BY <1>5
<1>. QED
  BY <1>4, <1>5, <1>6, <1>7 DEF Requests

-----------------------------------------------------------------------------
(* Every mapping and descriptor has an owner                               *)

BufferState ==
  [arc : Nat, end : Nat, host : Ids, storage : Nat, live : BOOLEAN, mapped : BOOLEAN]

MemTypes ==
  /\ pools \in [PoolIds -> Nat] /\ arcs \in Seq([size : Nat, gen : Nat])
  /\ bufs \in [BufIds -> BufferState] /\ made \in Nat

\* No pool, buffer or request refers to what was never made, no storage has two
\* buffers, no descriptor is in two requests.
MemRefs ==
  /\ \A p \in PoolIds : pools[p] =< Len(arcs)
  /\ \A b \in LiveBufs : bufs[b].arc \in 1..Len(arcs) /\ bufs[b].storage \in 1..made
  /\ \A b, c \in LiveBufs : bufs[b].storage = bufs[c].storage => b = c
  /\ Requests(queue, 1..made)

MemInv == MemTypes /\ MemRefs /\ ResourcesOwned

\* None is not live, so a live entry is a buffer.
LEMMA NoneNotLive == None \in BufferState /\ ~None.live
BY DEF None, BufferState, Ids

LEMMA LiveEntries ==
  /\ LiveBufs = {b \in BufIds : bufs[b].live}
  /\ LiveBufs' = {b \in BufIds : bufs'[b].live}
<1>1. \A b \in BufIds : bufs[b].live => bufs[b] # None
  BY NoneNotLive
<1>2. \A b \in BufIds : bufs'[b].live => bufs'[b] # None
  BY NoneNotLive
<1>. QED
  BY <1>1, <1>2 DEF LiveBufs

LEMMA StorageIsNotPool ==
  ASSUME MemTypes, MemRefs
  PROVE  /\ \A m \in {Storage(bufs[b].storage) : b \in LiveBufs} : m[1] = "storage"
         /\ \A m \in QueuedFds(queue) : m[1] = "sent"
BY OpenKinds DEF MemRefs, Requests, SentBy

OpenStorage == {Storage(bufs[b].storage) : b \in LiveBufs}
MappedStorage == {Storage(bufs[b].storage) : b \in {c \in LiveBufs : bufs[c].mapped}}

\* Dropping pools: of what was owned, the memory of pools still used stays, and
\* everything that is not a pool.
LEMMA MemDrop ==
  ASSUME MemInv, NEW ps, NEW bs,
         \A a \in 1..Len(arcs) : Users(a, ps, bs) # {} => Users(a, pools, bufs) # {}
  PROVE  /\ DropPools(fds, ps, bs) =
              PoolMemAfter(ps, bs) \cup OpenStorage \cup QueuedFds(queue)
         /\ DropPools(maps, ps, bs) = PoolMemAfter(ps, bs) \cup MappedStorage
<1>. DEFINE restF == OpenStorage \cup QueuedFds(queue)
            restM == MappedStorage
<1>1. (\A m \in restF : m[1] # "pool") /\ (\A m \in restM : m[1] # "pool")
  BY StorageIsNotPool DEF MemInv, OpenStorage, MappedStorage
<1>2. /\ fds = {PoolMem(a) : a \in LiveArcs} \cup restF
      /\ maps = {PoolMem(a) : a \in LiveArcs} \cup restM
  BY DEF MemInv, ResourcesOwned, OpenStorage, MappedStorage
<1>. HIDE DEF restF, restM
<1>3. DropPools(fds, ps, bs) = PoolMemAfter(ps, bs) \cup restF
  BY <1>1, <1>2, OpenKinds DEF DropPools, PoolMemAfter, LiveArcs
<1>4. DropPools(maps, ps, bs) = PoolMemAfter(ps, bs) \cup restM
  BY <1>1, <1>2, OpenKinds DEF DropPools, PoolMemAfter, LiveArcs
<1>. QED
  BY <1>3, <1>4 DEF restF, restM

LEMMA MemQuiet ==
  ASSUME MemInv, UNCHANGED <<pools, arcs, bufs, queue, fds, maps, made>>
  PROVE  MemInv'
BY DEF MemInv, MemTypes, MemRefs, ResourcesOwned, LiveBufs, LiveArcs, Users

LEMMA MemFormatStep ==
  ASSUME FormatStep
  PROVE  UNCHANGED <<pools, arcs, bufs, queue, fds, maps, made>>
BY DEF FormatStep, OnShmFormat, OnDmabufFormat, ShmGlobal, ShmGlobalRemove, DmabufGlobal,
       DmabufGlobalRemove, BindShm, OnShmRelease, hostVars, memVars

LEMMA MemCreatePool ==
  ASSUME MemInv, GlobalInv, NEW s \in ShmIds, NEW p \in PoolIds, NEW size \in Sizes,
         NEW file \in Sizes, NEW kernel \in BOOLEAN, OnCreatePool(s, p, size, file, kernel)
  PROVE  MemInv'
<1>. DEFINE a == [size |-> size, gen |-> shmGen[s]]
            new == Len(arcs) + 1
<1>1. UNCHANGED <<bufs, queue, made>>
  BY DEF OnCreatePool, hostVars
<1>2. CASE UNCHANGED <<pools, arcs, fds, maps>>
  BY <1>1, <1>2, MemQuiet
<1>3. CASE ~UNCHANGED <<pools, arcs, fds, maps>>
  <2>1. /\ s \in DOMAIN told \ staleShm /\ pools[p] = 0
        /\ arcs' = Append(arcs, a) /\ pools' = [pools EXCEPT ![p] = Len(arcs')]
        /\ fds' = fds \cup {PoolMem(Len(arcs'))} /\ maps' = maps \cup {PoolMem(Len(arcs'))}
    BY <1>3 DEF OnCreatePool, Error, memVars
  <2>2. a \in [size : Nat, gen : Nat]
    BY <2>1, ShmAssumption DEF GlobalInv
  <2>3. /\ arcs' \in Seq([size : Nat, gen : Nat]) /\ Len(arcs') = new
        /\ \A i \in 1..Len(arcs) : arcs'[i] = arcs[i]
        /\ Len(arcs) \in Nat
    BY <2>1, <2>2, AppendProperties, LenProperties DEF MemInv, MemTypes
  <2>. HIDE DEF a
  <2>4. MemTypes'
    BY <1>1, <2>1, <2>3 DEF MemInv, MemTypes
  <2>5. LiveBufs' = LiveBufs
    BY <1>1 DEF LiveBufs
  <2>6. MemRefs'
    BY <1>1, <2>1, <2>3, <2>5 DEF MemInv, MemTypes, MemRefs
  <2>7. \A c \in 1..Len(arcs) : Users(c, pools', bufs') = Users(c, pools, bufs)
    BY <1>1, <2>1, <2>3 DEF Users, MemInv, MemTypes
  <2>8. Users(new, pools', bufs') # {}
    BY <2>1, <2>3 DEF Users, MemInv, MemTypes
  <2>9. LiveArcs' = LiveArcs \cup {new}
    BY <2>3, <2>7, <2>8 DEF LiveArcs
  <2>10. ResourcesOwned'
    BY <1>1, <2>1, <2>3, <2>5, <2>9 DEF ResourcesOwned, MemInv, MemRefs
  <2>. QED
    BY <2>4, <2>6, <2>10 DEF MemInv
<1>. QED
  BY <1>2, <1>3

LEMMA MemResize ==
  ASSUME MemInv, NEW p \in PoolIds, NEW size \in Sizes, NEW file \in Sizes,
         NEW kernel \in BOOLEAN, OnResize(p, size, file, kernel)
  PROVE  MemInv'
<1>1. UNCHANGED <<pools, bufs, queue, fds, maps, made>>
  BY DEF OnResize, hostVars, memVars
<1>2. CASE UNCHANGED arcs
  BY <1>1, <1>2, MemQuiet
<1>3. CASE ~UNCHANGED arcs
  <2>1. /\ arcs' = [arcs EXCEPT ![pools[p]].size = size] /\ pools[p] # 0
        /\ size > arcs[pools[p]].size
    BY <1>3 DEF OnResize, Error, valid_pool_resize
  <2>2. pools[p] \in 1..Len(arcs) /\ size \in Nat
    BY <2>1, ShmAssumption DEF MemInv, MemTypes, MemRefs
  <2>3. /\ arcs' \in Seq([size : Nat, gen : Nat]) /\ Len(arcs') = Len(arcs)
        /\ arcs'[pools[p]].size = size
        /\ \A i \in 1..Len(arcs) : i # pools[p] => arcs'[i] = arcs[i]
    <3>1. arcs \in Seq([size : Nat, gen : Nat])
      BY DEF MemInv, MemTypes
    <3>2. arcs' = [arcs EXCEPT ![pools[p]].size = size]
      BY <2>1
    <3>. QED
      BY <2>2, <3>1, <3>2, ResizedArcs, Zenon
  <2>4. \A i \in 1..Len(arcs) : arcs[i].size \in Nat /\ arcs'[i].size \in Nat
                                  /\ arcs[i].size =< arcs'[i].size
    <3>1. \A i \in 1..Len(arcs) : arcs[i] \in [size : Nat, gen : Nat]
      BY ElementOfSeq DEF MemInv, MemTypes
    <3>. QED
      BY <2>1, <2>2, <2>3, <3>1
  <2>5. MemTypes' /\ LiveBufs' = LiveBufs /\ LiveArcs' = LiveArcs
    BY <1>1, <2>3 DEF MemInv, MemTypes, LiveBufs, LiveArcs, Users
  <2>6. MemRefs'
    BY <1>1, <2>3, <2>5 DEF MemInv, MemRefs
  <2>7. ASSUME NEW b \in LiveBufs PROVE bufs[b].end <= arcs'[bufs[b].arc].size
    <3>1. bufs[b].end \in Nat /\ bufs[b].arc \in 1..Len(arcs)
            /\ bufs[b].end <= arcs[bufs[b].arc].size
      BY DEF MemInv, MemTypes, MemRefs, ResourcesOwned, LiveBufs, BufferState
    <3>. QED
      BY <2>4, <3>1
  <2>8. ResourcesOwned'
    BY <1>1, <2>5, <2>7 DEF ResourcesOwned, MemInv
  <2>. QED
    BY <2>5, <2>6, <2>8 DEF MemInv
<1>. QED
  BY <1>2, <1>3

LEMMA MemDestroyPool ==
  ASSUME MemInv, NEW p \in PoolIds, OnDestroyPool(p)
  PROVE  MemInv'
<1>1. /\ UNCHANGED <<arcs, bufs, queue, made>> /\ pools' = [pools EXCEPT ![p] = 0]
      /\ fds' = DropPools(fds, pools', bufs) /\ maps' = DropPools(maps, pools', bufs)
  BY DEF OnDestroyPool, hostVars
<1>2. MemTypes' /\ LiveBufs' = LiveBufs
  BY <1>1 DEF MemInv, MemTypes, LiveBufs
<1>3. MemRefs'
  BY <1>1, <1>2 DEF MemInv, MemTypes, MemRefs
<1>4. \A a \in 1..Len(arcs) : Users(a, pools', bufs) # {} => Users(a, pools, bufs) # {}
  BY <1>1 DEF MemInv, MemTypes, Users
<1>5. LiveArcs' = {c \in 1..Len(arcs) : Users(c, pools', bufs) # {}}
  BY <1>1 DEF LiveArcs
<1>6. /\ fds' = {PoolMem(a) : a \in LiveArcs'}
                  \cup ({Storage(bufs[b].storage) : b \in LiveBufs} \cup QueuedFds(queue))
      /\ maps' = {PoolMem(a) : a \in LiveArcs'}
                  \cup {Storage(bufs[b].storage) : b \in {c \in LiveBufs : bufs[c].mapped}}
  <2>1. /\ fds' = PoolMemAfter(pools', bufs) \cup OpenStorage \cup QueuedFds(queue)
        /\ maps' = PoolMemAfter(pools', bufs) \cup MappedStorage
    BY <1>1, <1>4, MemDrop
  <2>2. PoolMemAfter(pools', bufs) = {PoolMem(a) : a \in LiveArcs'}
    BY <1>5 DEF PoolMemAfter
  <2>. QED
    BY <2>1, <2>2 DEF OpenStorage, MappedStorage
<1>7. ASSUME NEW b \in LiveBufs PROVE PoolMem(bufs[b].arc) \in maps'
  BY <1>1, <1>5, <1>6 DEF MemInv, MemRefs, Users, LiveBufs
<1>8. ResourcesOwned'
  BY <1>1, <1>2, <1>6, <1>7 DEF MemInv, ResourcesOwned
<1>. QED
  BY <1>2, <1>3, <1>8 DEF MemInv

\* More requests of a new storage number keep the stream in order.
LEMMA MemSend ==
  ASSUME MemInv, NEW reqs, Requests(reqs, {made + 1})
  PROVE  /\ Requests(queue \o reqs, 1..made + 1)
         /\ QueuedFds(queue \o reqs) = QueuedFds(queue) \cup QueuedFds(reqs)
<1>1. Requests(queue, 1..made) /\ made \in Nat
  BY DEF MemInv, MemRefs, MemTypes
<1>2. QueuedFds(queue) \cap QueuedFds(reqs) = {}
  <2>1. ASSUME NEW x \in QueuedFds(queue), x \in QueuedFds(reqs) PROVE FALSE
    <3>1. PICK n \in 1..made, i \in {1, 2} : x = Sent(n, i)
      BY <1>1 DEF Requests, SentBy
    <3>2. PICK j \in {1, 2} : x = Sent(made + 1, j)
      BY <2>1 DEF Requests, SentBy
    <3>3. n = made + 1
      BY <3>1, <3>2 DEF Sent
    <3>. QED
      BY <1>1, <3>3
  <2>. QED
    BY <2>1
<1>3. (1..made) \cup {made + 1} = 1..made + 1
  BY <1>1
<1>4. /\ Requests(queue \o reqs, (1..made) \cup {made + 1})
      /\ QueuedFds(queue \o reqs) = QueuedFds(queue) \cup QueuedFds(reqs)
  BY <1>1, <1>2, ConcatRequests
<1>. QED
  BY <1>3, <1>4

LEMMA MemDirectFails ==
  ASSUME MemInv, NEW p \in PoolIds, NEW b \in BufIds, NEW f \in Formats, NEW end \in Sizes,
         NEW temp \in HostIds, NEW buf \in HostIds, NEW alloc, NEW k \in 1..Planes(f),
         OnCreateBufferDirectFails(p, b, f, end, temp, buf, alloc, k)
  PROVE  MemInv'
<1>. DEFINE remains == DirectRemains(DirectRequests(temp, buf, made + 1, f), k)
<1>1. /\ queue' = queue \o remains /\ fds' = fds \cup QueuedFds(remains)
      /\ made' = made + 1 /\ UNCHANGED <<pools, arcs, bufs, maps>>
  BY DEF OnCreateBufferDirectFails
<1>2. made \in Nat /\ made + 1 \in Nat
  BY DEF MemInv, MemTypes
<1>3. Requests(remains, {made + 1})
  BY <1>2, DirectRemainsSent
<1>. HIDE DEF remains
<1>4. /\ Requests(queue', 1..made')
      /\ QueuedFds(queue') = QueuedFds(queue) \cup QueuedFds(remains)
  BY <1>1, <1>3, MemSend
<1>5. MemTypes' /\ LiveBufs' = LiveBufs /\ LiveArcs' = LiveArcs
  BY <1>1, <1>2 DEF MemInv, MemTypes, LiveBufs, LiveArcs, Users
<1>6. MemRefs'
  BY <1>1, <1>2, <1>4, <1>5 DEF MemInv, MemRefs
<1>7. ResourcesOwned'
  BY <1>1, <1>4, <1>5 DEF MemInv, ResourcesOwned
<1>. QED
  BY <1>5, <1>6, <1>7 DEF MemInv

LEMMA MemCreateBuffer ==
  ASSUME MemInv, NEW p \in PoolIds, NEW b \in BufIds, NEW f \in Formats, NEW end \in Sizes,
         NEW temp \in HostIds, NEW buf \in HostIds, NEW alloc,
         OnCreateBuffer(p, b, f, end, temp, buf, alloc)
  PROVE  MemInv'
<1>. DEFINE n == made + 1
            reqs == IF Direct(alloc) THEN DirectRequests(temp, buf, n, f)
                    ELSE ShmRequests(temp, buf, n)
            new == Buffer(p, end, buf, n, f, alloc)
<1>1. /\ bufs[b] = None /\ pools[p] # 0 /\ end <= arcs[pools[p]].size
      /\ queue' = queue \o reqs /\ fds' = fds \cup QueuedFds(reqs) \cup {Storage(n)}
      /\ maps' = maps \cup (IF Mapped(alloc, f) THEN {Storage(n)} ELSE {})
      /\ bufs' = [bufs EXCEPT ![b] = new]
      /\ made' = n /\ UNCHANGED <<pools, arcs>>
  BY DEF OnCreateBuffer, Asked, ValidBuffer
<1>2. made \in Nat /\ n \in Nat /\ end \in Nat
  BY ShmAssumption DEF MemInv, MemTypes
<1>3. Requests(reqs, {n})
  BY <1>2, DirectRequestsSent, ShmRequestsSent
<1>. HIDE DEF reqs
<1>4. /\ Requests(queue', 1..made')
      /\ QueuedFds(queue') = QueuedFds(queue) \cup QueuedFds(reqs)
  BY <1>1, <1>3, MemSend
<1>5. /\ pools[p] \in 1..Len(arcs) /\ Mapped(alloc, f) \in BOOLEAN /\ buf \in Ids
  BY <1>1 DEF MemInv, MemTypes, MemRefs, Mapped, Ids
<1>6. /\ new \in BufferState /\ new.live /\ new.storage = n /\ new.arc = pools[p]
      /\ new.end = end /\ new.mapped = Mapped(alloc, f)
  BY <1>2, <1>5 DEF Buffer, BufferState
<1>. HIDE DEF new
<1>7. MemTypes'
  BY <1>1, <1>2, <1>6 DEF MemInv, MemTypes
<1>8. /\ b \notin LiveBufs /\ bufs'[b] = new
      /\ \A c \in LiveBufs : c # b /\ bufs'[c] = bufs[c]
  BY <1>1, LiveEntries DEF MemInv, MemTypes, LiveBufs
<1>9. LiveBufs' = LiveBufs \cup {b}
  <2>1. LiveBufs' = {c \in BufIds : bufs'[c].live}
    BY LiveEntries
  <2>2. LiveBufs = {c \in BufIds : bufs[c].live}
    BY LiveEntries
  <2>3. \A c \in BufIds : c # b => bufs'[c] = bufs[c]
    BY <1>1 DEF MemInv, MemTypes
  <2>. QED
    BY <1>6, <1>8, <2>1, <2>2, <2>3
<1>10. MemRefs'
  <2>1. /\ \A c \in LiveBufs : bufs[c].arc \in 1..Len(arcs) /\ bufs[c].storage \in 1..made
        /\ \A c, d \in LiveBufs : bufs[c].storage = bufs[d].storage => c = d
        /\ \A q \in PoolIds : pools[q] =< Len(arcs)
    BY DEF MemInv, MemRefs
  <2>2. \A c \in LiveBufs' : bufs'[c].arc \in 1..Len(arcs) /\ bufs'[c].storage \in 1..n
    BY <1>2, <1>5, <1>6, <1>8, <1>9, <2>1
  <2>3. \A c, d \in LiveBufs' : bufs'[c].storage = bufs'[d].storage => c = d
    BY <1>2, <1>6, <1>8, <1>9, <2>1
  <2>. QED
    BY <1>1, <1>4, <2>1, <2>2, <2>3 DEF MemRefs
<1>11. LiveArcs' = LiveArcs
  <2>1. ASSUME NEW a \in 1..Len(arcs)
        PROVE  Users(a, pools, bufs') # {} <=> Users(a, pools, bufs) # {}
    <3>1. Users(pools[p], pools, bufs) # {} /\ Users(pools[p], pools, bufs') # {}
      BY DEF Users
    <3>2. a # pools[p] => Users(a, pools, bufs') = Users(a, pools, bufs)
      BY <1>1, <1>6, <1>8 DEF Users, MemInv, MemTypes
    <3>. QED
      BY <3>1, <3>2
  <2>. QED
    BY <1>1, <2>1 DEF LiveArcs
<1>12. PoolMem(pools[p]) \in maps
  <2>1. pools[p] \in LiveArcs
    BY <1>5 DEF LiveArcs, Users
  <2>. QED
    BY <2>1 DEF MemInv, ResourcesOwned
<1>13. \A c \in LiveBufs' : PoolMem(bufs'[c].arc) \in maps'
                             /\ bufs'[c].end <= arcs'[bufs'[c].arc].size
  BY <1>1, <1>6, <1>8, <1>9, <1>12 DEF MemInv, ResourcesOwned
<1>14. {Storage(bufs'[c].storage) : c \in LiveBufs'}
         = {Storage(bufs[c].storage) : c \in LiveBufs} \cup {Storage(n)}
  BY <1>6, <1>8, <1>9
<1>15. {Storage(bufs'[c].storage) : c \in {d \in LiveBufs' : bufs'[d].mapped}}
         = {Storage(bufs[c].storage) : c \in {d \in LiveBufs : bufs[d].mapped}}
             \cup (IF Mapped(alloc, f) THEN {Storage(n)} ELSE {})
  BY <1>6, <1>8, <1>9
<1>16. ResourcesOwned'
  BY <1>1, <1>4, <1>11, <1>13, <1>14, <1>15 DEF MemInv, ResourcesOwned
<1>. QED
  BY <1>7, <1>10, <1>16 DEF MemInv

LEMMA MemDestroyBuffer ==
  ASSUME MemInv, NEW b \in BufIds, OnDestroyBuffer(b)
  PROVE  MemInv'
<1>. DEFINE req == Msg("destroy", bufs[b].host, bufs[b].host, bufs[b].storage, {})
            gone == Storage(bufs[b].storage)
<1>1. /\ bufs[b] # None /\ bufs[b].live /\ bufs' = [bufs EXCEPT ![b].live = FALSE]
      /\ queue' = Append(queue, req)
      /\ fds' = DropPools(fds, pools, bufs') \ {gone}
      /\ maps' = DropPools(maps, pools, bufs') \ {gone}
      /\ UNCHANGED <<pools, arcs, made>>
  BY DEF OnDestroyBuffer
<1>2. /\ bufs' \in [BufIds -> BufferState]
      /\ ~bufs'[b].live /\ \A c \in BufIds : c # b => bufs'[c] = bufs[c]
  BY <1>1 DEF MemInv, MemTypes, BufferState
<1>3. MemTypes'
  BY <1>1, <1>2 DEF MemInv, MemTypes
<1>4. LiveBufs' = LiveBufs \ {b} /\ b \in LiveBufs
  <2>1. LiveBufs' = {c \in BufIds : bufs'[c].live}
    BY LiveEntries
  <2>2. LiveBufs = {c \in BufIds : bufs[c].live}
    BY LiveEntries
  <2>. QED
    BY <1>1, <1>2, <2>1, <2>2
<1>5. Requests(queue', 1..made) /\ QueuedFds(queue') = QueuedFds(queue)
  <2>1. req \in Message /\ req.fds = {}
    BY MsgType, InTargets DEF MemInv, MemTypes, BufferState
  <2>2. queue \in Seq(Message) /\ queue' = queue \o <<req>>
    BY <1>1, AppendIsConcat DEF MemInv, MemRefs, Requests
  <2>. HIDE DEF req
  <2>3. <<req>> \in Seq(Message) /\ \A i \in 1..Len(<<req>>) : <<req>>[i].fds = {}
    BY <2>1
  <2>4. Requests(<<req>>, 1..made) /\ QueuedFds(<<req>>) = {}
    BY <2>3, BareRequests
  <2>5. /\ Requests(queue \o <<req>>, (1..made) \cup (1..made))
        /\ QueuedFds(queue \o <<req>>) = QueuedFds(queue) \cup QueuedFds(<<req>>)
    BY <2>4, ConcatRequests DEF MemInv, MemRefs
  <2>. QED
    BY <2>2, <2>4, <2>5
<1>6. MemRefs'
  BY <1>1, <1>2, <1>4, <1>5 DEF MemInv, MemRefs, LiveBufs
<1>7. \A a : Users(a, pools, bufs') \subseteq Users(a, pools, bufs)
  <2>1. \A c \in BufIds : bufs'[c] # None /\ bufs'[c].live => bufs'[c] = bufs[c]
    BY <1>2
  <2>. QED
    BY <2>1 DEF Users
<1>8. LiveArcs' = {c \in 1..Len(arcs) : Users(c, pools, bufs') # {}}
  BY <1>1 DEF LiveArcs
<1>. DEFINE used == PoolMemAfter(pools, bufs')
<1>9. /\ DropPools(fds, pools, bufs') = used \cup OpenStorage \cup QueuedFds(queue)
      /\ DropPools(maps, pools, bufs') = used \cup MappedStorage
  BY <1>7, MemDrop
<1>10. OpenStorage' = OpenStorage \ {gone}
  BY <1>2, <1>4, OpenKinds DEF MemInv, MemRefs, LiveBufs, OpenStorage
<1>11. MappedStorage' = MappedStorage \ {gone}
  BY <1>2, <1>4, OpenKinds DEF MemInv, MemRefs, LiveBufs, MappedStorage
<1>12. gone \notin used /\ gone \notin QueuedFds(queue)
  BY OpenKinds, StorageIsNotPool DEF MemInv, PoolMemAfter
<1>13. used = {PoolMem(a) : a \in LiveArcs'}
  BY <1>8 DEF PoolMemAfter
<1>. HIDE DEF used, gone
<1>14. fds' = used \cup OpenStorage' \cup QueuedFds(queue)
  BY <1>1, <1>9, <1>10, <1>12
<1>15. maps' = used \cup MappedStorage'
  BY <1>1, <1>9, <1>11, <1>12
<1>16. ASSUME NEW c \in LiveBufs'
       PROVE  PoolMem(bufs'[c].arc) \in maps' /\ bufs'[c].end <= arcs[bufs'[c].arc].size
  <2>1. c \in LiveBufs /\ c # b /\ bufs'[c] = bufs[c] /\ c \in BufIds
    BY <1>2, <1>4 DEF LiveBufs
  <2>2. bufs'[c].arc \in 1..Len(arcs) /\ Users(bufs'[c].arc, pools, bufs') # {}
    BY <2>1 DEF MemInv, MemRefs, Users, LiveBufs
  <2>. QED
    BY <1>15, <2>1, <2>2 DEF used, MemInv, ResourcesOwned, PoolMemAfter
<1>17. ResourcesOwned'
  BY <1>1, <1>5, <1>13, <1>14, <1>15, <1>16
  DEF ResourcesOwned, OpenStorage, MappedStorage
<1>. QED
  BY <1>3, <1>6, <1>17, <1>1 DEF MemInv

LEMMA MemDeleteId ==
  ASSUME MemInv, NEW h, OnDeleteId(h)
  PROVE  MemInv'
<1>1. /\ bufs' = [b \in BufIds |-> IF bufs[b] # None /\ ~bufs[b].live /\ bufs[b].host = h
                                   THEN None ELSE bufs[b]]
      /\ UNCHANGED <<pools, arcs, queue, fds, maps, made>>
  BY DEF OnDeleteId, memVars
<1>2. MemTypes'
  BY <1>1, NoneNotLive DEF MemInv, MemTypes
<1>3. LiveBufs' = LiveBufs /\ \A b \in LiveBufs : bufs'[b] = bufs[b]
  BY <1>1, NoneNotLive DEF LiveBufs
<1>4. \A b \in BufIds : bufs'[b] # None /\ bufs'[b].live <=> bufs[b] # None /\ bufs[b].live
  BY <1>3 DEF LiveBufs
<1>5. \A a : Users(a, pools, bufs') = Users(a, pools, bufs)
  BY <1>3, <1>4 DEF Users, LiveBufs
<1>6. LiveArcs' = LiveArcs
  BY <1>1, <1>5 DEF LiveArcs
<1>7. MemRefs'
  BY <1>1, <1>3 DEF MemInv, MemRefs
<1>8. ResourcesOwned'
  BY <1>1, <1>3, <1>6 DEF MemInv, ResourcesOwned
<1>. QED
  BY <1>2, <1>7, <1>8 DEF MemInv

\* What the host received carries none of the descriptors still queued.
LEMMA TailRequests ==
  ASSUME NEW q, NEW N, Requests(q, N), q # <<>>
  PROVE  /\ Requests(Tail(q), N)
         /\ QueuedFds(Tail(q)) = QueuedFds(q) \ Head(q).fds
         /\ \A x \in Head(q).fds : x \in SentBy(N)
<1>. DEFINE t == Tail(q)
<1>1. /\ q \in Seq(Message) /\ Len(q) \in Nat /\ Len(q) # 0 /\ Head(q) = q[1]
  BY LenProperties, EmptySeq DEF Requests
<1>2. /\ t \in Seq(Message) /\ Len(t) = Len(q) - 1
      /\ \A i \in 1..Len(t) : t[i] = q[i + 1]
  BY <1>1, HeadTailProperties
<1>. HIDE DEF t
<1>3. \A i \in 1..Len(t) : i + 1 \in 1..Len(q) /\ i + 1 # 1 /\ t[i] = q[i + 1]
  BY <1>1, <1>2
<1>4. \A i \in 1..Len(q) : i # 1 => i - 1 \in 1..Len(t) /\ t[i - 1] = q[i]
  BY <1>1, <1>2
<1>5. 1 \in 1..Len(q)
  BY <1>1
<1>6. ASSUME NEW x \in QueuedFds(t) PROVE x \in QueuedFds(q) /\ x \notin q[1].fds
  <2>1. PICK i \in 1..Len(t) : x \in t[i].fds
    BY <1>2, InQueue
  <2>2. i + 1 \in 1..Len(q) /\ i + 1 # 1 /\ x \in q[i + 1].fds
    BY <1>3, <2>1
  <2>3. x \in QueuedFds(q)
    BY <1>1, <2>2, InQueue
  <2>4. q[i + 1].fds \cap q[1].fds = {}
    BY <1>5, <2>2 DEF Requests
  <2>. QED
    BY <2>2, <2>3, <2>4
<1>7. ASSUME NEW x \in QueuedFds(q), x \notin q[1].fds PROVE x \in QueuedFds(t)
  <2>1. PICK i \in 1..Len(q) : x \in q[i].fds
    BY <1>1, InQueue
  <2>2. i - 1 \in 1..Len(t) /\ x \in t[i - 1].fds
    BY <1>4, <1>7, <2>1
  <2>. QED
    BY <1>2, <2>2, InQueue
<1>8. QueuedFds(t) = QueuedFds(q) \ q[1].fds
  BY <1>6, <1>7
<1>9. ASSUME NEW i \in 1..Len(t), NEW j \in 1..Len(t), i # j
      PROVE  t[i].fds \cap t[j].fds = {}
  <2>1. i + 1 # j + 1
    BY <1>1, <1>2, <1>9
  <2>. QED
    BY <1>3, <2>1 DEF Requests
<1>10. \A x \in q[1].fds : x \in SentBy(N)
  BY <1>1, <1>5, InQueue DEF Requests
<1>. QED
  BY <1>1, <1>2, <1>8, <1>9, <1>10 DEF Requests, t

LEMMA MemReceive ==
  ASSUME MemInv, HostReceive
  PROVE  MemInv'
<1>1. /\ queue # <<>> /\ queue' = Tail(queue) /\ fds' = fds \ Head(queue).fds
      /\ UNCHANGED <<pools, arcs, bufs, maps, made>>
  BY DEF HostReceive
<1>2. /\ Requests(queue', 1..made) /\ QueuedFds(queue') = QueuedFds(queue) \ Head(queue).fds
      /\ \A x \in Head(queue).fds : x \in SentBy(1..made)
  BY <1>1, TailRequests DEF MemInv, MemRefs
<1>3. \A x \in Head(queue).fds : x[1] = "sent"
  BY <1>2, OpenKinds DEF SentBy
<1>4. MemTypes' /\ LiveBufs' = LiveBufs /\ LiveArcs' = LiveArcs
  BY <1>1 DEF MemInv, MemTypes, LiveBufs, LiveArcs, Users
<1>5. MemRefs'
  BY <1>1, <1>2, <1>4 DEF MemInv, MemRefs
<1>6. fds' = {PoolMem(a) : a \in LiveArcs} \cup {Storage(bufs[b].storage) : b \in LiveBufs}
               \cup QueuedFds(queue')
  BY <1>1, <1>2, <1>3, OpenKinds DEF MemInv, ResourcesOwned
<1>7. ResourcesOwned'
  BY <1>1, <1>4, <1>6 DEF MemInv, ResourcesOwned
<1>. QED
  BY <1>4, <1>5, <1>7 DEF MemInv

LEMMA MemTeardown ==
  ASSUME MemInv, Teardown
  PROVE  MemInv'
<1>. DEFINE gone == {Storage(bufs[b].storage) : b \in {c \in BufIds : bufs[c] # None}}
<1>1. /\ pools' = [p \in PoolIds |-> 0] /\ bufs' = [b \in BufIds |-> None]
      /\ fds' = (DropPools(fds, pools', bufs') \ QueuedFds(queue)) \ gone
      /\ maps' = DropPools(maps, pools', bufs') \ gone
      /\ queue' = <<>> /\ UNCHANGED <<arcs, made>>
  BY DEF Teardown
<1>2. MemTypes'
  BY <1>1, NoneNotLive DEF MemInv, MemTypes
<1>3. LiveBufs' = {}
  BY <1>1 DEF LiveBufs
<1>4. \A a \in 1..Len(arcs) : Users(a, pools', bufs') = {}
  BY <1>1 DEF Users
<1>5. LiveArcs' = {} /\ PoolMemAfter(pools', bufs') = {}
  BY <1>1, <1>4 DEF LiveArcs, PoolMemAfter
<1>6. Requests(<<>>, 1..made) /\ QueuedFds(<<>>) = {}
  <2>1. <<>> \in Seq(Message) /\ \A i \in 1..Len(<<>>) : <<>>[i].fds = {}
    BY EmptySeq
  <2>. QED
    BY <2>1, BareRequests
<1>7. MemRefs'
  BY <1>1, <1>3, <1>6 DEF MemRefs, MemInv, MemTypes
<1>8. /\ DropPools(fds, pools', bufs') = {} \cup OpenStorage \cup QueuedFds(queue)
      /\ DropPools(maps, pools', bufs') = {} \cup MappedStorage
  BY <1>4, <1>5, MemDrop
<1>9. OpenStorage \subseteq gone /\ MappedStorage \subseteq gone
  BY DEF OpenStorage, MappedStorage, LiveBufs
<1>10. fds' = {} /\ maps' = {}
  BY <1>1, <1>8, <1>9
<1>11. ResourcesOwned'
  BY <1>1, <1>3, <1>5, <1>6, <1>10 DEF ResourcesOwned
<1>. QED
  BY <1>2, <1>7, <1>11 DEF MemInv

LEMMA MemNext == MemInv /\ GlobalInv /\ [Next]_vars => MemInv'
<1>. SUFFICES ASSUME MemInv, GlobalInv, [Next]_vars PROVE MemInv'
  OBVIOUS
<1>1. CASE FormatStep
  BY <1>1, MemFormatStep, MemQuiet
<1>2. CASE PoolStep
  BY <1>2, MemCreatePool, MemResize, MemDestroyPool DEF PoolStep
<1>3. CASE BufferStep
  BY <1>3, MemDirectFails, MemCreateBuffer, MemDestroyBuffer, MemDeleteId DEF BufferStep
<1>4. CASE UNCHANGED <<cfg, formatVars, pools, stalePools, arcs, bufs, reserved,
                       hostVars, memVars, made>>
  BY <1>4, MemQuiet DEF hostVars, memVars
<1>. QED
  BY <1>1, <1>2, <1>3, <1>4, MemReceive, MemTeardown, StepKinds

LEMMA MemInit == Init => MemInv /\ GlobalInv
<1>. SUFFICES ASSUME Init PROVE MemInv /\ GlobalInv
  OBVIOUS
<1>1. GlobalInv
  BY EmptySeq DEF Init, GlobalInv
<1>2. LiveBufs = {} /\ LiveArcs = {}
  BY EmptySeq DEF Init, LiveBufs, LiveArcs
<1>3. Requests(<<>>, 1..0) /\ QueuedFds(<<>>) = {}
  <2>1. <<>> \in Seq(Message) /\ \A i \in 1..Len(<<>>) : <<>>[i].fds = {}
    BY EmptySeq
  <2>. QED
    BY <2>1, BareRequests
<1>4. MemTypes
  BY EmptySeq, NoneNotLive DEF Init, MemTypes
<1>5. MemRefs
  BY <1>2, <1>3, EmptySeq DEF Init, MemRefs
<1>6. ResourcesOwned
  BY <1>2, <1>3 DEF Init, ResourcesOwned
<1>. QED
  BY <1>1, <1>4, <1>5, <1>6 DEF MemInv

\* A live buffer stays inside the mapping of its pool, and every descriptor and
\* mapping the proxy has open belongs to a pool, a buffer or a queued request,
\* after any sequence of requests, failures, removals and acknowledgements.
THEOREM ResourcesAreOwned == Spec => []ResourcesOwned
<1>1. Init => MemInv /\ GlobalInv
  BY MemInit
<1>2. MemInv => ResourcesOwned
  BY DEF MemInv
<1>. QED
  BY <1>1, <1>2, MemNext, GlobalNext, PTL DEF Spec

-----------------------------------------------------------------------------
(* The host's objects follow the buffers                                   *)

\* The IDs requests name, those with one operation, and that nothing follows a
\* destructor.
Named(q) == {q[i].id : i \in 1..Len(q)}
With(q, op) == {q[i].id : i \in {j \in 1..Len(q) : q[j].op = op}}
EndsOnce(q) ==
  \A i, j \in 1..Len(q) : q[i].op = "destroy" /\ q[i].id = q[j].id => j <= i

Owned(q) == (host \cup With(q, "create")) \ With(q, "destroy")

HostInv ==
  life # "closed" =>
    /\ EndsOnce(queue)
    /\ deleting \cap (host \cup Named(queue)) = {}
    /\ \A b, c \in LiveBufs : bufs[b].host = bufs[c].host => b = c
    /\ {bufs[b].host : b \in LiveBufs} = Owned(queue)
    /\ host \cup deleting \cup Named(queue) \subseteq reserved

LEMMA WithNamed == ASSUME NEW q, NEW op PROVE With(q, op) \subseteq Named(q)
BY DEF With, Named

LEMMA OwnedMeaning ==
  ASSUME MemInv, EndsOnce(queue)
  PROVE  /\ AfterQueue = Owned(queue)
         /\ Named(queue) = {queue[i].id : i \in DOMAIN queue}
<1>1. DOMAIN queue = 1..Len(queue) /\ Len(queue) \in Nat
  BY InQueue DEF MemInv, MemRefs, Requests
<1>2. \A id : Ended(id, 0) <=> id \in With(queue, "destroy")
  BY <1>1 DEF Ended, With
<1>3. ASSUME NEW i \in 1..Len(queue), queue[i].op = "create"
      PROVE  Ended(queue[i].id, i) <=> queue[i].id \in With(queue, "destroy")
  <2>1. ASSUME NEW j \in 1..Len(queue), queue[j].op = "destroy", queue[j].id = queue[i].id
        PROVE  j > i
    BY <1>1, <1>3, <2>1 DEF EndsOnce
  <2>. QED
    BY <1>1, <2>1 DEF Ended, With
<1>4. {queue[i].id : i \in {j \in DOMAIN queue : queue[j].op = "create"
                                              /\ ~Ended(queue[j].id, j)}}
        = With(queue, "create") \ With(queue, "destroy")
  BY <1>1, <1>3 DEF With
<1>. QED
  BY <1>1, <1>2, <1>4 DEF AfterQueue, Owned, Named

LEMMA JoinedNames ==
  ASSUME NEW q \in Seq(Message), NEW r \in Seq(Message)
  PROVE  /\ Named(q \o r) = Named(q) \cup Named(r)
         /\ \A op : With(q \o r, op) = With(q, op) \cup With(r, op)
         /\ EndsOnce(q) /\ EndsOnce(r) /\ With(q, "destroy") \cap Named(r) = {}
              => EndsOnce(q \o r)
<1>. DEFINE t == q \o r
            n == Len(q)
<1>1. /\ n \in Nat /\ Len(r) \in Nat /\ Len(t) = n + Len(r)
      /\ \A i \in 1..n + Len(r) : t[i] = IF i <= n THEN q[i] ELSE r[i - n]
  BY JoinedQueues, LenProperties
<1>. HIDE DEF t, n
<1>2. \A i \in 1..n : i \in 1..Len(t) /\ t[i] = q[i]
  BY <1>1
<1>3. \A i \in 1..Len(r) : i + n \in 1..Len(t) /\ t[i + n] = r[i]
  BY <1>1
<1>4. \A i \in 1..Len(t) : \/ i \in 1..n /\ t[i] = q[i]
                           \/ i > n /\ i - n \in 1..Len(r) /\ t[i] = r[i - n]
  BY <1>1
<1>5. 1..Len(q) = 1..n
  BY DEF n
<1>6. ASSUME NEW op PROVE With(t, op) = With(q, op) \cup With(r, op)
  <2>1. ASSUME NEW x \in With(t, op) PROVE x \in With(q, op) \cup With(r, op)
    <3>1. PICK i \in 1..Len(t) : t[i].op = op /\ t[i].id = x
      BY <2>1 DEF With
    <3>2. CASE i \in 1..n /\ t[i] = q[i]
      BY <1>5, <3>1, <3>2 DEF With
    <3>3. CASE i - n \in 1..Len(r) /\ t[i] = r[i - n]
      BY <3>1, <3>3 DEF With
    <3>. QED
      BY <1>4, <3>2, <3>3
  <2>2. ASSUME NEW x \in With(q, op) PROVE x \in With(t, op)
    BY <1>2, <1>5, <2>2 DEF With
  <2>3. ASSUME NEW x \in With(r, op) PROVE x \in With(t, op)
    <3>1. PICK i \in 1..Len(r) : r[i].op = op /\ r[i].id = x
      BY <2>3 DEF With
    <3>2. i + n \in 1..Len(t) /\ t[i + n].op = op /\ t[i + n].id = x
      BY <1>3, <3>1
    <3>. QED
      BY <3>2 DEF With
  <2>. QED
    BY <2>1, <2>2, <2>3
<1>7. Named(t) = Named(q) \cup Named(r)
  <2>1. ASSUME NEW x \in Named(t) PROVE x \in Named(q) \cup Named(r)
    BY <1>4, <1>5, <2>1 DEF Named
  <2>2. ASSUME NEW x \in Named(q) PROVE x \in Named(t)
    BY <1>2, <1>5, <2>2 DEF Named
  <2>3. ASSUME NEW x \in Named(r) PROVE x \in Named(t)
    <3>1. PICK i \in 1..Len(r) : r[i].id = x
      BY <2>3 DEF Named
    <3>2. i + n \in 1..Len(t) /\ t[i + n].id = x
      BY <1>3, <3>1
    <3>. QED
      BY <3>2 DEF Named
  <2>. QED
    BY <2>1, <2>2, <2>3
<1>8. ASSUME EndsOnce(q), EndsOnce(r), With(q, "destroy") \cap Named(r) = {},
             NEW i \in 1..Len(t), NEW j \in 1..Len(t),
             t[i].op = "destroy", t[i].id = t[j].id
      PROVE  j <= i
  <2>1. CASE i \in 1..n /\ t[i] = q[i] /\ j \in 1..n /\ t[j] = q[j]
    BY <1>5, <1>8, <2>1 DEF EndsOnce
  <2>2. CASE i \in 1..n /\ t[i] = q[i] /\ j - n \in 1..Len(r) /\ t[j] = r[j - n]
    <3>1. t[i].id \in With(q, "destroy") /\ t[j].id \in Named(r)
      BY <1>5, <1>8, <2>2 DEF With, Named
    <3>. QED
      BY <1>8, <3>1
  <2>3. CASE i > n /\ j \in 1..n
    BY <1>1, <2>3
  <2>4. CASE /\ i > n /\ i - n \in 1..Len(r) /\ t[i] = r[i - n]
             /\ j > n /\ j - n \in 1..Len(r) /\ t[j] = r[j - n]
    <3>1. j - n <= i - n
      BY <1>8, <2>4 DEF EndsOnce
    <3>. QED
      BY <1>1, <3>1
  <2>. QED
    BY <1>4, <2>1, <2>2, <2>3, <2>4
<1>9. EndsOnce(q) /\ EndsOnce(r) /\ With(q, "destroy") \cap Named(r) = {} => EndsOnce(t)
  BY <1>8 DEF EndsOnce
<1>. QED
  BY <1>6, <1>7, <1>9 DEF t

\* Requests that create temp, perhaps another object, and destroy temp in the end.
Temporary(q, temp, others) ==
  /\ q \in Seq(Message) /\ EndsOnce(q)
  /\ Named(q) \subseteq {temp} \cup others
  /\ others \subseteq With(q, "create") /\ With(q, "create") \subseteq {temp} \cup others
  /\ With(q, "destroy") = {temp}

LEMMA TemporaryNames ==
  ASSUME NEW q, Len(q) \in Nat, NEW temp, NEW others, Len(q) >= 2,
         q[1].op = "create" /\ q[1].id = temp,
         q[Len(q)].op = "destroy" /\ q[Len(q)].id = temp,
         \A i \in 2..Len(q) - 1 :
           \/ q[i].op = "add" /\ q[i].id = temp
           \/ q[i].op = "create" /\ q[i].id \in others
  PROVE  /\ Named(q) \subseteq {temp} \cup others
         /\ With(q, "create") \subseteq {temp} \cup others
         /\ With(q, "destroy") = {temp} /\ EndsOnce(q)
<1>1. 1 \in 1..Len(q) /\ Len(q) \in 1..Len(q)
  OBVIOUS
<1>2. \A i \in 1..Len(q) : i = 1 \/ i = Len(q) \/ i \in 2..Len(q) - 1
  OBVIOUS
<1>3. \A i \in 1..Len(q) : q[i].op = "destroy" => i = Len(q)
  BY <1>2
<1>4. \A i \in 1..Len(q) : q[i].id \in {temp} \cup others
  BY <1>2
<1>5. EndsOnce(q)
  BY <1>3 DEF EndsOnce
<1>6. With(q, "destroy") = {temp}
  BY <1>1, <1>3 DEF With
<1>. QED
  BY <1>4, <1>5, <1>6 DEF Named, With
\* The requests of one creation, by place.
LEMMA DirectRequestsAre ==
  ASSUME NEW params \in HostIds, NEW buf \in HostIds, NEW n \in Nat, NEW f
  PROVE  LET q == DirectRequests(params, buf, n, f)
             k == Planes(f)
         IN  /\ q \in Seq(Message) /\ Len(q) = k + 3
             /\ q[1].op = "create" /\ q[1].id = params
             /\ \A i \in 2..k + 1 : q[i].op = "add" /\ q[i].id = params
             /\ q[k + 2].op = "create" /\ q[k + 2].id = buf
             /\ q[k + 3].op = "destroy" /\ q[k + 3].id = params
<1>. DEFINE k == Planes(f)
            first == <<Msg("create", "dmabuf", params, n, {})>>
            Add(i) == Msg("add", params, params, n, {Sent(n, i)})
            adds == [i \in 1..k |-> Add(i)]
            m1 == Msg("create", params, buf, n, {})
            m2 == Msg("destroy", params, params, n, {})
            last == <<m1, m2>>
            front == first \o adds
            q == front \o last
<1>1. k \in {1, 2}
  BY DEF Planes
<1>2. q = DirectRequests(params, buf, n, f)
  BY DEF DirectRequests
<1>3. \A i \in {1, 2} : {Sent(n, i)} \in SUBSET SentBy(Nat)
  BY DEF SentBy
<1>4. ASSUME NEW op \in {"create", "destroy"}, NEW on \in Targets, NEW id \in Ids
      PROVE  Msg(op, on, id, n, {}) \in Message
  BY MsgType
<1>5. \A i \in {1, 2} : Add(i) \in Message /\ Add(i).op = "add" /\ Add(i).id = params
  <2>1. ASSUME NEW i \in {1, 2} PROVE Add(i) \in Message
    BY <1>3, MsgType, InTargets
  <2>. QED
    BY <2>1 DEF Msg
<1>6. /\ first \in Seq(Message) /\ Len(first) = 1
      /\ first[1].op = "create" /\ first[1].id = params
  <2>1. Msg("create", "dmabuf", params, n, {}) \in Message
    BY <1>4, InTargets
  <2>. QED
    BY <2>1 DEF Msg
<1>7. m1 \in Message /\ m2 \in Message
  BY <1>4, InTargets
<1>8. m1.op = "create" /\ m1.id = buf /\ m2.op = "destroy" /\ m2.id = params
  BY DEF Msg
<1>. HIDE DEF Add, m1, m2, first
<1>9. /\ last \in Seq(Message) /\ Len(last) = 2 /\ last[1] = m1 /\ last[2] = m2
  BY <1>7
<1>10. /\ adds \in Seq(Message) /\ Len(adds) = k
       /\ \A i \in 1..k : adds[i].op = "add" /\ adds[i].id = params
  <2>1. \A i \in 1..k : i \in {1, 2}
    BY <1>1
  <2>2. \A i \in 1..k : adds[i] \in Message /\ adds[i] = Add(i)
    BY <1>5, <2>1
  <2>3. k \in Nat
    BY <1>1
  <2>4. adds \in Seq(Message) /\ Len(adds) = k
    BY <2>2, <2>3
  <2>. QED
    BY <1>5, <2>1, <2>2, <2>4
<1>. HIDE DEF adds, last, k
<1>11. /\ front \in Seq(Message) /\ Len(front) = 1 + k
       /\ \A i \in 1..1 + k : front[i] = IF i <= 1 THEN first[i] ELSE adds[i - 1]
  <2>1. Len(first) = 1 /\ Len(adds) = k
    BY <1>6, <1>10
  <2>2. /\ front \in Seq(Message) /\ Len(front) = Len(first) + Len(adds)
        /\ \A i \in 1..Len(first) + Len(adds) :
             front[i] = IF i <= Len(first) THEN first[i] ELSE adds[i - Len(first)]
    BY <1>6, <1>10, JoinedQueues
  <2>. HIDE DEF front
  <2>. QED
    BY <2>1, <2>2
<1>. HIDE DEF front
<1>12. /\ q \in Seq(Message) /\ Len(q) = k + 3
       /\ \A i \in 1..k + 3 : q[i] = IF i <= 1 + k THEN front[i] ELSE last[i - (1 + k)]
  <2>1. /\ q \in Seq(Message) /\ Len(q) = Len(front) + Len(last)
        /\ \A i \in 1..Len(front) + Len(last) :
             q[i] = IF i <= Len(front) THEN front[i] ELSE last[i - Len(front)]
    BY <1>9, <1>11, JoinedQueues
  <2>2. Len(front) = 1 + k /\ Len(front) + Len(last) = k + 3
    BY <1>1, <1>9, <1>11
  <2>. HIDE DEF q
  <2>. QED
    BY <2>1, <2>2
<1>. HIDE DEF q
<1>13. q[1] = first[1]
  BY <1>1, <1>11, <1>12
<1>14. \A i \in 2..k + 1 : q[i].op = "add" /\ q[i].id = params
  <2>1. \A i \in 2..k + 1 : q[i] = adds[i - 1] /\ i - 1 \in 1..k
    BY <1>1, <1>11, <1>12
  <2>. QED
    BY <1>10, <2>1
<1>15. q[k + 2] = m1 /\ q[k + 3] = m2
  <2>1. CASE k = 1
    BY <1>9, <1>12, <2>1
  <2>2. CASE k = 2
    BY <1>9, <1>12, <2>2
  <2>. QED
    BY <1>1, <2>1, <2>2
<1>16. /\ q \in Seq(Message) /\ Len(q) = k + 3
       /\ q[1].op = "create" /\ q[1].id = params
       /\ \A i \in 2..k + 1 : q[i].op = "add" /\ q[i].id = params
       /\ q[k + 2].op = "create" /\ q[k + 2].id = buf
       /\ q[k + 3].op = "destroy" /\ q[k + 3].id = params
  BY <1>6, <1>8, <1>12, <1>13, <1>14, <1>15
<1>. QED
  BY <1>2, <1>16 DEF k

LEMMA DirectNames ==
  ASSUME NEW params \in HostIds, NEW buf \in HostIds, NEW n \in Nat, NEW f
  PROVE  Temporary(DirectRequests(params, buf, n, f), params, {buf})
<1>. DEFINE q == DirectRequests(params, buf, n, f)
            k == Planes(f)
<1>1. /\ q \in Seq(Message) /\ Len(q) = k + 3
      /\ q[1].op = "create" /\ q[1].id = params
      /\ \A i \in 2..k + 1 : q[i].op = "add" /\ q[i].id = params
      /\ q[k + 2].op = "create" /\ q[k + 2].id = buf
      /\ q[k + 3].op = "destroy" /\ q[k + 3].id = params
  BY DirectRequestsAre
<1>2. k \in {1, 2}
  BY DEF Planes
<1>. HIDE DEF q, k
<1>3. \A i \in 2..Len(q) - 1 :
        \/ q[i].op = "add" /\ q[i].id = params
        \/ q[i].op = "create" /\ q[i].id \in {buf}
  <2>1. \A i \in 2..Len(q) - 1 : i \in 2..k + 1 \/ i = k + 2
    BY <1>1, <1>2
  <2>. QED
    BY <1>1, <2>1
<1>4. Len(q) \in Nat /\ Len(q) >= 2 /\ k + 2 \in 1..Len(q)
  BY <1>1, <1>2
<1>5. /\ Named(q) \subseteq {params} \cup {buf} /\ With(q, "destroy") = {params}
      /\ With(q, "create") \subseteq {params} \cup {buf} /\ EndsOnce(q)
  <2>1. q[Len(q)].op = "destroy" /\ q[Len(q)].id = params
    BY <1>1
  <2>. QED
    BY <1>1, <1>3, <1>4, <2>1, TemporaryNames, Zenon
<1>6. buf \in With(q, "create")
  BY <1>1, <1>4 DEF With
<1>7. Temporary(q, params, {buf})
  BY <1>1, <1>5, <1>6 DEF Temporary
<1>. QED
  BY <1>7 DEF q

LEMMA RemainsNames ==
  ASSUME NEW params \in HostIds, NEW buf \in HostIds, NEW n \in Nat, NEW f,
         NEW m \in 1..Planes(f)
  PROVE  Temporary(DirectRemains(DirectRequests(params, buf, n, f), m), params, {})
<1>. DEFINE q == DirectRequests(params, buf, n, f)
            k == Planes(f)
            t == SubSeq(q, 1, m)
            end == <<q[Len(q)]>>
            r == t \o end
<1>1. /\ q \in Seq(Message) /\ Len(q) = k + 3
      /\ q[1].op = "create" /\ q[1].id = params
      /\ \A i \in 2..k + 1 : q[i].op = "add" /\ q[i].id = params
      /\ q[k + 3].op = "destroy" /\ q[k + 3].id = params
  BY DirectRequestsAre
<1>2. k \in {1, 2} /\ m \in 1..k
  BY DEF Planes
<1>3. m # 0 => DirectRemains(q, m) = r
  BY DEF DirectRemains
<1>. HIDE DEF q, k
<1>4. t \in Seq(Message) /\ Len(t) = m /\ \A i \in 1..m : t[i] = q[i]
  <2>1. m \in 1..Len(q)
    BY <1>1, <1>2
  <2>. QED
    BY <1>1, <2>1, SubSeqProperties, ElementOfSeq
<1>5. end \in Seq(Message) /\ Len(end) = 1 /\ end[1] = q[k + 3]
  <2>1. Len(q) \in 1..Len(q) /\ Len(q) = k + 3
    BY <1>1, <1>2
  <2>2. q[Len(q)] \in Message
    BY <1>1, <2>1, ElementOfSeq
  <2>. QED
    BY <2>1, <2>2
<1>. HIDE DEF t, end
<1>6. /\ r \in Seq(Message) /\ Len(r) = m + 1
      /\ \A i \in 1..m : r[i] = q[i]
      /\ r[m + 1] = q[k + 3]
  <2>1. /\ r \in Seq(Message) /\ Len(r) = Len(t) + Len(end)
        /\ \A i \in 1..Len(t) + Len(end) : r[i] = IF i <= Len(t) THEN t[i] ELSE end[i - Len(t)]
    BY <1>4, <1>5, JoinedQueues
  <2>. HIDE DEF r
  <2>. QED
    BY <1>2, <1>4, <1>5, <2>1
<1>. HIDE DEF r
<1>7. \A i \in 2..Len(r) - 1 : r[i].op = "add" /\ r[i].id = params
  <2>1. \A i \in 2..Len(r) - 1 : i \in 2..k + 1 /\ r[i] = q[i]
    BY <1>2, <1>6
  <2>. QED
    BY <1>1, <2>1
<1>8. /\ r[1].op = "create" /\ r[1].id = params
      /\ r[Len(r)].op = "destroy" /\ r[Len(r)].id = params
      /\ Len(r) \in Nat /\ Len(r) >= 2
  BY <1>1, <1>2, <1>6
<1>9. /\ Named(r) \subseteq {params} \cup {} /\ With(r, "destroy") = {params}
      /\ With(r, "create") \subseteq {params} \cup {} /\ EndsOnce(r)
  BY <1>7, <1>8, TemporaryNames
<1>10. Temporary(r, params, {})
  BY <1>6, <1>9 DEF Temporary
<1>. QED
  BY <1>2, <1>3, <1>10 DEF q, k

LEMMA ShmNames ==
  ASSUME NEW pool \in HostIds, NEW buf \in HostIds, NEW n \in Nat
  PROVE  Temporary(ShmRequests(pool, buf, n), pool, {buf})
<1>. DEFINE m == Msg("create", "shm", pool, n, {Sent(n, 1)})
            m1 == Msg("create", pool, buf, n, {})
            m2 == Msg("destroy", pool, pool, n, {})
            q == <<m, m1, m2>>
<1>1. {Sent(n, 1)} \in SUBSET SentBy(Nat)
  BY DEF SentBy
<1>2. m \in Message /\ m1 \in Message /\ m2 \in Message
  BY <1>1, MsgType, InTargets
<1>3. /\ m.op = "create" /\ m.id = pool /\ m1.op = "create" /\ m1.id = buf
      /\ m2.op = "destroy" /\ m2.id = pool
  BY DEF Msg
<1>4. q = ShmRequests(pool, buf, n)
  BY DEF ShmRequests
<1>. HIDE DEF m, m1, m2
<1>5. /\ q \in Seq(Message) /\ Len(q) = 3
      /\ q[1] = m /\ q[2] = m1 /\ q[3] = m2
  BY <1>2
<1>. HIDE DEF q
<1>6. \A i \in 2..Len(q) - 1 :
        \/ q[i].op = "add" /\ q[i].id = pool
        \/ q[i].op = "create" /\ q[i].id \in {buf}
  BY <1>3, <1>5
<1>7. /\ Named(q) \subseteq {pool} \cup {buf} /\ With(q, "destroy") = {pool}
      /\ With(q, "create") \subseteq {pool} \cup {buf} /\ EndsOnce(q)
  <2>1. /\ q[1].op = "create" /\ q[1].id = pool /\ Len(q) \in Nat /\ Len(q) >= 2
        /\ q[Len(q)].op = "destroy" /\ q[Len(q)].id = pool
    BY <1>3, <1>5
  <2>. QED
    BY <1>6, <2>1, TemporaryNames, Zenon
<1>8. buf \in With(q, "create")
  <2>1. 2 \in 1..Len(q) /\ q[2].op = "create" /\ q[2].id = buf
    BY <1>3, <1>5
  <2>. QED
    BY <2>1 DEF With
<1>9. Temporary(q, pool, {buf})
  BY <1>5, <1>7, <1>8 DEF Temporary
<1>. QED
  BY <1>4, <1>9
\* Requests that are about IDs the proxy did not hold, and end what they create
\* except for the buffers in made.
LEMMA HostSend ==
  ASSUME MemInv, HostInv, life # "closed", NEW r \in Seq(Message), EndsOnce(r),
         Named(r) \cap reserved = {}, queue' = queue \o r, UNCHANGED <<host, deleting>>,
         reserved \cup Named(r) \subseteq reserved'
  PROVE  /\ EndsOnce(queue') /\ deleting' \cap (host' \cup Named(queue')) = {}
         /\ Owned(queue)' = Owned(queue) \cup (With(r, "create") \ With(r, "destroy"))
         /\ host' \cup deleting' \cup Named(queue') \subseteq reserved'
         /\ Owned(queue) \subseteq reserved
<1>1. /\ EndsOnce(queue) /\ deleting \cap (host \cup Named(queue)) = {}
      /\ host \cup deleting \cup Named(queue) \subseteq reserved
  BY DEF HostInv
<1>2. queue \in Seq(Message)
  BY DEF MemInv, MemRefs, Requests
<1>3. \A op : With(queue, op) \subseteq Named(queue) /\ With(r, op) \subseteq Named(r)
  BY WithNamed
<1>4. /\ Named(queue') = Named(queue) \cup Named(r)
      /\ \A op : With(queue', op) = With(queue, op) \cup With(r, op)
      /\ EndsOnce(queue')
  <2>1. With(queue, "destroy") \cap Named(r) = {}
    BY <1>1, <1>3
  <2>. QED
    BY <1>1, <1>2, <2>1, JoinedNames
<1>5. Owned(queue)' = Owned(queue) \cup (With(r, "create") \ With(r, "destroy"))
  BY <1>1, <1>3, <1>4 DEF Owned
<1>. QED
  BY <1>1, <1>3, <1>4, <1>5 DEF Owned

LEMMA HostQuiet ==
  ASSUME HostInv, UNCHANGED <<queue, host, deleting, reserved>>, LiveBufs' = LiveBufs,
         \A b \in LiveBufs : bufs'[b] = bufs[b], life = "closed" => life' = "closed"
  PROVE  HostInv'
<1>1. {bufs'[b].host : b \in LiveBufs} = {bufs[b].host : b \in LiveBufs}
  OBVIOUS
<1>. QED
  BY <1>1 DEF HostInv, Owned

LEMMA HostDirectFails ==
  ASSUME MemInv, HostInv, NEW p \in PoolIds, NEW b \in BufIds, NEW f \in Formats,
         NEW end \in Sizes, NEW temp \in HostIds, NEW buf \in HostIds, NEW alloc,
         NEW k \in 1..Planes(f), OnCreateBufferDirectFails(p, b, f, end, temp, buf, alloc, k)
  PROVE  HostInv'
<1>. DEFINE r == DirectRemains(DirectRequests(temp, buf, made + 1, f), k)
<1>1. /\ life = "up" /\ queue' = queue \o r /\ reserved' = reserved \cup {temp}
      /\ temp \notin reserved /\ UNCHANGED <<bufs, host, deleting>>
  BY DEF OnCreateBufferDirectFails, Asked
<1>2. made + 1 \in Nat
  BY DEF MemInv, MemTypes
<1>3. Temporary(r, temp, {})
  BY <1>2, RemainsNames
<1>. HIDE DEF r
<1>4. /\ EndsOnce(queue') /\ deleting' \cap (host' \cup Named(queue')) = {}
      /\ Owned(queue)' = Owned(queue) \cup (With(r, "create") \ With(r, "destroy"))
      /\ host' \cup deleting' \cup Named(queue') \subseteq reserved'
  BY <1>1, <1>3, HostSend DEF Temporary
<1>5. Owned(queue)' = Owned(queue)
  BY <1>3, <1>4 DEF Temporary
<1>6. LiveBufs' = LiveBufs
  BY <1>1 DEF LiveBufs
<1>. QED
  BY <1>1, <1>4, <1>5, <1>6 DEF HostInv

LEMMA HostCreateBuffer ==
  ASSUME MemInv, HostInv, NEW p \in PoolIds, NEW b \in BufIds, NEW f \in Formats,
         NEW end \in Sizes, NEW temp \in HostIds, NEW buf \in HostIds, NEW alloc,
         OnCreateBuffer(p, b, f, end, temp, buf, alloc)
  PROVE  HostInv'
<1>. DEFINE r == IF Direct(alloc) THEN DirectRequests(temp, buf, made + 1, f)
                 ELSE ShmRequests(temp, buf, made + 1)
            new == Buffer(p, end, buf, made + 1, f, alloc)
<1>1. /\ life = "up" /\ queue' = queue \o r /\ reserved' = reserved \cup {temp, buf}
      /\ temp # buf /\ {temp, buf} \cap reserved = {} /\ bufs[b] = None
      /\ bufs' = [bufs EXCEPT ![b] = new] /\ UNCHANGED <<host, deleting>>
  BY DEF OnCreateBuffer, Asked, ReservedBy
<1>2. made + 1 \in Nat /\ bufs \in [BufIds -> BufferState]
  BY DEF MemInv, MemTypes
<1>3. Temporary(r, temp, {buf})
  <2>1. CASE Direct(alloc)
    BY <1>2, <2>1, DirectNames
  <2>2. CASE ~Direct(alloc)
    BY <1>2, <2>2, ShmNames
  <2>. QED
    BY <2>1, <2>2
<1>4. new.host = buf /\ new.live
  BY DEF Buffer
<1>. HIDE DEF r, new
<1>5. /\ EndsOnce(queue') /\ deleting' \cap (host' \cup Named(queue')) = {}
      /\ Owned(queue)' = Owned(queue) \cup (With(r, "create") \ With(r, "destroy"))
      /\ host' \cup deleting' \cup Named(queue') \subseteq reserved'
      /\ Owned(queue) \subseteq reserved
  BY <1>1, <1>3, HostSend DEF Temporary
<1>6. Owned(queue)' = Owned(queue) \cup {buf}
  BY <1>1, <1>3, <1>5 DEF Temporary
<1>7. LiveBufs' = LiveBufs \cup {b} /\ b \notin LiveBufs
  <2>1. bufs'[b] = new /\ \A c \in BufIds : c # b => bufs'[c] = bufs[c]
    BY <1>1, <1>2
  <2>2. LiveBufs = {c \in BufIds : bufs[c].live} /\ LiveBufs' = {c \in BufIds : bufs'[c].live}
    BY LiveEntries
  <2>. QED
    BY <1>1, <1>4, <2>1, <2>2 DEF LiveBufs
<1>8. bufs'[b].host = buf /\ \A c \in LiveBufs : bufs'[c] = bufs[c]
  BY <1>1, <1>2, <1>4, <1>7 DEF LiveBufs
<1>9. \A c \in LiveBufs : bufs[c].host # buf
  <2>1. \A c \in LiveBufs : bufs[c].host \in Owned(queue)
    BY <1>1 DEF HostInv
  <2>. QED
    BY <1>1, <1>5, <2>1
<1>10. \A c, d \in LiveBufs' : bufs'[c].host = bufs'[d].host => c = d
  BY <1>1, <1>7, <1>8, <1>9 DEF HostInv
<1>11. {bufs'[c].host : c \in LiveBufs'} = Owned(queue)'
  <2>1. {bufs'[c].host : c \in LiveBufs'} = {bufs[c].host : c \in LiveBufs} \cup {buf}
    BY <1>7, <1>8
  <2>. QED
    BY <1>1, <1>6, <2>1 DEF HostInv
<1>. QED
  BY <1>5, <1>10, <1>11 DEF HostInv

LEMMA HostDestroyBuffer ==
  ASSUME MemInv, HostInv, NEW b \in BufIds, OnDestroyBuffer(b)
  PROVE  HostInv'
<1>. DEFINE h == bufs[b].host
            m == Msg("destroy", h, h, bufs[b].storage, {})
            r == <<m>>
<1>1. /\ life = "up" /\ b \in LiveBufs /\ bufs' = [bufs EXCEPT ![b].live = FALSE]
      /\ queue' = Append(queue, m) /\ UNCHANGED <<host, deleting, reserved>>
  BY DEF OnDestroyBuffer, LiveBufs
<1>2. queue \in Seq(Message) /\ bufs \in [BufIds -> BufferState]
  BY DEF MemInv, MemTypes, MemRefs, Requests
<1>3. h \in Ids /\ bufs[b].storage \in Nat
  BY <1>2 DEF BufferState
<1>4. m \in Message /\ m.op = "destroy" /\ m.id = h
  <2>1. m \in Message
    BY <1>3, MsgType, InTargets
  <2>. QED
    BY <2>1 DEF Msg
<1>. HIDE DEF m
<1>5. /\ r \in Seq(Message) /\ Len(r) = 1 /\ r[1] = m
  BY <1>4
<1>6. queue' = queue \o r
  BY <1>1, <1>2, <1>4
<1>. HIDE DEF r
<1>7. /\ Named(r) = {h} /\ With(r, "create") = {} /\ With(r, "destroy") = {h} /\ EndsOnce(r)
  BY <1>4, <1>5 DEF Named, With, EndsOnce
<1>8. h \in Owned(queue)
  BY <1>1 DEF HostInv
<1>9. /\ Named(queue') = Named(queue) \cup {h} /\ EndsOnce(queue')
      /\ With(queue', "create") = With(queue, "create")
      /\ With(queue', "destroy") = With(queue, "destroy") \cup {h}
  <2>1. With(queue, "destroy") \cap Named(r) = {}
    BY <1>7, <1>8 DEF Owned
  <2>2. EndsOnce(queue)
    BY <1>1 DEF HostInv
  <2>3. /\ Named(queue \o r) = Named(queue) \cup Named(r)
        /\ \A op : With(queue \o r, op) = With(queue, op) \cup With(r, op)
        /\ EndsOnce(queue \o r)
    BY <1>2, <1>5, <1>7, <2>1, <2>2, JoinedNames
  <2>. QED
    BY <1>6, <1>7, <2>3
<1>10. h \in host \cup Named(queue)
  BY <1>8, WithNamed DEF Owned
<1>11. LiveBufs' = LiveBufs \ {b} /\ \A c \in LiveBufs' : bufs'[c] = bufs[c]
  <2>1. ~bufs'[b].live /\ \A c \in BufIds : c # b => bufs'[c] = bufs[c]
    BY <1>1, <1>2 DEF BufferState
  <2>2. LiveBufs = {c \in BufIds : bufs[c].live} /\ LiveBufs' = {c \in BufIds : bufs'[c].live}
    BY LiveEntries
  <2>. QED
    BY <2>1, <2>2
<1>12. Owned(queue)' = Owned(queue) \ {h}
  BY <1>1, <1>9 DEF Owned
<1>13. {bufs'[c].host : c \in LiveBufs'} = {bufs[c].host : c \in LiveBufs} \ {h}
  <2>1. \A c \in LiveBufs : bufs[c].host = h => c = b
    BY <1>1 DEF HostInv
  <2>. QED
    BY <1>1, <1>11, <2>1
<1>14. {bufs'[c].host : c \in LiveBufs'} = Owned(queue)'
  BY <1>1, <1>12, <1>13 DEF HostInv
<1>15. /\ deleting' \cap (host' \cup Named(queue')) = {}
       /\ host' \cup deleting' \cup Named(queue') \subseteq reserved'
  BY <1>1, <1>9, <1>10 DEF HostInv
<1>16. \A c, d \in LiveBufs' : bufs'[c].host = bufs'[d].host => c = d
  BY <1>1, <1>11 DEF HostInv
<1>. QED
  BY <1>9, <1>14, <1>15, <1>16 DEF HostInv

LEMMA HostDeleteId ==
  ASSUME MemInv, HostInv, NEW h, OnDeleteId(h)
  PROVE  HostInv'
<1>1. /\ life = "up" /\ h \in deleting /\ deleting' = deleting \ {h}
      /\ reserved' = reserved \ {h} /\ UNCHANGED <<queue, host, life>>
      /\ bufs' = [b \in BufIds |-> IF bufs[b] # None /\ ~bufs[b].live /\ bufs[b].host = h
                                   THEN None ELSE bufs[b]]
  BY DEF OnDeleteId
<1>2. LiveBufs' = LiveBufs /\ \A b \in LiveBufs : bufs'[b] = bufs[b]
  BY <1>1, NoneNotLive DEF LiveBufs
<1>3. {bufs'[b].host : b \in LiveBufs'} = {bufs[b].host : b \in LiveBufs}
  BY <1>2
<1>4. /\ EndsOnce(queue) /\ deleting \cap (host \cup Named(queue)) = {}
      /\ host \cup deleting \cup Named(queue) \subseteq reserved
  BY <1>1 DEF HostInv
<1>5. host \cup deleting' \cup Named(queue) \subseteq reserved'
  BY <1>1, <1>4
<1>6. deleting' \cap (host' \cup Named(queue')) = {} /\ Owned(queue)' = Owned(queue)
  BY <1>1, <1>4 DEF Owned
<1>7. \A b, c \in LiveBufs' : bufs'[b].host = bufs'[c].host => b = c
  BY <1>1, <1>2 DEF HostInv
<1>8. {bufs'[b].host : b \in LiveBufs'} = Owned(queue)'
  BY <1>1, <1>3, <1>6 DEF HostInv
<1>9. host' \cup deleting' \cup Named(queue') \subseteq reserved' /\ EndsOnce(queue')
  BY <1>1, <1>4, <1>5
<1>. QED
  BY <1>6, <1>7, <1>8, <1>9 DEF HostInv

\* The host reads the next request: what it will have in the end stays the same.
LEMMA HostReads ==
  ASSUME MemInv, HostInv, HostReceive
  PROVE  HostInv'
<1>. DEFINE m == Head(queue)
<1>1. /\ life # "closed" /\ queue # <<>> /\ queue' = Tail(queue)
      /\ host' = CASE m.op = "create" -> host \cup {m.id}
                   [] m.op = "destroy" -> host \ {m.id}
                   [] OTHER -> host
      /\ deleting' = IF m.op = "destroy" THEN deleting \cup {m.id} ELSE deleting
      /\ UNCHANGED <<bufs, reserved, life>>
  BY DEF HostReceive
<1>2. queue \in Seq(Message) /\ Len(queue) \in Nat /\ Len(queue) # 0 /\ m = queue[1]
  BY <1>1, LenProperties, EmptySeq DEF MemInv, MemRefs, Requests
<1>3. /\ Len(queue') = Len(queue) - 1
      /\ \A i \in 1..Len(queue') : queue'[i] = queue[i + 1]
  BY <1>1, <1>2, HeadTailProperties
<1>. HIDE DEF m
<1>4. \A i \in 1..Len(queue') : i + 1 \in 1..Len(queue) /\ i + 1 # 1 /\ queue'[i] = queue[i + 1]
  BY <1>2, <1>3
<1>5. \A i \in 1..Len(queue) : i = 1 \/ (i - 1 \in 1..Len(queue') /\ queue'[i - 1] = queue[i])
  BY <1>2, <1>3
<1>6. 1 \in 1..Len(queue)
  BY <1>2
<1>7. /\ EndsOnce(queue) /\ deleting \cap (host \cup Named(queue)) = {}
      /\ host \cup deleting \cup Named(queue) \subseteq reserved
      /\ {bufs[b].host : b \in LiveBufs} = Owned(queue)
  BY <1>1 DEF HostInv
<1>8. m.id \in Named(queue)
  BY <1>2, <1>6 DEF Named
<1>9. Named(queue') \subseteq Named(queue)
  BY <1>4 DEF Named
<1>10. ASSUME NEW op
       PROVE  With(queue, op) = With(queue', op) \cup (IF m.op = op THEN {m.id} ELSE {})
  <2>1. ASSUME NEW x \in With(queue, op), ~(m.op = op /\ m.id = x)
        PROVE  x \in With(queue', op)
    <3>1. PICK i \in 1..Len(queue) : queue[i].op = op /\ queue[i].id = x
      BY <2>1 DEF With
    <3>2. i - 1 \in 1..Len(queue') /\ queue'[i - 1] = queue[i]
      BY <1>2, <1>5, <2>1, <3>1
    <3>. QED
      BY <3>1, <3>2 DEF With
  <2>2. ASSUME NEW x \in With(queue', op) PROVE x \in With(queue, op)
    BY <1>4, <2>2 DEF With
  <2>3. m.op = op => m.id \in With(queue, op)
    BY <1>2, <1>6 DEF With
  <2>. QED
    BY <2>1, <2>2, <2>3
<1>11. EndsOnce(queue')
  <2>1. ASSUME NEW i \in 1..Len(queue'), NEW j \in 1..Len(queue'),
               queue'[i].op = "destroy", queue'[i].id = queue'[j].id
        PROVE  j <= i
    <3>1. j + 1 <= i + 1
      BY <1>4, <1>7, <2>1 DEF EndsOnce
    <3>. QED
      BY <1>2, <1>3, <3>1
  <2>. QED
    BY <2>1 DEF EndsOnce
<1>12. m.op = "destroy" => m.id \notin Named(queue')
  <2>1. ASSUME m.op = "destroy", NEW i \in 1..Len(queue'), queue'[i].id = m.id
        PROVE  FALSE
    <3>1. i + 1 <= 1
      BY <1>2, <1>4, <1>6, <1>7, <2>1 DEF EndsOnce
    <3>. QED
      BY <1>2, <1>3, <3>1
  <2>. QED
    BY <2>1 DEF Named
<1>13. With(queue', "create") \subseteq Named(queue')
  BY WithNamed
<1>14. Owned(queue)' = Owned(queue)
  <2>1. CASE m.op = "create"
    BY <1>1, <1>10, <2>1 DEF Owned
  <2>2. CASE m.op = "destroy"
    BY <1>1, <1>10, <1>12, <1>13, <2>2 DEF Owned
  <2>3. CASE m.op \notin {"create", "destroy"}
    BY <1>1, <1>10, <2>3 DEF Owned
  <2>. QED
    BY <2>1, <2>2, <2>3
<1>15. /\ deleting' \cap (host' \cup Named(queue')) = {}
       /\ host' \cup deleting' \cup Named(queue') \subseteq reserved'
  <2>1. CASE m.op = "destroy"
    BY <1>1, <1>7, <1>8, <1>9, <1>12, <2>1
  <2>2. CASE m.op # "destroy"
    BY <1>1, <1>7, <1>8, <1>9, <2>2
  <2>. QED
    BY <2>1, <2>2
<1>16. LiveBufs' = LiveBufs
  BY <1>1 DEF LiveBufs
<1>17. {bufs'[b].host : b \in LiveBufs'} = Owned(queue)'
  BY <1>1, <1>7, <1>14, <1>16
<1>. QED
  BY <1>1, <1>11, <1>15, <1>16, <1>17 DEF HostInv

LEMMA HostNext == MemInv /\ HostInv /\ [Next]_vars => HostInv'
<1>. SUFFICES ASSUME MemInv, HostInv, [Next]_vars PROVE HostInv'
  OBVIOUS
<1>1. ASSUME UNCHANGED <<bufs, reserved, queue, host, deleting>>,
             life' = life \/ life = "up"
      PROVE  HostInv'
  BY <1>1, HostQuiet DEF LiveBufs
<1>2. CASE FormatStep
  <2>1. UNCHANGED <<bufs, reserved, queue, host, deleting, life>>
    BY <1>2 DEF FormatStep, OnShmFormat, OnDmabufFormat, ShmGlobal, ShmGlobalRemove,
                DmabufGlobal, DmabufGlobalRemove, BindShm, OnShmRelease, hostVars
  <2>. QED
    BY <1>1, <2>1
<1>3. CASE PoolStep
  <2>1. UNCHANGED <<bufs, reserved, queue, host, deleting>> /\ life = "up"
    BY <1>3 DEF PoolStep, OnCreatePool, OnResize, OnDestroyPool, hostVars
  <2>. QED
    BY <1>1, <2>1
<1>4. CASE BufferStep
  BY <1>4, HostDirectFails, HostCreateBuffer, HostDestroyBuffer, HostDeleteId DEF BufferStep
<1>5. CASE Teardown
  BY <1>5 DEF Teardown, HostInv
<1>6. CASE UNCHANGED <<cfg, formatVars, pools, stalePools, arcs, bufs, reserved,
                       hostVars, memVars, made>> /\ (life' = life \/ life = "up")
  BY <1>1, <1>6 DEF hostVars
<1>. QED
  BY <1>2, <1>3, <1>4, <1>5, <1>6, HostReads, StepKinds

\* After the requests in the stream the host has exactly the wl_buffers the proxy
\* knows, whatever failed half-way, and an ID the host may still use or
\* acknowledge is not free for allocation.
THEOREM HostObjectsAreOwned == Spec => []HostObjectsOwned
<1>1. Init => MemInv /\ GlobalInv /\ HostInv
  <2>1. Init => MemInv /\ GlobalInv
    BY MemInit
  <2>2. ASSUME Init PROVE HostInv
    <3>1. LiveBufs = {} /\ queue = <<>> /\ host = {} /\ deleting = {}
      BY <2>2 DEF Init, LiveBufs
    <3>2. EndsOnce(<<>>) /\ Named(<<>>) = {} /\ \A op : With(<<>>, op) = {}
      BY EmptySeq DEF EndsOnce, Named, With
    <3>. QED
      BY <3>1, <3>2 DEF HostInv, Owned
  <2>. QED
    BY <2>1, <2>2
<1>2. MemInv /\ HostInv => HostObjectsOwned
  BY OwnedMeaning DEF HostInv, HostObjectsOwned
<1>. QED
  BY <1>1, <1>2, GlobalNext, MemNext, HostNext, PTL DEF Spec
=============================================================================
