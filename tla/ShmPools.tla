------------------------------ MODULE ShmPools -------------------------------
(***************************************************************************)
(* The wl_shm emulation (handler/shm.rs, the wl_shm parts of registry.rs,   *)
(* the allocation half of virtwl_channel.rs and the destructors of          *)
(* state/render.rs).  A guest pool is memory the proxy maps; a buffer of it *)
(* is given host storage, described to the host either as a linux-dmabuf or *)
(* through a temporary wl_shm_pool, and copied into at commit.  The model   *)
(* follows who owns each mapping, descriptor and host object while pools    *)
(* grow, buffers outlive their pool, creation fails half-way and the host   *)
(* globals behind the emulation come and go.                                *)
(*                                                                         *)
(* Offsets and sizes are abstracted to the end of a buffer in its pool; the *)
(* arithmetic that yields it is in PixelCopies.                             *)
(***************************************************************************)
EXTENDS Integers, Sequences

CONSTANTS
  ShmIds, PoolIds, BufIds,   \* guest object IDs
  HostIds,                   \* IDs the proxy allocates on the host side
  Formats, Mandatory,        \* SUPPORTED_SHM_FORMATS, MANDATORY_SHM_FORMATS
  Planar,                    \* the semi-planar one, WL_SHM_FORMAT_NV12
  Sizes,                     \* pool sizes and buffer ends
  Configs,                   \* [gpu, virtwl, gbm]: how the proxy was started
  MaxArcs,                   \* bound: pools created
  MaxCreates,                \* bound: buffers created
  MaxGens                    \* bound: wl_shm globals the host announces

ASSUME ShmAssumption ==
  /\ Mandatory \subseteq Formats /\ Planar \in Formats \ Mandatory
  /\ Sizes \subseteq Nat \ {0}
  /\ Configs \subseteq [gpu : BOOLEAN, virtwl : {"none", "shm", "dmabuf"}, gbm : BOOLEAN]
  /\ {MaxArcs, MaxCreates, MaxGens} \subseteq Nat

VARIABLES
  cfg,         \* gpu_accel, virtwayland_channel, allocator
  hostShm,     \* host_shm_id: 0, or the number of the wl_shm global it is bound from
  gens,        \* wl_shm globals announced so far
  hostDma,     \* host_dmabuf_id is set
  announced,   \* formats the host has announced on the objects bound now
  wlF, dmaF, hostF,   \* host_wl_shm_formats, host_dmabuf_shm_formats, host_shm_formats
  told,        \* shm_guest_formats: formats each bound guest wl_shm was told of
  shmGen,      \* the wl_shm global behind a guest wl_shm when it was bound
  staleShm,    \* stale_shm_guest_objects
  pools,       \* pools: guest pool -> number of its PoolState, 0 when unknown
  stalePools,  \* stale_shm_pools
  arcs,        \* every PoolState made: its mapped size and its wl_shm global
  bufs,        \* BufferState of every guest buffer, or None
  reserved,    \* host IDs the shadow table holds back
  queue,       \* client_to_host_queue and the stream to the host
  host,        \* host: objects that exist
  deleting,    \* host: delete_id on the way
  fds, maps,   \* descriptors and mappings the process has open
  made,        \* buffers created so far
  life         \* "up", "fatal" after a protocol error, "closed" after teardown

formatVars == <<hostShm, gens, hostDma, announced, wlF, dmaF, hostF, told, shmGen, staleShm>>
hostVars == <<queue, host, deleting>>
memVars == <<fds, maps>>
vars == <<cfg, formatVars, pools, stalePools, arcs, bufs, reserved, hostVars,
          memVars, made, life>>

None == [arc |-> 0, end |-> 0, host |-> 0, storage |-> 0, live |-> FALSE, mapped |-> FALSE]
Sources == {"wl", "dma"}

Init ==
  /\ cfg \in Configs
  /\ hostShm = 0 /\ gens = 0 /\ hostDma = FALSE /\ announced = {}
  /\ wlF = {} /\ dmaF = {} /\ hostF = {}
  /\ told = [s \in {} |-> {}] /\ shmGen = [s \in {} |-> 0] /\ staleShm = {}
  /\ pools = [p \in PoolIds |-> 0] /\ stalePools = {} /\ arcs = <<>>
  /\ bufs = [b \in BufIds |-> None]
  /\ reserved = {} /\ queue = <<>> /\ host = {} /\ deleting = {}
  /\ fds = {} /\ maps = {} /\ made = 0 /\ life = "up"

\* What is open on behalf of a pool, of a buffer's storage, of a request.
PoolMem(a) == <<"pool", a>>
Storage(n) == <<"storage", n>>
Sent(n, i) == <<"sent", n, i>>

-----------------------------------------------------------------------------
(* Format capabilities.                                                    *)

guest_shm_format_available(f) ==
  /\ f \in Mandatory \cup hostF
  /\ f = Planar => cfg.virtwl # "none" \/ (cfg.gpu /\ hostDma /\ cfg.gbm)

\* record_host_shm_format: the first report reaches every live guest wl_shm.
RecordFormat(f) ==
  /\ hostF' = hostF \cup {f}
  /\ told' = [s \in DOMAIN told |->
       IF f \notin hostF /\ s \notin staleShm /\ guest_shm_format_available(f)'
       THEN told[s] \cup {f} ELSE told[s]]

OnShmFormat(f) ==
  /\ life = "up"
  /\ hostShm # 0 /\ <<"wl", f>> \notin announced
  /\ announced' = announced \cup {<<"wl", f>>}
  /\ wlF' = wlF \cup {f}
  /\ UNCHANGED <<cfg, hostDma>>
  /\ RecordFormat(f)
  /\ UNCHANGED <<hostShm, gens, dmaF, shmGen, staleShm, pools, stalePools, arcs, bufs,
                 reserved, hostVars, memVars, made, life>>

OnDmabufFormat(f) ==
  /\ life = "up"
  /\ hostDma /\ <<"dma", f>> \notin announced
  /\ announced' = announced \cup {<<"dma", f>>}
  /\ dmaF' = dmaF \cup {f}
  /\ UNCHANGED <<cfg, hostDma>>
  /\ RecordFormat(f)
  /\ UNCHANGED <<hostShm, gens, wlF, shmGen, staleShm, pools, stalePools, arcs, bufs,
                 reserved, hostVars, memVars, made, life>>

\* The registry binds the host globals internally, and forgets the binding when
\* the global goes (reset_internal_binding_for_global).
ShmGlobal ==
  /\ life = "up"
  /\ hostShm = 0 /\ gens < MaxGens
  /\ gens' = gens + 1
  /\ hostShm' = gens + 1
  /\ UNCHANGED <<cfg, hostDma, announced, wlF, dmaF, hostF, told, shmGen, staleShm,
                 pools, stalePools, arcs, bufs, reserved, hostVars, memVars, made, life>>

\* clear_host_shm_wl_formats, clear_host_shm_dmabuf_formats.
Without(gone, other) == hostF \ (gone \ other)

\* Mutant: pools of the removed global stay in service.
StalePoolsForgotten == stalePools

StalePoolsAfterRemove == stalePools \cup {p \in PoolIds : pools[p] # 0}

ShmGlobalRemove ==
  /\ life = "up"
  /\ hostShm # 0
  /\ hostShm' = 0
  /\ announced' = {a \in announced : a[1] # "wl"}
  /\ staleShm' = staleShm \cup DOMAIN told
  /\ stalePools' = StalePoolsAfterRemove
  /\ wlF' = {}
  /\ hostF' = Without(wlF, dmaF)
  /\ UNCHANGED <<cfg, gens, hostDma, dmaF, told, shmGen, pools, arcs, bufs, reserved,
                 hostVars, memVars, made, life>>

DmabufGlobal ==
  /\ life = "up" /\ ~hostDma
  /\ hostDma' = TRUE
  /\ UNCHANGED <<cfg, hostShm, gens, announced, wlF, dmaF, hostF, told, shmGen,
                 staleShm, pools, stalePools, arcs, bufs, reserved, hostVars, memVars,
                 made, life>>

DmabufGlobalRemove ==
  /\ life = "up" /\ hostDma
  /\ hostDma' = FALSE
  /\ announced' = {a \in announced : a[1] # "dma"}
  /\ dmaF' = {}
  /\ hostF' = Without(dmaF, wlF)
  /\ UNCHANGED <<cfg, hostShm, gens, wlF, told, shmGen, staleShm, pools, stalePools,
                 arcs, bufs, reserved, hostVars, memVars, made, life>>

\* The guest binds the emulated wl_shm: register_guest_shm.
BindShm(s) ==
  /\ life = "up"
  /\ hostShm # 0 /\ s \notin DOMAIN told
  /\ told' = [t \in DOMAIN told \cup {s} |->
       IF t = s THEN {f \in Formats : guest_shm_format_available(f)} ELSE told[t]]
  /\ shmGen' = [t \in DOMAIN shmGen \cup {s} |-> IF t = s THEN hostShm ELSE shmGen[t]]
  /\ UNCHANGED <<cfg, hostShm, gens, hostDma, announced, wlF, dmaF, hostF, staleShm,
                 pools, stalePools, arcs, bufs, reserved, hostVars, memVars, made, life>>

\* wl_shm.release: the guest ID may be bound again.
OnShmRelease(s) ==
  /\ life = "up"
  /\ s \in DOMAIN told
  /\ told' = [t \in DOMAIN told \ {s} |-> told[t]]
  /\ shmGen' = [t \in DOMAIN shmGen \ {s} |-> shmGen[t]]
  /\ staleShm' = staleShm \ {s}
  /\ UNCHANGED <<cfg, hostShm, gens, hostDma, announced, wlF, dmaF, hostF, pools,
                 stalePools, arcs, bufs, reserved, hostVars, memVars, made, life>>

-----------------------------------------------------------------------------
(* Pools.                                                                  *)

\* queue_protocol_error: the session ends once the diagnostic is out.
Error == life' = "fatal"

\* A pool of the declared size on a file of size file; kernel says whether the
\* descriptor could be duplicated and mapped.  On a stale wl_shm the request is
\* ignored.
OnCreatePool(s, p, size, file, kernel) ==
  /\ life = "up"
  /\ s \in DOMAIN told /\ pools[p] = 0 /\ Len(arcs) < MaxArcs
  /\ IF s \in staleShm
     THEN UNCHANGED <<pools, arcs, memVars, life>>
     ELSE IF file < size \/ ~kernel
          THEN Error /\ UNCHANGED <<pools, arcs, memVars>>
          ELSE /\ arcs' = Append(arcs, [size |-> size, gen |-> shmGen[s]])
               /\ pools' = [pools EXCEPT ![p] = Len(arcs')]
               /\ fds' = fds \cup {PoolMem(Len(arcs'))}
               /\ maps' = maps \cup {PoolMem(Len(arcs'))}
               /\ UNCHANGED life
  /\ UNCHANGED <<cfg, formatVars, stalePools, bufs, reserved, hostVars, made>>

\* Mutant: a pool may shrink.
valid_pool_resize_any(current, size) == TRUE

valid_pool_resize(current, size) == size > current

OnResize(p, size, file, kernel) ==
  /\ life = "up"
  /\ pools[p] # 0
  /\ LET a == pools[p]
     IN IF p \in stalePools
        THEN UNCHANGED <<arcs, life>>
        ELSE IF ~valid_pool_resize(arcs[a].size, size) \/ file < size \/ ~kernel
             THEN Error /\ UNCHANGED arcs
             ELSE arcs' = [arcs EXCEPT ![a].size = size] /\ UNCHANGED life
  /\ UNCHANGED <<cfg, formatVars, pools, stalePools, bufs, reserved, hostVars, memVars,
                 made>>

\* The PoolState goes with its last Arc: the guest pool or a buffer.
Users(a, ps, bs) ==
  {p \in PoolIds : ps[p] = a} \cup {b \in BufIds : bs[b] # None /\ bs[b].live /\ bs[b].arc = a}

PoolMemAfter(ps, bs) ==
  {PoolMem(a) : a \in {c \in 1..Len(arcs) : Users(c, ps, bs) # {}}}

DropPools(set, ps, bs) ==
  {m \in set : m[1] = "pool" => m \in PoolMemAfter(ps, bs)}

OnDestroyPool(p) ==
  /\ life = "up"
  /\ pools[p] # 0
  /\ pools' = [pools EXCEPT ![p] = 0]
  /\ stalePools' = stalePools \ {p}
  /\ fds' = DropPools(fds, pools', bufs)
  /\ maps' = DropPools(maps, pools', bufs)
  /\ UNCHANGED <<cfg, formatVars, arcs, bufs, reserved, hostVars, made, life>>

-----------------------------------------------------------------------------
(* create_buffer.                                                          *)

\* Requests a served pool gets that name a free buffer ID.
Asked(p, b) ==
  /\ life = "up"
  /\ pools[p] # 0 /\ bufs[b] = None /\ made < MaxCreates

OnCreateBufferStale(p, b) ==
  /\ Asked(p, b) /\ p \in stalePools
  /\ UNCHANGED vars

\* Unavailable format, stride or layout that does not fit the pool.
ValidBuffer(p, f, end) ==
  /\ guest_shm_format_available(f)
  /\ end <= arcs[pools[p]].size

OnCreateBufferInvalid(p, b, f, end) ==
  /\ Asked(p, b) /\ p \notin stalePools
  /\ ~ValidBuffer(p, f, end)
  /\ Error
  /\ UNCHANGED <<cfg, formatVars, pools, stalePools, arcs, bufs, reserved, hostVars,
                 memVars, made>>

WantsDmabuf == cfg.gpu /\ hostDma

\* allocate_virtwl_dmabuf: the channel has the ioctl; a layout it cannot map is a
\* failure, after which VirtWL shared memory is tried.
VirtwlDmabuf == WantsDmabuf /\ cfg.virtwl = "dmabuf"

VirtwlShm == cfg.virtwl # "none"

\* allocate_gbm_buffer: only to be sent as a dma-buf.
GbmBuffer == cfg.virtwl = "none" /\ cfg.gbm /\ WantsDmabuf

\* The storage a request may get.
Allocations ==
  {a \in {"virtwl dmabuf", "virtwl shm", "gbm"} :
     CASE a = "virtwl dmabuf" -> VirtwlDmabuf
       [] a = "virtwl shm" -> VirtwlShm
       [] OTHER -> GbmBuffer}

Direct(alloc) == alloc \in {"virtwl dmabuf", "gbm"}

\* Storage is mapped unless GBM maps it at every copy.
Mapped(alloc, f) == alloc # "gbm" \/ f = Planar

OnCreateBufferNoStorage(p, b, f, end) ==
  /\ Asked(p, b) /\ p \notin stalePools
  /\ ValidBuffer(p, f, end)
  /\ Error
  /\ UNCHANGED <<cfg, formatVars, pools, stalePools, arcs, bufs, reserved, hostVars,
                 memVars, made>>

Msg(op, on, id, n, files) == [op |-> op, on |-> on, id |-> id, made |-> n, fds |-> files]

\* The requests that describe storage n to the host, up to where step fails.
Planes(f) == IF f = Planar THEN 2 ELSE 1

DirectRequests(params, buf, n, f) ==
  <<Msg("create", "dmabuf", params, n, {})>>
    \o [i \in 1..Planes(f) |-> Msg("add", params, params, n, {Sent(n, i)})]
    \o <<Msg("create", params, buf, n, {}), Msg("destroy", params, params, n, {})>>

ShmRequests(pool, buf, n) ==
  <<Msg("create", "shm", pool, n, {Sent(n, 1)}),
    Msg("create", pool, buf, n, {}),
    Msg("destroy", pool, pool, n, {})>>

QueuedFds(q) == UNION {q[i].fds : i \in DOMAIN q}

\* Mutant: what was queued before the failure stays queued.
DirectRemainsUnbalanced(reqs, k) == SubSeq(reqs, 1, k)

\* cleanup_direct_dmabuf_failure: params that were queued are destroyed, their
\* planes stay in the stream; k requests went out before the failure.
DirectRemains(reqs, k) ==
  IF k = 0 THEN <<>> ELSE SubSeq(reqs, 1, k) \o <<reqs[Len(reqs)]>>

\* A direct creation that fails after k requests: no descriptor for a plane.
OnCreateBufferDirectFails(p, b, f, end, params, buf, alloc, k) ==
  /\ Asked(p, b) /\ p \notin stalePools
  /\ ValidBuffer(p, f, end)
  /\ alloc \in Allocations /\ Direct(alloc)
  /\ params # buf /\ {params, buf} \cap reserved = {}
  /\ k \in 1..Planes(f)
  /\ LET n == made + 1
         remains == DirectRemains(DirectRequests(params, buf, n, f), k)
     IN /\ queue' = queue \o remains
        /\ fds' = fds \cup QueuedFds(remains)
        /\ reserved' = reserved \cup {params}
  /\ made' = made + 1
  /\ Error
  /\ UNCHANGED <<cfg, formatVars, pools, stalePools, arcs, bufs, host, deleting, maps>>

\* rollback_queued_host_messages, unmap_destination and
\* release_temporary_host_pool: a failure on the shared-memory path leaves
\* nothing.
OnCreateBufferShmFails(p, b, f, end) ==
  /\ Asked(p, b) /\ p \notin stalePools
  /\ ValidBuffer(p, f, end)
  /\ "virtwl shm" \in Allocations /\ hostShm # 0
  /\ Error
  /\ UNCHANGED <<cfg, formatVars, pools, stalePools, arcs, bufs, reserved, hostVars,
                 memVars, made>>

Buffer(p, end, buf, n, f, alloc) ==
  [arc |-> pools[p], end |-> end, host |-> buf, storage |-> n, live |-> TRUE,
   mapped |-> Mapped(alloc, f)]

\* Both temporary IDs wait for delete_id, the buffer's is mapped.
ReservedBy(temp, buf) == reserved \cup {temp, buf}

OnCreateBuffer(p, b, f, end, temp, buf, alloc) ==
  /\ Asked(p, b) /\ p \notin stalePools
  /\ ValidBuffer(p, f, end)
  /\ alloc \in Allocations
  /\ ~Direct(alloc) => hostShm # 0
  /\ temp # buf /\ {temp, buf} \cap reserved = {}
  /\ LET n == made + 1
         reqs == IF Direct(alloc) THEN DirectRequests(temp, buf, n, f)
                 ELSE ShmRequests(temp, buf, n)
     IN /\ queue' = queue \o reqs
        /\ fds' = fds \cup QueuedFds(reqs) \cup {Storage(n)}
        /\ maps' = maps \cup (IF Mapped(alloc, f) THEN {Storage(n)} ELSE {})
        /\ bufs' = [bufs EXCEPT ![b] = Buffer(p, end, buf, n, f, alloc)]
  /\ reserved' = ReservedBy(temp, buf)
  /\ made' = made + 1
  /\ UNCHANGED <<cfg, formatVars, pools, stalePools, arcs, host, deleting, life>>

\* wl_buffer.destroy of a buffer no surface shows: the host destructor is
\* queued, the BufferState dropped, the IDs wait for delete_id.
OnDestroyBuffer(b) ==
  /\ life = "up"
  /\ bufs[b] # None /\ bufs[b].live
  /\ bufs' = [bufs EXCEPT ![b].live = FALSE]
  /\ queue' = Append(queue, Msg("destroy", bufs[b].host, bufs[b].host, bufs[b].storage, {}))
  /\ fds' = DropPools(fds, pools, bufs') \ {Storage(bufs[b].storage)}
  /\ maps' = DropPools(maps, pools, bufs') \ {Storage(bufs[b].storage)}
  /\ UNCHANGED <<cfg, formatVars, pools, stalePools, arcs, reserved, host, deleting,
                 made, life>>

OnDeleteId(h) ==
  /\ life = "up"
  /\ h \in deleting
  /\ deleting' = deleting \ {h}
  /\ reserved' = reserved \ {h}
  /\ bufs' = [b \in BufIds |-> IF bufs[b] # None /\ ~bufs[b].live /\ bufs[b].host = h
                               THEN None ELSE bufs[b]]
  /\ UNCHANGED <<cfg, formatVars, pools, stalePools, arcs, queue, host, memVars, made, life>>

-----------------------------------------------------------------------------
(* The host, and the end of the session.                                   *)

\* The loop writes a request and closes its descriptors; the host obeys.
HostReceive ==
  /\ life # "closed" /\ queue # <<>>
  /\ LET req == Head(queue)
     IN /\ host' = CASE req.op = "create" -> host \cup {req.id}
                     [] req.op = "destroy" -> host \ {req.id}
                     [] OTHER -> host
        /\ deleting' = IF req.op = "destroy" THEN deleting \cup {req.id} ELSE deleting
        /\ fds' = fds \ req.fds
  /\ queue' = Tail(queue)
  /\ UNCHANGED <<cfg, formatVars, pools, stalePools, arcs, bufs, reserved, maps, made, life>>

\* Dropping the Context: PoolState and BufferState destructors, queued
\* descriptors.
Teardown ==
  /\ life # "closed"
  /\ life' = "closed"
  /\ pools' = [p \in PoolIds |-> 0]
  /\ bufs' = [b \in BufIds |-> None]
  /\ fds' = (DropPools(fds, pools', bufs') \ QueuedFds(queue))
              \ {Storage(bufs[b].storage) : b \in {c \in BufIds : bufs[c] # None}}
  /\ maps' = DropPools(maps, pools', bufs')
              \ {Storage(bufs[b].storage) : b \in {c \in BufIds : bufs[c] # None}}
  /\ queue' = <<>>
  /\ UNCHANGED <<cfg, formatVars, stalePools, arcs, reserved, host, deleting, made>>

Next ==
  \/ \E f \in Formats \ Mandatory : OnShmFormat(f) \/ OnDmabufFormat(f)
  \/ ShmGlobal \/ ShmGlobalRemove \/ DmabufGlobal \/ DmabufGlobalRemove
  \/ \E s \in ShmIds : BindShm(s) \/ OnShmRelease(s)
  \/ \E s \in ShmIds, p \in PoolIds, size, file \in Sizes, kernel \in BOOLEAN :
       OnCreatePool(s, p, size, file, kernel)
  \/ \E p \in PoolIds :
       \/ \E size, file \in Sizes, kernel \in BOOLEAN : OnResize(p, size, file, kernel)
       \/ OnDestroyPool(p)
       \/ \E b \in BufIds :
            \/ OnCreateBufferStale(p, b)
            \/ \E f \in Formats, end \in Sizes :
                 \/ OnCreateBufferInvalid(p, b, f, end)
                 \/ OnCreateBufferNoStorage(p, b, f, end)
                 \/ OnCreateBufferShmFails(p, b, f, end)
                 \/ \E temp, buf \in HostIds, alloc \in Allocations :
                      \/ \E k \in 1..Planes(f) :
                           OnCreateBufferDirectFails(p, b, f, end, temp, buf, alloc, k)
                      \/ OnCreateBuffer(p, b, f, end, temp, buf, alloc)
  \/ \E b \in BufIds : OnDestroyBuffer(b)
  \/ \E h \in HostIds : OnDeleteId(h)
  \/ HostReceive \/ Teardown

Spec == Init /\ [][Next]_vars

-----------------------------------------------------------------------------
(* Properties.                                                             *)

LiveBufs == {b \in BufIds : bufs[b] # None /\ bufs[b].live}
LiveArcs == {a \in 1..Len(arcs) : Users(a, pools, bufs) # {}}

\* Copying a frame never leaves mapped memory: while a buffer lives, the mapping
\* of its pool covers it, though the guest destroyed or resized the pool, and
\* nothing the process has open is without an owner, whichever step of a
\* creation failed; a closed session has released all of it.
ResourcesOwned ==
  /\ \A b \in LiveBufs :
       /\ PoolMem(bufs[b].arc) \in maps
       /\ bufs[b].end <= arcs[bufs[b].arc].size
  /\ fds = {PoolMem(a) : a \in LiveArcs} \cup {Storage(bufs[b].storage) : b \in LiveBufs}
             \cup QueuedFds(queue)
  /\ maps = {PoolMem(a) : a \in LiveArcs}
              \cup {Storage(bufs[b].storage) : b \in {c \in LiveBufs : bufs[c].mapped}}

\* The stream leaves the host exactly the wl_buffers the proxy still knows: every
\* params object and temporary pool it creates it also destroys, whatever failed,
\* and no ID the host may still use or acknowledge is free for allocation.
Ended(id, n) == \E i \in DOMAIN queue : i > n /\ queue[i].op = "destroy" /\ queue[i].id = id

AfterQueue ==
  {id \in host : ~Ended(id, 0)}
    \cup {queue[i].id : i \in {j \in DOMAIN queue : queue[j].op = "create"
                                                  /\ ~Ended(queue[j].id, j)}}

HostObjectsOwned ==
  life # "closed" =>
    /\ AfterQueue = {bufs[b].host : b \in LiveBufs}
    /\ host \cup deleting \cup {queue[i].id : i \in DOMAIN queue} \subseteq reserved

\* A format told to a guest is accepted from it as long as a host object that
\* announced it is bound, whichever of the two sources went in between.
ToldIsAccepted ==
  \A s \in DOMAIN told \ staleShm : \A f \in told[s] :
    (f \in Mandatory \/ \E src \in Sources : <<src, f>> \in announced)
      /\ (f = Planar => cfg.virtwl # "none" \/ hostDma)
    => guest_shm_format_available(f)

\* Objects of a removed wl_shm are not served by its replacement: a pool gets
\* buffers only while the host object it was created under is bound, and
\* formats follow the globals that announced them.
FollowsItsGlobal ==
  []ToldIsAccepted /\
  [][\A b \in BufIds : bufs[b] = None /\ bufs'[b] # None
       => arcs[bufs'[b].arc].gen = hostShm]_vars
==============================================================================
