---------------------------- MODULE DmabufParams ----------------------------
(***************************************************************************)
(* Native dma-buf buffers (handler/linux_dmabuf.rs, allocator.rs, the wait   *)
(* of handler/compositor.rs).  A zwp_linux_buffer_params_v1 object collects  *)
(* planes in the proxy; create and create_immed validate them, duplicate a   *)
(* synchronization descriptor per plane and send the ADDs and the CREATE     *)
(* together; a commit of the buffer waits for the guest GPU plane by plane.  *)
(*                                                                         *)
(* Descriptors are numbers, and an opened one takes the lowest free number   *)
(* as the kernel does, so a leak, a double close and a close of somebody     *)
(* else's descriptor all show.  The descriptor that arrives with a request   *)
(* belongs to the message (ProxyLoop); only duplicates are counted here.     *)
(* Offsets and modifiers are passed through unchanged; u32 strides times i32 *)
(* rows cannot wrap a u64, so the checked sums of valid_dmabuf_plane never   *)
(* fail and are left out, as are the encoding failures of fixed-size messages.*)
(***************************************************************************)
EXTENDS Integers, Sequences, FiniteSets, SequencesExt

CONSTANTS
  ParamsIds,    \* guest IDs for params objects
  Dmabufs,      \* dma-buf objects of the guest GPU
  Layout,       \* [Dmabufs -> [virtgpu : BOOLEAN, stride : Nat]]: the host resource behind each
  Strides,      \* strides a guest may claim
  Creates,      \* [format, width, height] of create requests
  Machines,     \* [export, forced, nodes]: what the guest kernel offers
  MaxParams,    \* bound: params objects ever created
  MaxBuffers    \* bound: buffers ever registered

ASSUME DmabufAssumption ==
  /\ {MaxParams, MaxBuffers} \subseteq Nat
  /\ \A d \in Dmabufs : Layout[d].stride \in Nat
  /\ Strides \subseteq Nat
  /\ \A c \in Creates : c.width \in Int /\ c.height \in Int

VARIABLES
  machine,    \* the kernel under this session
  allocator,  \* the GBM node chosen at start, or None
  map,        \* shadow table: host generation of a guest params ID, 0 when unmapped
  dying,      \* guest params IDs awaiting delete_id
  pending,    \* pending_params: Absent or the sequence of planes
  used,       \* used_dmabuf_params
  creates,    \* pending_native_creates: set of [host, planes, sync]
  orphaned,   \* orphaned_dmabuf_params
  buffers,    \* native buffers in order of registration: [planes, sync, implicit, state]
  waiting,    \* the commit blocked in wait_for_native_buffer, or None
  queue,      \* client_to_host_queue
  open,       \* descriptors the proxy holds open
  gens,       \* params objects created so far
  host,       \* what the compositor has seen: [params, err, layout]
  writing,    \* dma-bufs the guest GPU is writing
  life        \* "running" | "fatal" | "closed"

mine == <<map, dying, pending, used, creates, orphaned, buffers, queue, open>>
vars == <<machine, allocator, mine, waiting, gens, host, writing, life>>

None == [none |-> TRUE]
Absent == <<None>>
Gone == [planes |-> <<>>, sync |-> <<>>, implicit |-> FALSE, state |-> "gone"]

Fds(s) == {s[i].fd : i \in DOMAIN s}
Lowest(S) == CHOOSE n \in S : \A k \in S : n <= k
\* dup: n descriptors, lowest free numbers first.
Dup(n) ==
  LET Free[k \in 0..n] == IF k = 0 THEN <<>>
        ELSE Append(Free[k - 1], Lowest((1..(Cardinality(open) + n)) \ (open \cup Range(Free[k - 1]))))
  IN Free[n]

-----------------------------------------------------------------------------
(* Allocator::new: the render node that serves this session.               *)

\* Candidates: only the forced node, or every node of the virtio_gpu driver.
drm_device_candidates(m) ==
  IF m.forced # 0 THEN {n \in m.nodes : n.minor = m.forced} ELSE m.nodes

Usable(m, n) == /\ n.opens
                /\ m.forced = 0 => n.driver = "virtio_gpu"
                /\ n.gbm

AllocatorNew(m) ==
  LET usable == {n \in drm_device_candidates(m) : Usable(m, n)} IN
  IF usable = {} THEN None
  ELSE CHOOSE n \in usable : \A k \in usable : n.minor <= k.minor

\* The probe with an invalid type is refused with EINVAL by kernels that know the field.
has_extended_virtgpu_resource_info(n) == n.features /\ n.probe = "einval"

Init ==
  /\ machine \in Machines
  /\ allocator = AllocatorNew(machine)
  /\ map = [p \in ParamsIds |-> 0] /\ dying = {} /\ used = {}
  /\ pending = [p \in ParamsIds |-> Absent]
  /\ creates = {} /\ orphaned = {} /\ buffers = <<>> /\ waiting = None
  /\ queue = <<>> /\ open = {} /\ gens = 0 /\ writing = {} /\ life = "running"
  /\ host = [params |-> <<>>, err |-> FALSE, layout |-> TRUE]

Idle == life = "running" /\ waiting = None
\* queue_protocol_error and fatal_protocol_error: the connection ends after this request.
Fatal == life' = "fatal" /\ UNCHANGED <<machine, allocator, waiting, gens, host, writing>>
Alive == life' = life /\ UNCHANGED <<machine, allocator, waiting, gens, host, writing>>

-----------------------------------------------------------------------------
(* zwp_linux_buffer_params_v1: collecting planes.                          *)

CreateParams(p) ==
  /\ Idle /\ map[p] = 0 /\ gens < MaxParams
  /\ gens' = gens + 1
  /\ map' = [map EXCEPT ![p] = gens + 1]
  /\ pending' = [pending EXCEPT ![p] = <<>>]
  /\ used' = used \ {p}
  /\ open' = IF pending[p] = Absent THEN open ELSE open \ Fds(pending[p])
  /\ queue' = Append(queue, [op |-> "create_params", host |-> gens + 1])
  /\ UNCHANGED <<machine, allocator, dying, creates, orphaned, buffers, waiting, host, writing, life>>

\* fixup_dmabuf_plane0: PRIME import and resource info of a virtio-gpu resource.
apply_dmabuf_plane0_fixup(d, stride) ==
  IF Layout[d].virtgpu /\ has_extended_virtgpu_resource_info(allocator) /\ Layout[d].stride # 0
  THEN Layout[d].stride ELSE stride

PlaneStride(d, idx, stride) ==
  IF idx = 0 /\ allocator # None THEN apply_dmabuf_plane0_fixup(d, stride) ELSE stride

SetTwice(p, idx) ==
  pending[p] # Absent /\ \E i \in DOMAIN pending[p] : pending[p][i].idx = idx

AddRefused(p, idx) == p \in used \/ idx > 1 \/ SetTwice(p, idx)

OnAdd(p, d, idx, stride) ==
  /\ Idle /\ map[p] # 0 /\ p \notin dying
  /\ IF AddRefused(p, idx)
     THEN Fatal /\ UNCHANGED mine
     ELSE /\ Alive
          /\ \/ UNCHANGED mine     \* dup fails: the plane is lost and create reports it
             \/ /\ pending[p] # Absent
                /\ LET fd == Dup(1)[1] IN
                   /\ pending' = [pending EXCEPT ![p] = Append(@, [fd |-> fd, idx |-> idx, buf |-> d,
                                    stride |-> PlaneStride(d, idx, stride)])]
                   /\ open' = open \cup {fd}
                /\ UNCHANGED <<map, dying, used, creates, orphaned, buffers, queue>>

Held(S) == UNION {Range(c.sync) : c \in S}

\* The late created or failed event of a destroyed params object is still expected.
OnDestroyParams(p) ==
  /\ Idle /\ map[p] # 0 /\ p \notin dying
  /\ LET own == {c \in creates : c.host = map[p]} IN
     /\ creates' = creates \ own
     /\ orphaned' = orphaned \cup {c.host : c \in own}
     /\ open' = (open \ Held(own)) \ (IF pending[p] = Absent THEN {} ELSE Fds(pending[p]))
  /\ pending' = [pending EXCEPT ![p] = Absent]
  /\ used' = used \ {p} /\ dying' = dying \cup {p}
  /\ queue' = Append(queue, [op |-> "destroy_params", host |-> map[p]])
  /\ Alive /\ UNCHANGED <<map, buffers>>

-----------------------------------------------------------------------------
(* create and create_immed.                                                *)

is_supported_drm_format(f) == f \in {"nv12", "rgb565", "xrgb", "argb", "xbgr", "abgr"}
ExpectedPlanes(f) == IF f = "nv12" THEN 2 ELSE 1

\* Smallest row of a plane, or None when the format has no such plane at this size.
dmabuf_plane_layout(c, idx) ==
  CASE c.format = "nv12" -> IF c.width % 2 = 0 /\ c.height % 2 = 0 /\ idx < 2 THEN c.width ELSE -1
    [] c.format = "rgb565" -> IF idx = 0 THEN 2 * c.width ELSE -1
    [] OTHER -> IF idx = 0 THEN 4 * c.width ELSE -1

valid_dmabuf_plane(c, plane) ==
  LET row == dmabuf_plane_layout(c, plane.idx) IN row # -1 /\ plane.stride >= row

\* Mutant: the planes that are there are valid, but some may be missing.
ValidParamsPartial(planes, c) ==
  /\ c.width > 0 /\ c.height > 0 /\ is_supported_drm_format(c.format)
  /\ planes # Absent /\ planes # <<>>
  /\ \A i \in DOMAIN planes : planes[i].idx < ExpectedPlanes(c.format) /\ valid_dmabuf_plane(c, planes[i])

valid_params(planes, c) ==
  /\ c.width > 0 /\ c.height > 0 /\ is_supported_drm_format(c.format)
  /\ planes # Absent /\ Len(planes) = ExpectedPlanes(c.format)
  /\ \A i \in DOMAIN planes : planes[i].idx < ExpectedPlanes(c.format) /\ valid_dmabuf_plane(c, planes[i])
  /\ \A i, k \in DOMAIN planes : i # k => planes[i].idx # planes[k].idx

\* Mutant: the planes are forgotten without closing their descriptors.
DiscardLeaking(p) == pending' = [pending EXCEPT ![p] = Absent] /\ open' = open

discard_pending_params(p) ==
  /\ pending' = [pending EXCEPT ![p] = Absent]
  /\ open' = IF pending[p] = Absent THEN open ELSE open \ Fds(pending[p])

RejectCreate(p) ==
  /\ Fatal /\ discard_pending_params(p)
  /\ UNCHANGED <<map, dying, used, creates, orphaned, buffers, queue>>

\* One synchronization descriptor per plane, whatever shares its backing.
SyncPlanes(planes) == planes

Message(c, immed, g) == [op |-> IF immed THEN "create_immed" ELSE "create", host |-> g, arg |-> c]

\* ADD for every plane, each owning its descriptor, and then the CREATE.
HostMessages(planes, c, immed, g) ==
  Append([i \in DOMAIN planes |-> [op |-> "add", host |-> g, plane |-> planes[i], fd |-> planes[i].fd]],
         Message(c, immed, g))

Buffer(planes, sync) ==
  [planes |-> [i \in DOMAIN planes |-> planes[i].buf], sync |-> sync, implicit |-> FALSE, state |-> "idle"]

process_params(p, c, immed) ==
  LET planes == pending[p]  sync == Dup(Len(SyncPlanes(planes)))  g == map[p] IN
  /\ pending' = [pending EXCEPT ![p] = Absent]
  /\ UNCHANGED <<map, dying, orphaned>>
  /\ \/ /\ Alive
        /\ queue' = queue \o HostMessages(planes, c, immed, g)
        /\ used' = used \cup {p}
        /\ open' = open \cup Range(sync)
        /\ IF immed THEN buffers' = Append(buffers, Buffer(planes, sync))
                         /\ UNCHANGED creates
           ELSE /\ creates' = creates \cup {[host |-> g, planes |-> planes, sync |-> sync]}
                /\ UNCHANGED buffers
     \/ \* dup fails: the copies made so far and all planes are closed.
        /\ Fatal /\ open' = open \ Fds(planes) /\ UNCHANGED <<queue, used, creates, buffers>>

OnCreate(p, c, immed) ==
  /\ Idle /\ map[p] # 0 /\ p \notin dying
  /\ immed => Len(buffers) < MaxBuffers
  /\ CASE p \in used -> Fatal /\ UNCHANGED mine
       [] p \notin used /\ immed /\ pending[p] = Absent -> Alive /\ UNCHANGED mine
       [] p \notin used /\ ~(immed /\ pending[p] = Absent) /\ ~valid_params(pending[p], c) ->
            RejectCreate(p)
       [] OTHER -> process_params(p, c, immed)

-----------------------------------------------------------------------------
(* The compositor: external.  It takes the batch, checks what it is told and *)
(* answers an asynchronous create in its own time.                          *)

NewParams == [planes |-> {}, state |-> "open", gone |-> FALSE]
Lives(h, m) == m.host \in DOMAIN h.params /\ ~h.params[m.host].gone
Takes(h, m) == Lives(h, m) /\ h.params[m.host].state = "open"
Accepts(h, m) ==
  CASE m.op \in {"create_params", "commit", "destroy_buffer"} -> TRUE
    [] m.op = "destroy_params" -> Lives(h, m)
    [] m.op = "add" -> /\ Takes(h, m)
                       /\ \A q \in h.params[m.host].planes : q.idx # m.plane.idx
    [] OTHER -> /\ Takes(h, m)
                /\ {q.idx : q \in h.params[m.host].planes} = 0..(ExpectedPlanes(m.arg.format) - 1)
                /\ \A q \in h.params[m.host].planes : q.stride >= m.arg.width
LayoutTold(m) ==
  (/\ m.op = "add" /\ m.plane.idx = 0
   /\ Layout[m.plane.buf].virtgpu /\ Layout[m.plane.buf].stride # 0) =>
     m.plane.stride = Layout[m.plane.buf].stride
Track(h, m) ==
  CASE m.op = "create_params" -> Append(h.params, NewParams)
    [] m.op = "add" -> [h.params EXCEPT ![m.host].planes = @ \cup {[idx |-> m.plane.idx, stride |-> m.plane.stride]}]
    [] m.op = "create" -> [h.params EXCEPT ![m.host].state = "asked"]
    [] m.op = "create_immed" -> [h.params EXCEPT ![m.host].state = "answered"]
    [] m.op = "destroy_params" -> [h.params EXCEPT ![m.host].gone = TRUE]
    [] OTHER -> h.params
Told(h, m) == [params |-> IF Accepts(h, m) THEN Track(h, m) ELSE h.params,
               err |-> h.err \/ ~Accepts(h, m), layout |-> h.layout /\ LayoutTold(m)]

\* The compositor h after the requests q, one after the other.
ToldAll(h, q) ==
  LET told[i \in 0 .. Len(q)] == IF i = 0 THEN h ELSE Told(told[i - 1], q[i])
  IN  told[Len(q)]

QueueFds == {queue[i].fd : i \in {k \in DOMAIN queue : queue[k].op = "add"}}
Committed == {queue[i].buffer : i \in {k \in DOMAIN queue : queue[k].op = "commit"}}

\* The batch is sent and its descriptors are closed.
Flush ==
  /\ Idle /\ queue # <<>>
  /\ host' = ToldAll(host, queue)
  /\ open' = open \ QueueFds /\ queue' = <<>>
  /\ buffers' = [b \in DOMAIN buffers |->
       IF b \in Committed THEN [buffers[b] EXCEPT !.state = "held"] ELSE buffers[b]]
  /\ UNCHANGED <<machine, allocator, map, dying, pending, used, creates, orphaned, waiting, gens, writing, life>>

\* The destructor of a params object is acknowledged.
DeleteId(p) ==
  /\ Idle /\ p \in dying
  /\ ~\E i \in DOMAIN queue : queue[i].op = "destroy_params" /\ queue[i].host = map[p]
  /\ map' = [map EXCEPT ![p] = 0] /\ dying' = dying \ {p}
  /\ Alive /\ UNCHANGED <<pending, used, creates, orphaned, buffers, queue, open>>

Answered(g) == host' = [host EXCEPT !.params[g].state = "answered"]

\* The buffer of an orphaned create is destroyed again, that of a live one registered.
OnCreated(g) ==
  /\ Idle /\ host.params[g].state = "asked" /\ Answered(g)
  /\ IF g \in orphaned
     THEN /\ orphaned' = orphaned \ {g}
          /\ queue' = Append(queue, [op |-> "destroy_buffer", host |-> g])
          /\ UNCHANGED <<creates, buffers>>
     ELSE /\ Len(buffers) < MaxBuffers
          /\ \E c \in creates : c.host = g /\ creates' = creates \ {c}
                                /\ buffers' = Append(buffers, Buffer(c.planes, c.sync))
          /\ UNCHANGED <<orphaned, queue>>
  /\ UNCHANGED <<machine, allocator, map, dying, pending, used, waiting, open, gens, writing, life>>

OnFailed(g) ==
  /\ Idle /\ host.params[g].state = "asked" /\ Answered(g)
  /\ LET own == {c \in creates : c.host = g} IN
     creates' = creates \ own /\ open' = open \ Held(own)
  /\ orphaned' = orphaned \ {g}
  /\ UNCHANGED <<machine, allocator, map, dying, pending, used, buffers, queue, waiting, gens, writing, life>>

\* wl_buffer.release, and the end of a destroyed buffer's registry entry.
OnRelease(b) ==
  /\ Idle /\ buffers[b].state = "held" /\ buffers' = [buffers EXCEPT ![b].state = "idle"]
  /\ Alive /\ UNCHANGED <<map, dying, pending, used, creates, orphaned, queue, open>>

RemoveBuffer(b) ==
  /\ Idle /\ buffers[b].state = "idle" /\ buffers' = [buffers EXCEPT ![b] = Gone]
  /\ open' = open \ Range(buffers[b].sync)
  /\ Alive /\ UNCHANGED <<map, dying, pending, used, creates, orphaned, queue>>

-----------------------------------------------------------------------------
(* wl_surface.commit of a newly attached native buffer.                    *)

QueueCommit(b, implicit) ==
  /\ queue' = Append(queue, [op |-> "commit", buffer |-> b])
  /\ buffers' = [buffers EXCEPT ![b].state = "queued", ![b].implicit = implicit]
  /\ UNCHANGED <<map, dying, pending, used, creates, orphaned, open>>

OnCommit(b) ==
  /\ Idle /\ buffers[b].state = "idle"
  /\ IF buffers[b].implicit
     THEN QueueCommit(b, TRUE) /\ Alive
     ELSE /\ waiting' = [buffer |-> b, plane |-> 1]
          /\ UNCHANGED <<mine, machine, allocator, gens, host, writing, life>>

\* The plane the commit is waiting for.
WaitedPlane == buffers[waiting.buffer].planes[waiting.plane]
LastPlane == waiting.plane = Len(buffers[waiting.buffer].sync)

\* The GEM wait: a virtio-gpu node is open and the plane imports into it.
VirtgpuWait(d) == allocator # None /\ allocator.wait /\ Layout[d].virtgpu

\* wait_for_dmabuf: a fence the kernel exports, else the virtio-gpu wait, else neither.
CanWait(d) == machine.export \/ VirtgpuWait(d)

Synchronized ==
  /\ waiting # None /\ CanWait(WaitedPlane) /\ WaitedPlane \notin writing
  /\ IF LastPlane THEN waiting' = None /\ QueueCommit(waiting.buffer, FALSE)
     ELSE waiting' = [waiting EXCEPT !.plane = @ + 1] /\ UNCHANGED mine
  /\ UNCHANGED <<machine, allocator, gens, host, writing, life>>

\* One plane without a mechanism: the whole buffer is left to implicit synchronization for good.
ImplicitSyncFallback ==
  /\ waiting # None /\ ~CanWait(WaitedPlane)
  /\ waiting' = None /\ QueueCommit(waiting.buffer, TRUE)
  /\ UNCHANGED <<machine, allocator, gens, host, writing, life>>

\* Mutant: the poll has no timeout.
WaitFailsOnError == waiting # None /\ WaitedPlane \notin writing

\* A fence in error or not signalled within a second, an ioctl that fails: fatal.
WaitFails == waiting # None

WaitError ==
  /\ WaitFails
  /\ waiting' = None /\ life' = "fatal"
  /\ UNCHANGED <<mine, machine, allocator, gens, host, writing>>

Wait == life = "running" /\ (Synchronized \/ ImplicitSyncFallback \/ WaitError)

\* The guest renders into buffers it has not handed over (what it wrote before importing one
\* looks the same to the proxy); its GPU may hang.
InUse(d) == \E b \in DOMAIN buffers :
  /\ d \in Range(buffers[b].planes)
  /\ buffers[b].state \in {"queued", "held"} \/ (waiting # None /\ waiting.buffer = b)
GpuStart(d) == /\ life = "running" /\ d \notin writing /\ ~InUse(d) /\ writing' = writing \cup {d}
               /\ \E b \in DOMAIN buffers : d \in Range(buffers[b].planes)
               /\ UNCHANGED <<mine, machine, allocator, waiting, gens, host, life>>
GpuEnd(d) == /\ d \in writing /\ writing' = writing \ {d}
             /\ UNCHANGED <<mine, machine, allocator, waiting, gens, host, life>>

-----------------------------------------------------------------------------
(* Drop for Context: queued and pending raw descriptors are closed by hand,  *)
(* the synchronization descriptors by their owners.                         *)

SyncFds == Held(creates) \cup UNION {Range(buffers[b].sync) : b \in DOMAIN buffers}
PendingFds == UNION {IF pending[p] = Absent THEN {} ELSE Fds(pending[p]) : p \in ParamsIds}

Teardown ==
  /\ life # "closed" /\ waiting = None /\ life' = "closed"
  /\ open' = open \ (QueueFds \cup PendingFds \cup SyncFds)
  /\ queue' = <<>> /\ pending' = [p \in ParamsIds |-> Absent] /\ creates' = {}
  /\ buffers' = [b \in DOMAIN buffers |-> Gone]
  /\ UNCHANGED <<machine, allocator, map, dying, used, orphaned, waiting, gens, host, writing>>

Ended == life = "closed" /\ UNCHANGED vars

Next ==
  \/ \E p \in ParamsIds :
       \/ CreateParams(p) \/ OnDestroyParams(p) \/ DeleteId(p)
       \/ \E d \in Dmabufs, idx \in 0..2, s \in Strides : OnAdd(p, d, idx, s)
       \/ \E c \in Creates, immed \in BOOLEAN : OnCreate(p, c, immed)
  \/ \E g \in 1..Len(host.params) : OnCreated(g) \/ OnFailed(g)
  \/ \E b \in DOMAIN buffers : OnRelease(b) \/ RemoveBuffer(b) \/ OnCommit(b)
  \/ \E d \in Dmabufs : GpuStart(d) \/ GpuEnd(d)
  \/ Flush \/ Wait \/ Teardown \/ Ended

Spec == Init /\ [][Next]_vars /\ WF_vars(Wait)

-----------------------------------------------------------------------------
(* Properties.                                                             *)

\* Every descriptor the proxy opened is owned by exactly one of the queued ADDs, the pending
\* planes, the unanswered creates and the live buffers, and none is left after teardown: no
\* leak, no double close, whatever fails half-way (pending_params and sync_fds).
DescriptorsOwned ==
  /\ open = QueueFds \cup PendingFds \cup SyncFds
  /\ QueueFds \cap PendingFds = {} /\ (QueueFds \cup PendingFds) \cap SyncFds = {}
  /\ \A c \in creates, b \in DOMAIN buffers : Range(c.sync) \cap Range(buffers[b].sync) = {}
  /\ \A b, k \in DOMAIN buffers : b # k => Range(buffers[b].sync) \cap Range(buffers[k].sync) = {}
  /\ life = "closed" => open = {}

\* The compositor never has to reject the params stream: a create arrives once, after exactly
\* the planes of its format, each set once and wide enough (valid_params, process_params); and
\* with a kernel that reports resource layouts plane 0 carries the host's stride (on_add).
HostAccepts ==
  /\ ~host.err
  /\ (allocator # None /\ has_extended_virtgpu_resource_info(allocator)) => host.layout

\* The host never samples a plane the guest GPU still writes: a commit is queued only when every
\* plane of its buffer is finished, except where some plane has neither an exported fence nor
\* the virtio-gpu wait (wait_for_native_buffer, wait_for_dmabuf).
NoUnfinishedFrame ==
  \A b \in DOMAIN buffers : buffers[b].state \in {"queued", "held"} =>
    \/ \A i \in DOMAIN buffers[b].planes : buffers[b].planes[i] \notin writing
    \/ \E i \in DOMAIN buffers[b].planes : ~CanWait(buffers[b].planes[i])

\* A commit that waits for the GPU ends, with the commit sent or the connection closed, even when
\* the GPU hangs (the one-second limit of wait_sync_file).
WaitEnds == (waiting # None) ~> (waiting = None)

\* A frame waits for the GPU, and not for ever.
FramesWaitForGpu == []NoUnfinishedFrame /\ WaitEnds
=============================================================================
