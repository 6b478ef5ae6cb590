--------------------------- MODULE ObjectLifecycle --------------------------
(***************************************************************************)
(* Object identity across the proxy: ShadowTable (state.rs), the generated *)
(* request and event dispatchers (wayland_codegen/src/generator.rs), the   *)
(* handlers of wl_display.delete_id, wl_callback.done, wl_buffer and the   *)
(* asynchronous linux-dmabuf params, and the stale-event filter (proxy.rs).*)
(*                                                                         *)
(* Guest and host number their objects independently, and both reuse the   *)
(* numbers.  A client-range ID is free again when its delete_id arrives, a *)
(* server-range ID when its owner has received the destructor.  Messages   *)
(* that name an ID may be in flight across either boundary.  Every object  *)
(* has an incarnation number here, which no real message carries; the      *)
(* properties compare incarnations, the code can only compare IDs.         *)
(*                                                                         *)
(* Interfaces stand for lifetimes: "surface" is an object with a           *)
(* destructor, "callback" one that its last event destroys, "text_input"   *)
(* one whose host object has no destructor, "buffer" one whose destruction *)
(* may wait for a release, "params" one with an asynchronous result,       *)
(* "local" one without a host object, "offer" one the server creates.      *)
(***************************************************************************)
EXTENDS Naturals, FiniteSets, Sequences

CONSTANTS
  ClientIds,     \* guest IDs the guest allocates (below 0xff00_0000)
  ServerIds,     \* guest IDs allocate_guest_server_id hands out
  HostIds,       \* host IDs allocate_host_id hands out
  HostServerIds, \* host IDs the host allocates
  None,          \* Option::None
  MaxBorn,       \* bound on the objects of a behaviour
  QMax           \* bound on the messages in flight in each direction

ASSUME IdsAssumption ==
  /\ ClientIds \cap ServerIds = {} /\ HostIds \cap HostServerIds = {}
  /\ None \notin ClientIds \cup ServerIds \cup HostIds \cup HostServerIds
ASSUME BoundsAssumption == MaxBorn \in Nat /\ QMax \in Nat

VARIABLES
  g2h,          \* guest_to_host
  h2g,          \* host_to_guest
  interfaces,   \* interfaces
  hostIfaces,   \* host_interfaces
  pendingHost,  \* pending_destroy_host_ids
  pendingGuest, \* pending_destroy_guest_ids
  creates,      \* Context::pending_native_creates
  usedParams,   \* Context::used_dmabuf_params
  orphaned,     \* Context::orphaned_dmabuf_params
  inUse,        \* buffers submitted to the host and not released
  deferred,     \* host buffers the guest destroyed while they were in use
  fatal,        \* why the connection was torn down
  guestObj,     \* the guest's objects
  hostObj,      \* the host's objects
  hostCreates,  \* params whose create the host has yet to answer
  hostUses,     \* buffers the host has yet to release
  born,         \* incarnations so far
  toHost,       \* requests in flight to the host
  toProxy,      \* events in flight from the host
  out           \* the guest objects that the event the step delivered names

shadow == <<g2h, h2g, interfaces, hostIfaces, pendingHost, pendingGuest>>
context == <<creates, usedParams, orphaned, inUse, deferred, fatal>>
hostState == <<hostObj, hostCreates, hostUses>>
vars == <<shadow, context, guestObj, hostState, born, toHost, toProxy, out>>

Guests == ClientIds \cup ServerIds
Hosts  == HostIds \cup HostServerIds
GuestCreated == {"surface", "callback", "text_input", "buffer", "params"}
Interface == GuestCreated \cup {"local", "offer"}
Born == 0 .. MaxBorn
GuestObject == [interface : Interface, born : Born, state : {"live", "destroyed"}]
HostObject == [interface : Interface, born : Born]
Ref(ids) == [id : ids, born : Born]
Request == [op : {"new"}, id : Hosts, interface : Interface, born : Born]
             \cup [op : {"destroy", "create", "submit"}, id : Hosts, born : Born]
             \cup [op : {"refer"}, id : Hosts, born : Born, arg : Ref(Hosts)]
Event == [op : {"event", "done", "failed", "release", "delete_id"}, id : Hosts,
          born : Born]
           \cup [op : {"created", "offer"}, id : Hosts, born : Born,
                 new_id : HostServerIds, new_born : Born]
           \cup [op : {"refer"}, id : Hosts, born : Born, arg : Ref(Hosts),
                 expects : Interface]

\* None is no entry of any table.
ASSUME TablesAssumption == None \notin Interface \cup GuestObject \cup HostObject

TypeOK ==
  /\ g2h \in [Guests -> Hosts \cup {None}]
  /\ h2g \in [Hosts -> Guests \cup {None}]
  /\ interfaces \in [Guests -> Interface \cup {None}]
  /\ hostIfaces \in [Hosts -> Interface \cup {None}]
  /\ pendingHost \in SUBSET Hosts /\ pendingGuest \in SUBSET Guests
  /\ creates \in SUBSET HostIds /\ usedParams \in SUBSET ClientIds
  /\ orphaned \in [HostIds -> ClientIds \cup {None}]
  /\ inUse \in SUBSET Hosts /\ deferred \in SUBSET Hosts
  /\ fatal \in {"no", "guest_new_id", "guest_object", "host_new_id"}
  /\ guestObj \in [Guests -> GuestObject \cup {None}]
  /\ hostObj \in [Hosts -> HostObject \cup {None}]
  /\ hostCreates \in SUBSET [id : HostIds, born : Born]
  /\ hostUses \in SUBSET Hosts
  /\ born \in Born
  /\ toHost \in Seq(Request) /\ toProxy \in Seq(Event)
  /\ out \subseteq Ref(Guests)

-----------------------------------------------------------------------------
(* ShadowTable                                                             *)

\* is_host_id_available
IsHostIdAvailable(h) ==
  h2g[h] = None /\ hostIfaces[h] = None /\ h \notin pendingHost

\* is_guest_id_available; a request's new_id lies below the server range.
IsGuestIdAvailable(g) == g2h[g] = None /\ interfaces[g] = None

\* allocate_host_id and allocate_guest_server_id return some free ID of their
\* range; which one depends on a cursor that never rules a free ID out.
AllocateHostId(h) == h \in HostIds /\ IsHostIdAvailable(h)
AllocateGuestServerId(g) == g \in ServerIds /\ g2h[g] = None /\ interfaces[g] = None

\* is_guest_server_id: no delete_id will come for it.
IsGuestServerId(g) == g \in ServerIds

\* guest_object_matches; host_object_matches: under either side's metadata.
GuestObjectMatches(g, i) == interfaces[g] = i
HostObjectMatches(h, i) ==
  hostIfaces[h] = i \/ (h2g[h] # None /\ interfaces[h2g[h]] = i)

\* is_local_only_guest_object: an interface the proxy serves by itself.
IsLocalOnly(g) == interfaces[g] = "local"

\* is_event_sender_known: paired, or internal to the proxy.
IsEventSenderKnown(h) == h2g[h] # None \/ hostIfaces[h] # None

MapId(g, h) ==
  /\ g2h' = [x \in Guests |-> IF x = g THEN h
                              ELSE IF x = h2g[h] /\ g2h[x] = h THEN None
                              ELSE g2h[x]]
  /\ h2g' = [x \in Hosts |-> IF x = h THEN g
                             ELSE IF x = g2h[g] /\ h2g[x] = g THEN None
                             ELSE h2g[x]]

TrackInterface(g, i) == interfaces' = [interfaces EXCEPT ![g] = i]

\* track_host_interface and remove_host_interface
TrackHostInterface(h, i) == hostIfaces' = [hostIfaces EXCEPT ![h] = i]
RemoveHostInterface(h) == hostIfaces' = [hostIfaces EXCEPT ![h] = None]

\* consume_host_delete_id and clear_pending_destroy_guest
ConsumeHostDeleteId(h) == pendingHost' = pendingHost \ {h}
ClearPendingDestroyGuest(g) == pendingGuest' = pendingGuest \ {g}

\* mark_pending_destroy
MarkPendingDestroy(g) ==
  /\ pendingGuest' = IF g2h[g] = None THEN pendingGuest ELSE pendingGuest \cup {g}
  /\ UNCHANGED <<g2h, h2g, interfaces, hostIfaces, pendingHost>>

\* mark_pending_destroy_host
MarkPendingDestroyHost(h) ==
  /\ IF h2g[h] # None \/ hostIfaces[h] = None THEN UNCHANGED <<hostIfaces, pendingHost>>
     ELSE /\ hostIfaces' = [hostIfaces EXCEPT ![h] = None]
          /\ pendingHost' = pendingHost \cup {h}
  /\ UNCHANGED <<g2h, h2g, interfaces, pendingGuest>>

\* Variant: the reverse half of the pair stays behind.
RemoveIdKeepsReverse(g) ==
  /\ pendingGuest' = pendingGuest \ {g}
  /\ g2h' = [g2h EXCEPT ![g] = None]
  /\ interfaces' = [interfaces EXCEPT ![g] = None]
  /\ UNCHANGED <<h2g, hostIfaces, pendingHost>>

\* remove_id
RemoveId(g) ==
  /\ pendingGuest' = pendingGuest \ {g}
  /\ g2h' = [g2h EXCEPT ![g] = None]
  /\ h2g' = [h \in Hosts |-> IF h = g2h[g] THEN None ELSE h2g[h]]
  /\ hostIfaces' = [h \in Hosts |-> IF h = g2h[g] THEN None ELSE hostIfaces[h]]
  /\ interfaces' = [interfaces EXCEPT ![g] = None]
  /\ UNCHANGED pendingHost

\* Variant: the host ID is not kept reserved.
RemoveGuestMappingFreesHost(g) ==
  /\ g2h' = [g2h EXCEPT ![g] = None]
  /\ h2g' = [h \in Hosts |-> IF h = g2h[g] THEN None ELSE h2g[h]]
  /\ hostIfaces' = [h \in Hosts |-> IF h = g2h[g] THEN None ELSE hostIfaces[h]]
  /\ interfaces' = [interfaces EXCEPT ![g] = None]

\* remove_guest_mapping: the host ID stays reserved under an interface.
RemoveGuestMapping(g) ==
  /\ g2h' = [g2h EXCEPT ![g] = None]
  /\ h2g' = [h \in Hosts |-> IF h = g2h[g] /\ h2g[h] = g THEN None ELSE h2g[h]]
  /\ hostIfaces' = [h \in Hosts |-> IF h = g2h[g] /\ hostIfaces[h] = None
                                    THEN interfaces[g] ELSE hostIfaces[h]]
  /\ interfaces' = [interfaces EXCEPT ![g] = None]

\* Variant: the guest's interface entry stays behind.
RetireServerDestroyedKeepsInterface(g) ==
  /\ g2h' = [g2h EXCEPT ![g] = None]
  /\ h2g' = [h \in Hosts |-> IF h = g2h[g] THEN None ELSE h2g[h]]
  /\ hostIfaces' = [h \in Hosts |-> IF h = g2h[g] THEN None ELSE hostIfaces[h]]
  /\ pendingHost' = pendingHost \cup {g2h[g]}
  /\ UNCHANGED <<interfaces, pendingGuest>>

\* retire_server_destroyed_object: remove_guest_mapping, then
\* mark_pending_destroy_host on the reservation it leaves.
RetireServerDestroyed(g) ==
  /\ g2h' = [g2h EXCEPT ![g] = None]
  /\ h2g' = [h \in Hosts |-> IF h = g2h[g] THEN None ELSE h2g[h]]
  /\ interfaces' = [interfaces EXCEPT ![g] = None]
  /\ hostIfaces' = [h \in Hosts |-> IF h = g2h[g] THEN None ELSE hostIfaces[h]]
  /\ pendingHost' = pendingHost \cup {g2h[g]}
  /\ UNCHANGED pendingGuest

\* retire_guest_object
RetireGuestObject(g) ==
  /\ interfaces' = [interfaces EXCEPT ![g] = None]
  /\ pendingGuest' = pendingGuest \cup {g}
  /\ hostIfaces' = [h \in Hosts |-> IF h = g2h[g] /\ hostIfaces[h] = None
                                    THEN interfaces[g] ELSE hostIfaces[h]]
  /\ UNCHANGED <<g2h, h2g, pendingHost>>

-----------------------------------------------------------------------------
(* What each side of the wire does with an ID                              *)

Send(reqs) == /\ Len(toHost) + Len(reqs) =< QMax
              /\ toHost' = toHost \o reqs
NewReq(h, i, n) == [op |-> "new", id |-> h, interface |-> i, born |-> n]
Req(op, h, n) == [op |-> op, id |-> h, born |-> n]

Bear == born < MaxBorn /\ born' = born + 1
GuestNew(g, i) ==
  guestObj' = [guestObj EXCEPT ![g] = [interface |-> i, born |-> born',
                                       state |-> "live"]]
\* The guest destroys a server-range object for good; a client-range ID waits
\* for delete_id.
GuestDestroys(g) ==
  guestObj' = [guestObj EXCEPT ![g] =
                 IF IsGuestServerId(g) THEN None ELSE [@ EXCEPT !.state = "destroyed"]]
GuestDeleteId(g) == guestObj' = [guestObj EXCEPT ![g] = None]

Running == fatal = "no"
Live(g, i) == /\ Running
              /\ guestObj[g] # None
              /\ guestObj[g].state = "live" /\ guestObj[g].interface = i
Quiet == out' = {}

\* Dispatch refuses the request of a sender whose destructor it forwarded, or
\* that is neither paired nor local.
Serves(g) == g \notin pendingGuest /\ (g2h[g] # None \/ IsLocalOnly(g))

\* generate_request_validations for an object argument: live, of the interface
\* the request expects, and paired or local.
ValidRequestArg(a, i) ==
  /\ a \notin pendingGuest
  /\ GuestObjectMatches(a, i)
  /\ g2h[a] # None \/ IsLocalOnly(a)

-----------------------------------------------------------------------------
(* Guest requests                                                          *)

\* A request with a new_id argument: validation, allocation, map_id,
\* track_interface.  get_text_input also registers the host interface.
Create(g, h, i) ==
  /\ Running /\ guestObj[g] = None /\ i \in GuestCreated
  /\ Bear /\ GuestNew(g, i) /\ Quiet
  /\ IF IsGuestIdAvailable(g)
     THEN /\ AllocateHostId(h)
          /\ MapId(g, h)
          /\ TrackInterface(g, i)
          /\ IF i = "text_input" THEN TrackHostInterface(h, i)
             ELSE UNCHANGED hostIfaces
          /\ Send(<<NewReq(h, i, born')>>)
          /\ UNCHANGED <<pendingHost, pendingGuest, fatal>>
     ELSE /\ fatal' = "guest_new_id"
          /\ UNCHANGED <<shadow, toHost>>
  /\ UNCHANGED <<creates, usedParams, orphaned, inUse, deferred, hostState,
                 toProxy>>

\* wl_display.sync, with the same steps in a handler of its own.
OnSync(g, h) == Create(g, h, "callback")

\* A request of g with the object argument a, its interface given by the
\* request: translated to the host's ID, or dropped when a is local.
Refer(g, a) ==
  /\ Live(g, "surface")
  /\ \E i \in {"surface", "offer", "local"} : Live(a, i)
  /\ Quiet
  /\ CASE ~Serves(g) \/ ~ValidRequestArg(a, guestObj[a].interface) ->
            fatal' = "guest_object" /\ UNCHANGED toHost
       [] Serves(g) /\ IsLocalOnly(a) -> UNCHANGED <<fatal, toHost>>
       [] OTHER ->
            /\ Send(<<[op |-> "refer", id |-> g2h[g], born |-> guestObj[g].born,
                       arg |-> [id |-> g2h[a], born |-> guestObj[a].born]]>>)
            /\ UNCHANGED fatal
  /\ UNCHANGED <<shadow, creates, usedParams, orphaned, inUse, deferred, guestObj,
                 hostState, born, toProxy>>

\* An object the proxy implements by itself.
CreateLocal(g) ==
  /\ Running /\ guestObj[g] = None
  /\ Bear /\ GuestNew(g, "local") /\ Quiet
  /\ IF IsGuestIdAvailable(g)
     THEN TrackInterface(g, "local") /\ UNCHANGED fatal
     ELSE fatal' = "guest_new_id" /\ UNCHANGED interfaces
  /\ UNCHANGED <<g2h, h2g, hostIfaces, pendingHost, pendingGuest, creates,
                 usedParams, orphaned, inUse, deferred, hostState, toHost, toProxy>>

\* queue_local_delete_id: delete_id at once.
DestroyLocal(g) ==
  /\ Live(g, "local")
  /\ RemoveId(g) /\ GuestDeleteId(g) /\ Quiet
  /\ UNCHANGED <<context, hostState, born, toHost, toProxy>>

\* A forwarded destructor and the generated destructor_cleanup.
Destroy(g, i) ==
  /\ Live(g, i) /\ Serves(g) /\ i \in {"surface", "offer"}
  /\ Send(<<Req("destroy", g2h[g], guestObj[g].born)>>)
  /\ IF IsGuestServerId(g) THEN RemoveId(g) ELSE MarkPendingDestroy(g)
  /\ GuestDestroys(g) /\ Quiet
  /\ UNCHANGED <<context, hostState, born, toProxy>>

\* zwp_text_input_v3.destroy: queue_guest_delete_id and remove_guest_mapping;
\* the v1 object has no destructor.
DestroyTextInput(g) ==
  /\ Live(g, "text_input") /\ Serves(g)
  /\ RemoveGuestMapping(g) /\ GuestDeleteId(g) /\ Quiet
  /\ UNCHANGED <<pendingHost, pendingGuest, context, hostState, born, toHost,
                 toProxy>>

\* zwp_linux_buffer_params_v1.create, once per params.
CreateAsync(g) ==
  /\ Live(g, "params") /\ Serves(g) /\ g \notin usedParams
  /\ creates' = creates \cup {g2h[g]}
  /\ usedParams' = usedParams \cup {g}
  /\ Send(<<Req("create", g2h[g], guestObj[g].born)>>) /\ Quiet
  /\ UNCHANGED <<shadow, orphaned, inUse, deferred, fatal, guestObj, hostState,
                 born, toProxy>>

\* Variant: the pending create is forgotten with its params.
OrphanPendingNone(h, g) == UNCHANGED orphaned

\* params.destroy with a create under way: a marker for its late result.
OrphanPending(h, g) ==
  orphaned' = IF h \in creates THEN [orphaned EXCEPT ![h] = g] ELSE orphaned

\* zwp_linux_buffer_params_v1.destroy
DestroyParams(g) ==
  /\ Live(g, "params") /\ Serves(g)
  /\ OrphanPending(g2h[g], g)
  /\ creates' = creates \ {g2h[g]}
  /\ usedParams' = usedParams \ {g}
  /\ Send(<<Req("destroy", g2h[g], guestObj[g].born)>>)
  /\ MarkPendingDestroy(g)
  /\ GuestDestroys(g) /\ Quiet
  /\ UNCHANGED <<inUse, deferred, fatal, hostState, born, toProxy>>

\* attach and commit: the host uses the buffer until it releases it.
Submit(g) ==
  /\ Live(g, "buffer") /\ Serves(g) /\ g2h[g] \notin inUse
  /\ inUse' = inUse \cup {g2h[g]}
  /\ Send(<<Req("submit", g2h[g], guestObj[g].born)>>) /\ Quiet
  /\ UNCHANGED <<shadow, creates, usedParams, orphaned, deferred, fatal, guestObj,
                 hostState, born, toProxy>>

\* queue_host_buffer_destroy and complete_queued_buffer_destroy
QueueBufferDestroy(g, n) ==
  /\ Send(<<Req("destroy", g2h[g], n)>>)
  /\ IF IsGuestServerId(g) THEN RemoveId(g) ELSE MarkPendingDestroy(g)

\* wl_buffer.destroy: at once, or when the host releases the buffer.
DestroyBuffer(g) ==
  /\ Live(g, "buffer") /\ Serves(g)
  /\ GuestDestroys(g) /\ Quiet
  /\ IF g2h[g] \in inUse
     THEN /\ RetireGuestObject(g)
          /\ deferred' = deferred \cup {g2h[g]}
          /\ UNCHANGED toHost
     ELSE QueueBufferDestroy(g, guestObj[g].born) /\ UNCHANGED deferred
  /\ UNCHANGED <<creates, usedParams, orphaned, inUse, fatal, hostState, born,
                 toProxy>>

\* A host-only callback (activation barrier, capability discovery).
InternalSync(h) ==
  /\ Running /\ AllocateHostId(h) /\ Bear
  /\ TrackHostInterface(h, "callback")
  /\ Send(<<NewReq(h, "callback", born')>>) /\ Quiet
  /\ UNCHANGED <<g2h, h2g, interfaces, pendingHost, pendingGuest, context,
                 guestObj, hostState, toProxy>>

\* A host-only object the proxy creates and destroys in one handler (the
\* params of an SHM buffer, a host SHM pool).
InternalParams(h) ==
  /\ Running /\ AllocateHostId(h) /\ Bear
  /\ Send(<<NewReq(h, "params", born'), Req("destroy", h, born')>>)
  /\ pendingHost' = pendingHost \cup {h} /\ Quiet
  /\ UNCHANGED <<g2h, h2g, interfaces, hostIfaces, pendingGuest, context,
                 guestObj, hostState, toProxy>>

-----------------------------------------------------------------------------
(* Host events                                                             *)

ev == Head(toProxy)
Take(op) == /\ Running /\ toProxy # <<>> /\ ev.op = op
            /\ toProxy' = Tail(toProxy)
Deliver(g, n) == out' = {[id |-> g, born |-> n]}

\* The interface a host event is decoded with: host_interfaces first.
IfaceOf(h) == IF hostIfaces[h] # None \/ h2g[h] = None THEN hostIfaces[h]
              ELSE interfaces[h2g[h]]

\* is_pending_destroy_host
PendingDestroy(h) == h2g[h] # None /\ h2g[h] \in pendingGuest

\* allows_orphan_dmabuf_created, allows_orphan_dmabuf_failed
AllowsOrphan(h) ==
  IfaceOf(h) = "params" /\ (PendingDestroy(h) \/ orphaned[h] # None)

\* Variant: events of a destroyed object are dispatched.
DispatchesStale(h) == IfaceOf(h) # None /\ IsEventSenderKnown(h)

\* A sender with an interface, and not pending_host_event_is_stale.
Dispatches(h) ==
  IfaceOf(h) # None /\ ~PendingDestroy(h) /\ IsEventSenderKnown(h)

\* generate_event_validations for an object argument.
ValidEventArg(h, i) ==
  ~PendingDestroy(h) /\ HostObjectMatches(h, i) /\ h2g[h] # None

\* An event without a lifetime effect.
OnEvent ==
  /\ Take("event")
  /\ IF Dispatches(ev.id) /\ h2g[ev.id] # None THEN Deliver(h2g[ev.id], ev.born)
     ELSE Quiet
  /\ UNCHANGED <<shadow, context, guestObj, hostState, born, toHost>>

\* An event with an object argument: an argument the guest no longer has drops
\* the event.
OnRefer ==
  /\ Take("refer")
  /\ IF /\ Dispatches(ev.id) /\ h2g[ev.id] # None
        /\ ValidEventArg(ev.arg.id, ev.expects)
     THEN out' = {[id |-> h2g[ev.id], born |-> ev.born],
                  [id |-> h2g[ev.arg.id], born |-> ev.arg.born]}
     ELSE Quiet
  /\ UNCHANGED <<shadow, context, guestObj, hostState, born, toHost>>

\* wl_callback.done, of a guest's callback or of an internal one.  The guest
\* gets done and delete_id together.
OnDone ==
  /\ Take("done")
  /\ LET h == ev.id
         g == h2g[h]
     IN  CASE ~Dispatches(h) -> Quiet /\ UNCHANGED <<shadow, guestObj>>
           [] Dispatches(h) /\ g = None ->
                MarkPendingDestroyHost(h) /\ Quiet /\ UNCHANGED guestObj
           [] OTHER -> /\ RetireServerDestroyed(g)
                       /\ GuestDeleteId(g) /\ Deliver(g, ev.born)
  /\ UNCHANGED <<context, hostState, born, toHost>>

\* wl_display.delete_id: of a host-only object, of orphaned params whose
\* result is still to come, or of a pair.
OnDeleteId ==
  /\ Take("delete_id")
  /\ LET h == ev.id
         g == h2g[h]
     IN  CASE h \in pendingHost ->
                /\ ConsumeHostDeleteId(h)
                /\ UNCHANGED <<g2h, h2g, interfaces, hostIfaces, pendingGuest,
                               creates, inUse, deferred, guestObj>>
           [] h \notin pendingHost /\ h \in HostIds /\ orphaned[h] # None ->
                /\ IF g = orphaned[h]
                   THEN /\ RemoveGuestMapping(g)
                        /\ ClearPendingDestroyGuest(g)
                        /\ GuestDeleteId(g)
                   ELSE UNCHANGED <<g2h, h2g, interfaces, hostIfaces,
                                    pendingGuest, guestObj>>
                /\ UNCHANGED <<pendingHost, creates, inUse, deferred>>
           [] OTHER ->
                IF g = None THEN UNCHANGED <<shadow, creates, inUse, deferred, guestObj>>
                ELSE /\ RemoveId(g) /\ GuestDeleteId(g)
                     /\ creates' = creates \ {h}
                     /\ inUse' = inUse \ {h} /\ deferred' = deferred \ {h}
  /\ Quiet
  /\ UNCHANGED <<usedParams, orphaned, fatal, hostState, born, toHost>>

\* An event with a new_id argument: validation, allocate_guest_server_id,
\* map_id, track_interface.
NewServerObject(i) ==
  /\ \E g \in ServerIds :
       /\ AllocateGuestServerId(g)
       /\ MapId(g, ev.new_id)
       /\ TrackInterface(g, i)
       /\ guestObj' = [guestObj EXCEPT ![g] = [interface |-> i,
                          born |-> ev.new_born, state |-> "live"]]
  /\ UNCHANGED <<hostIfaces, pendingHost, pendingGuest>>

\* wl_data_device.data_offer, standing for every event with a new_id.
OnOffer ==
  /\ Take("offer")
  /\ CASE ~Dispatches(ev.id) \/ h2g[ev.id] = None ->
            Quiet /\ UNCHANGED <<shadow, guestObj, fatal>>
       [] Dispatches(ev.id) /\ h2g[ev.id] # None
            /\ ~IsHostIdAvailable(ev.new_id) ->
            fatal' = "host_new_id" /\ Quiet /\ UNCHANGED <<shadow, guestObj>>
       [] OTHER -> /\ NewServerObject("offer")
                   /\ Deliver(h2g[ev.id], ev.born)
                   /\ UNCHANGED fatal
  /\ UNCHANGED <<creates, usedParams, orphaned, inUse, deferred, hostState, born,
                 toHost>>

\* Once the late result is consumed the reservation of acknowledged params
\* goes (remove_host_interface).
ForgetOrphan(h) ==
  /\ orphaned' = [orphaned EXCEPT ![h] = None]
  /\ IF h2g[h] = None /\ orphaned[h] # None THEN RemoveHostInterface(h)
     ELSE UNCHANGED hostIfaces

Orphan(h) == orphaned[h] # None \/ PendingDestroy(h)

\* zwp_linux_buffer_params_v1.created: nobody wants the buffer of orphaned
\* params, so it is destroyed on the spot.
OnCreated ==
  /\ Take("created")
  /\ LET h == ev.id
     IN  CASE ~Dispatches(h) /\ ~AllowsOrphan(h) ->
                /\ Quiet /\ UNCHANGED <<shadow, creates, orphaned, fatal, guestObj,
                                        toHost>>
           [] (Dispatches(h) \/ AllowsOrphan(h))
                /\ ~IsHostIdAvailable(ev.new_id) ->
                /\ fatal' = "host_new_id" /\ Quiet
                /\ UNCHANGED <<shadow, creates, orphaned, guestObj, toHost>>
           [] OTHER ->
                IF Orphan(h)
                THEN /\ ForgetOrphan(h)
                     /\ pendingHost' = pendingHost \cup {ev.new_id}
                     /\ creates' = creates \ {h}
                     /\ Send(<<Req("destroy", ev.new_id, ev.new_born)>>)
                     /\ Quiet
                     /\ UNCHANGED <<g2h, h2g, interfaces, pendingGuest, fatal,
                                    guestObj>>
                ELSE /\ NewServerObject("buffer")
                     /\ creates' = creates \ {h}
                     /\ Deliver(h2g[h], ev.born)
                     /\ UNCHANGED <<orphaned, fatal, toHost>>
  /\ UNCHANGED <<usedParams, inUse, deferred, hostState, born>>

\* zwp_linux_buffer_params_v1.failed
OnFailed ==
  /\ Take("failed")
  /\ LET h == ev.id
     IN  CASE ~Dispatches(h) /\ ~AllowsOrphan(h) ->
                Quiet /\ UNCHANGED <<hostIfaces, creates, orphaned>>
           [] OTHER ->
                IF Orphan(h)
                THEN ForgetOrphan(h) /\ creates' = creates \ {h} /\ Quiet
                ELSE /\ creates' = creates \ {h} /\ Deliver(h2g[h], ev.born)
                     /\ UNCHANGED <<hostIfaces, orphaned>>
  /\ UNCHANGED <<g2h, h2g, interfaces, pendingHost, pendingGuest, usedParams, inUse,
                 deferred, fatal, guestObj, hostState, born, toHost>>

\* wl_buffer.release: a deferred destructor goes out now, silently.
OnRelease ==
  /\ Take("release")
  /\ LET h == ev.id
         g == h2g[h]
     IN  CASE h \in deferred /\ g # None ->
                /\ QueueBufferDestroy(g, ev.born)
                /\ deferred' = deferred \ {h} /\ inUse' = inUse \ {h}
                /\ Quiet
           [] h \notin deferred /\ g # None /\ Dispatches(h) ->
                /\ inUse' = inUse \ {h} /\ Deliver(g, ev.born)
                /\ UNCHANGED <<shadow, deferred, toHost>>
           [] OTHER -> Quiet /\ UNCHANGED <<shadow, inUse, deferred, toHost>>
  /\ UNCHANGED <<creates, usedParams, orphaned, fatal, guestObj, hostState, born>>

-----------------------------------------------------------------------------
(* The host: what a request names, and when it may name an ID again        *)

Emit(es) == /\ Len(toProxy) + Len(es) =< QMax
            /\ toProxy' = toProxy \o es

HostReceive ==
  /\ toHost # <<>>
  /\ toHost' = Tail(toHost)
  /\ LET r == Head(toHost)
     IN  CASE r.op = "new" ->
                /\ hostObj' = [hostObj EXCEPT ![r.id] = [interface |-> r.interface,
                                                         born |-> r.born]]
                /\ UNCHANGED <<hostCreates, hostUses, toProxy>>
           [] r.op = "destroy" ->
                /\ hostObj' = [hostObj EXCEPT ![r.id] = None]
                /\ hostUses' = hostUses \ {r.id}
                /\ IF r.id \in HostIds
                   THEN Emit(<<Req("delete_id", r.id, r.born)>>)
                   ELSE UNCHANGED toProxy
                /\ UNCHANGED hostCreates
           [] r.op = "create" ->
                /\ hostCreates' = hostCreates \cup
                     {[id |-> r.id, born |-> r.born]}
                /\ UNCHANGED <<hostObj, hostUses, toProxy>>
           [] r.op = "refer" -> UNCHANGED <<hostState, toProxy>>
           [] r.op = "submit" ->
                /\ hostUses' = hostUses \cup {r.id}
                /\ UNCHANGED <<hostObj, hostCreates, toProxy>>
  /\ Quiet
  /\ UNCHANGED <<shadow, context, guestObj, born>>

HostLeaves == UNCHANGED <<shadow, context, guestObj, toHost>> /\ Quiet

HostEmits(h) ==
  /\ hostObj[h] # None /\ hostObj[h].interface \notin {"callback", "params"}
  /\ Emit(<<Req("event", h, hostObj[h].born)>>)
  /\ HostLeaves /\ UNCHANGED <<hostState, born>>

HostRefers(h, a) ==
  /\ hostObj[h] # None /\ hostObj[h].interface = "surface"
  /\ hostObj[a] # None /\ hostObj[a].interface \in {"surface", "offer"}
  /\ Emit(<<[op |-> "refer", id |-> h, born |-> hostObj[h].born,
             arg |-> [id |-> a, born |-> hostObj[a].born],
             expects |-> hostObj[a].interface]>>)
  /\ HostLeaves /\ UNCHANGED <<hostState, born>>

HostDone(h) ==
  /\ hostObj[h] # None /\ hostObj[h].interface = "callback"
  /\ hostObj' = [hostObj EXCEPT ![h] = None]
  /\ Emit(<<Req("done", h, hostObj[h].born), Req("delete_id", h, hostObj[h].born)>>)
  /\ HostLeaves /\ UNCHANGED <<hostCreates, hostUses, born>>

HostOffers(h, s) ==
  /\ hostObj[h] # None /\ hostObj[h].interface = "surface" /\ hostObj[s] = None
  /\ Bear
  /\ hostObj' = [hostObj EXCEPT ![s] = [interface |-> "offer", born |-> born']]
  /\ Emit(<<[op |-> "offer", id |-> h, born |-> hostObj[h].born,
             new_id |-> s, new_born |-> born']>>)
  /\ HostLeaves /\ UNCHANGED <<hostCreates, hostUses>>

\* The result of a create, sent under the ID its params had: also after the
\* params are gone.
HostCreated(p, s) ==
  /\ p \in hostCreates /\ hostObj[s] = None
  /\ Bear
  /\ hostCreates' = hostCreates \ {p}
  /\ hostObj' = [hostObj EXCEPT ![s] = [interface |-> "buffer", born |-> born']]
  /\ Emit(<<[op |-> "created", id |-> p.id, born |-> p.born, new_id |-> s,
             new_born |-> born']>>)
  /\ HostLeaves /\ UNCHANGED hostUses

HostFailed(p) ==
  /\ p \in hostCreates
  /\ hostCreates' = hostCreates \ {p}
  /\ Emit(<<Req("failed", p.id, p.born)>>)
  /\ HostLeaves /\ UNCHANGED <<hostObj, hostUses, born>>

HostRelease(h) ==
  /\ h \in hostUses
  /\ hostUses' = hostUses \ {h}
  /\ Emit(<<Req("release", h, hostObj[h].born)>>)
  /\ HostLeaves /\ UNCHANGED <<hostObj, hostCreates, born>>

-----------------------------------------------------------------------------
Init ==
  /\ g2h = [g \in Guests |-> None] /\ h2g = [h \in Hosts |-> None]
  /\ interfaces = [g \in Guests |-> None] /\ hostIfaces = [h \in Hosts |-> None]
  /\ pendingHost = {} /\ pendingGuest = {}
  /\ creates = {} /\ usedParams = {}
  /\ orphaned = [h \in HostIds |-> None]
  /\ inUse = {} /\ deferred = {}
  /\ fatal = "no"
  /\ guestObj = [g \in Guests |-> None] /\ hostObj = [h \in Hosts |-> None]
  /\ hostCreates = {} /\ hostUses = {}
  /\ born = 0
  /\ toHost = <<>> /\ toProxy = <<>>
  /\ out = {}

GuestStep ==
  \/ \E g \in ClientIds, h \in HostIds, i \in GuestCreated \ {"callback"} :
       Create(g, h, i)
  \/ \E g \in ClientIds, h \in HostIds : OnSync(g, h)
  \/ \E g \in ClientIds, a \in Guests : Refer(g, a)
  \/ \E g \in ClientIds : CreateLocal(g)
  \/ \E g \in ClientIds : DestroyLocal(g)
  \/ \E g \in Guests, i \in Interface : Destroy(g, i)
  \/ \E g \in ClientIds : DestroyTextInput(g)
  \/ \E g \in ClientIds : CreateAsync(g)
  \/ \E g \in ClientIds : DestroyParams(g)
  \/ \E g \in Guests : Submit(g)
  \/ \E g \in Guests : DestroyBuffer(g)

ProxyStep ==
  \/ OnEvent
  \/ OnRefer
  \/ OnDone
  \/ OnDeleteId
  \/ OnOffer
  \/ OnCreated
  \/ OnFailed
  \/ OnRelease

HostStep ==
  \/ HostReceive
  \/ \E h \in Hosts : HostEmits(h)
  \/ \E h \in HostIds, a \in Hosts : HostRefers(h, a)
  \/ \E h \in HostIds : HostDone(h)
  \/ \E h \in HostIds, s \in HostServerIds : HostOffers(h, s)
  \/ \E p \in hostCreates, s \in HostServerIds : HostCreated(p, s)
  \/ \E p \in hostCreates : HostFailed(p)
  \/ \E h \in Hosts : HostRelease(h)

Next ==
  \/ GuestStep
  \/ ProxyStep
  \/ HostStep
  \/ \E h \in HostIds : InternalSync(h)
  \/ \E h \in HostIds : InternalParams(h)

Spec == Init /\ [][Next]_vars

-----------------------------------------------------------------------------
(* Properties                                                              *)

\* The tables are well formed: the two maps are one bijection (map_id,
\* remove_id and remove_guest_mapping each edit both), and no reserved host ID
\* is mapped.
MapsAreInverse ==
  /\ TypeOK
  /\ \A g \in Guests : g2h[g] # None => h2g[g2h[g]] = g
  /\ \A h \in Hosts : h2g[h] # None => g2h[h2g[h]] = h /\ h \notin pendingHost

\* An event reaches the very object the host sent it from and names the very
\* object the host meant, and only while the guest has destroyed neither,
\* although IDs are reused on both sides.
EventReachesItsObject ==
  [][ \A r \in out' : /\ guestObj[r.id] # None
                      /\ guestObj[r.id].born = r.born
                      /\ guestObj[r.id].state = "live" ]_vars

HostHas(r) == hostObj[r.id] # None /\ hostObj[r.id].born = r.born

\* Every request the host receives is one it accepts: a new ID it has free, or
\* the objects the guest meant, as sender and as argument.
RequestsNameTheirObject ==
  toHost # <<>> =>
    LET r == Head(toHost)
    IN  IF r.op = "new" THEN hostObj[r.id] = None
        ELSE HostHas(r) /\ (r.op = "refer" => HostHas(r.arg))

Announced(h, op, q) == \E i \in DOMAIN q : q[i].op = op /\ q[i].id = h

\* A guest that keeps to the protocol is never disconnected: an ID it got
\* delete_id for is free in the tables (is_guest_id_available), and what it
\* has not destroyed is accepted as sender and as argument.
GuestNeverRefused ==
  /\ fatal \notin {"guest_new_id", "guest_object"}
  /\ \A g \in Guests : \A i \in Interface :
       Live(g, i) => Serves(g) /\ ValidRequestArg(g, i)

\* No reservation leaks: every client-range ID that waits for delete_id has a
\* destructor or the delete_id itself on the wire.
PendingAwaitsDeleteId ==
  \A h \in HostIds :
    h \in pendingHost \/ (PendingDestroy(h) /\ h \notin deferred) =>
      Announced(h, "destroy", toHost) \/ Announced(h, "delete_id", toProxy)

\* A buffer whose params the guest destroyed first is not leaked: as long as
\* the host has it, the guest can destroy it, or its destructor or its created
\* event is on the wire (on_created destroys it for the guest).
NoOrphanedBuffer ==
  fatal = "no" =>
    \A s \in HostServerIds :
      hostObj[s] # None /\ hostObj[s].interface = "buffer" =>
        \/ h2g[s] # None
        \/ Announced(s, "destroy", toHost)
        \/ \E i \in DOMAIN toProxy : /\ toProxy[i].op = "created"
                                     /\ toProxy[i].new_id = s

\* Nothing is left behind by destructors that cross: neither a reserved ID nor
\* a buffer of the host.
NothingLeftBehind == PendingAwaitsDeleteId /\ NoOrphanedBuffer
=============================================================================
