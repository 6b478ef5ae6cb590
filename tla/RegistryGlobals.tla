-------------------------- MODULE RegistryGlobals --------------------------
(***************************************************************************)
(* Globals: the wl_registry handlers (handler/registry.rs), the internal   *)
(* host bindings they make, and the discovery of linux-dmabuf capabilities *)
(* behind a wl_display.sync barrier (handler/linux_dmabuf.rs,              *)
(* handler/callback.rs).                                                   *)
(*                                                                         *)
(* The guest may have several registries, each told of every global on its *)
(* own; the host may give a removed global's name to another global.  The  *)
(* proxy counts generations of a name, binds some interfaces once for      *)
(* itself, hides or renumbers what it shows, and must not show a           *)
(* linux-dmabuf global before it knows the host's formats.                 *)
(*                                                                         *)
(* An interface stands for how on_global treats it: "output" is shown as   *)
(* it is up to a version cap, "other" is not in the allow lists, and the   *)
(* Singletons are bound internally.  A name's advertisement has an         *)
(* incarnation number here, which the proxy does not see.  Requests that   *)
(* concern only the bound object (the guest's own bind, the destructor of  *)
(* an internal binding) and the IDs they use belong to ObjectLifecycle.    *)
(***************************************************************************)
EXTENDS Naturals, FiniteSets, SequencesExt

CONSTANTS
  Registries,   \* wl_registry objects
  Names,        \* numeric global names
  Objects,      \* guest IDs for bound objects and feedback objects
  Offers,       \* the interfaces and versions the host may advertise
  None,         \* Option::None
  GpuAccel,     \* Context::gpu_accel; else VirtWL carries dma-bufs
  Allocator,    \* Context::allocator is present
  MaxChanges,   \* bound on the host's global and global_remove
  MaxGens       \* bound on the generations, never reached

Singletons == {"shm", "dmabuf", "text", "text_ext", "keyboard", "aura"}

Interfaces == Singletons \cup {"output", "other"}

ASSUME OffersAssumption == Offers \subseteq [interface : Interfaces, version : Nat]
ASSUME BoundsAssumption ==
  /\ MaxChanges \in Nat /\ MaxGens \in Nat
  /\ GpuAccel \in BOOLEAN /\ Allocator \in BOOLEAN
ASSUME NoneAssumption == None \notin Names \cup Nat \cup BOOLEAN

VARIABLES
  ctx,      \* the fields of Context the handlers use
  created,  \* registries the guest has created
  live,     \* those it has not destroyed
  shown,    \* what the guest has been told of each name by each registry
  fatal,    \* a protocol error ended the connection
  out,      \* the registry events the step sent to the guest
  watched,  \* no registry was destroyed that alone listed or knew a name
  globals,  \* the host's globals
  listening,\* the host's registries, oldest first
  changes,  \* the host's changes so far
  toHost,   \* requests in flight to the host
  toProxy   \* events in flight from the host

host == <<globals, listening, changes>>
vars == <<ctx, created, live, shown, fatal, out, watched, host, toHost, toProxy>>

Generation == 1 .. MaxGens
Advert == [interface : Interfaces, version : Nat]
Pending == [registry : Registries, name : Names, version : Nat,
            generation : Generation]
Callback == [kind : {"dmabuf"}, of : Generation, inc : Nat]
              \cup [kind : {"gtk"}, of : Objects]
Object == [interface : Interfaces \cup {"feedback"}, version : Nat,
           generation : Generation \cup {None}, answered : BOOLEAN]
Context ==
  [global_generations : [Names -> Generation \cup {None}], next : Generation,
   registry_names : [Registries -> SUBSET Names],
   registry_generations : [Registries -> [Names -> Generation \cup {None}]],
   registry_removed : [Registries -> SUBSET Names],
   registry_visibility : [Registries -> [Names -> BOOLEAN \cup {None}]],
   host_globals : [Names -> Advert \cup {None}],
   hidden : SUBSET Names, removed : SUBSET Names,
   bound : [Singletons -> [name : Names \cup {None}, inc : Nat] \cup {None}],
   dmabuf_generation : Generation \cup {None},
   capabilities : [Generation -> [ready : BOOLEAN, formats : BOOLEAN] \cup {None}],
   pending : SUBSET Pending, callbacks : SUBSET Callback,
   objects : [Objects -> Object \cup {None}],
   to_guest : {<<>>}, to_host : {<<>>}]

Request == [op : {"get_registry", "destroy_registry"}, registry : Registries]
             \cup [op : {"bind"}, interface : Singletons, inc : Nat]
             \cup [op : {"sync"}, callback : Callback]
Event == [op : {"global"}, registry : Registries, name : Names,
          interface : Interfaces, version : Nat, inc : Nat]
           \cup [op : {"global_remove"}, registry : Registries, name : Names]
           \cup [op : {"format"}, inc : Nat] \cup [op : {"done"}, callback : Callback]

TypeOK ==
  /\ ctx \in Context
  /\ created \in SUBSET Registries /\ live \in SUBSET created
  /\ shown \in [Registries -> [Names -> Advert \cup {None}]]
  /\ fatal \in BOOLEAN /\ watched \in BOOLEAN
  /\ globals \in [Names -> [interface : Interfaces, version : Nat,
                            inc : Nat] \cup {None}]
  /\ listening \in Seq(Registries) /\ changes \in 0 .. MaxChanges
  /\ toHost \in Seq(Request) /\ toProxy \in Seq(Event)

-----------------------------------------------------------------------------
(* Queues of the context c                                                 *)

ToGuest(c, m) == [c EXCEPT !.to_guest = Append(@, m)]
ToHost(c, m) == [c EXCEPT !.to_host = Append(@, m)]

\* queue_dmabuf_capability_barrier and queue_gtk_shell_capability_barrier
Barrier(c, k) ==
  ToHost([c EXCEPT !.callbacks = @ \cup {k}], [op |-> "sync", callback |-> k])

GlobalEvent(r, n, a) == [op |-> "global", registry |-> r, name |-> n, advert |-> a]
RemoveEvent(r, n) == [op |-> "global_remove", registry |-> r, name |-> n]

Visibility(c, r, n, visible) == [c EXCEPT !.registry_visibility[r][n] = visible]

\* Insert into host_globals, queue_synthetic_global (or forward the event) and
\* record_registry_global_visibility.
Show(c, r, n, a) ==
  Visibility(ToGuest([c EXCEPT !.host_globals[n] = a], GlobalEvent(r, n, a)),
             r, n, TRUE)
Hide(c, r, n) == Visibility(c, r, n, FALSE)

-----------------------------------------------------------------------------
(* linux-dmabuf capabilities                                               *)

\* Variant: guest objects do not keep a generation.
ReclaimIgnoresObjects(c, g) ==
  IF c.dmabuf_generation = g \/ (\E p \in c.pending : p.generation = g)
  THEN c ELSE [c EXCEPT !.capabilities[g] = None]

\* maybe_reclaim_capability_generation
Reclaim(c, g) ==
  IF \/ c.dmabuf_generation = g
     \/ \E k \in c.callbacks : k.kind = "dmabuf" /\ k.of = g
     \/ \E o \in Objects : c.objects[o] # None /\ c.objects[o].generation = g
     \/ \E p \in c.pending : p.generation = g
  THEN c ELSE [c EXCEPT !.capabilities[g] = None]

Ready(c, g) == c.capabilities[g] # None /\ c.capabilities[g].ready
HasFormats(c, g) == c.capabilities[g] # None /\ c.capabilities[g].formats

\* defer_synthetic_dmabuf_global
Defer(c, r, n, version, g) ==
  Hide([c EXCEPT !.pending = @ \cup {[registry |-> r, name |-> n,
                                      version |-> version, generation |-> g]}],
       r, n)

\* is_current of publish_pending_dmabuf_globals
PendingIsCurrent(c, p) ==
  /\ p.name \in c.registry_names[p.registry]
  /\ c.registry_generations[p.registry][p.name] = p.generation
  /\ p.name \notin c.registry_removed[p.registry]
  /\ c.global_generations[p.name] = p.generation

\* publish_pending_dmabuf_globals
Publish(c, g) ==
  LET c1 == [c EXCEPT !.pending = {p \in @ : p.generation # g}]
      shows == {p \in c.pending \ c1.pending : PendingIsCurrent(c, p)}
  IN  IF ~HasFormats(c, g) THEN c1
      ELSE FoldLeft(LAMBDA acc, p :
                      Show(acc, p.registry, p.name,
                           [interface |-> "dmabuf", version |-> p.version]),
                    c1, SetToSeq(shows))

\* complete_capability_discovery
CompleteDiscovery(c, g) ==
  LET c1 == Publish([c EXCEPT !.capabilities[g].ready = TRUE], g)
  IN  IF c.capabilities[g] = None \/ Ready(c, g) THEN c
      ELSE [c1 EXCEPT !.objects = [o \in Objects |->
              IF @[o] # None /\ @[o].interface = "feedback" /\ @[o].generation = g
              THEN [@[o] EXCEPT !.answered = TRUE] ELSE @[o]]]

-----------------------------------------------------------------------------
(* Internal bindings                                                       *)

\* The interfaces without a destructor, whose host object is kept for good.
Kept == {"text", "text_ext"}

Matching(c, n) == {i \in Singletons : c.bound[i] # None /\ c.bound[i].name = n}

\* reset_internal_binding_for_global
ResetInternal(c, n) ==
  LET matching == Matching(c, n)
      c1 == [c EXCEPT
               !.bound = [i \in Singletons |->
                  IF i \notin matching THEN @[i]
                  ELSE IF i \in Kept THEN [@[i] EXCEPT !.name = None] ELSE None],
               !.dmabuf_generation = IF "dmabuf" \in matching THEN None ELSE @,
               !.hidden = @ \ {n}]
  IN  IF "dmabuf" \in matching /\ c.dmabuf_generation # None
      THEN Reclaim(c1, c.dmabuf_generation) ELSE c1

\* queue_internal_bind of a new host object
Bind(c, i, n, inc) ==
  ToHost([c EXCEPT !.bound[i] = [name |-> n, inc |-> inc]],
         [op |-> "bind", interface |-> i, inc |-> inc])

-----------------------------------------------------------------------------
(* wl_registry.global                                                      *)

\* Variants: every event starts a generation; the generation advances whenever
\* this registry saw a removal.
NextGenerationEachEvent(c, r, n) == c.next
NextGenerationAlways(c, r, n) ==
  IF c.global_generations[n] = None \/ n \in c.registry_removed[r]
  THEN c.next ELSE c.global_generations[n]

\* note_registry_global: the first registry to see a replacement advances the
\* generation of the name, the others adopt it.
NextGeneration(c, r, n) ==
  LET current == c.global_generations[n]
  IN  IF \/ current = None
         \/ n \in c.registry_removed[r] /\ c.registry_generations[r][n] = current
      THEN c.next ELSE current

Duplicate(c, r, n) ==
  /\ n \in c.registry_names[r]
  /\ c.registry_generations[r][n] = c.global_generations[n]

Note(c, r, n) ==
  LET g == NextGeneration(c, r, n)
  IN  [c EXCEPT !.next = IF g = @ THEN @ + 1 ELSE @,
                !.global_generations[n] = g,
                !.registry_names[r] = @ \cup {n},
                !.registry_removed[r] = @ \ {n},
                !.registry_generations[r][n] = g]

\* A new generation of the name drops the old one's binding and metadata
\* (replace_global_metadata_for_generation).
Replace(c, n) ==
  [ResetInternal(c, n) EXCEPT !.host_globals[n] = None, !.hidden = @ \ {n}]

\* advertised_global_version, of an interface capped at 3
AdvertisedVersion(v) == IF v < 3 THEN v ELSE 3

\* zwp_linux_dmabuf_v1
GlobalDmabuf(c, r, n, v, inc) ==
  LET g == c.global_generations[n]
      synthesize == v >= 3 /\ Allocator
      advert == [interface |-> "dmabuf",
                 version |-> IF synthesize THEN 4 ELSE AdvertisedVersion(v)]
      first == c.bound["dmabuf"] = None
      c1 == IF ~first THEN c
            ELSE [Bind(c, "dmabuf", n, inc)
                    EXCEPT !.dmabuf_generation = g,
                           !.capabilities[g] = IF @ = None THEN
                               [ready |-> FALSE, formats |-> FALSE] ELSE @]
      c2 == CASE ~GpuAccel -> Hide([c1 EXCEPT !.hidden = @ \cup {n}], r, n)
              [] GpuAccel /\ synthesize /\ (first \/ ~Ready(c, g)) ->
                   Defer(c1, r, n, advert.version, g)
              [] GpuAccel /\ (~synthesize \/ (~first /\ Ready(c, g) /\ HasFormats(c, g))) ->
                   Show(c1, r, n, advert)
              [] OTHER -> Hide(c1, r, n)
      barrier == [kind |-> "dmabuf", of |-> g, inc |-> inc]
  IN  IF first /\ synthesize THEN Barrier(c2, barrier) ELSE c2

\* zcr_text_input_extension_v1 and zcr_keyboard_extension_v1
GlobalHidden(c, r, n, i, inc) ==
  LET c1 == Hide([c EXCEPT !.hidden = @ \cup {n}], r, n)
  IN  IF c.bound[i] = None THEN Bind(c1, i, n, inc) ELSE c1

\* zwp_text_input_manager_v1, zaura_shell and wl_shm: replaced by a v1 global
\* the proxy implements, and bound once.
GlobalReplaced(c, r, n, i, inc) ==
  LET c1 == Show(c, r, n, [interface |-> i, version |-> 1])
  IN  IF c.bound[i] = None THEN Bind(c1, i, n, inc) ELSE c1

\* Any other interface: dropped unless it is in an allow list.
GlobalForwarded(c, r, n, i, v) ==
  IF i = "other" THEN Hide(c, r, n)
  ELSE Show(c, r, n, [interface |-> i, version |-> AdvertisedVersion(v)])

OnGlobal(c, r, n, i, v, inc) ==
  LET changed == c.global_generations[n] \notin {None, NextGeneration(c, r, n)}
      c1 == Note(c, r, n)
      c2 == [(IF changed THEN Replace(c1, n) ELSE c1) EXCEPT !.removed = @ \ {n}]
  IN  IF v = 0 \/ Duplicate(c, r, n) THEN c
      ELSE CASE i = "aura" /\ v < 6 -> Hide(c2, r, n)
             [] i = "dmabuf" -> GlobalDmabuf(c2, r, n, v, inc)
             [] i \in {"text_ext", "keyboard"} -> GlobalHidden(c2, r, n, i, inc)
             [] i \in {"text", "shm"} \/ (i = "aura" /\ v >= 6) ->
                  GlobalReplaced(c2, r, n, i, inc)
             [] i \in {"output", "other"} -> GlobalForwarded(c2, r, n, i, v)

-----------------------------------------------------------------------------
(* wl_registry.global_remove                                               *)

\* still_seen: some registry lists the current generation.
StillSeen(c, n) ==
  \E r \in Registries :
    /\ n \in c.registry_names[r]
    /\ c.registry_generations[r][n] = c.global_generations[n]

\* Variant: every removal is passed on.
WasVisibleAlways(c, r, n) == TRUE

WasVisible(c, r, n) ==
  IF c.registry_visibility[r][n] = None THEN c.host_globals[n] # None
  ELSE c.registry_visibility[r][n]

OnGlobalRemove(c, r, n) ==
  LET g == c.registry_generations[r][n]
      c1 == Reclaim([c EXCEPT
              !.registry_names[r] = @ \ {n},
              !.pending = {p \in @ : ~(p.registry = r /\ p.name = n
                                         /\ p.generation = g)}], g)
      c2 == [c1 EXCEPT !.registry_visibility[r][n] = None,
                       !.registry_removed[r] = @ \cup {n}]
      last == g = c.global_generations[n] /\ ~StillSeen(c2, n)
      c3 == IF last THEN ResetInternal(c2, n) ELSE c2
      c4 == IF last /\ (n \in c3.hidden \/ c3.host_globals[n] # None)
            THEN [c3 EXCEPT !.removed = @ \cup {n}, !.hidden = @ \ {n},
                            !.host_globals[n] = None]
            ELSE c3
  IN  IF n \notin c.registry_names[r] THEN c
      ELSE IF WasVisible(c, r, n) THEN ToGuest(c4, RemoveEvent(r, n)) ELSE c4

-----------------------------------------------------------------------------
(* Guest requests                                                          *)

\* The step of a handler that leaves the context c: its queues go out.
Run(c) ==
  LET told(s, m) == [s EXCEPT ![m.registry][m.name] =
                       IF m.op = "global" THEN m.advert ELSE None]
  IN  /\ ctx' = [c EXCEPT !.to_guest = <<>>, !.to_host = <<>>]
      /\ out' = c.to_guest
      /\ shown' = FoldLeft(told, shown, c.to_guest)

Idle == UNCHANGED <<ctx, shown>> /\ out' = <<>>

\* wl_display.get_registry.  Registries stand for incarnations; the reuse of
\* their IDs is the subject of module ObjectLifecycle.
GetRegistry(r) ==
  /\ ~fatal /\ r \notin created
  /\ created' = created \cup {r} /\ live' = live \cup {r}
  /\ toHost' = Append(toHost, [op |-> "get_registry", registry |-> r])
  /\ Idle
  /\ UNCHANGED <<fatal, watched, host, toProxy>>

\* on_destroy_registry: everything kept for the registry goes.
ForgetRegistry(c, r) ==
  LET none == [n \in Names |-> None]
      c1 == [c EXCEPT !.registry_names[r] = {}, !.registry_removed[r] = {},
                      !.registry_generations[r] = none,
                      !.registry_visibility[r] = none,
                      !.pending = {p \in @ : p.registry # r}]
  IN  FoldLeft(Reclaim, c1,
               SetToSeq(Range(c.registry_generations[r]) \ {None}))

\* wl_fixes.destroy_registry
DestroyRegistry(r) ==
  /\ ~fatal /\ r \in live
  /\ live' = live \ {r}
  /\ ctx' = ForgetRegistry(ctx, r)
  /\ shown' = [shown EXCEPT ![r] = [n \in Names |-> None]]
  /\ out' = <<>>
  /\ toHost' = Append(toHost, [op |-> "destroy_registry", registry |-> r])
  /\ watched' = (watched /\ \E x \in live \ {r} :
                   /\ ctx.registry_names[r] \subseteq ctx.registry_names[x]
                   /\ \A n \in Names : ctx.registry_generations[r][n] # None
                                        => ctx.registry_generations[x][n] # None)
  /\ UNCHANGED <<created, fatal, host, toProxy>>

\* guest_bind_is_allowed
BindAllowed(r, n, advert) ==
  /\ ctx.host_globals[n] # None /\ n \notin ctx.removed
  /\ n \in ctx.registry_names[r]
  /\ ctx.registry_generations[r][n] = ctx.global_generations[n]
  /\ ctx.host_globals[n].interface = advert.interface
  /\ advert.version > 0 /\ advert.version =< ctx.host_globals[n].version

NewObject(i, v, g, answered) ==
  [interface |-> i, version |-> v, generation |-> g, answered |-> answered]

\* wl_registry.bind of a global the guest was told of.
OnBind(r, n, o) ==
  LET a == shown[r][n]
      g == IF a.interface = "dmabuf" THEN ctx.registry_generations[r][n] ELSE None
      gtk == a.interface = "aura"
      c1 == [ctx EXCEPT !.objects[o] = NewObject(a.interface, a.version, g, ~gtk)]
      c2 == IF gtk THEN Barrier(c1, [kind |-> "gtk", of |-> o]) ELSE c1
  IN  /\ ~fatal /\ r \in live /\ a # None /\ ctx.objects[o] = None
      /\ UNCHANGED <<created, live, watched, host, toProxy>>
      /\ \/ ~BindAllowed(r, n, a) /\ fatal' = TRUE /\ Idle /\ UNCHANGED toHost
         \/ /\ BindAllowed(r, n, a)
            /\ Run(c2) /\ toHost' = toHost \o c2.to_host
            /\ UNCHANGED fatal

\* get_default_feedback and get_surface_feedback of a v4 factory
GetFeedback(o, f) ==
  /\ ~fatal /\ ctx.objects[o] # None /\ ctx.objects[f] = None
  /\ ctx.objects[o].interface = "dmabuf" /\ ctx.objects[o].version >= 4
  /\ LET g == ctx.objects[o].generation
     IN  ctx' = [ctx EXCEPT !.objects[f] =
                   NewObject("feedback", 4, g, Ready(ctx, g))]
  /\ out' = <<>>
  /\ UNCHANGED <<created, live, shown, fatal, watched, host, toHost, toProxy>>

\* The destructors of a factory and of a feedback object give up their
\* generation.
DestroyObject(o) ==
  /\ ~fatal /\ ctx.objects[o] # None
  /\ ctx.objects[o].interface \in {"dmabuf", "feedback"}
  /\ ctx' = Reclaim([ctx EXCEPT !.objects[o] = None], ctx.objects[o].generation)
  /\ out' = <<>>
  /\ UNCHANGED <<created, live, shown, fatal, watched, host, toHost, toProxy>>

-----------------------------------------------------------------------------
(* Host events                                                             *)

ev == Head(toProxy)
Take(op) == /\ ~fatal /\ toProxy # <<>> /\ ev.op = op
            /\ toProxy' = Tail(toProxy)
            /\ UNCHANGED <<created, live, fatal, watched, host>>

\* Events of a registry whose destructor was forwarded are dropped.
ReceiveGlobal ==
  /\ Take("global")
  /\ LET c == OnGlobal(ctx, ev.registry, ev.name, ev.interface, ev.version, ev.inc)
     IN  IF ev.registry \notin live THEN Idle /\ UNCHANGED toHost
         ELSE Run(c) /\ toHost' = toHost \o c.to_host

ReceiveGlobalRemove ==
  /\ Take("global_remove")
  /\ IF ev.registry \notin live THEN Idle
     ELSE Run(OnGlobalRemove(ctx, ev.registry, ev.name))
  /\ UNCHANGED toHost

\* zwp_linux_dmabuf_v1 format and modifier, of the internal binding
ReceiveFormat ==
  /\ Take("format")
  /\ IF \/ ctx.bound["dmabuf"] = None \/ ctx.bound["dmabuf"].inc # ev.inc
     THEN Idle
     ELSE Run([ctx EXCEPT !.capabilities[ctx.dmabuf_generation] =
                 IF @ = None THEN [ready |-> FALSE, formats |-> TRUE]
                 ELSE [@ EXCEPT !.formats = TRUE]])
  /\ UNCHANGED toHost

\* wl_callback.done of a barrier: discovery is complete, or a GTK shell gets
\* its capabilities.
ReceiveDone ==
  /\ Take("done")
  /\ LET k == ev.callback
         c == [ctx EXCEPT !.callbacks = @ \ {k}]
     IN  CASE k \notin ctx.callbacks -> Idle
           [] k \in ctx.callbacks /\ k.kind = "dmabuf" ->
                Run(Reclaim(CompleteDiscovery(c, k.of), k.of))
           [] k \in ctx.callbacks /\ k.kind = "gtk" ->
                Run([c EXCEPT !.objects[k.of].answered = TRUE])
  /\ UNCHANGED toHost

-----------------------------------------------------------------------------
(* The host compositor                                                     *)

HostKeeps == UNCHANGED <<ctx, created, live, shown, fatal, watched>> /\ out' = <<>>

GlobalTo(r, n) ==
  [op |-> "global", registry |-> r, name |-> n, interface |-> globals[n].interface,
   version |-> globals[n].version, inc |-> globals[n].inc]

\* Requests in order: a new registry is told of every global, a binding of
\* linux-dmabuf of its formats, if it has any the proxy supports.
HostReceive ==
  /\ ~fatal /\ toHost # <<>>
  /\ toHost' = Tail(toHost)
  /\ LET q == Head(toHost)
         listed == SetToSeq({n \in Names : globals[n] # None})
     IN  CASE q.op = "get_registry" ->
                /\ listening' = Append(listening, q.registry)
                /\ toProxy' = toProxy \o [i \in DOMAIN listed |->
                                            GlobalTo(q.registry, listed[i])]
           [] q.op = "destroy_registry" ->
                /\ listening' = SelectSeq(listening, LAMBDA r : r # q.registry)
                /\ UNCHANGED toProxy
           [] q.op = "bind" ->
                /\ \/ UNCHANGED toProxy
                   \/ /\ q.interface = "dmabuf"
                      /\ toProxy' = Append(toProxy, [op |-> "format", inc |-> q.inc])
                /\ UNCHANGED listening
           [] q.op = "sync" ->
                /\ toProxy' = Append(toProxy, [op |-> "done", callback |-> q.callback])
                /\ UNCHANGED listening
  /\ HostKeeps
  /\ UNCHANGED <<globals, changes>>

\* The host walks its registries, oldest first, for every change.
Tell(event(_)) ==
  toProxy' = toProxy \o [i \in DOMAIN listening |-> event(listening[i])]

\* A compositor has at most one global of a singleton interface.
HostAdd(n, i, v) ==
  /\ ~fatal /\ globals[n] = None /\ changes < MaxChanges
  /\ i \in Singletons =>
       \A m \in Names : globals[m] # None => globals[m].interface # i
  /\ changes' = changes + 1
  /\ globals' = [globals EXCEPT ![n] = [interface |-> i, version |-> v,
                                        inc |-> changes']]
  /\ Tell(LAMBDA r : [op |-> "global", registry |-> r, name |-> n,
                      interface |-> i, version |-> v, inc |-> changes'])
  /\ HostKeeps
  /\ UNCHANGED <<listening, toHost>>

HostRemove(n) ==
  /\ ~fatal /\ globals[n] # None /\ changes < MaxChanges
  /\ changes' = changes + 1
  /\ globals' = [globals EXCEPT ![n] = None]
  /\ Tell(LAMBDA r : RemoveEvent(r, n))
  /\ HostKeeps
  /\ UNCHANGED <<listening, toHost>>

-----------------------------------------------------------------------------
Init ==
  LET none == [n \in Names |-> None]
  IN  /\ ctx = [global_generations |-> none, next |-> 1,
                registry_names |-> [r \in Registries |-> {}],
                registry_generations |-> [r \in Registries |-> none],
                registry_removed |-> [r \in Registries |-> {}],
                registry_visibility |-> [r \in Registries |-> none],
                host_globals |-> none, hidden |-> {}, removed |-> {},
                bound |-> [i \in Singletons |-> None], dmabuf_generation |-> None,
                capabilities |-> [g \in Generation |-> None],
                pending |-> {}, callbacks |-> {},
                objects |-> [o \in Objects |-> None],
                to_guest |-> <<>>, to_host |-> <<>>]
      /\ created = {} /\ live = {} /\ shown = [r \in Registries |-> none]
      /\ fatal = FALSE /\ out = <<>> /\ watched = TRUE
      /\ globals = none /\ listening = <<>> /\ changes = 0
      /\ toHost = <<>> /\ toProxy = <<>>

Next ==
  \/ \E r \in Registries : GetRegistry(r)
  \/ \E r \in Registries : DestroyRegistry(r)
  \/ \E r \in Registries, n \in Names, o \in Objects : OnBind(r, n, o)
  \/ \E o, f \in Objects : GetFeedback(o, f)
  \/ \E o \in Objects : DestroyObject(o)
  \/ ReceiveGlobal
  \/ ReceiveGlobalRemove
  \/ ReceiveFormat
  \/ ReceiveDone
  \/ HostReceive
  \/ \E n \in Names, a \in Offers : HostAdd(n, a.interface, a.version)
  \/ \E n \in Names : HostRemove(n)

Spec == Init /\ [][Next]_vars

-----------------------------------------------------------------------------
(* Properties                                                              *)

Quiescent == toHost = <<>> /\ toProxy = <<>>

\* A registry of the guest never announces a name twice without removing it,
\* and never removes what it has not announced, whichever other registry saw
\* the change first and however long a linux-dmabuf global was held back.
GuestEventsBalanced ==
  [][ \A k \in DOMAIN out' :
        LET m == out'[k]
        IN  (m.op = "global") <=> (shown[m.registry][m.name] = None) ]_vars

\* When nothing is in flight, each registry shows exactly globals the host has,
\* and guest_bind_is_allowed accepts a bind of every one, with the interface
\* and the version shown: replacing a global under the same name leaves no
\* registry behind on an old generation.
ShownIsBindable ==
  Quiescent => \A r \in live, n \in Names :
    shown[r][n] # None =>
      /\ globals[n] # None /\ globals[n].interface = shown[r][n].interface
      /\ BindAllowed(r, n, shown[r][n])

\* When nothing is in flight, an interface the proxy binds for itself is bound
\* exactly while some registry lists its global, to this incarnation of it and
\* not to an earlier one (reset_internal_binding_for_global).
BindingIsCurrent ==
  Quiescent /\ watched => \A i \in Singletons \ Kept :
    /\ ctx.bound[i] # None =>
         LET n == ctx.bound[i].name
         IN  globals[n] # None /\ globals[n].inc = ctx.bound[i].inc
    /\ \A r \in live, n \in Names :
         shown[r][n] # None /\ shown[r][n].interface = i => ctx.bound[i] # None

\* The three views of the globals agree: the registries', the allowed binds and
\* the proxy's own bindings.
GlobalsAgree == TypeOK /\ ShownIsBindable /\ BindingIsCurrent

\* No linux-dmabuf global stays held back: when nothing is in flight, every
\* registry shows the host's global if its formats are known, and shows it
\* only then (queue_dmabuf_capability_barrier, publish_pending_dmabuf_globals).
DmabufPublished ==
  Quiescent /\ GpuAccel /\ Allocator /\ watched =>
    /\ ctx.pending = {}
    /\ \A r \in live, n \in Names :
         globals[n] # None /\ globals[n].interface = "dmabuf" /\ globals[n].version >= 3
         => (shown[r][n] # None <=> HasFormats(ctx, ctx.global_generations[n]))

\* A capability snapshot outlives its global for as long as a v4 factory or a
\* feedback object refers to it, and every feedback object and GTK shell has
\* been answered once nothing is in flight (maybe_reclaim_capability_generation).
ObjectsAnswered ==
  \A o \in Objects : ctx.objects[o] # None =>
    /\ ctx.objects[o].version >= 4 =>
         ctx.capabilities[ctx.objects[o].generation] # None
    /\ Quiescent => ctx.objects[o].answered

\* Capabilities are waited for, published and kept: the barrier always ends,
\* and no object outlives the snapshot it is answered from.
CapabilitiesPublished == DmabufPublished /\ ObjectsAnswered
=============================================================================
