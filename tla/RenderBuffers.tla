--------------------------- MODULE RenderBuffers ---------------------------
(***************************************************************************)
(* What the host shows: RenderBufferRegistry and SurfaceState              *)
(* (state/render.rs), the wl_surface and wp_viewport requests              *)
(* (handler/compositor.rs), wl_buffer destroy and release and the          *)
(* retirement of deferred buffers (handler/shm.rs).                        *)
(*                                                                         *)
(* attach is forwarded at once; damage is held back; commit copies the     *)
(* damaged pixels of a SHM buffer into host storage and then sends damage  *)
(* and commit as one batch, or rolls the surface back.  The guest may      *)
(* destroy a buffer at any time, also between attach and commit; the host  *)
(* buffer must outlive the host's use of it.                               *)
(*                                                                         *)
(* A buffer and its host twin are one identifier here (module              *)
(* ObjectLifecycle is about the pairing), a rectangle is one of a few      *)
(* regions, and the coordinate mapping of a surface is the identity, some  *)
(* other one, or one that wp_viewport forbids.                             *)
(***************************************************************************)
EXTENDS Naturals, FiniteSets, SequencesExt

CONSTANTS
  Surfaces,      \* guest wl_surface IDs
  LocalBuffers,  \* SHM buffers, copied into host storage (LocalCopy)
  NativeBuffers, \* dma-buf buffers, shown as they are (Native)
  ServerBuffers, \* the buffers with server-range IDs, which get no delete_id
  Regions,       \* the parts of a buffer damage distinguishes
  None,          \* Option::None
  MaxRects,      \* MAX_PENDING_DAMAGE_RECTS
  MaxFrames,     \* bound on the frames the guest draws
  MaxWork,       \* bound on frames, attaches, mapping changes and failed copies
  QMax,          \* bound on the requests in flight when a handler sends more
  EMax           \* bound on the events in flight from the host

Buffers == LocalBuffers \cup NativeBuffers

ASSUME BuffersAssumption ==
  /\ LocalBuffers \cap NativeBuffers = {} /\ ServerBuffers \subseteq Buffers
  /\ Buffers \cap {"Unchanged", "Detach"} = {} /\ "Full" \notin Regions
  /\ None \notin Buffers \cup Nat \cup {"Unchanged", "Detach"}
ASSUME BoundsAssumption == {MaxRects, MaxFrames, MaxWork, QMax, EMax} \subseteq Nat

VARIABLES
  surfaces,    \* Context::surfaces
  buffers,     \* RenderBufferRegistry::entries
  fatal,       \* Context::fatal_protocol_error
  work,        \* frames, attaches, mapping changes and failed copies so far
  pixels,      \* the guest's pixels: the frame each region of a buffer is from
  storage,     \* the host storage of a SHM buffer, None where uninitialised
  frame,       \* the newest frame of each region
  shown,       \* what the guest believes a surface shows
  owed,        \* regions damaged since the last commit the host was sent
  busy,        \* buffers the guest waits for
  reused,      \* the guest committed a buffer it still had to wait for
  uses,        \* uses the host has not ended, as the message order implies
  toHost,      \* requests in flight to the host
  toProxy,     \* events in flight from the host
  hostSurfaces,\* the host's surfaces
  hostBuffers, \* buffers alive at the host
  hostUses     \* buffers each host surface reads and has not released

proxy == <<surfaces, buffers, fatal, work, storage>>
guest == <<pixels, frame, shown, owed, busy, reused>>
host  == <<hostSurfaces, hostBuffers, hostUses>>
vars  == <<proxy, guest, uses, toHost, toProxy, host>>

Attachment == Buffers \cup {"Unchanged", "Detach"}
Mapping == {"identity", "scaled", "bad_size"}
Full == <<"Full">>
DamageRegion == {Full} \cup UNION {[1 .. n -> Regions] : n \in 0 .. MaxRects}

SurfaceState ==
  [current : Buffers \cup {None}, attachment : Attachment,
   surface_damage : DamageRegion, buffer_damage : DamageRegion,
   mapping : Mapping, pending_mapping : Mapping \cup {None}]

Use == {"NeverSubmitted", "Awaiting", "AwaitingDetached", "Released"}
RenderBuffer ==
  [state : {"GuestAlive", "GuestDestroyed"}, use : Use, needs_full_copy : BOOLEAN]
    \cup {[state |-> "HostDestroyQueued"]}

Frames == [Regions -> 0 .. MaxFrames]
Request == [op : {"attach"}, surface : Surfaces, buffer : Buffers \cup {"Detach"}]
             \cup [op : {"commit"}, surface : Surfaces, damage : SUBSET Regions]
             \cup [op : {"surface_destroy"}, surface : Surfaces]
             \cup [op : {"destroy"}, buffer : Buffers]
Event == [op : {"release", "delete_id"}, buffer : Buffers]

\* Object IDs are 32-bit numbers; None is no entry of any table.
ASSUME TablesAssumption ==
  /\ IsFiniteSet(Buffers)
  /\ None \notin SurfaceState \cup RenderBuffer
               \cup [current : Buffers \cup {None}, pending : Attachment]

TypeOK ==
  /\ surfaces \in [Surfaces -> SurfaceState \cup {None}]
  /\ buffers \in [Buffers -> RenderBuffer \cup {None}]
  /\ fatal \in BOOLEAN /\ reused \in BOOLEAN
  /\ work \in 0 .. MaxWork
  /\ pixels \in [LocalBuffers -> Frames] /\ frame \in Frames
  /\ shown \in [Surfaces -> Frames]
  /\ storage \in [LocalBuffers -> [Regions -> 0 .. MaxFrames \cup {None}]]
  /\ owed \in [Surfaces -> SUBSET Regions]
  /\ busy \in SUBSET Buffers
  /\ uses \in [Buffers -> SUBSET (Surfaces \X {"current", "detached"})]
  /\ toHost \in Seq(Request) /\ toProxy \in Seq(Event)
  /\ hostSurfaces \in [Surfaces -> [current : Buffers \cup {None},
                                    pending : Attachment] \cup {None}]
  /\ hostBuffers \in SUBSET Buffers
  /\ hostUses \in SUBSET (Surfaces \X Buffers)

-----------------------------------------------------------------------------
(* DamageRegion and SurfaceState                                           *)

\* Variant: what does not fit is dropped.
PushDrops(d, r) == IF d = Full \/ Len(d) >= MaxRects THEN d ELSE Append(d, r)

\* DamageRegion::push: at the cap the region becomes Full.
Push(d, r) == IF d = Full THEN Full
              ELSE IF Len(d) >= MaxRects THEN Full ELSE Append(d, r)

Rects(d) == IF d = Full THEN {} ELSE Range(d)

DefaultSurface ==
  [current |-> None, attachment |-> "Unchanged", surface_damage |-> <<>>,
   buffer_damage |-> <<>>, mapping |-> "identity", pending_mapping |-> None]

Attached(t) == IF t.attachment \in Buffers THEN t.attachment ELSE None

\* prepare_commit: apply and consume everything pending.
PrepareCommit(t) ==
  [current |-> IF t.attachment = "Unchanged" THEN t.current ELSE Attached(t),
   attachment |-> "Unchanged", surface_damage |-> <<>>, buffer_damage |-> <<>>,
   mapping |-> IF t.pending_mapping = None THEN t.mapping ELSE t.pending_mapping,
   pending_mapping |-> None]

\* has_full_damage and uses_full_mapping of the prepared commit
HasFullDamage(t) == Full \in {t.surface_damage, t.buffer_damage}
UsesFullMapping(t) == PrepareCommit(t).mapping # "identity"

\* Variant: a rolled-back commit keeps its attachment consumed.
RollbackConsumed(t) == [t EXCEPT !.attachment = "Unchanged"]

\* SurfaceCommit::rollback restores the snapshot prepare_commit took.
Rollback(t) == t

-----------------------------------------------------------------------------
(* RenderBufferRegistry: operations on the entries e                       *)

Active(e, b) == e[b] # None /\ e[b].state # "HostDestroyQueued"
AwaitingUse == {"Awaiting", "AwaitingDetached"}
Submitted(e, b) == Active(e, b) /\ e[b].use \in AwaitingUse
Released(e, b) == Active(e, b) /\ e[b].use = "Released"

SubmitUse(u) == IF u \in AwaitingUse THEN u ELSE "Awaiting"
ReleaseUse(u) == IF u \in AwaitingUse THEN "Released" ELSE u
DetachUse(u) == IF u \in AwaitingUse THEN "AwaitingDetached" ELSE u

\* The checks of finalize_attachment; a reference that resolves to no entry
\* fails, as does a queued or never submitted previous buffer.
CanFinalize(e, previous, next) ==
  /\ next # None => Active(e, next)
  /\ previous \notin {None, next} =>
       Active(e, previous) /\ e[previous].use # "NeverSubmitted"

\* finalize_attachment
Finalize(e, previous, next) ==
  [b \in Buffers |->
     IF b = next THEN [e[b] EXCEPT !.use = SubmitUse(@)]
     ELSE IF b = previous THEN [e[b] EXCEPT !.use = DetachUse(@)]
     ELSE e[b]]

\* end_last_surface_use
EndLastSurfaceUse(e, b, hasOtherCurrent) ==
  IF hasOtherCurrent \/ e[b].use # "Awaiting" THEN e
  ELSE [e EXCEPT ![b].use = "NeverSubmitted"]

\* SurfaceBufferReferences
Current(t) == {t[s].current : s \in {x \in Surfaces : t[x] # None}}
Pending(t) == {t[s].attachment : s \in {x \in Surfaces : t[x] # None}}

\* Variant: a pending attach does not count.
CanRetireIgnoresPending(e, t, b) ==
  /\ e[b] # None /\ e[b].state = "GuestDestroyed"
  /\ b \notin Current(t) \/ Released(e, b)
  /\ ~Submitted(e, b)

\* can_retire_deferred_buffer, of a guest-destroyed entry
CanRetire(e, t, b) ==
  /\ e[b] # None /\ e[b].state = "GuestDestroyed"
  /\ b \notin Current(t) \cup Pending(t) \/ (Released(e, b) /\ b \notin Pending(t))
  /\ ~Submitted(e, b)

DestroyReq(b) == [op |-> "destroy", buffer |-> b]

\* register_local and register_native
NewBuffer(b) ==
  [state |-> "GuestAlive", use |-> "NeverSubmitted", needs_full_copy |-> b \in LocalBuffers]

MarkGuestDestroyed(e, b) == [e EXCEPT ![b].state = "GuestDestroyed"]
MarkHostDestroyQueued(e, b) == [e EXCEPT ![b] = [state |-> "HostDestroyQueued"]]

\* complete_queued_buffer_destroy
Complete(e, b) ==
  IF b \in ServerBuffers THEN [e EXCEPT ![b] = None] ELSE MarkHostDestroyQueued(e, b)

\* clear_current_buffer_reference: the dimensions it keeps are not modelled.
ClearCurrent(t, b) == [t EXCEPT !.current = IF @ = b THEN None ELSE @]

\* clear_surface_buffer_references
ClearReferences(t, b) ==
  [s \in Surfaces |->
     IF t[s] = None THEN None
     ELSE [ClearCurrent(t[s], b) EXCEPT !.attachment = IF @ = b THEN "Detach" ELSE @]]

Send(reqs) == /\ reqs # <<>> => Len(toHost) < QMax
              /\ toHost' = toHost \o reqs

\* Variant: the handler does not look for deferred buffers.
RetireEligibleNever(e, t, reqs) ==
  surfaces' = t /\ buffers' = e /\ Send(reqs)

\* retire_eligible_buffers, after the handler has sent reqs and left the
\* registry e and the surfaces t.
RetireEligible(e, t, reqs) ==
  LET candidates == {b \in Buffers : CanRetire(e, t, b)}
      order == SetToSeq(candidates)
  IN  /\ Send(reqs \o [i \in DOMAIN order |-> DestroyReq(order[i])])
      /\ surfaces' = t
      /\ buffers' = [b \in Buffers |-> IF b \in candidates THEN Complete(e, b)[b]
                                       ELSE e[b]]

-----------------------------------------------------------------------------
(* Guest requests                                                          *)

Live(s) == ~fatal /\ surfaces[s] # None
Works == work < MaxWork /\ work' = work + 1
GuestHas(b) == ~fatal /\ buffers[b] # None /\ buffers[b].state = "GuestAlive"

\* wl_shm_pool.create_buffer, create_immed and created: register_local and
\* register_native.  The host names a server-range buffer in a created event,
\* which follows the events of the buffer that had the ID before.
CreateBuffer(b) ==
  /\ ~fatal /\ buffers[b] = None /\ b \notin hostBuffers
  /\ \A i \in DOMAIN toProxy : toProxy[i].buffer # b
  /\ buffers' = [buffers EXCEPT ![b] = NewBuffer(b)]
  /\ storage' = IF b \in LocalBuffers
                THEN [storage EXCEPT ![b] = [r \in Regions |-> None]] ELSE storage
  /\ hostBuffers' = hostBuffers \cup {b}
  /\ busy' = busy \ {b}
  /\ UNCHANGED <<surfaces, fatal, work, pixels, frame, shown, owed, reused, uses,
                 toHost, toProxy, hostSurfaces, hostUses>>

\* The guest draws a frame that differs from the last one in R.
Draw(b, R) ==
  /\ Works
  /\ GuestHas(b) /\ b \notin busy
  /\ \E f \in {1 + Max({frame[r] : r \in Regions})} :
       /\ f =< MaxFrames
       /\ frame' = [r \in Regions |-> IF r \in R THEN f ELSE frame[r]]
  /\ pixels' = [pixels EXCEPT ![b] = frame']
  /\ UNCHANGED <<surfaces, buffers, fatal, storage, shown, owed, busy, reused,
                 uses, toHost, toProxy, host>>

\* wl_surface.attach; a pending attach it replaces may retire its buffer.
OnAttach(s, b) ==
  /\ Works
  /\ Live(s)
  /\ b # "Detach" => GuestHas(b)
  /\ RetireEligible(buffers, [surfaces EXCEPT ![s].attachment = b],
                    <<[op |-> "attach", surface |-> s, buffer |-> b]>>)
  /\ UNCHANGED <<fatal, storage, guest, uses, toProxy, host>>

\* The regions a conforming guest reports before it commits s.
Changed(s) ==
  IF Attached(surfaces[s]) \in LocalBuffers
  THEN {r \in Regions : pixels[Attached(surfaces[s])][r] # shown[s][r]} \ owed[s]
  ELSE {}

\* damage and damage_buffer: kept for the commit.
OnDamage(s, r) ==
  /\ Live(s) /\ r \in Changed(s)
  /\ surfaces' = [surfaces EXCEPT ![s].surface_damage = Push(@, r)]
  /\ owed' = [owed EXCEPT ![s] = @ \cup {r}]
  /\ UNCHANGED <<buffers, fatal, work, storage, pixels, frame, shown, busy,
                 reused, uses, toHost, toProxy, host>>

OnDamageBuffer(s, r) ==
  /\ Live(s) /\ r \in Changed(s)
  /\ surfaces' = [surfaces EXCEPT ![s].buffer_damage = Push(@, r)]
  /\ owed' = [owed EXCEPT ![s] = @ \cup {r}]
  /\ UNCHANGED <<buffers, fatal, work, storage, pixels, frame, shown, busy,
                 reused, uses, toHost, toProxy, host>>

\* The mapping the next commit applies.  A value a handler refuses ends the
\* connection and changes nothing else; those are left out, and so is one that
\* repeats what the next commit applies anyway.
SetMapping(s, m) ==
  /\ Works
  /\ Live(s) /\ PrepareCommit(surfaces[s]).mapping # m
  /\ surfaces' = [surfaces EXCEPT ![s].pending_mapping = m]
  /\ UNCHANGED <<buffers, fatal, storage, guest, uses, toHost, toProxy,
                 host>>

\* set_buffer_scale and set_buffer_transform.
OnSetBufferScale(s, m) == m # "bad_size" /\ SetMapping(s, m)

\* get_viewport, set_source, set_destination and wp_viewport.destroy; only a
\* source rectangle can make the committed size fractional.
OnViewport(s, m) == SetMapping(s, m)

\* has_invalid_fractional_viewport
InvalidFractionalViewport(t) == PrepareCommit(t).mapping = "bad_size"

\* The regions copy_surface_buffer copies (copy_damage_to_ptr).
Copied(t, b) ==
  IF \/ buffers[b].needs_full_copy \/ HasFullDamage(t)
     \/ UsesFullMapping(t) /\ t.surface_damage # <<>>
  THEN Regions
  ELSE Rects(t.surface_damage) \cup Rects(t.buffer_damage)

\* The damage build_surface_commit_messages sends, with force_full_damage.
HostDamage(t) ==
  IF \/ Attached(t) \in LocalBuffers /\ buffers[Attached(t)].needs_full_copy
     \/ HasFullDamage(t)
     \/ /\ Attached(t) # None /\ UsesFullMapping(t)
        /\ t.surface_damage \o t.buffer_damage = <<>>
  THEN Regions
  ELSE Rects(t.surface_damage) \cup Rects(t.buffer_damage)

\* What a conforming guest has done before commit, and what it believes after.
GuestCommits(s) ==
  LET b == Attached(surfaces[s])
  IN  /\ Live(s) /\ Changed(s) = {}
      /\ busy' = IF b = None THEN busy ELSE busy \cup {b}
      /\ reused' = (reused \/ b \in busy)
      /\ shown' = IF b \in LocalBuffers THEN [shown EXCEPT ![s] = pixels[b]] ELSE shown
      /\ UNCHANGED <<pixels, frame>>

\* The commit fails after prepare_commit: everything is rolled back and no
\* request is sent.
CommitFails(s, e) ==
  /\ RetireEligible(e, [surfaces EXCEPT ![s] = Rollback(@)], <<>>)
  /\ UNCHANGED <<storage, owed, uses, toProxy, host>>

\* wl_surface.commit whose SHM copy fails: dropped, to be retried.
CommitCopyFails(s) ==
  LET b == Attached(surfaces[s])
  IN  /\ GuestCommits(s)
      /\ ~InvalidFractionalViewport(surfaces[s])
      /\ b \in LocalBuffers /\ Active(buffers, b)
      /\ Works
      /\ CommitFails(s, [buffers EXCEPT ![b].needs_full_copy = TRUE])
      /\ UNCHANGED fatal

\* wl_surface.commit that ends the connection: a forbidden viewport, a native
\* fence that fails, or a replacement that cannot be finalized.
CommitFatal(s) ==
  LET t == surfaces[s]
      b == Attached(t)
  IN  /\ GuestCommits(s)
      /\ \/ InvalidFractionalViewport(t)
         \/ b \in NativeBuffers
         \/ t.attachment # "Unchanged" /\ ~CanFinalize(buffers, t.current, b)
      /\ fatal' = TRUE
      /\ CommitFails(s, buffers)
      /\ UNCHANGED work

\* The uses the message order implies: the old buffer is detached, the new
\* one current.
UsesAfter(s, previous, next) ==
  [b \in Buffers |->
     IF b = next THEN uses[b] \cup {<<s, "current">>}
     ELSE IF b = previous /\ <<s, "current">> \in uses[b]
     THEN (uses[b] \ {<<s, "current">>}) \cup {<<s, "detached">>}
     ELSE uses[b]]

\* wl_surface.commit: copy, wait, finalize, send damage and commit.
OnCommit(s) ==
  LET t == surfaces[s]
      b == Attached(t)
      attach == t.attachment # "Unchanged"
      copied == IF b \in LocalBuffers
                THEN [buffers EXCEPT ![b].needs_full_copy = FALSE] ELSE buffers
      commit == [op |-> "commit", surface |-> s, damage |-> HostDamage(t)]
  IN  /\ GuestCommits(s)
      /\ ~InvalidFractionalViewport(t)
      /\ attach => CanFinalize(buffers, t.current, b)
      /\ RetireEligible(IF attach THEN Finalize(copied, t.current, b) ELSE copied,
                        [surfaces EXCEPT ![s] = PrepareCommit(@)], <<commit>>)
      /\ storage' = IF b \in LocalBuffers
                    THEN [storage EXCEPT ![b] = [r \in Regions |->
                            IF r \in Copied(t, b) THEN pixels[b][r] ELSE @[r]]]
                    ELSE storage
      /\ uses' = IF attach THEN UsesAfter(s, t.current, b) ELSE uses
      /\ owed' = [owed EXCEPT ![s] = {}]
      /\ UNCHANGED <<fatal, work, toProxy, host>>

\* wl_surface.destroy: its destructor ends the use of its current buffer, then
\* deferred buffers are retired.
DestroySurface(s) ==
  LET b == surfaces[s].current
      t == [surfaces EXCEPT ![s] = None]
      known == b # None /\ Active(buffers, b)
  IN  /\ Live(s)
      /\ RetireEligible(IF known THEN EndLastSurfaceUse(buffers, b, b \in Current(t))
                                 ELSE buffers,
                        t, <<[op |-> "surface_destroy", surface |-> s]>>)
      /\ fatal' = (known /\ b \notin Current(t)
                     /\ buffers[b].use = "NeverSubmitted")
      /\ uses' = [x \in Buffers |-> uses[x] \ {<<s, "current">>}]
      /\ owed' = [owed EXCEPT ![s] = {}]
      /\ shown' = [shown EXCEPT ![s] = [r \in Regions |-> 0]]
      /\ UNCHANGED <<work, storage, pixels, frame, busy, reused, toProxy, host>>

\* wl_buffer.destroy: deferred while a use or a pending attach needs it.
DestroyBuffer(b) ==
  LET pending == b \in Pending(surfaces)
      referenced == Submitted(buffers, b) \/ b \in Current(surfaces) \/ pending
  IN  /\ GuestHas(b)
      /\ IF referenced /\ (~Released(buffers, b) \/ pending)
         THEN /\ buffers' = MarkGuestDestroyed(buffers, b)
              /\ UNCHANGED <<surfaces, toHost>>
         ELSE /\ buffers' = Complete(buffers, b)
              /\ surfaces' = ClearReferences(surfaces, b)
              /\ Send(<<DestroyReq(b)>>)
      /\ UNCHANGED <<fatal, work, storage, guest, uses, toProxy, host>>

-----------------------------------------------------------------------------
(* Host events                                                             *)

Take(op) == /\ ~fatal /\ toProxy # <<>> /\ Head(toProxy).op = op
            /\ toProxy' = Tail(toProxy)

\* wl_buffer.release: forwarded while the guest has the buffer; otherwise the
\* deferred destructor goes out, unless a pending attach may start a new use.
OnRelease ==
  /\ Take("release")
  /\ LET b == Head(toProxy).buffer
         e == [buffers EXCEPT ![b].use = ReleaseUse(@)]
     IN  IF ~Active(buffers, b)
         THEN UNCHANGED <<surfaces, buffers, busy, uses, toHost>>
         ELSE /\ uses' = [uses EXCEPT ![b] = {}]
              /\ IF buffers[b].state = "GuestAlive" \/ b \in Pending(surfaces)
                 THEN buffers' = e /\ UNCHANGED <<surfaces, toHost>>
                 ELSE /\ buffers' = Complete(e, b)
                      /\ surfaces' = ClearReferences(surfaces, b)
                      /\ Send(<<DestroyReq(b)>>)
              /\ busy' = IF buffers[b].state = "GuestAlive" THEN busy \ {b} ELSE busy
  /\ UNCHANGED <<fatal, work, storage, pixels, frame, shown, owed, reused, host>>

\* wl_display.delete_id: remove_render_buffer_host.
OnDeleteId ==
  /\ Take("delete_id")
  /\ buffers' = [buffers EXCEPT ![Head(toProxy).buffer] = None]
  /\ UNCHANGED <<surfaces, fatal, work, storage, guest, uses, toHost, host>>

-----------------------------------------------------------------------------
(* The host compositor                                                     *)

Emit(es) == /\ Len(toProxy) + Len(es) =< EMax
            /\ toProxy' = toProxy \o es
HostKeeps == UNCHANGED <<proxy, guest, uses>>
EventOf(op, b) == [op |-> op, buffer |-> b]

\* A surface that goes ends its use of its current buffer; the host may say so
\* with a release.
HostReceive ==
  /\ ~fatal /\ toHost # <<>>
  /\ toHost' = Tail(toHost)
  /\ LET r == Head(toHost)
     IN  CASE r.op = "attach" ->
                /\ hostSurfaces' = [hostSurfaces EXCEPT ![r.surface].pending = r.buffer]
                /\ UNCHANGED <<hostBuffers, hostUses, toProxy>>
           [] r.op = "commit" ->
                LET h == hostSurfaces[r.surface]
                IN  /\ hostSurfaces' = [hostSurfaces EXCEPT ![r.surface] =
                         [current |-> IF h.pending = "Unchanged" THEN h.current
                                      ELSE IF h.pending = "Detach" THEN None
                                      ELSE h.pending,
                          pending |-> "Unchanged"]]
                    /\ hostUses' = IF h.pending \in Buffers
                                   THEN hostUses \cup {<<r.surface, h.pending>>}
                                   ELSE hostUses
                    /\ UNCHANGED <<hostBuffers, toProxy>>
           [] r.op = "destroy" ->
                /\ hostBuffers' = hostBuffers \ {r.buffer}
                /\ hostUses' = {u \in hostUses : u[2] # r.buffer}
                /\ IF r.buffer \in ServerBuffers THEN UNCHANGED toProxy
                   ELSE Emit(<<EventOf("delete_id", r.buffer)>>)
                /\ UNCHANGED hostSurfaces
           [] r.op = "surface_destroy" ->
                LET u == <<r.surface, hostSurfaces[r.surface].current>>
                IN  /\ hostSurfaces' = [hostSurfaces EXCEPT ![r.surface] = None]
                    /\ hostUses' = hostUses \ {u}
                    /\ \/ UNCHANGED toProxy
                       \/ /\ u \in hostUses /\ ~\E v \in hostUses' : v[2] = u[2]
                          /\ Emit(<<EventOf("release", u[2])>>)
                    /\ UNCHANGED hostBuffers
  /\ HostKeeps

HostRelease(b) ==
  /\ ~fatal /\ \E u \in hostUses : u[2] = b
  /\ hostUses' = {u \in hostUses : u[2] # b}
  /\ Emit(<<EventOf("release", b)>>)
  /\ HostKeeps
  /\ UNCHANGED <<toHost, hostSurfaces, hostBuffers>>

-----------------------------------------------------------------------------
Init ==
  /\ surfaces = [s \in Surfaces |-> DefaultSurface]
  /\ buffers = [b \in Buffers |-> None]
  /\ fatal = FALSE /\ work = 0 /\ reused = FALSE
  /\ pixels = [b \in LocalBuffers |-> [r \in Regions |-> 0]]
  /\ storage = [b \in LocalBuffers |-> [r \in Regions |-> None]]
  /\ frame = [r \in Regions |-> 0]
  /\ shown = [s \in Surfaces |-> [r \in Regions |-> 0]]
  /\ owed = [s \in Surfaces |-> {}]
  /\ busy = {} /\ uses = [b \in Buffers |-> {}]
  /\ toHost = <<>> /\ toProxy = <<>>
  /\ hostSurfaces = [s \in Surfaces |-> [current |-> None, pending |-> "Unchanged"]]
  /\ hostBuffers = {} /\ hostUses = {}

Next ==
  \/ \E b \in Buffers : CreateBuffer(b)
  \/ \E b \in LocalBuffers, R \in (SUBSET Regions) \ {{}} : Draw(b, R)
  \/ \E s \in Surfaces, b \in Buffers \cup {"Detach"} : OnAttach(s, b)
  \/ \E s \in Surfaces, r \in Regions : OnDamage(s, r)
  \/ \E s \in Surfaces, r \in Regions : OnDamageBuffer(s, r)
  \/ \E s \in Surfaces, m \in Mapping : OnSetBufferScale(s, m)
  \/ \E s \in Surfaces, m \in Mapping : OnViewport(s, m)
  \/ \E s \in Surfaces : OnCommit(s)
  \/ \E s \in Surfaces : CommitCopyFails(s)
  \/ \E s \in Surfaces : CommitFatal(s)
  \/ \E s \in Surfaces : DestroySurface(s)
  \/ \E b \in Buffers : DestroyBuffer(b)
  \/ OnRelease
  \/ OnDeleteId
  \/ HostReceive
  \/ \E b \in Buffers : HostRelease(b)

Spec == Init /\ [][Next]_vars

-----------------------------------------------------------------------------
(* Properties                                                              *)

\* The host is never told to destroy a buffer it may still read: not one that
\* is attached and awaits a commit, and, as long as the guest attaches only
\* buffers it does not wait for, not one in use without a release (the
\* deferral in wl_buffer.destroy, retire_eligible_buffers).
DestroyedOnlyWhenIdle ==
  toHost # <<>> /\ Head(toHost).op = "destroy" =>
    LET b == Head(toHost).buffer
    IN  /\ \A s \in Surfaces : hostSurfaces[s] # None => hostSurfaces[s].pending # b
        /\ ~reused => \A u \in hostUses : u[2] # b

\* A use that no release and no surface destructor has ended keeps its buffer
\* registered as awaiting release, also when the buffer is on several surfaces
\* ("No surface destructor can prove that detached use complete; only the
\* release event can", RenderBufferUse).
UnreleasedUseKept ==
  \A b \in Buffers : uses[b] # {} =>
    /\ Submitted(buffers, b)
    /\ (\E s \in Surfaces : <<s, "detached">> \in uses[b])
         => buffers[b].use = "AwaitingDetached"

\* A host buffer outlives every use of it.
BufferOutlivesItsUses == DestroyedOnlyWhenIdle /\ UnreleasedUseKept

\* No destroyed buffer is forgotten: whichever handler ends the last reason to
\* keep it also retires it.
NoStrandedBuffer == \A b \in Buffers : ~CanRetire(buffers, surfaces, b)

\* The proxy's view of a surface is the host's, once the host has read what was
\* sent: a dropped commit, rolled back, leaves the same attachment pending on
\* both sides.
ViewsAgree ==
  /\ TypeOK
  /\ toHost = <<>> => \A s \in Surfaces :
       /\ surfaces[s] = None <=> hostSurfaces[s] = None
       /\ surfaces[s] # None =>
            /\ hostSurfaces[s].pending = surfaces[s].attachment
            /\ surfaces[s].current \in {None, hostSurfaces[s].current}

\* The first request a step sends, and whether it is a commit
NextRequest == toHost'[Len(toHost) + 1]
Commits == Len(toHost') > Len(toHost) /\ NextRequest.op = "commit"

\* When a commit goes out, every region damaged since the last one the host
\* saw, dropped commits included, is in the host's storage and in the host's
\* damage, and nothing in the storage is uninitialised (copy_surface_buffer,
\* DamageRegion's cap, needs_full_copy).
DamagedPixelsReachHost ==
  [][ Commits =>
        LET s == NextRequest.surface
            b == Attached(surfaces[s])
        IN  /\ owed[s] \subseteq NextRequest.damage
            /\ b \in LocalBuffers =>
                 /\ \A r \in owed[s] : storage'[b][r] = pixels[b][r]
                 /\ None \notin Range(storage'[b]) ]_vars
=============================================================================
