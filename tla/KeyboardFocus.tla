--------------------------- MODULE KeyboardFocus ---------------------------
(***************************************************************************)
(* Keyboard focus ownership: KeyboardFocusRegistry (state/input.rs), the   *)
(* wl_keyboard enter/leave/release handlers (handler/keyboard.rs), the     *)
(* wl_surface destructor (handler/compositor.rs) and the projection of     *)
(* seat focus onto text inputs (handler/text_input.rs).                    *)
(*                                                                         *)
(* The proxy sits between two ordered streams.  A guest request is handled *)
(* by the proxy in the step that issues it and its host request joins      *)
(* toHost; a host event joins toProxy and is handled when it reaches the   *)
(* head.  So a surface may be destroyed while enter and leave events that  *)
(* name it are still in flight, which is the race the registry is for.     *)
(*                                                                         *)
(* Key state is in module KeyGenerations; here only focus is kept.         *)
(***************************************************************************)
EXTENDS Naturals, Sequences, FiniteSets

CONSTANTS
  Keyboards,      \* host wl_keyboard IDs
  Seats,          \* guest wl_seat IDs
  GuestSurfaces,  \* guest wl_surface IDs, reused after delete_id
  HostSurfaces,   \* host wl_surface IDs, reused after delete_id
  None,           \* Option::None
  QMax            \* bound on the messages in flight in each direction

ASSUME NoneAssumption == None \notin GuestSurfaces \cup Seats
ASSUME QMaxAssumption == QMax \in Nat \ {0}

VARIABLES
  keyboards,   \* KeyboardFocusRegistry::keyboards
  retired,     \* KeyboardFocusRegistry::retired_guest_enters
  seatOf,      \* Context::keyboard_to_seat, by the paired host keyboard
  kbPending,   \* keyboards in ShadowTable::pending_destroy_guest_ids
  guestOf,     \* ShadowTable::host_to_guest for surfaces
  pending,     \* surfaces in ShadowTable::pending_destroy_guest_ids
  active,      \* active_surface of the text inputs of each seat
  toHost,      \* requests in flight to the host
  toProxy,     \* events in flight from the host
  hostKbs,     \* keyboards alive at the host
  hostSurfs,   \* surfaces alive at the host
  entered,     \* surfaces each host keyboard has entered and not left
  guestFocus,  \* the surface each guest wl_keyboard believes it has entered
  out          \* the wl_keyboard event the step delivered to the guest

registry  == <<keyboards, retired, active>>
tables    == <<seatOf, kbPending, guestOf, pending>>
hostState == <<hostKbs, hostSurfs, entered>>
vars == <<registry, tables, toHost, toProxy, hostState, guestFocus, out>>

Focus == [guest_seat : Seats, guest_surface : GuestSurfaces,
          host_surface : HostSurfaces]
ASSUME FocusAssumption == None \notin Focus
RetiredEnter == [keyboard : Keyboards, focus : Focus]
Request == [op : {"surface", "destroy"}, id : HostSurfaces]
             \cup [op : {"keyboard", "release"}, id : Keyboards]
Event == [op : {"enter", "leave"}, keyboard : Keyboards, id : HostSurfaces]
           \cup [op : {"delete_surface"}, id : HostSurfaces]
           \cup [op : {"delete_keyboard"}, id : Keyboards]
Delivery == [op : {"enter", "leave"}, keyboard : Keyboards, id : GuestSurfaces]

TypeOK ==
  /\ keyboards \in [Keyboards -> Focus \cup {None}]
  /\ retired \in SUBSET RetiredEnter
  /\ seatOf \in [Keyboards -> Seats \cup {None}]
  /\ kbPending \in SUBSET Keyboards
  /\ guestOf \in [HostSurfaces -> GuestSurfaces \cup {None}]
  /\ pending \in SUBSET GuestSurfaces
  /\ active \in [Seats -> GuestSurfaces \cup {None}]
  /\ toHost \in Seq(Request)
  /\ toProxy \in Seq(Event)
  /\ hostKbs \in SUBSET Keyboards
  /\ hostSurfs \in SUBSET HostSurfaces
  /\ entered \in [Keyboards -> SUBSET HostSurfaces]
  /\ guestFocus \in [Keyboards -> GuestSurfaces \cup {None}]
  /\ out \in Delivery \cup {None}

-----------------------------------------------------------------------------
(* KeyboardFocusRegistry                                                   *)

OnSeat(kbs, seat) ==
  {k \in Keyboards : kbs[k] # None /\ kbs[k].guest_seat = seat}

\* The code takes whichever HashMap entry comes first; OneSurfacePerSeat is
\* what makes that choice immaterial.
SurfaceForSeat(kbs, seat) ==
  IF OnSeat(kbs, seat) = {} THEN None
  ELSE kbs[CHOOSE k \in OnSeat(kbs, seat) : TRUE].guest_surface

\* Variant: an enter supersedes only its sender.
EnterRetiresSenderOnly(kb, focus) == {k \in {kb} : keyboards[k] # None}

\* The keyboards an enter supersedes: the sender itself, and every keyboard
\* of the same seat that holds another surface.
EnterRetires(kb, focus) ==
  {k \in Keyboards :
     /\ keyboards[k] # None
     /\ \/ k = kb
        \/ /\ keyboards[k].guest_seat = focus.guest_seat
           /\ keyboards[k].guest_surface # focus.guest_surface}

\* KeyboardFocusRegistry::enter on the keyboards map.
EnterKeyboards(kb, focus) ==
  [k \in Keyboards |->
     IF k = kb THEN focus
     ELSE IF k \in EnterRetires(kb, focus) THEN None
     ELSE keyboards[k]]

\* Variants: no tombstone for a superseded keyboard; the sender's own older
\* tombstones survive its next enter.
EnterRetiredNoTombstone(kb, focus) == {r \in retired : r.keyboard # kb}
EnterRetiredKeepsSender(kb, focus) ==
  retired \cup {[keyboard |-> k, focus |-> keyboards[k]] :
                  k \in EnterRetires(kb, focus) \ {kb}}

\* KeyboardFocusRegistry::enter on retired_guest_enters: the sender's older
\* tombstones go, other superseded keyboards get one (keyed by host surface).
EnterRetired(kb, focus) ==
  LET superseded == EnterRetires(kb, focus) \ {kb}
      new == {[keyboard |-> k, focus |-> keyboards[k]] : k \in superseded}
  IN  {r \in retired :
         /\ r.keyboard # kb
         /\ \A n \in new : ~ /\ n.keyboard = r.keyboard
                             /\ n.focus.host_surface = r.focus.host_surface}
      \cup new

\* Variant: a seat that lost its last keyboard focus is not projected.
ProjectSeatsKeepLast(affected, old, new, act) ==
  [s \in Seats |-> IF s \in affected /\ SurfaceForSeat(new, s) # None
                   THEN SurfaceForSeat(new, s) ELSE act[s]]

\* seat_changes followed by apply_keyboard_focus_changes: the text inputs of
\* an affected seat move only if the seat's surface changed.
ProjectSeats(affected, old, new, act) ==
  [s \in Seats |->
     IF s \in affected /\ SurfaceForSeat(old, s) # SurfaceForSeat(new, s)
     THEN SurfaceForSeat(new, s)
     ELSE act[s]]

\* KeyboardFocusRegistry::remove_keyboard and its projection.
RemoveKeyboard(kb) ==
  /\ keyboards' = [keyboards EXCEPT ![kb] = None]
  /\ active' = ProjectSeats({keyboards[kb].guest_seat}, keyboards, keyboards',
                            active)

-----------------------------------------------------------------------------
(* Host events                                                             *)

Head1(op) == toProxy # <<>> /\ Head(toProxy).op = op
Consume   == toProxy' = Tail(toProxy)
Drop      == out' = None /\ UNCHANGED guestFocus

Deliver(op, kb, surface) ==
  /\ out' = [op |-> op, keyboard |-> kb, id |-> surface]
  /\ guestFocus' = [guestFocus EXCEPT ![kb] = IF op = "enter" THEN surface
                                              ELSE None]

\* pending_host_event_is_stale: an event of a keyboard whose release was
\* forwarded, or of one the tables no longer know, never reaches a handler.
Dispatchable(kb) == kb \notin kbPending /\ seatOf[kb] # None

\* Variants: one of the two checks at the top of on_enter is missing.
ForwardableNoLookup(h)  == guestOf[h] \notin pending
ForwardableNoPending(h) == guestOf[h] # None

\* A surface argument the guest can still be told about.
Forwardable(h) == guestOf[h] # None /\ guestOf[h] \notin pending

EnterFocus(kb, h) == [guest_seat |-> seatOf[kb], guest_surface |-> guestOf[h],
                      host_surface |-> h]

\* wl_keyboard.enter
OnEnter ==
  /\ Head1("enter")
  /\ Consume
  /\ LET kb == Head(toProxy).keyboard
         h  == Head(toProxy).id
         focus == EnterFocus(kb, h)
         seats == {focus.guest_seat}
                    \cup {keyboards[k].guest_seat :
                            k \in {j \in {kb} : keyboards[j] # None}}
     IN  IF Dispatchable(kb) /\ Forwardable(h) /\ keyboards[kb] # focus
         THEN /\ keyboards' = EnterKeyboards(kb, focus)
              /\ retired' = EnterRetired(kb, focus)
              /\ active' = ProjectSeats(seats, keyboards, keyboards', active)
              /\ Deliver("enter", kb, guestOf[h])
         ELSE Drop /\ UNCHANGED registry
  /\ UNCHANGED <<tables, toHost, hostState>>

\* wl_keyboard.leave: the current focus, or one tombstone, or nothing.
OnLeave ==
  /\ Head1("leave")
  /\ Consume
  /\ LET kb == Head(toProxy).keyboard
         h  == Head(toProxy).id
         tombstones == {r \in retired : r.keyboard = kb
                                          /\ r.focus.host_surface = h}
         forward == IF Forwardable(h) THEN Deliver("leave", kb, guestOf[h])
                    ELSE Drop
     IN  CASE ~Dispatchable(kb) -> Drop /\ UNCHANGED registry
           [] Dispatchable(kb) /\ keyboards[kb] = None ->
                /\ retired' = retired \ tombstones
                /\ IF tombstones # {} THEN forward ELSE Drop
                /\ UNCHANGED <<keyboards, active>>
           [] OTHER ->
                IF keyboards[kb].host_surface = h
                THEN RemoveKeyboard(kb) /\ forward /\ UNCHANGED retired
                ELSE Drop /\ UNCHANGED registry
  /\ UNCHANGED <<tables, toHost, hostState>>

\* wl_display.delete_id: the numeric mapping goes, the guest ID is reusable.
OnDeleteSurface ==
  /\ Head1("delete_surface")
  /\ Consume
  /\ LET h == Head(toProxy).id
     IN  /\ pending' = pending \ {guestOf[h]}
         /\ guestOf' = [guestOf EXCEPT ![h] = None]
  /\ Drop
  /\ UNCHANGED <<registry, seatOf, kbPending, toHost, hostState>>

OnDeleteKeyboard ==
  /\ Head1("delete_keyboard")
  /\ Consume
  /\ kbPending' = kbPending \ {Head(toProxy).id}
  /\ Drop
  /\ UNCHANGED <<registry, seatOf, guestOf, pending, toHost, hostState>>

-----------------------------------------------------------------------------
(* Guest requests                                                          *)

Send(op, id) == /\ Len(toHost) < QMax
                /\ toHost' = Append(toHost, [op |-> op, id |-> id])

\* wl_compositor.create_surface
CreateSurface(g, h) ==
  /\ \A x \in HostSurfaces : guestOf[x] # g
  /\ guestOf[h] = None
  /\ guestOf' = [guestOf EXCEPT ![h] = g]
  /\ Send("surface", h)
  /\ Drop
  /\ UNCHANGED <<registry, seatOf, kbPending, pending, toProxy, hostState>>

\* wl_surface.destroy: KeyboardFocusRegistry::destroy_surface, its projection
\* on text inputs, repair_destroyed_surface_focus, mark_pending_destroy.  The
\* guest forgets the surface it destroyed.
DestroySurface(h) ==
  LET g == guestOf[h]
      owners == {k \in Keyboards : keyboards[k] # None
                                     /\ keyboards[k].guest_surface = g}
      seats == {keyboards[k].guest_seat : k \in owners}
  IN  /\ Forwardable(h)
      /\ Send("destroy", h)
      /\ keyboards' = [k \in Keyboards |-> IF k \in owners THEN None
                                           ELSE keyboards[k]]
      /\ retired' = {r \in retired : r.focus.guest_surface # g}
      /\ active' = [s \in Seats |-> IF s \in seats \/ active[s] = g
                                    THEN SurfaceForSeat(keyboards', s)
                                    ELSE active[s]]
      /\ pending' = pending \cup {g}
      /\ guestFocus' = [k \in Keyboards |-> IF guestFocus[k] = g THEN None
                                            ELSE guestFocus[k]]
      /\ out' = None
      /\ UNCHANGED <<seatOf, kbPending, guestOf, toProxy, hostState>>

\* wl_seat.get_keyboard
GetKeyboard(kb, seat) ==
  /\ seatOf[kb] = None
  /\ kb \notin kbPending
  /\ seatOf' = [seatOf EXCEPT ![kb] = seat]
  /\ Send("keyboard", kb)
  /\ Drop
  /\ UNCHANGED <<registry, kbPending, guestOf, pending, toProxy, hostState>>

\* wl_keyboard.release: KeyboardFocusRegistry::release and its projection.
ReleaseKeyboard(kb) ==
  /\ seatOf[kb] # None
  /\ Send("release", kb)
  /\ seatOf' = [seatOf EXCEPT ![kb] = None]
  /\ kbPending' = kbPending \cup {kb}
  /\ retired' = {r \in retired : r.keyboard # kb}
  /\ IF keyboards[kb] = None THEN UNCHANGED <<keyboards, active>>
                             ELSE RemoveKeyboard(kb)
  /\ guestFocus' = [guestFocus EXCEPT ![kb] = None]
  /\ out' = None
  /\ UNCHANGED <<guestOf, pending, toProxy, hostState>>

-----------------------------------------------------------------------------
(* The host compositor: it knows a surface from the moment the request     *)
(* arrives, may move focus at any time, and answers a destructor with      *)
(* delete_id, after which it names the object no more.                     *)

Emit(e) == Len(toProxy) < QMax /\ toProxy' = Append(toProxy, e)

HostReceive ==
  /\ toHost # <<>>
  /\ toHost' = Tail(toHost)
  /\ LET r == Head(toHost)
     IN  CASE r.op = "surface" ->
                /\ hostSurfs' = hostSurfs \cup {r.id}
                /\ UNCHANGED <<hostKbs, entered, toProxy>>
           [] r.op = "destroy" ->
                /\ hostSurfs' = hostSurfs \ {r.id}
                /\ entered' = [k \in Keyboards |-> entered[k] \ {r.id}]
                /\ Emit([op |-> "delete_surface", id |-> r.id])
                /\ UNCHANGED hostKbs
           [] r.op = "keyboard" ->
                /\ hostKbs' = hostKbs \cup {r.id}
                /\ UNCHANGED <<hostSurfs, entered, toProxy>>
           [] r.op = "release" ->
                /\ hostKbs' = hostKbs \ {r.id}
                /\ entered' = [entered EXCEPT ![r.id] = {}]
                /\ Emit([op |-> "delete_keyboard", id |-> r.id])
                /\ UNCHANGED hostSurfs
  /\ Drop
  /\ UNCHANGED <<registry, tables>>

\* The host may repeat an enter, or enter a second surface before it leaves
\* the first.
HostEnter(kb, h) ==
  /\ kb \in hostKbs /\ h \in hostSurfs
  /\ entered' = [entered EXCEPT ![kb] = @ \cup {h}]
  /\ Emit([op |-> "enter", keyboard |-> kb, id |-> h])
  /\ Drop
  /\ UNCHANGED <<registry, tables, toHost, hostKbs, hostSurfs>>

HostLeave(kb, h) ==
  /\ h \in entered[kb]
  /\ entered' = [entered EXCEPT ![kb] = @ \ {h}]
  /\ Emit([op |-> "leave", keyboard |-> kb, id |-> h])
  /\ Drop
  /\ UNCHANGED <<registry, tables, toHost, hostKbs, hostSurfs>>

-----------------------------------------------------------------------------
Init ==
  /\ keyboards = [k \in Keyboards |-> None]
  /\ retired = {}
  /\ seatOf = [k \in Keyboards |-> None]
  /\ kbPending = {}
  /\ guestOf = [h \in HostSurfaces |-> None]
  /\ pending = {}
  /\ active = [s \in Seats |-> None]
  /\ toHost = <<>>
  /\ toProxy = <<>>
  /\ hostKbs = {}
  /\ hostSurfs = {}
  /\ entered = [k \in Keyboards |-> {}]
  /\ guestFocus = [k \in Keyboards |-> None]
  /\ out = None

Next ==
  \/ OnEnter
  \/ OnLeave
  \/ OnDeleteSurface
  \/ OnDeleteKeyboard
  \/ \E g \in GuestSurfaces, h \in HostSurfaces : CreateSurface(g, h)
  \/ \E h \in HostSurfaces : DestroySurface(h)
  \/ \E kb \in Keyboards, s \in Seats : GetKeyboard(kb, s)
  \/ \E kb \in Keyboards : ReleaseKeyboard(kb)
  \/ HostReceive
  \/ \E kb \in Keyboards, h \in HostSurfaces : HostEnter(kb, h)
  \/ \E kb \in Keyboards, h \in HostSurfaces : HostLeave(kb, h)

Spec == Init /\ [][Next]_vars

-----------------------------------------------------------------------------
(* Properties                                                              *)

\* "Every keyboard on one seat must own the same surface": the rule stated at
\* KeyboardFocusRegistry, which surface_for_seat's first-match lookup needs.
OneSurfacePerSeat ==
  \A j, k \in Keyboards :
    keyboards[j] # None /\ keyboards[k] # None
      /\ keyboards[j].guest_seat = keyboards[k].guest_seat
      => keyboards[j].guest_surface = keyboards[k].guest_surface

\* No stale enter resurrects a destroyed surface: an owned surface is mapped
\* by the shadow table under the very pair the focus records, and its
\* destructor has not been forwarded (the checks at the top of on_enter, the
\* cleanup in wl_surface.destroy).
FocusOnLiveSurface ==
  \A k \in Keyboards : keyboards[k] # None =>
    /\ guestOf[keyboards[k].host_surface] = keyboards[k].guest_surface
    /\ keyboards[k].guest_surface \notin pending

\* The IDs of a destroyed surface stay reserved until its delete_id: a guest
\* surface has one host surface, the destructor crosses the wire once, and the
\* pair is mapped and pending until the answer arrives (mark_pending_destroy,
\* delete_id), so no event in flight can name a reused ID.
GuestIdsUnique ==
  \A h, i \in HostSurfaces : guestOf[h] # None /\ guestOf[h] = guestOf[i] => h = i

Reserved(h) == guestOf[h] # None /\ guestOf[h] \in pending

DestructorsReserved ==
  /\ \A i \in DOMAIN toHost :
       toHost[i].op = "destroy" => Reserved(toHost[i].id)
  /\ \A i \in DOMAIN toProxy :
       toProxy[i].op = "delete_surface" => Reserved(toProxy[i].id)

DestructorsOnce ==
  /\ \A i, j \in DOMAIN toHost :
       toHost[i].op = "destroy" /\ toHost[j].op = "destroy"
         /\ toHost[i].id = toHost[j].id => i = j
  /\ \A i, j \in DOMAIN toProxy :
       toProxy[i].op = "delete_surface" /\ toProxy[j].op = "delete_surface"
         /\ toProxy[i].id = toProxy[j].id => i = j
  /\ \A i \in DOMAIN toHost, j \in DOMAIN toProxy :
       toHost[i].op = "destroy" /\ toProxy[j].op = "delete_surface"
         => toHost[i].id # toProxy[j].id

ReservedUntilDelete == GuestIdsUnique /\ DestructorsReserved /\ DestructorsOnce

\* Text inputs follow the registry: the surface the IME is told about is the
\* one the seat's keyboards own (apply_keyboard_focus_changes and
\* repair_destroyed_surface_focus leave no projection behind).
TextFocusFollowsSeat ==
  \A s \in Seats : active[s] = SurfaceForSeat(keyboards, s)

\* A guest wl_keyboard that was told of an enter keeps an owner for the leave
\* it is still owed: its current focus or a tombstone of a superseded one.
EnterKeepsItsLeave ==
  \A k \in Keyboards : guestFocus[k] # None =>
    \/ keyboards[k] # None /\ keyboards[k].guest_surface = guestFocus[k]
    \/ \E r \in retired : r.keyboard = k
                            /\ r.focus.guest_surface = guestFocus[k]

\* A delayed leave never clears a newer focus: the only leave a guest
\* wl_keyboard receives names the surface it currently holds.
LeaveMatchesGuestFocus ==
  [][ /\ out' # None /\ out'.op = "leave"
      => guestFocus[out'.keyboard] = out'.id ]_vars
=============================================================================
