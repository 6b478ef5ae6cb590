------------------------ MODULE KeyboardFocusProofs ------------------------
(***************************************************************************)
(* Proofs about KeyboardFocus for any number of keyboards, seats and       *)
(* surfaces and any queue bound.                                           *)
(***************************************************************************)
EXTENDS KeyboardFocus, SequenceTheorems, TLAPS

-----------------------------------------------------------------------------
(* Lemmas about the operators                                              *)

\* The lookup of a seat's surface returns a guest surface or None.
LEMMA SurfaceForSeatType ==
  ASSUME NEW kbs \in [Keyboards -> Focus \cup {None}], NEW s \in Seats
  PROVE  SurfaceForSeat(kbs, s) \in GuestSurfaces \cup {None}
<1>1. CASE OnSeat(kbs, s) = {}
  BY <1>1 DEF SurfaceForSeat
<1>2. CASE OnSeat(kbs, s) # {}
  <2>1. PICK k \in OnSeat(kbs, s) : k = CHOOSE j \in OnSeat(kbs, s) : TRUE
    BY <1>2
  <2>2. kbs[k] \in Focus
    BY <2>1 DEF OnSeat
  <2>. QED
    BY <1>2, <2>1, <2>2 DEF SurfaceForSeat, Focus
<1>. QED
  BY <1>1, <1>2

\* The projection keeps every text input's surface well typed.
LEMMA ProjectSeatsType ==
  ASSUME NEW old \in [Keyboards -> Focus \cup {None}],
         NEW new \in [Keyboards -> Focus \cup {None}],
         NEW act \in [Seats -> GuestSurfaces \cup {None}], NEW affected
  PROVE  ProjectSeats(affected, old, new, act)
           \in [Seats -> GuestSurfaces \cup {None}]
BY SurfaceForSeatType DEF ProjectSeats

\* The parts of an event, by its kind.
LEMMA EventParts ==
  ASSUME NEW e \in Event
  PROVE  /\ e.op \in {"enter", "leave"} => e.keyboard \in Keyboards
                                           /\ e.id \in HostSurfaces
         /\ e.op = "delete_surface" => e.id \in HostSurfaces
         /\ e.op = "delete_keyboard" => e.id \in Keyboards
BY DEF Event

LEMMA RequestParts ==
  ASSUME NEW r \in Request
  PROVE  /\ r.op \in {"surface", "destroy", "keyboard", "release"}
         /\ r.op \in {"surface", "destroy"} => r.id \in HostSurfaces
         /\ r.op \in {"keyboard", "release"} => r.id \in Keyboards
BY DEF Request

-----------------------------------------------------------------------------
(* Type correctness                                                        *)

LEMMA RemoveKeyboardType ==
  ASSUME TypeOK, NEW kb \in Keyboards, RemoveKeyboard(kb)
  PROVE  /\ keyboards' \in [Keyboards -> Focus \cup {None}]
         /\ active' \in [Seats -> GuestSurfaces \cup {None}]
<1>1. keyboards' \in [Keyboards -> Focus \cup {None}]
  BY DEF TypeOK, RemoveKeyboard
<1>. QED
  BY <1>1, ProjectSeatsType DEF TypeOK, RemoveKeyboard

LEMMA EnterType ==
  ASSUME TypeOK, NEW kb \in Keyboards, NEW focus \in Focus
  PROVE  /\ EnterKeyboards(kb, focus) \in [Keyboards -> Focus \cup {None}]
         /\ EnterRetired(kb, focus) \in SUBSET RetiredEnter
<1>1. EnterKeyboards(kb, focus) \in [Keyboards -> Focus \cup {None}]
  BY DEF TypeOK, EnterKeyboards
<1>2. \A k \in EnterRetires(kb, focus) : k \in Keyboards /\ keyboards[k] \in Focus
  BY DEF TypeOK, EnterRetires
<1>3. {[keyboard |-> k, focus |-> keyboards[k]] :
         k \in EnterRetires(kb, focus) \ {kb}} \subseteq RetiredEnter
  BY <1>2 DEF RetiredEnter
<1>. QED
  BY <1>1, <1>3 DEF EnterRetired, TypeOK

LEMMA TypeNext == TypeOK /\ [Next]_vars => TypeOK'
<1>. SUFFICES ASSUME TypeOK, [Next]_vars PROVE TypeOK'
  OBVIOUS
<1>. USE DEF registry, tables, hostState
<1>1. CASE OnEnter
  <2>. DEFINE e == Head(toProxy)
              focus == EnterFocus(e.keyboard, e.id)
  <2>1. e \in Event /\ toProxy' \in Seq(Event)
    BY <1>1, HeadTailProperties DEF OnEnter, Head1, Consume, TypeOK
  <2>2. e.keyboard \in Keyboards /\ e.id \in HostSurfaces
    BY <1>1, <2>1, EventParts DEF OnEnter, Head1
  <2>3. CASE Dispatchable(e.keyboard) /\ Forwardable(e.id)
              /\ keyboards[e.keyboard] # focus
    <3>1. focus \in Focus
      BY <2>2, <2>3 DEF TypeOK, EnterFocus, Dispatchable, Forwardable, Focus
    <3>2. /\ keyboards' = EnterKeyboards(e.keyboard, focus)
          /\ retired' = EnterRetired(e.keyboard, focus)
          /\ Deliver("enter", e.keyboard, guestOf[e.id])
      BY <1>1, <2>3 DEF OnEnter
    <3>. PICK seats : active' = ProjectSeats(seats, keyboards, keyboards', active)
      BY <1>1, <2>3 DEF OnEnter
    <3>3. /\ keyboards' \in [Keyboards -> Focus \cup {None}]
          /\ retired' \in SUBSET RetiredEnter
      BY <2>2, <3>1, <3>2, EnterType
    <3>4. active' \in [Seats -> GuestSurfaces \cup {None}]
      BY <3>2, <3>3, ProjectSeatsType DEF TypeOK
    <3>5. guestOf[e.id] \in GuestSurfaces
      BY <2>2, <2>3 DEF Forwardable, TypeOK
    <3>6. /\ guestFocus' \in [Keyboards -> GuestSurfaces \cup {None}]
          /\ out' \in Delivery \cup {None}
      BY <2>2, <3>2, <3>5 DEF Deliver, Delivery, TypeOK
    <3>. QED
      BY <1>1, <2>1, <3>3, <3>4, <3>6 DEF OnEnter, TypeOK
  <2>4. CASE ~(Dispatchable(e.keyboard) /\ Forwardable(e.id)
                 /\ keyboards[e.keyboard] # focus)
    BY <1>1, <2>1, <2>4 DEF OnEnter, Drop, TypeOK
  <2>. QED
    BY <2>3, <2>4
<1>2. CASE OnLeave
  <2>. DEFINE e == Head(toProxy)
  <2>1. e \in Event /\ toProxy' \in Seq(Event)
    BY <1>2, HeadTailProperties DEF OnLeave, Head1, Consume, TypeOK
  <2>2. e.keyboard \in Keyboards /\ e.id \in HostSurfaces
    BY <1>2, <2>1, EventParts DEF OnLeave, Head1
  <2>3. /\ guestFocus' \in [Keyboards -> GuestSurfaces \cup {None}]
        /\ out' \in Delivery \cup {None}
    <3>1. ASSUME Forwardable(e.id) /\ Deliver("leave", e.keyboard, guestOf[e.id])
          PROVE  <2>3!1 /\ <2>3!2
      BY <2>2, <3>1 DEF Forwardable, Deliver, Delivery, TypeOK
    <3>2. ASSUME Drop PROVE <2>3!1 /\ <2>3!2
      BY <3>2 DEF Drop, TypeOK
    <3>. QED
      BY <1>2, <3>1, <3>2 DEF OnLeave
  <2>4. /\ keyboards' \in [Keyboards -> Focus \cup {None}]
        /\ active' \in [Seats -> GuestSurfaces \cup {None}]
        /\ retired' \in SUBSET RetiredEnter
    <3>1. CASE UNCHANGED <<keyboards, active>>
      BY <1>2, <3>1 DEF OnLeave, TypeOK
    <3>2. CASE RemoveKeyboard(e.keyboard) /\ UNCHANGED retired
      BY <2>2, <3>2, RemoveKeyboardType DEF TypeOK
    <3>. QED
      BY <1>2, <3>1, <3>2 DEF OnLeave
  <2>. QED
    BY <1>2, <2>1, <2>3, <2>4 DEF OnLeave, TypeOK
<1>3. CASE OnDeleteSurface
  <2>1. Head(toProxy) \in Event /\ toProxy' \in Seq(Event)
    BY <1>3, HeadTailProperties DEF OnDeleteSurface, Head1, Consume, TypeOK
  <2>. QED
    BY <1>3, <2>1 DEF OnDeleteSurface, Drop, TypeOK
<1>4. CASE OnDeleteKeyboard
  <2>1. Head(toProxy) \in Event /\ toProxy' \in Seq(Event)
    BY <1>4, HeadTailProperties DEF OnDeleteKeyboard, Head1, Consume, TypeOK
  <2>. QED
    BY <1>4, <2>1 DEF OnDeleteKeyboard, Drop, TypeOK
<1>5. ASSUME NEW g \in GuestSurfaces, NEW h \in HostSurfaces, CreateSurface(g, h)
      PROVE  TypeOK'
  <2>1. [op |-> "surface", id |-> h] \in Request
    BY DEF Request
  <2>2. toHost' \in Seq(Request)
    BY <1>5, <2>1, AppendProperties DEF CreateSurface, Send, TypeOK
  <2>. QED
    BY <1>5, <2>2 DEF CreateSurface, Drop, TypeOK
<1>6. ASSUME NEW h \in HostSurfaces, DestroySurface(h) PROVE TypeOK'
  <2>1. [op |-> "destroy", id |-> h] \in Request
    BY DEF Request
  <2>2. toHost' \in Seq(Request)
    BY <1>6, <2>1, AppendProperties DEF DestroySurface, Send, TypeOK
  <2>3. keyboards' \in [Keyboards -> Focus \cup {None}]
    BY <1>6 DEF DestroySurface, TypeOK
  <2>4. active' \in [Seats -> GuestSurfaces \cup {None}]
    BY <1>6, <2>3, SurfaceForSeatType DEF DestroySurface, TypeOK
  <2>. QED
    BY <1>6, <2>2, <2>3, <2>4 DEF DestroySurface, Forwardable, TypeOK
<1>7. ASSUME NEW kb \in Keyboards, NEW s \in Seats, GetKeyboard(kb, s)
      PROVE  TypeOK'
  <2>1. [op |-> "keyboard", id |-> kb] \in Request
    BY DEF Request
  <2>2. toHost' \in Seq(Request)
    BY <1>7, <2>1, AppendProperties DEF GetKeyboard, Send, TypeOK
  <2>. QED
    BY <1>7, <2>2 DEF GetKeyboard, Drop, TypeOK
<1>8. ASSUME NEW kb \in Keyboards, ReleaseKeyboard(kb) PROVE TypeOK'
  <2>1. [op |-> "release", id |-> kb] \in Request
    BY DEF Request
  <2>2. toHost' \in Seq(Request)
    BY <1>8, <2>1, AppendProperties DEF ReleaseKeyboard, Send, TypeOK
  <2>3. /\ keyboards' \in [Keyboards -> Focus \cup {None}]
        /\ active' \in [Seats -> GuestSurfaces \cup {None}]
    BY <1>8, RemoveKeyboardType DEF ReleaseKeyboard, TypeOK
  <2>. QED
    BY <1>8, <2>2, <2>3 DEF ReleaseKeyboard, TypeOK
<1>9. CASE HostReceive
  <2>. DEFINE r == Head(toHost)
  <2>1. r \in Request /\ toHost' \in Seq(Request)
    BY <1>9, HeadTailProperties DEF HostReceive, TypeOK
  <2>2. CASE r.op = "surface"
    <3>1. r.id \in HostSurfaces
      BY <2>1, <2>2, RequestParts
    <3>. QED
      BY <1>9, <2>1, <2>2, <3>1 DEF HostReceive, Drop, TypeOK
  <2>3. CASE r.op = "destroy"
    <3>1. r.id \in HostSurfaces
      BY <2>1, <2>3, RequestParts
    <3>2. [op |-> "delete_surface", id |-> r.id] \in Event
      BY <3>1 DEF Event
    <3>3. toProxy' = Append(toProxy, [op |-> "delete_surface", id |-> r.id])
      BY <1>9, <2>3 DEF HostReceive, Emit
    <3>4. toProxy' \in Seq(Event)
      BY <3>2, <3>3, AppendProperties DEF TypeOK
    <3>. QED
      BY <1>9, <2>1, <2>3, <3>1, <3>4 DEF HostReceive, Drop, TypeOK
  <2>4. CASE r.op = "keyboard"
    <3>1. r.id \in Keyboards
      BY <2>1, <2>4, RequestParts
    <3>. QED
      BY <1>9, <2>1, <2>4, <3>1 DEF HostReceive, Drop, TypeOK
  <2>5. CASE r.op = "release"
    <3>1. r.id \in Keyboards
      BY <2>1, <2>5, RequestParts
    <3>2. [op |-> "delete_keyboard", id |-> r.id] \in Event
      BY <3>1 DEF Event
    <3>3. toProxy' = Append(toProxy, [op |-> "delete_keyboard", id |-> r.id])
      BY <1>9, <2>5 DEF HostReceive, Emit
    <3>4. toProxy' \in Seq(Event)
      BY <3>2, <3>3, AppendProperties DEF TypeOK
    <3>. QED
      BY <1>9, <2>1, <2>5, <3>1, <3>4 DEF HostReceive, Drop, TypeOK
  <2>. QED
    BY <2>1, <2>2, <2>3, <2>4, <2>5, RequestParts
<1>10. ASSUME NEW kb \in Keyboards, NEW h \in HostSurfaces,
              HostEnter(kb, h) \/ HostLeave(kb, h)
       PROVE  TypeOK'
  <2>1. \A op \in {"enter", "leave"} :
          [op |-> op, keyboard |-> kb, id |-> h] \in Event
    BY DEF Event
  <2>2. PICK op \in {"enter", "leave"} :
          toProxy' = Append(toProxy, [op |-> op, keyboard |-> kb, id |-> h])
    BY <1>10 DEF HostEnter, HostLeave, Emit
  <2>3. toProxy' \in Seq(Event)
    BY <2>1, <2>2, AppendProperties DEF TypeOK
  <2>. QED
    BY <1>10, <2>3 DEF HostEnter, HostLeave, Drop, TypeOK
<1>11. CASE UNCHANGED vars
  BY <1>11 DEF vars, TypeOK
<1>. QED
  BY <1>1, <1>2, <1>3, <1>4, <1>5, <1>6, <1>7, <1>8, <1>9, <1>10, <1>11 DEF Next

\* Every reachable state is well typed.
THEOREM TypeCorrect == Spec => []TypeOK
<1>1. Init => TypeOK
  BY EmptySeq DEF Init, TypeOK
<1>. QED
  BY <1>1, TypeNext, PTL DEF Spec

-----------------------------------------------------------------------------
(* Ownership                                                               *)

\* Only an accepted enter gives a keyboard a focus; every other step keeps or
\* clears what it has.
LEMMA FocusStep ==
  ASSUME TypeOK, [Next]_vars
  PROVE  \/ \E kb \in Keyboards, h \in HostSurfaces :
              /\ Dispatchable(kb) /\ Forwardable(h)
              /\ keyboards' = EnterKeyboards(kb, EnterFocus(kb, h))
              /\ UNCHANGED <<guestOf, pending>>
         \/ \A k \in Keyboards : keyboards'[k] \in {keyboards[k], None}
<1>. USE DEF registry, tables, hostState
<1>1. CASE OnEnter
  <2>. DEFINE e == Head(toProxy)
  <2>1. e \in Event
    BY <1>1, HeadTailProperties DEF OnEnter, Head1, TypeOK
  <2>2. e.keyboard \in Keyboards /\ e.id \in HostSurfaces
    BY <1>1, <2>1, EventParts DEF OnEnter, Head1
  <2>. QED
    BY <1>1, <2>2 DEF OnEnter
<1>2. CASE OnLeave
  BY <1>2 DEF OnLeave, RemoveKeyboard, TypeOK
<1>3. ASSUME NEW h \in HostSurfaces, DestroySurface(h)
      PROVE  \A k \in Keyboards : keyboards'[k] \in {keyboards[k], None}
  BY <1>3 DEF DestroySurface, TypeOK
<1>4. ASSUME NEW kb \in Keyboards, ReleaseKeyboard(kb)
      PROVE  \A k \in Keyboards : keyboards'[k] \in {keyboards[k], None}
  BY <1>4 DEF ReleaseKeyboard, RemoveKeyboard, TypeOK
<1>5. CASE UNCHANGED keyboards
  BY <1>5
<1>. QED
  BY <1>1, <1>2, <1>3, <1>4, <1>5
  DEF Next, vars, OnDeleteSurface, OnDeleteKeyboard, CreateSurface, GetKeyboard,
      HostReceive, HostEnter, HostLeave

\* An enter takes the seat away from every keyboard that held another surface.
LEMMA EnterKeepsOneSurface ==
  ASSUME TypeOK, OneSurfacePerSeat, NEW kb \in Keyboards, NEW focus,
         keyboards' = EnterKeyboards(kb, focus)
  PROVE  OneSurfacePerSeat'
<1>1. \A k \in Keyboards : k # kb /\ keyboards'[k] # None =>
        /\ keyboards'[k] = keyboards[k]
        /\ keyboards[k].guest_seat = focus.guest_seat
             => keyboards[k].guest_surface = focus.guest_surface
  BY DEF EnterKeyboards, EnterRetires
<1>2. keyboards'[kb] = focus
  BY DEF EnterKeyboards
<1>. QED
  BY <1>1, <1>2 DEF OneSurfacePerSeat

LEMMA OneSurfaceNext == TypeOK /\ OneSurfacePerSeat /\ [Next]_vars
                          => OneSurfacePerSeat'
<1>. SUFFICES ASSUME TypeOK, OneSurfacePerSeat, [Next]_vars
              PROVE  OneSurfacePerSeat'
  OBVIOUS
<1>1. ASSUME \A k \in Keyboards : keyboards'[k] \in {keyboards[k], None}
      PROVE  OneSurfacePerSeat'
  BY <1>1 DEF OneSurfacePerSeat
<1>. QED
  BY <1>1, FocusStep, EnterKeepsOneSurface

\* The registry's rule: keyboards of one seat that own a surface own the same
\* one, so surface_for_seat's first match is the only answer.
THEOREM SeatHasOneSurface == Spec => []OneSurfacePerSeat
<1>1. Init => OneSurfacePerSeat
  BY DEF Init, OneSurfacePerSeat
<1>. QED
  BY <1>1, OneSurfaceNext, TypeCorrect, PTL DEF Spec

-----------------------------------------------------------------------------
(* The text inputs' view of a seat                                         *)

\* The lookup depends only on the keyboards of the seat.
LEMMA SurfaceForSeatLocal ==
  ASSUME NEW old, NEW new, NEW s,
         \A k \in Keyboards :
           k \in OnSeat(old, s) \/ k \in OnSeat(new, s) => old[k] = new[k]
  PROVE  SurfaceForSeat(old, s) = SurfaceForSeat(new, s)
<1>1. OnSeat(old, s) = OnSeat(new, s)
  BY DEF OnSeat
<1>2. CASE OnSeat(old, s) = {}
  BY <1>1, <1>2 DEF SurfaceForSeat
<1>3. CASE OnSeat(old, s) # {}
  <2>1. PICK k \in OnSeat(old, s) : k = CHOOSE j \in OnSeat(old, s) : TRUE
    BY <1>3
  <2>2. k \in Keyboards /\ old[k] = new[k]
    BY <2>1 DEF OnSeat
  <2>. QED
    BY <1>1, <1>3, <2>1, <2>2 DEF SurfaceForSeat
<1>. QED
  BY <1>2, <1>3

\* A projection that covers every seat whose lookup changed restores the view.
LEMMA ProjectionRestores ==
  ASSUME NEW affected, NEW old, NEW new, NEW act,
         \A s \in Seats : act[s] = SurfaceForSeat(old, s),
         \A s \in Seats \ affected :
           SurfaceForSeat(old, s) = SurfaceForSeat(new, s)
  PROVE  \A s \in Seats :
           ProjectSeats(affected, old, new, act)[s] = SurfaceForSeat(new, s)
BY DEF ProjectSeats

LEMMA RemoveKeepsView ==
  ASSUME TypeOK, TextFocusFollowsSeat, NEW kb \in Keyboards,
         keyboards[kb] # None, RemoveKeyboard(kb)
  PROVE  TextFocusFollowsSeat'
<1>. DEFINE seat == keyboards[kb].guest_seat
<1>1. keyboards' = [keyboards EXCEPT ![kb] = None]
  BY DEF RemoveKeyboard
<1>2. ASSUME NEW s \in Seats \ {seat}
      PROVE  SurfaceForSeat(keyboards, s) = SurfaceForSeat(keyboards', s)
  <2>1. \A k \in Keyboards : k \in OnSeat(keyboards, s) \/ k \in OnSeat(keyboards', s)
                               => keyboards[k] = keyboards'[k]
    BY <1>1, <1>2 DEF OnSeat, TypeOK
  <2>. QED
    BY <2>1, SurfaceForSeatLocal
<1>3. active' = ProjectSeats({seat}, keyboards, keyboards', active)
  BY DEF RemoveKeyboard
<1>. QED
  BY <1>2, <1>3, ProjectionRestores DEF TextFocusFollowsSeat

LEMMA TextFocusNext == TypeOK /\ TextFocusFollowsSeat /\ [Next]_vars
                         => TextFocusFollowsSeat'
<1>. SUFFICES ASSUME TypeOK, TextFocusFollowsSeat, [Next]_vars
              PROVE  TextFocusFollowsSeat'
  OBVIOUS
<1>. USE DEF registry, tables, hostState
<1>1. CASE OnEnter
  <2>. DEFINE kb == Head(toProxy).keyboard
              focus == EnterFocus(kb, Head(toProxy).id)
              seats == {focus.guest_seat}
                         \cup {keyboards[k].guest_seat :
                                 k \in {j \in {kb} : keyboards[j] # None}}
  <2>1. CASE UNCHANGED registry
    BY <2>1 DEF TextFocusFollowsSeat
  <2>2. CASE /\ keyboards' = EnterKeyboards(kb, focus)
             /\ active' = ProjectSeats(seats, keyboards, keyboards', active)
    <3>1. ASSUME NEW s \in Seats \ seats
          PROVE  SurfaceForSeat(keyboards, s) = SurfaceForSeat(keyboards', s)
      <4>1. focus.guest_seat # s /\ (keyboards[kb] # None => keyboards[kb].guest_seat # s)
        BY <3>1
      <4>2. \A k \in Keyboards :
              k \in OnSeat(keyboards, s) \/ k \in OnSeat(keyboards', s)
                => keyboards[k] = keyboards'[k]
        BY <2>2, <4>1 DEF OnSeat, EnterKeyboards, EnterRetires
      <4>. QED
        BY <4>2, SurfaceForSeatLocal
    <3>. QED
      BY <2>2, <3>1, ProjectionRestores DEF TextFocusFollowsSeat
  <2>. QED
    BY <1>1, <2>1, <2>2 DEF OnEnter
<1>2. CASE OnLeave
  <2>. DEFINE kb == Head(toProxy).keyboard
  <2>1. kb \in Keyboards
    BY <1>2, HeadTailProperties, EventParts DEF OnLeave, Head1, TypeOK
  <2>2. CASE UNCHANGED <<keyboards, active>>
    BY <2>2 DEF TextFocusFollowsSeat
  <2>3. CASE keyboards[kb] # None /\ RemoveKeyboard(kb)
    BY <2>1, <2>3, RemoveKeepsView
  <2>. QED
    BY <1>2, <2>2, <2>3 DEF OnLeave
<1>3. ASSUME NEW h \in HostSurfaces, DestroySurface(h)
      PROVE  TextFocusFollowsSeat'
  <2>. DEFINE owners == {k \in Keyboards : keyboards[k] # None
                           /\ keyboards[k].guest_surface = guestOf[h]}
              seats == {keyboards[k].guest_seat : k \in owners}
  <2>1. ASSUME NEW s \in Seats \ seats
        PROVE  SurfaceForSeat(keyboards, s) = SurfaceForSeat(keyboards', s)
    <3>1. \A k \in Keyboards :
            k \in OnSeat(keyboards, s) \/ k \in OnSeat(keyboards', s)
              => keyboards[k] = keyboards'[k]
      BY <1>3, <2>1 DEF OnSeat, DestroySurface
    <3>. QED
      BY <3>1, SurfaceForSeatLocal
  <2>. QED
    BY <1>3, <2>1 DEF DestroySurface, TextFocusFollowsSeat
<1>4. ASSUME NEW kb \in Keyboards, ReleaseKeyboard(kb)
      PROVE  TextFocusFollowsSeat'
  <2>1. CASE keyboards[kb] = None
    BY <1>4, <2>1 DEF ReleaseKeyboard, TextFocusFollowsSeat
  <2>2. CASE keyboards[kb] # None
    BY <1>4, <2>2, RemoveKeepsView DEF ReleaseKeyboard
  <2>. QED
    BY <2>1, <2>2
<1>5. CASE UNCHANGED <<keyboards, active>>
  BY <1>5 DEF TextFocusFollowsSeat
<1>. QED
  BY <1>1, <1>2, <1>3, <1>4, <1>5
  DEF Next, vars, OnDeleteSurface, OnDeleteKeyboard, CreateSurface, GetKeyboard,
      HostReceive, HostEnter, HostLeave

\* The IME is told of the surface the seat's keyboards own, whatever the order
\* of enters, leaves, releases and destructions.
THEOREM TextInputsFollowSeat == Spec => []TextFocusFollowsSeat
<1>1. Init => TextFocusFollowsSeat
  <2>. SUFFICES ASSUME Init, NEW s \in Seats
                PROVE  active[s] = SurfaceForSeat(keyboards, s)
    BY DEF TextFocusFollowsSeat
  <2>1. OnSeat(keyboards, s) = {}
    BY DEF Init, OnSeat
  <2>. QED
    BY <2>1 DEF Init, SurfaceForSeat
<1>. QED
  BY <1>1, TextFocusNext, TypeCorrect, PTL DEF Spec

-----------------------------------------------------------------------------
(* Destructors in flight                                                   *)

\* Every message of kind op in queue p is in queue q as well, at the same
\* place or one place later: p is q, q without its head, or q with a message
\* of another kind appended.
Shifted(q, p, op) ==
  \E d \in {0, 1} : \A i \in DOMAIN p : p[i].op = op =>
    i \in Nat /\ i + d \in DOMAIN q /\ q[i + d] = p[i]

LEMMA SameShifted ==
  ASSUME NEW S, NEW q \in Seq(S), NEW op
  PROVE  Shifted(q, q, op)
<1>1. \A i \in DOMAIN q : i \in Nat /\ i + 0 = i
  BY LenProperties
<1>. QED
  BY <1>1 DEF Shifted

LEMMA TailShifted ==
  ASSUME NEW S, NEW q \in Seq(S), q # <<>>, NEW op
  PROVE  Shifted(q, Tail(q), op)
<1>1. \A i \in DOMAIN Tail(q) :
        i \in Nat /\ i + 1 \in DOMAIN q /\ q[i + 1] = Tail(q)[i]
  BY HeadTailProperties, LenProperties
<1>. QED
  BY <1>1 DEF Shifted

LEMMA AppendShifted ==
  ASSUME NEW S, NEW q \in Seq(S), NEW x \in S, NEW op, x.op # op
  PROVE  Shifted(q, Append(q, x), op)
<1>1. \A i \in DOMAIN Append(q, x) :
        i \in Nat /\ (\/ i = Len(q) + 1 /\ Append(q, x)[i] = x
                      \/ i + 0 \in DOMAIN q /\ q[i + 0] = Append(q, x)[i])
  BY AppendProperties, LenProperties
<1>. QED
  BY <1>1 DEF Shifted

\* Queues that gained no destructor still hold each one once.
LEMMA ShiftOnce ==
  ASSUME DestructorsOnce, Shifted(toHost, toHost', "destroy"),
         Shifted(toProxy, toProxy', "delete_surface")
  PROVE  DestructorsOnce'
<1>1. PICK d \in {0, 1} : \A i \in DOMAIN toHost' : toHost'[i].op = "destroy" =>
        i \in Nat /\ i + d \in DOMAIN toHost /\ toHost[i + d] = toHost'[i]
  BY DEF Shifted
<1>2. PICK f \in {0, 1} : \A i \in DOMAIN toProxy' :
        toProxy'[i].op = "delete_surface" =>
          i \in Nat /\ i + f \in DOMAIN toProxy /\ toProxy[i + f] = toProxy'[i]
  BY DEF Shifted
<1>3. ASSUME NEW i \in DOMAIN toHost', NEW j \in DOMAIN toHost',
             toHost'[i].op = "destroy", toHost'[j].op = "destroy",
             toHost'[i].id = toHost'[j].id
      PROVE  i = j
  <2>1. i + d = j + d
    BY <1>1, <1>3 DEF DestructorsOnce
  <2>. QED
    BY <1>1, <1>3, <2>1
<1>4. ASSUME NEW i \in DOMAIN toProxy', NEW j \in DOMAIN toProxy',
             toProxy'[i].op = "delete_surface", toProxy'[j].op = "delete_surface",
             toProxy'[i].id = toProxy'[j].id
      PROVE  i = j
  <2>1. i + f = j + f
    BY <1>2, <1>4 DEF DestructorsOnce
  <2>. QED
    BY <1>2, <1>4, <2>1
<1>5. ASSUME NEW i \in DOMAIN toHost', NEW j \in DOMAIN toProxy',
             toHost'[i].op = "destroy", toProxy'[j].op = "delete_surface"
      PROVE  toHost'[i].id # toProxy'[j].id
  BY <1>1, <1>2, <1>5 DEF DestructorsOnce
<1>. QED
  BY <1>3, <1>4, <1>5 DEF DestructorsOnce

\* Queues that gained no destructor name reserved pairs if no pair is freed.
LEMMA ShiftReserved ==
  ASSUME DestructorsReserved, Shifted(toHost, toHost', "destroy"),
         Shifted(toProxy, toProxy', "delete_surface"),
         \A x : Reserved(x) => Reserved(x)'
  PROVE  DestructorsReserved'
BY DEF DestructorsReserved, Shifted

LEMMA ReservedNext == TypeOK /\ ReservedUntilDelete /\ [Next]_vars
                        => ReservedUntilDelete'
<1>. SUFFICES ASSUME TypeOK, GuestIdsUnique, DestructorsReserved, DestructorsOnce,
                     [Next]_vars
              PROVE  ReservedUntilDelete'
  BY DEF ReservedUntilDelete
<1>. USE DEF registry, tables, hostState
<1>q. toHost \in Seq(Request) /\ toProxy \in Seq(Event)
  BY DEF TypeOK
<1>s. /\ Shifted(toHost, toHost, "destroy")
      /\ Shifted(toProxy, toProxy, "delete_surface")
  BY <1>q, SameShifted
\* Steps that leave the tables alone and send no destructor.
<1>0. ASSUME UNCHANGED <<guestOf, pending>>, Shifted(toHost, toHost', "destroy"),
             Shifted(toProxy, toProxy', "delete_surface")
      PROVE  ReservedUntilDelete'
  <2>1. \A x : Reserved(x) => Reserved(x)'
    BY <1>0 DEF Reserved
  <2>2. GuestIdsUnique'
    BY <1>0 DEF GuestIdsUnique
  <2>. QED
    BY <1>0, <2>1, <2>2, ShiftOnce, ShiftReserved DEF ReservedUntilDelete
<1>1. ASSUME OnEnter \/ OnLeave \/ OnDeleteKeyboard PROVE ReservedUntilDelete'
  <2>1. /\ toProxy # <<>> /\ toProxy' = Tail(toProxy)
        /\ UNCHANGED <<guestOf, pending, toHost>>
    BY <1>1 DEF OnEnter, OnLeave, OnDeleteKeyboard, Head1, Consume
  <2>. QED
    BY <1>q, <1>s, <1>0, <2>1, TailShifted
<1>2. CASE OnDeleteSurface
  <2>. DEFINE h == Head(toProxy).id
  <2>1. toProxy # <<>> /\ toProxy' = Tail(toProxy) /\ UNCHANGED toHost
    BY <1>2 DEF OnDeleteSurface, Head1, Consume
  <2>2. Shifted(toProxy, toProxy', "delete_surface")
    BY <1>q, <2>1, TailShifted
  <2>3. DestructorsOnce'
    BY <1>s, <2>1, <2>2, ShiftOnce
  <2>4. 1 \in DOMAIN toProxy /\ toProxy[1].op = "delete_surface" /\ h = toProxy[1].id
    BY <1>2, <1>q, <2>1, HeadTailProperties, LenProperties, EmptySeq
    DEF OnDeleteSurface, Head1
  <2>5. h \in HostSurfaces
    BY <1>q, <2>4, EventParts, ElementOfSeq, LenProperties
  <2>6. Reserved(h)
    BY <2>4 DEF DestructorsReserved
  <2>7. \A x \in HostSurfaces : Reserved(x) /\ x # h => Reserved(x)'
    BY <1>2, <2>5, <2>6 DEF Reserved, GuestIdsUnique, OnDeleteSurface, TypeOK
  <2>8. GuestIdsUnique'
    BY <1>2, <2>5 DEF GuestIdsUnique, OnDeleteSurface, TypeOK
  <2>9. ASSUME NEW i \in DOMAIN toHost', toHost'[i].op = "destroy"
        PROVE  Reserved(toHost[i].id)'
    <3>1. toHost[i].id # h /\ Reserved(toHost[i].id)
      BY <2>1, <2>4, <2>9 DEF DestructorsOnce, DestructorsReserved
    <3>2. toHost[i].id \in HostSurfaces
      BY <1>q, <2>1, <2>9, RequestParts, ElementOfSeq, LenProperties
    <3>. QED
      BY <2>1, <2>7, <3>1, <3>2 DEF Reserved
  <2>10. ASSUME NEW i \in DOMAIN toProxy', toProxy'[i].op = "delete_surface"
         PROVE  Reserved(toProxy[i].id)'
    <3>1. i \in Nat /\ i + 1 \in DOMAIN toProxy /\ toProxy'[i] = toProxy[i + 1]
            /\ i + 1 # 1
      BY <1>q, <2>1, <2>10, HeadTailProperties, LenProperties
    <3>2. toProxy[i + 1].id # h /\ Reserved(toProxy[i + 1].id)
      BY <2>4, <2>10, <3>1 DEF DestructorsOnce, DestructorsReserved
    <3>3. toProxy[i + 1].id \in HostSurfaces
      BY <1>q, <2>10, <3>1, EventParts, ElementOfSeq, LenProperties
    <3>. QED
      BY <2>7, <3>1, <3>2, <3>3 DEF Reserved
  <2>. QED
    BY <2>3, <2>8, <2>9, <2>10 DEF ReservedUntilDelete, DestructorsReserved
<1>3. ASSUME NEW g \in GuestSurfaces, NEW h \in HostSurfaces, CreateSurface(g, h)
      PROVE  ReservedUntilDelete'
  <2>1. Shifted(toHost, toHost', "destroy") /\ UNCHANGED toProxy
    <3>1. [op |-> "surface", id |-> h] \in Request
      BY DEF Request
    <3>. QED
      BY <1>3, <1>q, <3>1, AppendShifted DEF CreateSurface, Send
  <2>2. GuestIdsUnique'
    BY <1>3 DEF GuestIdsUnique, CreateSurface, TypeOK
  <2>3. \A x : Reserved(x) => Reserved(x)'
    BY <1>3 DEF Reserved, CreateSurface, TypeOK
  <2>. QED
    BY <1>s, <2>1, <2>2, <2>3, ShiftOnce, ShiftReserved DEF ReservedUntilDelete
<1>4. ASSUME NEW h \in HostSurfaces, DestroySurface(h) PROVE ReservedUntilDelete'
  <2>. DEFINE m == [op |-> "destroy", id |-> h]
  <2>1. m \in Request /\ toHost' = Append(toHost, m)
    BY <1>4 DEF Request, DestroySurface, Send
  <2>2. \A i \in DOMAIN toHost' : \/ i \in DOMAIN toHost /\ toHost'[i] = toHost[i]
                                  \/ i = Len(toHost) + 1 /\ toHost'[i] = m
    BY <1>q, <2>1, AppendProperties, LenProperties
  <2>3. UNCHANGED <<guestOf, toProxy>> /\ pending' = pending \cup {guestOf[h]}
    BY <1>4 DEF DestroySurface
  <2>4. guestOf[h] # None /\ guestOf[h] \notin pending
    BY <1>4 DEF DestroySurface, Forwardable
  <2>5. GuestIdsUnique' /\ Reserved(h)' /\ ~Reserved(h)
    BY <2>3, <2>4 DEF GuestIdsUnique, Reserved
  <2>6. \A x : Reserved(x) => Reserved(x)'
    BY <2>3 DEF Reserved
  <2>7. DestructorsReserved'
    BY <2>2, <2>3, <2>5, <2>6 DEF DestructorsReserved
  <2>8. /\ \A i \in DOMAIN toHost : toHost[i].op = "destroy" => toHost[i].id # h
        /\ \A i \in DOMAIN toProxy :
             toProxy[i].op = "delete_surface" => toProxy[i].id # h
    BY <2>5 DEF DestructorsReserved
  <2>9. DestructorsOnce'
    BY <2>2, <2>3, <2>8 DEF DestructorsOnce
  <2>. QED
    BY <2>5, <2>7, <2>9 DEF ReservedUntilDelete
<1>5. ASSUME NEW kb \in Keyboards, ReleaseKeyboard(kb) \/ \E s \in Seats : GetKeyboard(kb, s)
      PROVE  ReservedUntilDelete'
  <2>1. PICK op \in {"keyboard", "release"} :
          toHost' = Append(toHost, [op |-> op, id |-> kb])
    BY <1>5 DEF ReleaseKeyboard, GetKeyboard, Send
  <2>2. [op |-> op, id |-> kb] \in Request /\ op # "destroy"
    BY DEF Request
  <2>3. Shifted(toHost, toHost', "destroy")
    BY <1>q, <2>1, <2>2, AppendShifted
  <2>4. UNCHANGED <<guestOf, pending, toProxy>>
    BY <1>5 DEF ReleaseKeyboard, GetKeyboard
  <2>. QED
    BY <1>s, <1>0, <2>3, <2>4
<1>6. CASE HostReceive
  <2>. DEFINE r == Head(toHost)
              m == [op |-> "delete_surface", id |-> r.id]
  <2>1. /\ toHost # <<>> /\ toHost' = Tail(toHost) /\ r \in Request
        /\ UNCHANGED <<guestOf, pending>>
    BY <1>6, <1>q, HeadTailProperties DEF HostReceive
  <2>2. Shifted(toHost, toHost', "destroy")
    BY <1>q, <2>1, TailShifted
  <2>3. CASE r.op # "destroy"
    <3>1. CASE UNCHANGED toProxy
      BY <1>s, <1>0, <2>1, <2>2, <3>1
    <3>2. CASE r.op = "release"
      <4>1. r.id \in Keyboards
        BY <2>1, <3>2, RequestParts
      <4>2. [op |-> "delete_keyboard", id |-> r.id] \in Event
        BY <4>1 DEF Event
      <4>3. toProxy' = Append(toProxy, [op |-> "delete_keyboard", id |-> r.id])
        BY <1>6, <3>2 DEF HostReceive, Emit
      <4>4. Shifted(toProxy, toProxy', "delete_surface")
        BY <1>q, <4>2, <4>3, AppendShifted
      <4>. QED
        BY <1>0, <2>1, <2>2, <4>4
    <3>. QED
      BY <1>6, <2>1, <2>3, <3>1, <3>2, RequestParts DEF HostReceive
  <2>4. CASE r.op = "destroy"
    <3>1. r.id \in HostSurfaces
      BY <2>1, <2>4, RequestParts
    <3>2. m \in Event
      BY <3>1 DEF Event
    <3>3. toProxy' = Append(toProxy, m)
      BY <1>6, <2>4 DEF HostReceive, Emit
    <3>4. \A i \in DOMAIN toProxy' : \/ i \in DOMAIN toProxy /\ toProxy'[i] = toProxy[i]
                                     \/ i = Len(toProxy) + 1 /\ toProxy'[i] = m
      BY <1>q, <3>2, <3>3, AppendProperties, LenProperties
    <3>5. 1 \in DOMAIN toHost /\ r = toHost[1]
      BY <1>q, <2>1, HeadTailProperties, LenProperties, EmptySeq
    <3>6. \A i \in DOMAIN toHost' : i \in Nat /\ i + 1 \in DOMAIN toHost /\ i + 1 # 1
                                      /\ toHost'[i] = toHost[i + 1]
      BY <1>q, <2>1, HeadTailProperties, LenProperties
    <3>7. Reserved(r.id)
      BY <2>4, <3>5 DEF DestructorsReserved
    <3>8. \A x : Reserved(x) => Reserved(x)'
      BY <2>1 DEF Reserved
    <3>9. DestructorsReserved'
      BY <3>4, <3>6, <3>7, <3>8 DEF DestructorsReserved
    <3>10. \A j \in DOMAIN toProxy :
             toProxy[j].op = "delete_surface" => toProxy[j].id # r.id
      BY <2>4, <3>5 DEF DestructorsOnce
    <3>11. \A i \in DOMAIN toHost' : toHost'[i].op = "destroy" => toHost'[i].id # r.id
      BY <2>4, <3>5, <3>6 DEF DestructorsOnce
    <3>12. ASSUME NEW i \in DOMAIN toHost', NEW j \in DOMAIN toHost',
                  toHost'[i].op = "destroy", toHost'[j].op = "destroy",
                  toHost'[i].id = toHost'[j].id
           PROVE  i = j
      <4>1. i + 1 = j + 1
        BY <3>6, <3>12 DEF DestructorsOnce
      <4>. QED
        BY <3>6, <3>12, <4>1
    <3>13. \A i \in DOMAIN toHost', j \in DOMAIN toProxy' :
             toHost'[i].op = "destroy" /\ toProxy'[j].op = "delete_surface"
               => toHost'[i].id # toProxy'[j].id
      BY <3>4, <3>6, <3>11 DEF DestructorsOnce
    <3>14. \A i, j \in DOMAIN toProxy' :
             toProxy'[i].op = "delete_surface" /\ toProxy'[j].op = "delete_surface"
               /\ toProxy'[i].id = toProxy'[j].id => i = j
      BY <3>4, <3>10 DEF DestructorsOnce
    <3>15. DestructorsOnce'
      BY <3>12, <3>13, <3>14 DEF DestructorsOnce
    <3>16. GuestIdsUnique'
      BY <2>1 DEF GuestIdsUnique
    <3>. QED
      BY <3>9, <3>15, <3>16 DEF ReservedUntilDelete
  <2>. QED
    BY <2>3, <2>4
<1>7. ASSUME NEW kb \in Keyboards, NEW h \in HostSurfaces,
             HostEnter(kb, h) \/ HostLeave(kb, h)
      PROVE  ReservedUntilDelete'
  <2>1. PICK op \in {"enter", "leave"} :
          toProxy' = Append(toProxy, [op |-> op, keyboard |-> kb, id |-> h])
    BY <1>7 DEF HostEnter, HostLeave, Emit
  <2>2. [op |-> op, keyboard |-> kb, id |-> h] \in Event /\ op # "delete_surface"
    BY DEF Event
  <2>3. Shifted(toProxy, toProxy', "delete_surface")
    BY <1>q, <2>1, <2>2, AppendShifted
  <2>4. UNCHANGED <<guestOf, pending, toHost>>
    BY <1>7 DEF HostEnter, HostLeave
  <2>. QED
    BY <1>s, <1>0, <2>3, <2>4
<1>8. CASE UNCHANGED vars
  BY <1>s, <1>0, <1>8 DEF vars
<1>. QED
  BY <1>1, <1>2, <1>3, <1>4, <1>5, <1>6, <1>7, <1>8 DEF Next

\* A destroyed surface's IDs stay reserved until the host's delete_id.
THEOREM IdsReserved == Spec => []ReservedUntilDelete
<1>1. Init => ReservedUntilDelete
  BY DEF Init, ReservedUntilDelete, GuestIdsUnique, DestructorsReserved,
         DestructorsOnce
<1>. QED
  BY <1>1, ReservedNext, TypeCorrect, PTL DEF Spec

-----------------------------------------------------------------------------
(* Focus never names a dead surface                                        *)

LEMMA LiveNext == TypeOK /\ ReservedUntilDelete /\ FocusOnLiveSurface /\ [Next]_vars
                    => FocusOnLiveSurface'
<1>. SUFFICES ASSUME TypeOK, ReservedUntilDelete, FocusOnLiveSurface, [Next]_vars
              PROVE  FocusOnLiveSurface'
  OBVIOUS
<1>. USE DEF registry, tables, hostState
<1>1. ASSUME NEW kb \in Keyboards, NEW h \in HostSurfaces, Forwardable(h),
             keyboards' = EnterKeyboards(kb, EnterFocus(kb, h)),
             UNCHANGED <<guestOf, pending>>
      PROVE  FocusOnLiveSurface'
  <2>1. keyboards'[kb] = EnterFocus(kb, h)
    BY <1>1 DEF EnterKeyboards
  <2>2. \A k \in Keyboards \ {kb} : keyboards'[k] \in {keyboards[k], None}
    BY <1>1 DEF EnterKeyboards
  <2>. QED
    BY <1>1, <2>1, <2>2 DEF FocusOnLiveSurface, EnterFocus, Forwardable
<1>2. ASSUME \A k \in Keyboards : keyboards'[k] \in {keyboards[k], None},
             UNCHANGED <<guestOf, pending>>
      PROVE  FocusOnLiveSurface'
  BY <1>2 DEF FocusOnLiveSurface
<1>3. CASE OnDeleteSurface
  <2>. DEFINE h == Head(toProxy).id
  <2>1. 1 \in DOMAIN toProxy /\ toProxy[1].op = "delete_surface" /\ h = toProxy[1].id
    BY <1>3, HeadTailProperties, LenProperties, EmptySeq
    DEF OnDeleteSurface, Head1, TypeOK
  <2>2. guestOf[h] \in pending
    BY <2>1 DEF ReservedUntilDelete, DestructorsReserved, Reserved
  <2>3. /\ guestOf' = [guestOf EXCEPT ![h] = None]
        /\ pending' \subseteq pending /\ UNCHANGED keyboards
    BY <1>3 DEF OnDeleteSurface
  <2>4. ASSUME NEW k \in Keyboards, keyboards[k] # None
        PROVE  /\ guestOf'[keyboards[k].host_surface] = keyboards[k].guest_surface
               /\ keyboards[k].guest_surface \notin pending'
    <3>1. /\ guestOf[keyboards[k].host_surface] = keyboards[k].guest_surface
          /\ keyboards[k].guest_surface \notin pending
      BY <2>4 DEF FocusOnLiveSurface
    <3>2. keyboards[k].host_surface \in HostSurfaces
      BY <2>4 DEF TypeOK, Focus
    <3>3. keyboards[k].host_surface # h
      BY <2>2, <3>1
    <3>. QED
      BY <2>3, <3>1, <3>2, <3>3 DEF TypeOK
  <2>. QED
    BY <2>3, <2>4 DEF FocusOnLiveSurface
<1>4. ASSUME NEW g \in GuestSurfaces, NEW h \in HostSurfaces, CreateSurface(g, h)
      PROVE  FocusOnLiveSurface'
  <2>1. /\ guestOf[h] = None /\ guestOf' = [guestOf EXCEPT ![h] = g]
        /\ UNCHANGED <<pending, keyboards>>
    BY <1>4 DEF CreateSurface
  <2>2. ASSUME NEW k \in Keyboards, keyboards[k] # None
        PROVE  keyboards[k].host_surface \in HostSurfaces \ {h}
    <3>1. keyboards[k].host_surface \in HostSurfaces
             /\ keyboards[k].guest_surface # None
      BY <2>2, NoneAssumption DEF TypeOK, Focus
    <3>. QED
      BY <2>1, <2>2, <3>1 DEF FocusOnLiveSurface
  <2>. QED
    BY <2>1, <2>2 DEF FocusOnLiveSurface, TypeOK
<1>5. ASSUME NEW h \in HostSurfaces, DestroySurface(h) PROVE FocusOnLiveSurface'
  <2>1. \A k \in Keyboards : keyboards'[k] # None =>
          keyboards'[k] = keyboards[k] /\ keyboards[k].guest_surface # guestOf[h]
    BY <1>5 DEF DestroySurface
  <2>2. UNCHANGED guestOf /\ pending' = pending \cup {guestOf[h]}
    BY <1>5 DEF DestroySurface
  <2>. QED
    BY <2>1, <2>2 DEF FocusOnLiveSurface
<1>6. CASE UNCHANGED <<guestOf, pending>>
  BY <1>1, <1>2, <1>6, FocusStep
<1>. QED
  BY <1>3, <1>4, <1>5, <1>6
  DEF Next, vars, OnEnter, OnLeave, OnDeleteKeyboard, GetKeyboard, ReleaseKeyboard,
      HostReceive, HostEnter, HostLeave

\* A keyboard never owns a surface whose destruction was forwarded or whose
\* ID was given back: no enter in flight resurrects a destroyed surface.
THEOREM FocusIsLive == Spec => []FocusOnLiveSurface
<1>1. Init => FocusOnLiveSurface
  BY DEF Init, FocusOnLiveSurface
<1>. QED
  BY <1>1, LiveNext, TypeCorrect, IdsReserved, PTL DEF Spec

-----------------------------------------------------------------------------
(* Every enter keeps its leave, and a leave names what the guest holds.    *)

\* The tombstones of a keyboard in retired_guest_enters.
Tombstones(k) == {r \in retired : r.keyboard = k}

\* The guest's view of a keyboard has one owner: the focus the registry holds,
\* or else the only tombstone.
EntersOwned ==
  \A k \in Keyboards :
    /\ keyboards[k] # None =>
         guestFocus[k] = keyboards[k].guest_surface /\ Tombstones(k) = {}
    /\ keyboards[k] = None =>
         /\ guestFocus[k] # None => Tombstones(k) # {}
         /\ \A r \in Tombstones(k) : r.focus.guest_surface = guestFocus[k]
         /\ \A r, q \in Tombstones(k) : r = q

LivePair(h, g) == guestOf[h] = g /\ g \notin pending

\* A tombstone's surface is one the guest can still be told about.
TombstonesLive ==
  \A r \in retired : LivePair(r.focus.host_surface, r.focus.guest_surface)

LeaveInv == EntersOwned /\ TombstonesLive

-----------------------------------------------------------------------------
(* Live pairs and tombstones                                               *)

\* Only wl_surface.destroy ends the life of a pair.
LEMMA LivePairStep ==
  ASSUME TypeOK, ReservedUntilDelete, [Next]_vars,
         NEW h \in HostSurfaces, NEW g \in GuestSurfaces, LivePair(h, g),
         \A x \in HostSurfaces : DestroySurface(x) => guestOf[x] # g
  PROVE  LivePair(h, g)'
<1>. USE DEF registry, tables, hostState
<1>1. CASE OnDeleteSurface
  <2>. DEFINE x == Head(toProxy).id
  <2>1. 1 \in DOMAIN toProxy /\ toProxy[1].op = "delete_surface" /\ x = toProxy[1].id
    BY <1>1, HeadTailProperties, LenProperties, EmptySeq
    DEF OnDeleteSurface, Head1, TypeOK
  <2>2. guestOf[x] \in pending
    BY <2>1 DEF ReservedUntilDelete, DestructorsReserved, Reserved
  <2>3. /\ guestOf' = [guestOf EXCEPT ![x] = None]
        /\ pending' \subseteq pending
    BY <1>1 DEF OnDeleteSurface
  <2>. QED
    BY <2>2, <2>3 DEF LivePair, TypeOK
<1>2. ASSUME NEW f \in GuestSurfaces, NEW x \in HostSurfaces, CreateSurface(f, x)
      PROVE  LivePair(h, g)'
  BY <1>2, NoneAssumption DEF CreateSurface, LivePair, TypeOK
<1>3. ASSUME NEW x \in HostSurfaces, DestroySurface(x) PROVE LivePair(h, g)'
  <2>1. UNCHANGED guestOf /\ pending' = pending \cup {guestOf[x]}
    BY <1>3 DEF DestroySurface
  <2>. QED
    BY <1>3, <2>1 DEF LivePair
<1>4. CASE UNCHANGED <<guestOf, pending>>
  BY <1>4 DEF LivePair
<1>. QED
  BY <1>1, <1>2, <1>3, <1>4
  DEF Next, vars, OnEnter, OnLeave, OnDeleteKeyboard, GetKeyboard, ReleaseKeyboard,
      HostReceive, HostEnter, HostLeave

\* An accepted enter: what happens to each keyboard's tombstones.
LEMMA EnterTombstones ==
  ASSUME TypeOK, EntersOwned, NEW kb \in Keyboards, NEW focus \in Focus,
         keyboards' = EnterKeyboards(kb, focus),
         retired' = EnterRetired(kb, focus)
  PROVE  /\ Tombstones(kb)' = {}
         /\ \A k \in EnterRetires(kb, focus) \ {kb} :
              Tombstones(k)' = {[keyboard |-> k, focus |-> keyboards[k]]}
         /\ \A k \in Keyboards \ (EnterRetires(kb, focus) \cup {kb}) :
              Tombstones(k)' = Tombstones(k)
<1>. DEFINE superseded == EnterRetires(kb, focus) \ {kb}
            new == {[keyboard |-> k, focus |-> keyboards[k]] : k \in superseded}
<1>1. \A n \in new : n.keyboard \in superseded /\ n.focus = keyboards[n.keyboard]
  OBVIOUS
<1>2. \A k \in superseded : k \in Keyboards /\ keyboards[k] # None /\ Tombstones(k) = {}
  BY DEF EnterRetires, EntersOwned
<1>3. \A r \in retired : r.keyboard \notin superseded
  BY <1>2 DEF Tombstones
<1>4. retired' = {r \in retired : r.keyboard # kb} \cup new
  BY <1>1, <1>3 DEF EnterRetired
<1>5. Tombstones(kb)' = {}
  BY <1>1, <1>4 DEF Tombstones
<1>6. ASSUME NEW k \in superseded
      PROVE  Tombstones(k)' = {[keyboard |-> k, focus |-> keyboards[k]]}
  <2>1. [keyboard |-> k, focus |-> keyboards[k]] \in new
    OBVIOUS
  <2>2. \A n \in new : n.keyboard = k => n = [keyboard |-> k, focus |-> keyboards[k]]
    OBVIOUS
  <2>3. \A r \in retired : r.keyboard # k
    BY <1>3
  <2>. QED
    BY <1>4, <2>1, <2>2, <2>3 DEF Tombstones
<1>7. ASSUME NEW k \in Keyboards \ (superseded \cup {kb})
      PROVE  Tombstones(k)' = Tombstones(k)
  BY <1>1, <1>4 DEF Tombstones
<1>. QED
  BY <1>5, <1>6, <1>7

-----------------------------------------------------------------------------
(* The handlers                                                            *)

LEMMA EnterOwned ==
  ASSUME TypeOK, EntersOwned, NEW kb \in Keyboards, NEW h \in HostSurfaces,
         Dispatchable(kb), Forwardable(h),
         keyboards' = EnterKeyboards(kb, EnterFocus(kb, h)),
         retired' = EnterRetired(kb, EnterFocus(kb, h)),
         Deliver("enter", kb, guestOf[h])
  PROVE  EntersOwned'
<1>. DEFINE focus == EnterFocus(kb, h)
            superseded == EnterRetires(kb, focus) \ {kb}
<1>1. focus \in Focus /\ focus.guest_surface = guestOf[h] /\ focus # None
  <2>1. focus \in Focus /\ focus.guest_surface = guestOf[h]
    BY DEF TypeOK, EnterFocus, Dispatchable, Forwardable, Focus
  <2>. QED
    BY <2>1, FocusAssumption
<1>2. /\ keyboards'[kb] = focus
      /\ \A k \in superseded : keyboards'[k] = None
      /\ \A k \in Keyboards \ (superseded \cup {kb}) : keyboards'[k] = keyboards[k]
  BY DEF EnterKeyboards, EnterRetires
<1>3. /\ guestFocus'[kb] = guestOf[h]
      /\ \A k \in Keyboards \ {kb} : guestFocus'[k] = guestFocus[k]
  BY DEF Deliver, TypeOK
<1>4. /\ Tombstones(kb)' = {}
      /\ \A k \in superseded :
           Tombstones(k)' = {[keyboard |-> k, focus |-> keyboards[k]]}
      /\ \A k \in Keyboards \ (superseded \cup {kb}) :
           Tombstones(k)' = Tombstones(k)
  BY <1>1, EnterTombstones
<1>5. \A k \in superseded : /\ k \in Keyboards \ {kb}
                            /\ keyboards[k] # None
                            /\ guestFocus[k] = keyboards[k].guest_surface
  BY DEF EnterRetires, EntersOwned
<1>6. ASSUME NEW k \in Keyboards, keyboards'[k] # None
      PROVE  guestFocus'[k] = keyboards'[k].guest_surface /\ Tombstones(k)' = {}
  BY <1>1, <1>2, <1>3, <1>4, <1>6 DEF EntersOwned
<1>7. ASSUME NEW k \in Keyboards, keyboards'[k] = None
      PROVE  /\ guestFocus'[k] # None => Tombstones(k)' # {}
             /\ \A r \in Tombstones(k)' : r.focus.guest_surface = guestFocus'[k]
             /\ \A r, q \in Tombstones(k)' : r = q
  <2>1. CASE k \in superseded
    <3>. DEFINE t == [keyboard |-> k, focus |-> keyboards[k]]
    <3>1. t.focus.guest_surface = guestFocus'[k]
      BY <1>3, <1>5, <2>1
    <3>2. Tombstones(k)' = {t}
      BY <1>4, <2>1
    <3>. HIDE DEF t
    <3>. QED
      BY <3>1, <3>2
  <2>2. CASE k \notin superseded
    BY <1>1, <1>2, <1>3, <1>4, <1>7, <2>2 DEF EntersOwned
  <2>. QED
    BY <2>1, <2>2
<1>. QED
  BY <1>6, <1>7 DEF EntersOwned

\* wl_keyboard.leave, by what it finds: nothing, the focus, or a tombstone.
LEMMA LeaveParts ==
  ASSUME TypeOK, FocusOnLiveSurface, TombstonesLive, OnLeave
  PROVE  \E kb \in Keyboards, h \in HostSurfaces :
           \/ Drop /\ UNCHANGED <<keyboards, retired>>
           \/ /\ keyboards[kb] # None
              /\ keyboards' = [keyboards EXCEPT ![kb] = None]
              /\ UNCHANGED retired
              /\ Deliver("leave", kb, keyboards[kb].guest_surface)
           \/ /\ keyboards[kb] = None
              /\ UNCHANGED keyboards
              /\ \E r \in Tombstones(kb) :
                   /\ r.focus.host_surface = h
                   /\ Deliver("leave", kb, r.focus.guest_surface)
              /\ retired' = retired \ {r \in Tombstones(kb) :
                                         r.focus.host_surface = h}
<1>. USE DEF registry
<1>. DEFINE e == Head(toProxy)
            kb == e.keyboard
            h == e.id
            tombstones == {r \in retired : r.keyboard = kb
                                             /\ r.focus.host_surface = h}
<1>1. kb \in Keyboards /\ h \in HostSurfaces
  BY HeadTailProperties, EventParts DEF OnLeave, Head1, TypeOK
<1>2. CASE ~Dispatchable(kb)
  BY <1>1, <1>2 DEF OnLeave
<1>3. CASE Dispatchable(kb) /\ keyboards[kb] = None /\ tombstones = {}
  BY <1>1, <1>3 DEF OnLeave, Drop
<1>4. CASE Dispatchable(kb) /\ keyboards[kb] = None /\ tombstones # {}
  <2>1. PICK r \in tombstones : TRUE
    BY <1>4
  <2>2. /\ r \in Tombstones(kb) /\ r.focus.host_surface = h
        /\ guestOf[h] = r.focus.guest_surface
        /\ r.focus.guest_surface \in GuestSurfaces \ pending
    BY <2>1 DEF Tombstones, TombstonesLive, LivePair, TypeOK, RetiredEnter, Focus
  <2>3. Forwardable(h)
    BY <2>2, NoneAssumption DEF Forwardable
  <2>4. /\ retired' = retired \ tombstones /\ UNCHANGED keyboards
        /\ Deliver("leave", kb, guestOf[h])
    BY <1>4, <2>3 DEF OnLeave
  <2>5. tombstones = {q \in Tombstones(kb) : q.focus.host_surface = h}
    BY DEF Tombstones
  <2>. QED
    BY <1>1, <1>4, <2>2, <2>4, <2>5
<1>5. CASE Dispatchable(kb) /\ keyboards[kb] # None
  <2>1. CASE keyboards[kb].host_surface = h
    <3>1. /\ guestOf[h] = keyboards[kb].guest_surface
          /\ guestOf[h] \in GuestSurfaces \ pending
      BY <1>1, <1>5, <2>1 DEF FocusOnLiveSurface, TypeOK, Focus
    <3>2. Forwardable(h)
      BY <3>1, NoneAssumption DEF Forwardable
    <3>3. RemoveKeyboard(kb) /\ Deliver("leave", kb, guestOf[h]) /\ UNCHANGED retired
      BY <1>5, <2>1, <3>2 DEF OnLeave
    <3>. QED
      BY <1>1, <1>5, <3>1, <3>3 DEF RemoveKeyboard
  <2>2. CASE keyboards[kb].host_surface # h
    BY <1>1, <1>5, <2>2 DEF OnLeave
  <2>. QED
    BY <2>1, <2>2
<1>. QED
  BY <1>2, <1>3, <1>4, <1>5

LEMMA EntersOwnedNext ==
  ASSUME TypeOK, ReservedUntilDelete, FocusOnLiveSurface, LeaveInv, [Next]_vars
  PROVE  EntersOwned'
<1>. USE DEF registry, tables, hostState
<1>0. EntersOwned /\ TombstonesLive
  BY DEF LeaveInv
<1>1. ASSUME UNCHANGED <<keyboards, retired, guestFocus>> PROVE EntersOwned'
  BY <1>0, <1>1 DEF EntersOwned, Tombstones
<1>2. CASE OnEnter
  <2>. DEFINE kb == Head(toProxy).keyboard
              h == Head(toProxy).id
  <2>1. kb \in Keyboards /\ h \in HostSurfaces
    BY <1>2, HeadTailProperties, EventParts DEF OnEnter, Head1, TypeOK
  <2>2. CASE Dispatchable(kb) /\ Forwardable(h) /\ keyboards[kb] # EnterFocus(kb, h)
    <3>1. /\ keyboards' = EnterKeyboards(kb, EnterFocus(kb, h))
          /\ retired' = EnterRetired(kb, EnterFocus(kb, h))
          /\ Deliver("enter", kb, guestOf[h])
      BY <1>2, <2>2 DEF OnEnter
    <3>. QED
      BY <1>0, <2>1, <2>2, <3>1, EnterOwned
  <2>3. CASE ~(Dispatchable(kb) /\ Forwardable(h) /\ keyboards[kb] # EnterFocus(kb, h))
    BY <1>1, <1>2, <2>3 DEF OnEnter, Drop
  <2>. QED
    BY <2>2, <2>3
<1>3. CASE OnLeave
  <2>1. ASSUME NEW kb \in Keyboards, keyboards[kb] # None,
               keyboards' = [keyboards EXCEPT ![kb] = None], UNCHANGED retired,
               Deliver("leave", kb, keyboards[kb].guest_surface)
        PROVE  EntersOwned'
    <3>1. guestFocus' = [guestFocus EXCEPT ![kb] = None]
      BY <2>1 DEF Deliver
    <3>2. \A k \in Keyboards : Tombstones(k)' = Tombstones(k)
      BY <2>1 DEF Tombstones
    <3>3. Tombstones(kb) = {}
      BY <1>0, <2>1 DEF EntersOwned
    <3>4. \A k \in Keyboards \ {kb} : keyboards'[k] = keyboards[k]
                                       /\ guestFocus'[k] = guestFocus[k]
      BY <2>1, <3>1 DEF TypeOK
    <3>5. keyboards'[kb] = None /\ guestFocus'[kb] = None
      BY <2>1, <3>1 DEF TypeOK
    <3>. QED
      BY <1>0, <3>2, <3>3, <3>4, <3>5 DEF EntersOwned
  <2>2. ASSUME NEW kb \in Keyboards, NEW h \in HostSurfaces,
               keyboards[kb] = None, UNCHANGED keyboards,
               NEW t \in Tombstones(kb), t.focus.host_surface = h,
               Deliver("leave", kb, t.focus.guest_surface),
               retired' = retired \ {r \in Tombstones(kb) : r.focus.host_surface = h}
        PROVE  EntersOwned'
    <3>1. guestFocus' = [guestFocus EXCEPT ![kb] = None]
      BY <2>2 DEF Deliver
    <3>2. Tombstones(kb) = {t}
      BY <1>0, <2>2 DEF EntersOwned
    <3>3. Tombstones(kb)' = {}
      BY <2>2, <3>2 DEF Tombstones
    <3>4. \A k \in Keyboards \ {kb} : Tombstones(k)' = Tombstones(k)
      BY <2>2 DEF Tombstones
    <3>5. guestFocus'[kb] = None
            /\ \A k \in Keyboards \ {kb} : guestFocus'[k] = guestFocus[k]
      BY <3>1 DEF TypeOK
    <3>. QED
      BY <1>0, <2>2, <3>3, <3>4, <3>5 DEF EntersOwned
  <2>3. CASE Drop /\ UNCHANGED <<keyboards, retired>>
    BY <1>1, <2>3 DEF Drop
  <2>. QED
    BY <1>0, <1>3, <2>1, <2>2, <2>3, LeaveParts
<1>4. ASSUME NEW h \in HostSurfaces, DestroySurface(h) PROVE EntersOwned'
  <2>. DEFINE g == guestOf[h]
  <2>1. \A k \in Keyboards :
          /\ keyboards'[k] = IF keyboards[k] # None /\ keyboards[k].guest_surface = g
                             THEN None ELSE keyboards[k]
          /\ guestFocus'[k] = IF guestFocus[k] = g THEN None ELSE guestFocus[k]
    BY <1>4 DEF DestroySurface
  <2>2. \A k \in Keyboards :
          Tombstones(k)' = {r \in Tombstones(k) : r.focus.guest_surface # g}
    BY <1>4 DEF DestroySurface, Tombstones
  <2>3. ASSUME NEW k \in Keyboards, keyboards[k] # None
        PROVE  /\ keyboards'[k] # None =>
                    guestFocus'[k] = keyboards'[k].guest_surface /\ Tombstones(k)' = {}
               /\ keyboards'[k] = None => guestFocus'[k] = None /\ Tombstones(k)' = {}
    BY <1>0, <2>1, <2>2, <2>3 DEF EntersOwned
  <2>4. ASSUME NEW k \in Keyboards, keyboards[k] = None
        PROVE  /\ keyboards'[k] = None
               /\ guestFocus'[k] # None => Tombstones(k)' # {}
               /\ \A r \in Tombstones(k)' : r.focus.guest_surface = guestFocus'[k]
               /\ \A r, q \in Tombstones(k)' : r = q
    BY <1>0, <2>1, <2>2, <2>4 DEF EntersOwned
  <2>. QED
    BY <2>3, <2>4 DEF EntersOwned
<1>5. ASSUME NEW kb \in Keyboards, ReleaseKeyboard(kb) PROVE EntersOwned'
  <2>1. keyboards' = [keyboards EXCEPT ![kb] = None]
    BY <1>5 DEF ReleaseKeyboard, RemoveKeyboard, TypeOK
  <2>2. /\ keyboards'[kb] = None /\ guestFocus'[kb] = None
        /\ \A k \in Keyboards \ {kb} : keyboards'[k] = keyboards[k]
                                        /\ guestFocus'[k] = guestFocus[k]
    BY <1>5, <2>1 DEF ReleaseKeyboard, TypeOK
  <2>3. /\ Tombstones(kb)' = {}
        /\ \A k \in Keyboards \ {kb} : Tombstones(k)' = Tombstones(k)
    BY <1>5 DEF ReleaseKeyboard, Tombstones
  <2>. QED
    BY <1>0, <2>2, <2>3 DEF EntersOwned
<1>. QED
  BY <1>1, <1>2, <1>3, <1>4, <1>5
  DEF Next, vars, Drop, OnDeleteSurface, OnDeleteKeyboard, CreateSurface, GetKeyboard,
      HostReceive, HostEnter, HostLeave

LEMMA TombstonesLiveNext ==
  ASSUME TypeOK, ReservedUntilDelete, FocusOnLiveSurface, LeaveInv, [Next]_vars
  PROVE  TombstonesLive'
<1>. USE DEF registry, tables, hostState
<1>1. ASSUME NEW r \in retired', NEW k \in Keyboards, keyboards[k] # None,
             r.focus = keyboards[k], OnEnter
      PROVE  LivePair(r.focus.host_surface, r.focus.guest_surface)'
  BY <1>1 DEF OnEnter, LivePair, FocusOnLiveSurface
<1>2. ASSUME NEW r \in retired,
             \A x \in HostSurfaces : DestroySurface(x) => guestOf[x] # r.focus.guest_surface
      PROVE  LivePair(r.focus.host_surface, r.focus.guest_surface)'
  <2>1. /\ r.focus.host_surface \in HostSurfaces /\ r.focus.guest_surface \in GuestSurfaces
        /\ LivePair(r.focus.host_surface, r.focus.guest_surface)
    BY DEF LeaveInv, TombstonesLive, TypeOK, RetiredEnter, Focus
  <2>. QED
    BY <1>2, <2>1, LivePairStep
<1>3. ASSUME NEW r \in retired'
      PROVE  \/ OnEnter /\ \E k \in Keyboards : keyboards[k] # None /\ r.focus = keyboards[k]
             \/ /\ r \in retired
                /\ \A x \in HostSurfaces :
                     DestroySurface(x) => guestOf[x] # r.focus.guest_surface
  <2>1. CASE OnEnter /\ r \notin retired
    BY <1>3, <2>1 DEF OnEnter, EnterRetired, EnterRetires
  <2>2. ASSUME NEW x \in HostSurfaces, DestroySurface(x)
        PROVE  r \in retired /\ guestOf[x] # r.focus.guest_surface
    BY <1>3, <2>2 DEF DestroySurface
  <2>3. ~OnEnter => r \in retired
    BY <1>3 DEF Next, vars, OnLeave, OnDeleteSurface, OnDeleteKeyboard, CreateSurface,
      DestroySurface, ReleaseKeyboard, GetKeyboard, HostReceive, HostEnter, HostLeave
  <2>. QED
    BY <2>1, <2>2, <2>3
<1>. QED
  BY <1>1, <1>2, <1>3 DEF TombstonesLive

-----------------------------------------------------------------------------
(* The theorems                                                            *)

\* The inductive invariant behind both: a guest wl_keyboard's view has exactly
\* one owner in the registry, and a tombstone always names a live surface.
THEOREM LeaveInvariant == Spec => []LeaveInv
<1>1. Init => LeaveInv
  BY DEF Init, LeaveInv, EntersOwned, TombstonesLive, Tombstones
<1>2. TypeOK /\ ReservedUntilDelete /\ FocusOnLiveSurface /\ LeaveInv /\ [Next]_vars
        => LeaveInv'
  BY EntersOwnedNext, TombstonesLiveNext DEF LeaveInv
<1>. QED
  BY <1>1, <1>2, TypeCorrect, IdsReserved, FocusIsLive, PTL DEF Spec

\* A guest wl_keyboard that was told of an enter keeps an owner for the leave
\* it is still owed.
THEOREM EnterHasItsLeave == Spec => []EnterKeepsItsLeave
<1>1. LeaveInv => EnterKeepsItsLeave
  BY DEF LeaveInv, EntersOwned, EnterKeepsItsLeave, Tombstones
<1>. QED
  BY <1>1, LeaveInvariant, PTL

\* A delayed leave never clears a newer focus: whatever is in flight, the leave
\* the guest receives names the surface that keyboard holds.
THEOREM LeaveNamesGuestFocus == Spec => LeaveMatchesGuestFocus
<1>. DEFINE Matches == out' # None /\ out'.op = "leave"
                         => guestFocus[out'.keyboard] = out'.id
<1>1. ASSUME TypeOK, FocusOnLiveSurface, LeaveInv, [Next]_vars PROVE [Matches]_vars
  <2>. USE <1>1
  <2>1. CASE OnEnter
    BY <2>1 DEF OnEnter, Deliver, Drop
  <2>2. CASE OnLeave
    <3>1. ASSUME Drop PROVE Matches
      BY <3>1 DEF Drop
    <3>2. ASSUME NEW kb \in Keyboards, keyboards[kb] # None,
                 Deliver("leave", kb, keyboards[kb].guest_surface)
          PROVE  Matches
      BY <3>2 DEF Deliver, LeaveInv, EntersOwned
    <3>3. ASSUME NEW kb \in Keyboards, keyboards[kb] = None, NEW r \in Tombstones(kb),
                 Deliver("leave", kb, r.focus.guest_surface)
          PROVE  Matches
      BY <3>3 DEF Deliver, LeaveInv, EntersOwned
    <3>4. TombstonesLive
      BY DEF LeaveInv
    <3>. QED
      BY <2>2, <3>1, <3>2, <3>3, <3>4, LeaveParts
  <2>3. CASE out' = None \/ UNCHANGED vars
    BY <2>3
  <2>. QED
    BY <2>1, <2>2, <2>3
    DEF Next, Drop, OnDeleteSurface, OnDeleteKeyboard, CreateSurface, DestroySurface,
        GetKeyboard, ReleaseKeyboard, HostReceive, HostEnter, HostLeave
<1>. QED
  BY <1>1, TypeCorrect, FocusIsLive, LeaveInvariant, PTL DEF Spec, LeaveMatchesGuestFocus
=============================================================================
