----------------------------- MODULE TextInput -----------------------------
(***************************************************************************)
(* The text-input-v3 to text-input-v1 bridge: TextInputState and the       *)
(* activation barriers (state/input.rs), the v3 request handlers and the   *)
(* v1 event handlers (handler/text_input.rs), for the text inputs of one   *)
(* seat.                                                                   *)
(*                                                                         *)
(* One host v1 object serves every activation of a guest text input, and   *)
(* its events carry no activation number.  After a deactivate the proxy    *)
(* therefore drops the object's events until a sync barrier returns on the *)
(* same ordered stream, and only then activates it again.  The model tags  *)
(* host data with the activation that produced it, and guest editor state  *)
(* with the focus period in which it was set; the code has neither tag.    *)
(***************************************************************************)
EXTENDS Naturals, FiniteSets, SequencesExt

CONSTANTS
  TextInputs,   \* guest zwp_text_input_v3 IDs, reused after delete_id
  HostInputs,   \* host zwp_text_input_v1 IDs, never reused (no destructor)
  Callbacks,    \* host wl_callback IDs, reused after delete_id
  Surfaces,     \* guest surfaces the seat may focus
  None,         \* Option::None
  MaxDeletes,   \* MAX_PENDING_IME_DELETES
  MaxFocus,     \* bound on the focus changes of a behaviour
  MaxCommits,   \* bound on the commits of each guest text input
  MaxRequests,  \* bound on the requests in flight to the host
  MaxEvents     \* bound on the IME events in flight from the host

\* The text inputs of a seat are objects of one client.
ASSUME InputsAssumption == IsFiniteSet(TextInputs)

ASSUME BoundsAssumption ==
  {MaxDeletes, MaxFocus, MaxCommits, MaxRequests, MaxEvents} \subseteq Nat

VARIABLES
  inputs,     \* Context::text_inputs
  barriers,   \* TextInputActivationBarrierRegistry, by callback
  cbTracked,  \* callbacks in the shadow table, pending-destroy ones included
  seat,       \* the guest wl_seat: "live", "pending" destruction, "gone"
  focus,      \* KeyboardFocusRegistry::surface_for_seat
  period,     \* focus periods so far
  unusedHost, \* host v1 objects not yet allocated
  activated,  \* activate requests sent to each host object
  issued,     \* commits the guest issued on each text input
  toHost,     \* requests in flight to the host
  toProxy,    \* events in flight from the host
  hostGen,    \* activation in force at each host object, 0 if none
  out         \* the done transaction the step sent to the guest

proxy == <<inputs, barriers, cbTracked, unusedHost, activated>>
vars == <<proxy, seat, focus, period, issued, toHost, toProxy, hostGen, out>>

Inactive == [state |-> "Inactive"]
Active   == [state |-> "Active"]
Draining(cb) == [state |-> "Draining", callback |-> cb]
Activation == {Inactive, Active} \cup {Draining(cb) : cb \in Callbacks}

TextInputState ==
  [host_v1_id : HostInputs, active_surface : Surfaces \cup {None},
   pending_enabled : BOOLEAN, committed_enabled : BOOLEAN,
   enabled_dirty : BOOLEAN, pending_text : Nat \cup {None},
   committed_text : Nat \cup {None}, text_dirty : BOOLEAN,
   guest_commit_serial : Nat, current_preedit : Nat,
   pending_deletes : Seq(Nat), host_activation : Activation]

ASSUME NoneAssumption ==
  None \notin Surfaces \cup Nat \cup TextInputState \cup (TextInputs \X HostInputs)

Event ==
  [op : {"preedit", "commit", "delete", "region", "confirm"}, id : HostInputs,
   gen : Nat, empty : BOOLEAN]
    \cup [op : {"done", "delete_id"}, id : Callbacks]
Request == [op : {"activate", "deactivate"}, id : HostInputs]
             \cup [op : {"sync"}, id : Callbacks]
             \cup [op : {"state"}, id : HostInputs, text : Nat \cup {None},
                   period : Nat]

\* A done transaction: the serial, and the activations its contents come from.
Done == [input : TextInputs, serial : Nat, gens : SUBSET Nat]

TypeOK ==
  /\ inputs \in [TextInputs -> TextInputState \cup {None}]
  /\ \A g \in TextInputs :
       inputs[g] # None => Len(inputs[g].pending_deletes) =< MaxDeletes
  /\ barriers \in [Callbacks -> (TextInputs \X HostInputs) \cup {None}]
  /\ cbTracked \in SUBSET Callbacks
  /\ seat \in {"live", "pending", "gone"}
  /\ focus \in Surfaces \cup {None}
  /\ period \in 0 .. MaxFocus
  /\ unusedHost \in SUBSET HostInputs
  /\ activated \in [HostInputs -> Nat]
  /\ issued \in [TextInputs -> 0 .. MaxCommits]
  /\ toHost \in Seq(Request) /\ toProxy \in Seq(Event)
  /\ hostGen \in [HostInputs -> Nat]
  /\ out \in Done \cup {None}

-----------------------------------------------------------------------------
(* TextInputState                                                          *)

\* TextInputState::new
NewInput(h, surface) ==
  [host_v1_id |-> h, active_surface |-> surface, pending_enabled |-> FALSE,
   committed_enabled |-> FALSE, enabled_dirty |-> FALSE, pending_text |-> None,
   committed_text |-> None, text_dirty |-> FALSE, guest_commit_serial |-> 0,
   current_preedit |-> 0, pending_deletes |-> <<>>,
   host_activation |-> Inactive]

\* clear_host_composition; a preedit of 0 is the empty string.
ClearComposition(t) == [t EXCEPT !.current_preedit = 0, !.pending_deletes = <<>>]

\* Variant: pending editor state survives a focus change.
ApplyFocusKeepsText(t, surface) ==
  [ClearComposition(t) EXCEPT
     !.pending_enabled = FALSE, !.committed_enabled = FALSE,
     !.enabled_dirty = FALSE, !.committed_text = None,
     !.active_surface = surface]

\* apply_focus: everything but the host object, the serial and the activation.
ApplyFocus(t, surface) ==
  [ClearComposition(t) EXCEPT
     !.pending_enabled = FALSE, !.committed_enabled = FALSE,
     !.enabled_dirty = FALSE, !.pending_text = None, !.committed_text = None,
     !.text_dirty = FALSE, !.active_surface = surface]

\* begin_enabled_transaction
BeginEnabled(t, enabled) ==
  [t EXCEPT !.pending_enabled = enabled, !.enabled_dirty = TRUE,
            !.pending_text = None, !.text_dirty = TRUE]

\* set_surrounding_text, set_content_type and set_cursor_rect
RecordEditorState(t, text) == [t EXCEPT !.pending_text = text, !.text_dirty = TRUE]

\* prepare_guest_commit: what the commit will do, before anything is changed.
GuestCommitPlan(t, conflict) ==
  [serial |-> t.guest_commit_serial + 1,
   enabled |-> IF t.enabled_dirty /\ ~conflict THEN t.pending_enabled
               ELSE t.committed_enabled,
   resets_composition |-> t.enabled_dirty,
   text |-> IF t.text_dirty THEN t.pending_text ELSE None]

\* finish_guest_commit
FinishGuestCommit(t, plan) ==
  LET t1 == [t EXCEPT !.guest_commit_serial = plan.serial,
                      !.committed_text = IF t.text_dirty THEN plan.text ELSE @,
                      !.text_dirty = FALSE]
  IN  IF ~plan.resets_composition THEN t1
      ELSE [ClearComposition(t1) EXCEPT !.pending_enabled = plan.enabled,
                                        !.committed_enabled = plan.enabled,
                                        !.enabled_dirty = FALSE]

\* begin_destroy
BeginDestroy(t) == [t EXCEPT !.committed_enabled = FALSE, !.active_surface = None]

HostIsActive(t) == t.host_activation = Active

-----------------------------------------------------------------------------
(* One composition event e of the host: the activations whose data its     *)
(* done transaction carries (prepare_...; none for no done) and the state  *)
(* that follows (finish_...)                                               *)

HostPreeditPlan(t, e) == {e.gen}
FinishHostPreedit(t, e) ==
  [t EXCEPT !.current_preedit = IF e.empty THEN 0 ELSE e.gen]

\* The deletes held back go out with the text.
HostCommitPlan(t, e) == {e.gen} \cup Range(t.pending_deletes)
FinishHostCommit(t, e) == ClearComposition(t)

\* record_delete: held for the following commit_string.
RecordDelete(t, e) ==
  IF Len(t.pending_deletes) >= MaxDeletes THEN t
  ELSE [t EXCEPT !.pending_deletes = Append(@, e.gen)]

\* The region is cut out of the committed surrounding text.
PreeditRegionPlan(t, e) == IF t.committed_text = None THEN {} ELSE {e.gen}
FinishPreeditRegion(t, e) ==
  IF t.committed_text = None THEN t ELSE [t EXCEPT !.current_preedit = e.gen]

ConfirmPreeditPlan(t) == IF t.current_preedit = 0 THEN {} ELSE {t.current_preedit}
FinishConfirmPreedit(t, e) == [t EXCEPT !.current_preedit = 0]

-----------------------------------------------------------------------------
(* Handlers work on the bridge's share of Context and on the requests it   *)
(* queues for the host                                                     *)

Ctx == [inputs |-> inputs, barriers |-> barriers, cbTracked |-> cbTracked,
        activated |-> activated, queue |-> toHost]

Install(c) ==
  /\ inputs' = c.inputs
  /\ barriers' = c.barriers
  /\ cbTracked' = c.cbTracked
  /\ activated' = c.activated
  /\ toHost' = c.queue
  /\ Len(c.queue) =< MaxRequests

Req(op, id) == [op |-> op, id |-> id]
Queue(c, reqs) == [c EXCEPT !.queue = @ \o reqs]
SetInput(c, g, t) == [c EXCEPT !.inputs[g] = t]
SetActivation(c, g, a) == [c EXCEPT !.inputs[g].host_activation = a]

\* activate_host
ActivateHost(c, g) ==
  [SetActivation(c, g, Active) EXCEPT !.activated[c.inputs[g].host_v1_id] = @ + 1]

\* begin_host_draining, and TextInputActivationBarrierRegistry::install
BeginHostDraining(c, g, cb) ==
  [SetActivation(c, g, Draining(cb)) EXCEPT
     !.cbTracked = @ \cup {cb}, !.barriers[cb] = <<g, c.inputs[g].host_v1_id>>]

\* complete_host_draining
DrainedBy(c, g, cb) == c.inputs[g].host_activation = Draining(cb)

FreeCallback(c) == CHOOSE x \in Callbacks : x \notin c.cbTracked

\* Variants: the sync overtakes the deactivate; no sync is sent.
DeactivationBarrierSyncFirst(c, g) ==
  LET cb == FreeCallback(c)
  IN  Queue(BeginHostDraining(c, g, cb),
            <<Req("sync", cb), Req("deactivate", c.inputs[g].host_v1_id)>>)
DeactivationBarrierNoSync(c, g) ==
  Queue(BeginHostDraining(c, g, FreeCallback(c)),
        <<Req("deactivate", c.inputs[g].host_v1_id)>>)

\* queue_host_deactivation_barrier: deactivate first, then sync.
DeactivationBarrier(c, g) ==
  LET cb == FreeCallback(c)
  IN  Queue(BeginHostDraining(c, g, cb),
            <<Req("deactivate", c.inputs[g].host_v1_id), Req("sync", cb)>>)

\* update_host_activation: an inactive input activates at once, a draining one
\* waits for its barrier, an active one closes behind a barrier.  A seat that
\* is being destroyed takes no request.
UpdateHostActivation(c, g) ==
  LET t == c.inputs[g]
      target == t.committed_enabled /\ t.active_surface # None
  IN  CASE target /\ t.host_activation = Inactive /\ seat = "live" ->
             Queue(ActivateHost(c, g), <<Req("activate", t.host_v1_id)>>)
        [] ~target /\ HostIsActive(t) ->
             IF seat = "live" THEN DeactivationBarrier(c, g)
             ELSE SetActivation(c, g, Inactive)
        [] OTHER -> c

\* Variant: the barrier ends the drain and nothing reconciles the input.
CompleteBarrierNoReconcile(c, cb) ==
  LET c1 == [c EXCEPT !.barriers[cb] = None]
  IN  IF c.barriers[cb] = None \/ c.inputs[c.barriers[cb][1]] = None THEN c1
      ELSE IF DrainedBy(c, c.barriers[cb][1], cb)
      THEN SetActivation(c1, c.barriers[cb][1], Inactive)
      ELSE c1

\* complete_host_activation_barrier: only the input that is draining on this
\* very callback is reconciled.
CompleteBarrier(c, cb) ==
  LET c1 == [c EXCEPT !.barriers[cb] = None]
      g  == c.barriers[cb][1]
  IN  IF c.barriers[cb] = None THEN c
      ELSE IF /\ c.inputs[g] # None
              /\ c.inputs[g].host_v1_id = c.barriers[cb][2]
              /\ DrainedBy(c, g, cb)
      THEN UpdateHostActivation(SetActivation(c1, g, Inactive), g)
      ELSE c1

\* update_host_activation of the text inputs in order, one after the other.
UpdateInOrder(c, order) ==
  LET updated[i \in 0 .. Len(order)] ==
        IF i = 0 THEN c ELSE UpdateHostActivation(updated[i - 1], order[i])
  IN  updated[Len(order)]

\* apply_text_input_focus_updates on every text input of the seat.
ApplyFocusUpdates(c, surface) ==
  LET live == {g \in TextInputs : c.inputs[g] # None}
      moved == [c EXCEPT !.inputs = [g \in TextInputs |->
                  IF g \in live THEN ApplyFocus(@[g], surface) ELSE None]]
  IN  UpdateInOrder(moved, SetToSeq(live))

-----------------------------------------------------------------------------
(* Guest requests                                                          *)

Silent == out' = None
FreeBarrier == cbTracked # Callbacks

\* zwp_text_input_manager_v3.get_text_input
GetTextInput(g) ==
  /\ inputs[g] = None
  /\ \E h \in unusedHost :
       /\ unusedHost' = unusedHost \ {h}
       /\ Install(SetInput(Ctx, g, NewInput(h, focus)))
  /\ issued' = [issued EXCEPT ![g] = 0]
  /\ Silent
  /\ UNCHANGED <<seat, focus, period, toProxy, hostGen>>

\* zwp_text_input_v3.destroy: the host object stays, unmapped.
Destroy(g) ==
  /\ inputs[g] # None
  /\ FreeBarrier
  /\ LET c == UpdateHostActivation(SetInput(Ctx, g, BeginDestroy(inputs[g])), g)
     IN  Install(SetInput(c, g, None))
  /\ Silent
  /\ UNCHANGED <<unusedHost, seat, focus, period, issued, toProxy, hostGen>>

Focused(g) == inputs[g] # None /\ inputs[g].active_surface # None

\* enable and disable
Enable(g, enabled) ==
  /\ Focused(g)
  /\ Install(SetInput(Ctx, g, BeginEnabled(inputs[g], enabled)))
  /\ Silent
  /\ UNCHANGED <<unusedHost, seat, focus, period, issued, toProxy, hostGen>>

\* set_surrounding_text, standing for every double-buffered editor request.
SetSurroundingText(g) ==
  /\ Focused(g)
  /\ Install(SetInput(Ctx, g, RecordEditorState(inputs[g], period)))
  /\ Silent
  /\ UNCHANGED <<unusedHost, seat, focus, period, issued, toProxy, hostGen>>

\* Variant: every enable is taken.
EnableConflictIgnored(g) == FALSE

EnableConflict(g) ==
  /\ inputs[g].enabled_dirty /\ inputs[g].pending_enabled
  /\ \E o \in TextInputs \ {g} : inputs[o] # None /\ inputs[o].committed_enabled

\* commit: the activation requests, then the editor state and commit_state.
Commit(g) ==
  /\ inputs[g] # None
  /\ issued[g] < MaxCommits
  /\ issued' = [issued EXCEPT ![g] = @ + 1]
  /\ FreeBarrier
  /\ LET t == inputs[g]
         plan == GuestCommitPlan(t, EnableConflict(g))
         new == FinishGuestCommit(t, plan)
         state == [op |-> "state", id |-> t.host_v1_id, period |-> period,
                   text |-> plan.text]
     IN  IF Focused(g)
         THEN Install(Queue(UpdateHostActivation(SetInput(Ctx, g, new), g),
                            <<state>>))
         ELSE Install(Ctx)
  /\ Silent
  /\ UNCHANGED <<unusedHost, seat, focus, period, toProxy, hostGen>>

\* wl_seat.release: children keep their own lifetimes.
ReleaseSeat ==
  /\ seat = "live"
  /\ seat' = "pending"
  /\ Silent
  /\ UNCHANGED <<proxy, focus, period, issued, toHost, toProxy, hostGen>>

SeatDeleted ==
  /\ seat = "pending"
  /\ seat' = "gone"
  /\ Silent
  /\ UNCHANGED <<proxy, focus, period, issued, toHost, toProxy, hostGen>>

\* apply_keyboard_focus_changes: the seat's focus moved (KeyboardFocus).
FocusChange(surface) ==
  /\ period < MaxFocus
  /\ surface # focus
  /\ FreeBarrier
  /\ focus' = surface
  /\ period' = period + 1
  /\ Install(ApplyFocusUpdates(Ctx, surface))
  /\ Silent
  /\ UNCHANGED <<unusedHost, seat, issued, toProxy, hostGen>>

-----------------------------------------------------------------------------
(* Host events                                                             *)

Consume(op) == /\ toProxy # <<>> /\ Head(toProxy).op = op
               /\ toProxy' = Tail(toProxy)

\* The guest whose live, active input the event names: the table lookup and
\* host_is_active.
ActiveFor(h) == {g \in TextInputs : /\ inputs[g] # None
                                    /\ inputs[g].host_v1_id = h
                                    /\ HostIsActive(inputs[g])}

\* One host event e for its active guest input, or dropped: the new state of
\* the input, and whether a done goes out with what contents.
HostEvent(op, Update(_, _), Gens(_, _)) ==
  /\ Consume(op)
  /\ LET e == Head(toProxy)
         target == ActiveFor(e.id)
     IN  IF target = {} THEN Silent /\ UNCHANGED inputs
         ELSE \E g \in target :
                LET t == inputs[g]
                IN  /\ inputs' = [inputs EXCEPT ![g] = Update(t, e)]
                    /\ out' = IF Gens(t, e) = {} THEN None
                              ELSE [input |-> g, serial |-> t.guest_commit_serial,
                                    gens |-> Gens(t, e)]
  /\ UNCHANGED <<barriers, cbTracked, unusedHost, activated, seat, focus, period,
                 issued, toHost, hostGen>>

\* preedit_string; clearing a live preedit may commit its fallback text.
OnPreedit == HostEvent("preedit", FinishHostPreedit, HostPreeditPlan)

\* commit_string: clears a live preedit, applies the accumulated deletes.
OnCommitString == HostEvent("commit", FinishHostCommit, HostCommitPlan)

\* delete_surrounding_text
OnDeleteSurroundingText == HostEvent("delete", RecordDelete, LAMBDA t, e : {})

\* set_preedit_region: needs committed surrounding text.
OnSetPreeditRegion == HostEvent("region", FinishPreeditRegion, PreeditRegionPlan)

\* confirm_preedit commits the cached preedit; with none, an empty done when a
\* held key was recovered (KeyGenerations), else nothing.
OnConfirmPreedit ==
  \E recovered \in BOOLEAN :
    HostEvent("confirm", FinishConfirmPreedit,
      LAMBDA t, e : IF t.current_preedit = 0 /\ recovered THEN {e.gen}
                    ELSE ConfirmPreeditPlan(t))

\* wl_callback.done of a barrier; the ID stays reserved until delete_id.
OnCallbackDone ==
  /\ Consume("done")
  /\ Install(CompleteBarrier(Ctx, Head(toProxy).id))
  /\ Silent
  /\ UNCHANGED <<unusedHost, seat, focus, period, issued, hostGen>>

OnDeleteId ==
  /\ Consume("delete_id")
  /\ cbTracked' = cbTracked \ {Head(toProxy).id}
  /\ Silent
  /\ UNCHANGED <<inputs, barriers, unusedHost, activated, seat, focus, period,
                 issued, toHost, hostGen>>

-----------------------------------------------------------------------------
(* The host IME                                                            *)

HostReceive ==
  /\ toHost # <<>>
  /\ toHost' = Tail(toHost)
  /\ LET r == Head(toHost)
     IN  CASE r.op = "activate" ->
                /\ hostGen' = [hostGen EXCEPT ![r.id] = activated[r.id]]
                /\ UNCHANGED toProxy
           [] r.op = "deactivate" ->
                /\ hostGen' = [hostGen EXCEPT ![r.id] = 0]
                /\ UNCHANGED toProxy
           [] r.op = "sync" ->
                /\ toProxy' = toProxy \o <<Req("done", r.id),
                                           Req("delete_id", r.id)>>
                /\ UNCHANGED hostGen
           [] r.op = "state" -> UNCHANGED <<hostGen, toProxy>>
  /\ Silent
  /\ UNCHANGED <<proxy, seat, focus, period, issued>>

HostEmits(h, op, empty) ==
  /\ hostGen[h] # 0
  /\ Len(toProxy) < MaxEvents
  /\ toProxy' = Append(toProxy, [op |-> op, id |-> h, gen |-> hostGen[h],
                                 empty |-> empty])
  /\ Silent
  /\ UNCHANGED <<proxy, seat, focus, period, issued, toHost, hostGen>>

-----------------------------------------------------------------------------
Init ==
  /\ inputs = [g \in TextInputs |-> None]
  /\ barriers = [cb \in Callbacks |-> None]
  /\ cbTracked = {}
  /\ seat = "live"
  /\ focus = None /\ period = 0
  /\ unusedHost = HostInputs
  /\ activated = [h \in HostInputs |-> 0]
  /\ issued = [g \in TextInputs |-> 0]
  /\ toHost = <<>> /\ toProxy = <<>>
  /\ hostGen = [h \in HostInputs |-> 0]
  /\ out = None

ProxyStep ==
  \/ OnPreedit
  \/ OnCommitString
  \/ OnDeleteSurroundingText
  \/ OnSetPreeditRegion
  \/ OnConfirmPreedit
  \/ OnCallbackDone
  \/ OnDeleteId

GuestStep ==
  \/ \E g \in TextInputs : GetTextInput(g)
  \/ \E g \in TextInputs : Destroy(g)
  \/ \E g \in TextInputs, b \in BOOLEAN : Enable(g, b)
  \/ \E g \in TextInputs : SetSurroundingText(g)
  \/ \E g \in TextInputs : Commit(g)
  \/ ReleaseSeat

Next ==
  \/ GuestStep
  \/ ProxyStep
  \/ SeatDeleted
  \/ \E f \in Surfaces \cup {None} : FocusChange(f)
  \/ HostReceive
  \/ \E h \in HostInputs, b \in BOOLEAN : HostEmits(h, "preedit", b)
  \/ \E h \in HostInputs, op \in {"commit", "delete", "region", "confirm"} :
       HostEmits(h, op, FALSE)

Spec == Init /\ [][Next]_vars

\* The host answers what it is sent, and the proxy's poll loop dispatches what
\* the host answers.
Fairness == WF_vars(HostReceive) /\ WF_vars(ProxyStep)
FairSpec == Spec /\ Fairness

-----------------------------------------------------------------------------
(* Properties                                                              *)

\* At most one text input of the seat is enabled (the conflict check of
\* commit) and at most one is active at the host.
OneEnabledPerSeat ==
  \A f, g \in TextInputs :
    inputs[f] # None /\ inputs[g] # None /\ f # g =>
      /\ ~(inputs[f].committed_enabled /\ inputs[g].committed_enabled)
      /\ ~(inputs[f].host_activation = Active
             /\ inputs[g].host_activation = Active)

\* Nothing the IME composed for an earlier activation reaches the guest: every
\* part of a done transaction comes from the activation now in force.
NoStaleComposition ==
  [][ out' # None => out'.gens = {activated[inputs[out'.input].host_v1_id]} ]_vars

\* Editor state set before a focus change is never sent to the IME after it.
NoOldEditorState ==
  /\ TypeOK
  /\ \A i \in DOMAIN toHost :
       toHost[i].op = "state" => toHost[i].text \in {None, toHost[i].period}

\* A draining input waits for a barrier that is registered for it and whose
\* sync or done is still on its way: draining never waits forever.
DrainingHasBarrier ==
  \A g \in TextInputs : \A cb \in Callbacks :
    inputs[g] # None /\ inputs[g].host_activation = Draining(cb) =>
      /\ barriers[cb] = <<g, inputs[g].host_v1_id>>
      /\ Req("sync", cb) \in Range(toHost) \/ Req("done", cb) \in Range(toProxy)

\* The seat is handed from one text input to the next in order: one at a time,
\* and never to wait for a barrier that nobody will answer.
HandoverIsOrderly == OneEnabledPerSeat /\ DrainingHasBarrier

WantsActive(g) == /\ inputs[g] # None /\ seat = "live"
                  /\ inputs[g].committed_enabled
                  /\ inputs[g].active_surface # None

\* A text input that stays enabled and focused becomes active at the host,
\* also when it was enabled again while its deactivation was draining
\* (complete_host_activation_barrier runs update_host_activation once more).
EnabledBecomesActive ==
  \A g \in TextInputs :
    WantsActive(g) ~> (WantsActive(g) => inputs[g].host_activation = Active)
=============================================================================
