-------------------------- MODULE KeyGenerations ---------------------------
(***************************************************************************)
(* Delivery of keys to the guest: KeyGenerationRegistry (state/input.rs),  *)
(* the wl_keyboard.key and peek_key handlers (handler/keyboard.rs), and    *)
(* the text-input keysym and confirm_preedit handlers                      *)
(* (handler/text_input.rs), for one focused wl_keyboard and one text       *)
(* input.                                                                  *)
(*                                                                         *)
(* One keystroke reaches the proxy over up to three channels: peek_key,    *)
(* which announces every physical transition first; wl_keyboard.key, with  *)
(* the same serial, unless the IME consumed the key; and a text-input      *)
(* keysym when the IME hands the key back.  The last two may lag by whole  *)
(* keystrokes.  The registry must still give the guest one balanced stream *)
(* of presses and releases.                                                *)
(***************************************************************************)
EXTENDS Accelerators, FiniteSets, SequencesExt

CONSTANTS
  Keys,            \* evdev key codes
  Backspace,       \* EVDEV_KEY_BACKSPACE
  Chords,          \* the [modifiers, key] chords the user leaves to the host
  HostModifiers,   \* modifier sets the host may report
  None,            \* Option::None
  SerialMod,       \* serials are u32: counted modulo 2^32 in the code
  FirstSerial,     \* the serial of the first transition
  MaxTransitions,  \* bound on the key transitions and rejected keymaps
  MaxGenerations,  \* bound on the generations an enter may still follow
  PressesPrompt    \* whether only releases lag behind the next transition

ASSUME BackspaceAssumption ==
  /\ Backspace \in Keys /\ DOMAIN Layout = Keys
  /\ IsFiniteSet(Keys)
ASSUME ChordAssumption ==
  /\ HostModifiers \subseteq SUBSET Modifiers
  /\ Chords \subseteq [modifiers : HostModifiers, key : Keys]
ASSUME SerialAssumption ==
  /\ SerialMod \in Nat /\ FirstSerial \in 0 .. SerialMod - 1
  /\ MaxTransitions \in Nat /\ 2 * MaxTransitions < SerialMod
  /\ MaxGenerations \in Nat
ASSUME HostAssumption == PressesPrompt \in BOOLEAN

VARIABLES
  reg,       \* KeyGenerationRegistry
  mods,      \* the modifiers down, None without a keymap (KeyboardHandler)
  open,      \* presses of each key the guest has seen without a release
  out,       \* the wl_keyboard.key events the step delivered to the guest
  held,      \* keys physically down at the host
  focused,   \* the keyboard has entered a surface
  route,     \* channels the host uses for the current keystroke of each key
  used,      \* serials used so far
  given,     \* keys whose current keystroke the guest has been given
  accel,     \* keys whose current keystroke was taken for an accelerator
  rejected,  \* a keymap was rejected while the keyboard held this focus
  keyQ,      \* wl_keyboard.key events the IME still holds back
  textQ      \* text-input keysym events the IME still holds back

host == <<held, route, used>>
strokes == <<given, accel>>
vars == <<reg, mods, open, out, host, strokes, focused, rejected, keyQ, textQ>>

Serial == 0 .. SerialMod - 1
GuestKeyOwner == {"Physical", "TextInputKeysym", "ImeRecovery"}
PhysicalKeyState == {"Unseen", "Held", "Released"}
PeekKeyProvenance == [serial : Serial, sequence : Nat, eligible : BOOLEAN]
KeyState == {"press", "repeat", "release"}
KeyEvent == [key : Keys, state : KeyState, serial : Serial]
Channels == {"key", "text"}

KeyGeneration ==
  [id : Nat, physical_state : PhysicalKeyState,
   peek : PeekKeyProvenance \cup {None},
   peek_press_serial : Serial \cup {None},
   physical_release_serial : Serial \cup {None},
   backspace_repeat_cancelled : BOOLEAN, ime_repeat : BOOLEAN,
   guest_owner : GuestKeyOwner \cup {None}, guest_press_serial : Serial \cup {None},
   host_accelerator_suppressed : BOOLEAN]

ASSUME NoneAssumption ==
  None \notin Int \cup GuestKeyOwner \cup PeekKeyProvenance \cup KeyGeneration

RetiredGuestRelease ==
  [owner : {"Physical", "TextInputKeysym"}, press_serial : Serial \cup {None},
   release_serial : Serial \cup {None}, next_press_serial : Serial \cup {None}]

\* The sequence of the newest peeked generation (the keyboard is the one).
PeekWatermark == Nat \cup {None}

Registry == [entries : [Keys -> KeyGeneration \cup {None}],
             retired : [Keys -> Seq(RetiredGuestRelease)],
             next : Nat, latest : PeekWatermark]

TypeOK ==
  /\ reg \in Registry
  /\ mods \in HostModifiers \cup {{}, None} /\ focused \in BOOLEAN /\ rejected \in BOOLEAN
  /\ open \in [Keys -> Nat]
  /\ out \in Seq([key : Keys, state : KeyState,
                  via : Channels \cup {"recovery"}])
  /\ given \in SUBSET Keys /\ accel \in SUBSET Keys
  /\ held \in SUBSET Keys
  /\ route \in [Keys -> SUBSET Channels]
  /\ used \in 0 .. MaxTransitions
  /\ keyQ \in Seq(KeyEvent) /\ textQ \in Seq(KeyEvent)

-----------------------------------------------------------------------------
(* KeyGenerationRegistry                                                   *)

\* serial_is_after: wrapping comparison over half the range.
SerialIsAfter(candidate, previous) ==
  LET distance == (candidate - previous) % SerialMod
  IN  distance # 0 /\ distance < SerialMod \div 2

NewGeneration(id) ==
  [id |-> id, physical_state |-> "Unseen", peek |-> None,
   peek_press_serial |-> None, physical_release_serial |-> None,
   backspace_repeat_cancelled |-> FALSE, ime_repeat |-> FALSE,
   guest_owner |-> None, guest_press_serial |-> None,
   host_accelerator_suppressed |-> FALSE]

IsUnreferenced(g) ==
  /\ g.physical_state # "Held" /\ g.peek = None
  /\ ~g.backspace_repeat_cancelled /\ ~g.ime_repeat
  /\ g.guest_owner = None /\ ~g.host_accelerator_suppressed

\* The generation a read-only accessor sees: the default when there is none.
Gen(r, key) == IF r.entries[key] = None THEN NewGeneration(0)
               ELSE r.entries[key]

Held(r, key)     == Gen(r, key).physical_state = "Held"
Released(r, key) == Gen(r, key).physical_state = "Released"
AnyHeld(r)       == \E k \in Keys : Held(r, k)

Peek(r, key)               == Gen(r, key).peek
PeekPressSerial(r, key)    == Gen(r, key).peek_press_serial
ReleaseSerial(r, key)      == Gen(r, key).physical_release_serial
RepeatCancelled(r)         == Gen(r, Backspace).backspace_repeat_cancelled
ImeRepeatActive(r)         == Gen(r, Backspace).ime_repeat
GuestOwner(r, key)         == Gen(r, key).guest_owner
GuestPressSerial(r, key)   == Gen(r, key).guest_press_serial
Suppressed(r, key)         == Gen(r, key).host_accelerator_suppressed

PeekKeys(r) == {k \in Keys : Peek(r, k) # None}

Forwarded(r, key) == GuestOwner(r, key) \in {"Physical", "TextInputKeysym"}

Ensure(r, key) ==
  IF r.entries[key] # None THEN r
  ELSE [r EXCEPT !.next = @ + 1, !.entries[key] = NewGeneration(r.next + 1)]

RemoveEntry(r, key) == [r EXCEPT !.entries[key] = None]

PruneKeys(r, keys) ==
  [r EXCEPT !.entries = [k \in Keys |->
     IF k \in keys /\ @[k] # None /\ IsUnreferenced(@[k]) THEN None ELSE @[k]]]

ClearKeyboard(r) ==
  [r EXCEPT !.entries = [k \in Keys |-> None],
            !.retired = [k \in Keys |-> <<>>], !.latest = None]

\* take_retired_guest_release: the first match, exactly once.
TakeRetired(r, key, matches) ==
  [r EXCEPT !.retired[key] = RemoveFirstMatch(@, LAMBDA t : t \in matches)]

\* Variants: no tombstone at all; a tombstone for every owner.
RetireReleasedNoTombstone(r, key, nextPress) ==
  IF Released(r, key) THEN RemoveEntry(r, key) ELSE r
RetireReleasedAnyOwner(r, key, nextPress) ==
  LET g == Gen(r, key)
  IN  IF ~Released(r, key) THEN r
      ELSE [RemoveEntry(r, key) EXCEPT !.retired[key] =
              IF g.guest_owner = None THEN @
              ELSE Append(@, [owner |-> g.guest_owner,
                              press_serial |-> g.guest_press_serial,
                              release_serial |-> g.physical_release_serial,
                              next_press_serial |-> nextPress])]

\* A released generation whose guest press is still open leaves a tombstone
\* for the release its own channel still owes.
RetireReleased(r, key, nextPress) ==
  LET g == Gen(r, key)
      tomb(rel) == [owner |-> g.guest_owner, press_serial |-> g.guest_press_serial,
                    release_serial |-> rel, next_press_serial |-> nextPress]
      tombs == CASE g.guest_owner = "Physical"
                      /\ g.physical_release_serial # None ->
                      <<tomb(g.physical_release_serial)>>
                 [] g.guest_owner = "TextInputKeysym"
                      /\ g.guest_press_serial # None -> <<tomb(None)>>
                 [] OTHER -> <<>>
  IN  IF ~Released(r, key) THEN r
      ELSE [RemoveEntry(r, key) EXCEPT !.retired[key] = @ \o tombs]

ObservePress(r, key, nextPress) ==
  [Ensure(RetireReleased(r, key, nextPress), key)
     EXCEPT !.entries[key].physical_state = "Held"]

\* The release half of observe_physical_event: once nothing on the keyboard is
\* held, no peek is a recovery candidate any more.
ObserveRelease(r, key, serial) ==
  LET r1 == IF r.entries[key] = None THEN r
            ELSE [r EXCEPT !.entries[key] =
                    [@ EXCEPT !.physical_state = "Released",
                              !.physical_release_serial = serial,
                              !.backspace_repeat_cancelled = FALSE,
                              !.ime_repeat = FALSE]]
      unpeeked == [k \in Keys |-> IF r1.entries[k] = None THEN None
                                  ELSE [r1.entries[k] EXCEPT !.peek = None]]
  IN  IF AnyHeld(r1) THEN PruneKeys(r1, {key})
      ELSE PruneKeys([r1 EXCEPT !.entries = unpeeked], Keys)

ObservePeekPress(r, key, serial, eligible) ==
  LET r1 == IF Held(r, key) THEN r ELSE ObservePress(r, key, serial)
      r2 == Ensure(r1, key)
  IN  [r2 EXCEPT
         !.entries[key].peek_press_serial = serial,
         !.entries[key].peek = [serial |-> serial, eligible |-> eligible,
                                sequence |-> r2.entries[key].id]]

RecordLatestPeek(r, sequence) == [r EXCEPT !.latest = sequence]

RefreshPeek(r, key, serial) ==
  IF r.entries[key] = None THEN r
  ELSE [r EXCEPT !.entries[key].peek_press_serial = serial,
                 !.entries[key].peek = IF @ = None THEN None
                                       ELSE [@ EXCEPT !.serial = serial]]

InvalidatePeek(r, key) ==
  IF Peek(r, key) = None THEN r
  ELSE [r EXCEPT !.entries[key].peek.eligible = FALSE]

\* cancel_backspace_repeat
CancelRepeat(r) ==
  IF ~Held(r, Backspace) THEN r
  ELSE [r EXCEPT !.entries[Backspace].backspace_repeat_cancelled = TRUE,
                 !.entries[Backspace].ime_repeat = FALSE]

\* end_backspace_repeat_for_seat and _for_text_input: only a live session.
EndRepeat(r) == IF ImeRepeatActive(r) THEN CancelRepeat(r) ELSE r

\* held_backspace_keyboard_for_seat
BackspaceHeld(r) == ~RepeatCancelled(r) /\ Held(r, Backspace)

ArmImeRepeat(r, key) ==
  IF Held(r, key) /\ ~r.entries[key].backspace_repeat_cancelled
  THEN [r EXCEPT !.entries[key].ime_repeat = TRUE] ELSE r

Claim(r, key, owner) ==
  [Ensure(r, key) EXCEPT !.entries[key].guest_owner = owner]

\* complete_guest_owner_if: the delivered keystroke leaves a tombstone.
CompleteTextOwner(r, key) ==
  [r EXCEPT !.entries[key].guest_owner = "ImeRecovery"]

SuppressAccelerator(r, key) ==
  [Ensure(r, key) EXCEPT !.entries[key].host_accelerator_suppressed = TRUE]

TakeSuppression(r, key) ==
  IF r.entries[key] = None THEN r
  ELSE PruneKeys([r EXCEPT !.entries[key].host_accelerator_suppressed = FALSE],
                 {key})

ClearSuppressions(r) ==
  PruneKeys([r EXCEPT !.entries = [k \in Keys |->
     IF @[k] = None THEN None
     ELSE [@[k] EXCEPT !.host_accelerator_suppressed = FALSE]]], Keys)

\* install_enter_snapshot
InstallEnterSnapshot(r, order) ==
  LET at(k) == CHOOSE i \in DOMAIN order : order[i] = k
      entered(k) == [NewGeneration(r.next + at(k)) EXCEPT
                       !.physical_state = "Held", !.guest_owner = "Physical"]
  IN  [ClearKeyboard(r) EXCEPT
         !.next = @ + Len(order),
         !.entries = [k \in Keys |-> IF k \in Range(order) THEN entered(k) ELSE None]]

\* take_guest_owner
TakeOwner(r, key) ==
  IF GuestOwner(r, key) = None THEN PruneKeys(r, {key})
  ELSE PruneKeys([r EXCEPT !.entries[key].guest_owner = None,
                           !.entries[key].guest_press_serial = None], {key})

\* claim_text_input_owner: a keysym press opens the next generation only past
\* the previous one's press and release serials.
StartsNew(g, serial) ==
  LET released == g.physical_state = "Released"
  IN  /\ \/ g.guest_owner = "TextInputKeysym" /\ released
         \/ g.guest_owner = "ImeRecovery" /\ g.physical_state # "Held"
      /\ g.guest_press_serial = None \/ SerialIsAfter(serial, g.guest_press_serial)
      /\ released => /\ g.physical_release_serial # None
                     /\ SerialIsAfter(serial, g.physical_release_serial)

BeforeTextClaim(r, key, serial) ==
  IF ~StartsNew(Gen(r, key), serial) THEN r
  ELSE IF Released(r, key) THEN RetireReleased(r, key, serial)
  ELSE RemoveEntry(r, key)

-----------------------------------------------------------------------------
(* transition_guest_key: the registry after the event, what the guest gets *)
(* and the ack_key answer (None for a keysym)                              *)

Decision(r, delivery, ack, ends) ==
  [reg |-> r, delivery |-> delivery, ack_handled |-> ack, ends_repeat |-> ends]

PhysicalPress(r, key, repeated, accelerator, imeRepeat) ==
  LET owner == GuestOwner(r, key)
      forwarded == Forwarded(r, key)
      forIme == owner = "ImeRecovery" \/ (imeRepeat /\ ~forwarded)
      r1 == IF forIme /\ owner = None THEN Claim(r, key, "ImeRecovery") ELSE r
      r2 == IF forwarded THEN r1 ELSE SuppressAccelerator(r1, key)
  IN  CASE Suppressed(r1, key) \/ accelerator ->
             Decision(r2, "Drop", FALSE, FALSE)
        [] OTHER ->
             CASE forIme -> Decision(r1, "Drop", FALSE, FALSE)
               [] ~forIme /\ forwarded /\ ~repeated ->
                    Decision(r1, "Drop", TRUE, FALSE)
               [] ~forIme /\ repeated ->
                    Decision(r1, IF forwarded THEN "Forward" ELSE "Drop",
                             forwarded, FALSE)
               [] OTHER -> Decision(Claim(r1, key, "Physical"), "Forward",
                                    TRUE, FALSE)

PhysicalRelease(r, key) ==
  LET suppressed == Suppressed(r, key)
      r1 == TakeSuppression(r, key)
      forwarded == Forwarded(r1, key)
      r2 == IF GuestOwner(r1, key) = "ImeRecovery" THEN r1
            ELSE TakeOwner(r1, key)
  IN  Decision(r2, IF forwarded /\ ~suppressed THEN "Forward" ELSE "Drop",
               forwarded, TRUE)

TextInputPress(r, key, serial) ==
  LET g == Gen(r, key)
      accelerated == \/ g.host_accelerator_suppressed
                     \/ Held(r, key) /\ g.peek # None /\ ~g.peek.eligible
      r1 == BeforeTextClaim(r, key, serial)
      free == GuestOwner(r1, key) = None
  IN  IF accelerated \/ g.guest_owner = "Physical"
      THEN Decision(r, "Drop", None, FALSE)
      ELSE IF ~free THEN Decision(r1, "Drop", None, FALSE)
      ELSE Decision([Claim(r1, key, "TextInputKeysym")
                       EXCEPT !.entries[key].guest_press_serial = serial],
                    "Forward", None, FALSE)

TextInputRepeat(r, key) ==
  Decision(r, IF Forwarded(r, key) THEN "Forward" ELSE "Drop", None, FALSE)

\* take_pending_text_input_release: the release falls in the interval between
\* the retired press and the press that followed it.
InInterval(r, key, serial, t) ==
  LET current == IF GuestPressSerial(r, key) # None THEN GuestPressSerial(r, key)
                 ELSE PeekPressSerial(r, key)
      end == IF t.next_press_serial # None THEN t.next_press_serial ELSE current
  IN  /\ t.owner = "TextInputKeysym"
      /\ SerialIsAfter(serial, t.press_serial)
      /\ end = None \/ ~SerialIsAfter(serial, end)

TextInputRelease(r, key, serial) ==
  LET g == Gen(r, key)
      matches == {t \in Range(r.retired[key]) : InInterval(r, key, serial, t)}
      current == /\ g.guest_press_serial = None
                      \/ SerialIsAfter(serial, g.guest_press_serial)
                 /\ g.guest_owner = "TextInputKeysym"
  IN  CASE matches # {} ->
             Decision(TakeRetired(r, key, matches), "Forward", None, FALSE)
        [] matches = {} /\ current ->
             Decision(CompleteTextOwner(r, key), "Forward", None, TRUE)
        [] OTHER -> Decision(r, "Drop", None, FALSE)

\* Variant: recovery does not claim the generation.
RecoverImeNoClaim(r, key) ==
  IF Forwarded(r, key) THEN Decision(r, "Drop", None, FALSE)
  ELSE Decision(r, "EmitBalancedPair", None, FALSE)

RecoverIme(r, key) ==
  IF Forwarded(r, key) THEN Decision(r, "Drop", None, FALSE)
  ELSE Decision(IF GuestOwner(r, key) = None
                THEN Claim(r, key, "ImeRecovery") ELSE r,
                "EmitBalancedPair", None, FALSE)

-----------------------------------------------------------------------------
(* Handlers                                                                *)

IsHostAccelerator(key) == mods # None /\ is_host_accelerator(key, mods)

ObservePeekRelease(r, key, serial) == ObserveRelease(r, key, serial)

\* zcr_extended_keyboard_v1.peek_key
OnPeekKey(r, key, state, serial) ==
  LET g == Gen(r, key)
      fresh == state = "press" /\ ~(Held(r, key) /\ g.peek # None)
      eligible == ~Suppressed(r, key) /\ ~IsHostAccelerator(key)
      r1 == ObservePeekPress(r, key, serial, eligible)
      seen == IF fresh THEN RecordLatestPeek(r1, r1.entries[key].id)
              ELSE RefreshPeek(r, key, serial)
      stale == g.peek # None /\ SerialIsAfter(g.peek.serial, serial)
      released == ObservePeekRelease(r, key, serial)
  IN  CASE state = "press" ->
             IF key = Backspace THEN ObservePress(seen, key, None)
             ELSE EndRepeat(CancelRepeat(ObservePress(seen, key, None)))
        [] state = "repeat" -> IF Held(r, key) THEN seen ELSE r
        [] state = "release" ->
             IF stale THEN r
             ELSE IF key = Backspace THEN EndRepeat(released) ELSE released

\* take_pending_physical_release
PendingPhysicalReleases(r, key, serial) ==
  {t \in Range(r.retired[key]) : t.owner = "Physical" /\ t.release_serial = serial}

\* wl_keyboard.key, the early returns first: a release owed by a retired
\* generation, a release or a press of another generation.
OnKey(r, key, state, serial) ==
  LET matches == PendingPhysicalReleases(r, key, serial)
      otherRelease == /\ state = "release" /\ PeekPressSerial(r, key) # None
                      /\ ReleaseSerial(r, key) # serial
      otherPress == /\ state = "press" /\ Held(r, key)
                    /\ PeekPressSerial(r, key) \notin {None, serial}
      delayedPress == Released(r, key) /\ PeekPressSerial(r, key) = serial
      imeRepeat == key = Backspace /\ ImeRepeatActive(r)
      observed == CASE state = "press" -> IF delayedPress THEN r
                                          ELSE ObservePress(r, key, None)
                    [] state = "repeat" -> r
                    [] state = "release" -> ObserveRelease(r, key, serial)
      r1 == IF key = Backspace THEN observed
            ELSE EndRepeat(CancelRepeat(observed))
      r2 == IF IsHostAccelerator(key) THEN InvalidatePeek(r1, key) ELSE r1
      release == PhysicalRelease(observed, key)
  IN  CASE state = "release" /\ matches # {} ->
             Decision(TakeRetired(r, key, matches), "Forward", TRUE, FALSE)
        [] ~(state = "release" /\ matches # {})
             /\ (otherRelease \/ otherPress) -> Decision(r, "Drop", FALSE, FALSE)
        [] OTHER ->
             IF state = "release"
             THEN IF key = Backspace
                  THEN [release EXCEPT !.reg = EndRepeat(@)] ELSE release
             ELSE PhysicalPress(r2, key, state = "repeat",
                                IsHostAccelerator(key), imeRepeat)

\* zwp_text_input_v1.keysym
OnKeysym(r, key, state, serial) ==
  LET d == CASE state = "press" -> TextInputPress(r, key, serial)
             [] state = "repeat" -> TextInputRepeat(r, key)
             [] state = "release" -> TextInputRelease(r, key, serial)
      ends == IF key = Backspace THEN d.ends_repeat ELSE state # "release"
  IN  IF d.delivery = "Forward" /\ ends THEN [d EXCEPT !.reg = EndRepeat(@)]
      ELSE d

\* held_repeat_key_for_seat: the newest peeked generation, and no older one in
\* its place when it is not fit for recovery.
HeldRepeatKeys(r) ==
  LET peeked == PeekKeys(r)
  IN  {k \in peeked :
         LET press == Peek(r, k)
         IN  /\ r.latest \in {None, press.sequence}
             /\ press.eligible /\ Held(r, k)
             /\ \A j \in peeked : Peek(r, j).sequence =< press.sequence
             /\ mods # None /\ k \in repeatable_evdev_keycodes
             /\ ~(k = Backspace /\ RepeatCancelled(r))}

\* zcr_extended_text_input_v1.confirm_preedit with no preedit: recovery of the
\* held key the IME swallowed.
OnEmptyConfirm(r, key) ==
  LET d == RecoverIme(r, key)
      recovered == d.delivery = "EmitBalancedPair"
  IN  CASE recovered /\ key = Backspace -> [d EXCEPT !.reg = ArmImeRepeat(@, key)]
        [] ~recovered /\ key # Backspace -> d
        [] OTHER -> [d EXCEPT !.reg = EndRepeat(@)]

-----------------------------------------------------------------------------
(* The guest                                                               *)

Deliver(d, key, state, via) ==
  LET ev(x) == [key |-> key, state |-> x, via |-> via]
  IN  /\ reg' = d.reg
      /\ out' = CASE d.delivery = "Forward" -> <<ev(state)>>
                  [] d.delivery = "EmitBalancedPair" -> <<ev("press"), ev("release")>>
                  [] d.delivery = "Drop" -> <<>>
      /\ open' = CASE d.delivery = "Forward" /\ state = "press" ->
                         [open EXCEPT ![key] = @ + 1]
                   [] d.delivery = "Forward" /\ state = "release" ->
                         [open EXCEPT ![key] = IF @ = 0 THEN 0 ELSE @ - 1]
                   [] OTHER -> open
      /\ given' = IF d.delivery # "Drop" /\ state = "press"
                  THEN given \cup {key} ELSE given

Quiet == out' = <<>> /\ UNCHANGED open

-----------------------------------------------------------------------------
(* Host events                                                             *)

\* The user wants this keystroke to stay with the host.
LeftToHost(key) ==
  mods # None /\ [modifiers |-> mods, key |-> key] \in Chords

CurrentSerial == (FirstSerial + used) % SerialMod

\* One transition: peek_key at once when it is physical, the other channels
\* when the IME has decided.
Send(key, state, channels) ==
  LET e == [key |-> key, state |-> state, serial |-> CurrentSerial]
  IN  /\ used < MaxTransitions
      /\ PressesPrompt => \A x \in Range(keyQ) \cup Range(textQ) :
                            x.key = key => x.state = "release"
      /\ used' = used + 1
      /\ keyQ' = IF "key" \in channels THEN Append(keyQ, e) ELSE keyQ
      /\ textQ' = IF "text" \in channels THEN Append(textQ, e) ELSE textQ
      /\ Quiet
      /\ UNCHANGED <<mods, focused, rejected>>

PressKey(key) ==
  /\ focused /\ key \notin held
  /\ \E channels \in SUBSET Channels :
       /\ Send(key, "press", channels)
       /\ route' = [route EXCEPT ![key] = channels]
  /\ held' = held \cup {key}
  /\ reg' = OnPeekKey(reg, key, "press", CurrentSerial)
  /\ given' = given \ {key}
  /\ accel' = IF LeftToHost(key) THEN accel \cup {key} ELSE accel \ {key}

RepeatKey(key) ==
  /\ focused /\ key \in held
  /\ Send(key, "repeat", route[key])
  /\ reg' = OnPeekKey(reg, key, "repeat", CurrentSerial)
  /\ UNCHANGED <<held, route, strokes>>

ReleaseKey(key) ==
  /\ focused /\ key \in held
  /\ Send(key, "release", route[key])
  /\ held' = held \ {key}
  /\ reg' = OnPeekKey(reg, key, "release", CurrentSerial)
  /\ UNCHANGED <<route, strokes>>

\* The IME may end the keysym of a key that is still down.
ReleaseKeysym(key) ==
  /\ focused /\ key \in held /\ "text" \in route[key]
  /\ Send(key, "release", {"text"})
  /\ route' = [route EXCEPT ![key] = @ \ {"text"}]
  /\ UNCHANGED <<reg, held, strokes>>

KeyArrives ==
  /\ keyQ # <<>>
  /\ keyQ' = Tail(keyQ)
  /\ LET e == Head(keyQ)
     IN  /\ Deliver(OnKey(reg, e.key, e.state, e.serial), e.key, e.state, "key")
         /\ accel' = IF e.state # "release" /\ LeftToHost(e.key)
                     THEN accel \cup {e.key} ELSE accel
  /\ UNCHANGED <<mods, host, focused, rejected, textQ>>

\* A keysym carries the symbol at whatever level the host is on.
KeysymArrives ==
  /\ textQ # <<>>
  /\ textQ' = Tail(textQ)
  /\ LET e == Head(textQ)
         syms == Layout[e.key].syms
     IN  \E key \in {keysym_to_evdev_keycode(syms[l]) : l \in DOMAIN syms} :
           Deliver(OnKeysym(reg, key, e.state, e.serial), key, e.state, "text")
  /\ UNCHANGED <<mods, host, accel, focused, rejected, keyQ>>

ConfirmPreedit ==
  /\ focused
  /\ LET keys == HeldRepeatKeys(reg)
     IN  IF keys = {}
         THEN reg' = EndRepeat(reg) /\ Quiet /\ UNCHANGED given
         ELSE \E k \in keys :
                Deliver(OnEmptyConfirm(reg, k), k, "press", "recovery")
  /\ UNCHANGED <<mods, host, accel, focused, rejected, keyQ, textQ>>

\* A preedit the IME empties while Backspace is held arms the repeat session;
\* every other composition event ends it.
PreeditCleared ==
  /\ focused
  /\ reg' = IF BackspaceHeld(reg) THEN ArmImeRepeat(reg, Backspace)
             ELSE EndRepeat(reg)
  /\ Quiet
  /\ UNCHANGED <<mods, host, strokes, focused, rejected, keyQ, textQ>>

Composition ==
  /\ focused
  /\ reg' = EndRepeat(reg)
  /\ Quiet
  /\ UNCHANGED <<mods, host, strokes, focused, rejected, keyQ, textQ>>

\* wl_keyboard.modifiers: ignored until there is a keymap.
OnModifiers ==
  /\ focused /\ mods # None
  /\ mods' \in HostModifiers \ {mods}
  /\ Quiet
  /\ UNCHANGED <<reg, host, strokes, focused, rejected, keyQ, textQ>>

\* reset_host_keyboard_modifiers
ResetModifiers == IF mods = None THEN None ELSE {}

\* clear_host_keyboard_keymap_and_state
ClearKeymapAndState == reg' = ClearKeyboard(reg) /\ mods' = None

\* Variant: a new keymap forgets every generation.
LoadKeymapClears == reg' = ClearKeyboard(reg) /\ mods' = {}

\* A new keymap forgets suppressions and modifiers only.
LoadKeymap == reg' = ClearSuppressions(reg) /\ mods' = {}

\* wl_keyboard.keymap: one that does not load forgets every generation, and
\* the guest is not told.  It counts as a transition and is not the last one.
OnKeymap(loads) ==
  /\ IF loads THEN LoadKeymap /\ UNCHANGED <<used, rejected>>
     ELSE /\ used + 1 < MaxTransitions /\ used' = used + 1
          /\ ClearKeymapAndState /\ rejected' = TRUE
  /\ Quiet
  /\ UNCHANGED <<held, route, strokes, focused, keyQ, textQ>>

\* wl_keyboard.enter: the keys array becomes the new generations.
OnEnter ==
  /\ ~focused
  /\ reg.next < MaxGenerations
  /\ focused' = TRUE /\ rejected' = FALSE
  /\ \E order \in SetToSeqs(held) : reg' = InstallEnterSnapshot(reg, order)
  /\ open' = [k \in Keys |-> IF k \in held THEN 1 ELSE 0]
  /\ route' = [k \in Keys |-> IF k \in held THEN {"key"} ELSE {}]
  /\ mods' = ResetModifiers
  /\ out' = <<>>
  /\ given' = held
  /\ UNCHANGED <<held, used, accel, keyQ, textQ>>

\* wl_keyboard.leave: the guest drops all pressed keys; the host delivers no
\* event of the old focus after it.
OnLeave ==
  /\ focused
  /\ focused' = FALSE /\ rejected' = FALSE
  /\ reg' = ClearKeyboard(reg)
  /\ open' = [k \in Keys |-> 0]
  /\ keyQ' = <<>> /\ textQ' = <<>>
  /\ mods' = ResetModifiers
  /\ out' = <<>>
  /\ route' = [k \in Keys |-> {}] /\ given' = {}
  /\ UNCHANGED <<held, used, accel>>

\* Keys go up while another client has the keyboard.
ReleasedElsewhere(keys) ==
  /\ ~focused
  /\ held' = held \ keys
  /\ accel' = accel \ keys
  /\ Quiet
  /\ UNCHANGED <<reg, mods, route, used, given, focused, rejected, keyQ, textQ>>

-----------------------------------------------------------------------------
Init ==
  /\ reg = [entries |-> [k \in Keys |-> None], retired |-> [k \in Keys |-> <<>>],
            next |-> 0, latest |-> None]
  /\ mods = {} /\ focused = FALSE /\ rejected = FALSE
  /\ open = [k \in Keys |-> 0]
  /\ out = <<>>
  /\ held \in SUBSET Keys
  /\ route = [k \in Keys |-> {}]
  /\ used = 0
  /\ given = {} /\ accel = {}
  /\ keyQ = <<>> /\ textQ = <<>>

Next ==
  \/ \E k \in Keys : PressKey(k)
  \/ \E k \in Keys : RepeatKey(k)
  \/ \E k \in Keys : ReleaseKey(k)
  \/ \E k \in Keys : ReleaseKeysym(k)
  \/ KeyArrives
  \/ KeysymArrives
  \/ ConfirmPreedit
  \/ PreeditCleared
  \/ Composition
  \/ OnModifiers
  \/ \E loads \in KeymapOutcomes : OnKeymap(loads)
  \/ OnEnter
  \/ OnLeave
  \/ \E keys \in (SUBSET held) \ {{}} : ReleasedElsewhere(keys)

Spec == Init /\ [][Next]_vars

-----------------------------------------------------------------------------
(* Properties                                                              *)

\* Every press the guest holds has exactly one party that will release it:
\* the generation's owner or a retired generation's tombstone.  A rejected
\* keymap is the one event that drops owners the guest still counts on.
OpenPressHasOneOwner ==
  /\ TypeOK
  /\ ~rejected => \A k \in Keys :
       open[k] = Len(reg.retired[k]) + (IF Forwarded(reg, k) THEN 1 ELSE 0)

\* The registry believes a key is held only while it is: a delayed channel
\* never revives a generation whose release was already peeked.
HeldMeansDown == \A k \in Keys : Held(reg, k) => k \in held

\* No stuck key: once the key is up at the host and both channels have
\* delivered what they held back, the registry does not hold it and the guest
\* has no press of it open (as long as no rejected keymap made the registry
\* forget the keystroke).
NoStuckKey ==
  /\ HeldMeansDown
  /\ ~rejected /\ keyQ = <<>> /\ textQ = <<>> => \A k \in Keys \ held : open[k] = 0

\* A keystroke is typed once: whichever channel wins, the guest gets no second
\* press of it, not even after IME recovery has replayed it (with the same
\* exception), and a release or a repeat only for a key it holds.
OnePressPerKeystroke ==
  [][ \A i \in DOMAIN out' :
        IF out'[i].state = "press"
        THEN out'[i].via # "recovery" /\ ~rejected => out'[i].key \notin given
        ELSE Len(out') = 1 => open[out'[i].key] > 0 ]_vars

\* A keystroke taken for a host accelerator reaches the guest neither as a
\* keysym nor through recovery, whatever the modifiers do later (with the same
\* exception).
AcceleratorStaysWithHost ==
  [][ \A i \in DOMAIN out' :
        out'[i].state = "press" /\ out'[i].via # "key" /\ ~rejected
        => out'[i].key \notin accel ]_vars
=============================================================================
