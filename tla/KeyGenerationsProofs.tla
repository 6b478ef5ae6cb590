------------------------ MODULE KeyGenerationsProofs ------------------------
(***************************************************************************)
(* KeyGenerations for any keys, layouts, modifiers and serials: every      *)
(* press the guest holds has exactly one party that will release it.       *)
(* Where only releases lag, no key is left pressed, no keystroke is typed  *)
(* twice, and one taken for an accelerator stays with the host.            *)
(*                                                                         *)
(* KeyInv is the invariant of the first; StrokeInv, which relates each     *)
(* generation and tombstone to the events still held back, of the others.  *)
(***************************************************************************)
EXTENDS KeyGenerations, SequenceTheorems, FiniteSetTheorems,
        NaturalsInduction, WellFoundedInduction, TLAPS

Owned(g) == g.guest_owner \in {"Physical", "TextInputKeysym"}

\* What the retirement of a generation and its release rely on.
EntryOK(g) ==
  /\ g.guest_owner = "TextInputKeysym" => g.guest_press_serial # None
  /\ g.physical_state = "Released" => g.physical_release_serial # None
  /\ g.host_accelerator_suppressed => ~Owned(g)

Good(r) ==
  r \in Registry /\ \A k \in Keys : r.entries[k] # None => EntryOK(r.entries[k])

\* Those that will release a press of k: tombstones and the owner of the generation.
Owners(r, k) == Len(r.retired[k]) + (IF Forwarded(r, k) THEN 1 ELSE 0)

\* s owes the same releases as r.
Keeps(r, s) == Good(s) /\ \A k \in Keys : Owners(s, k) = Owners(r, k)

\* s owes the release of one press more of key than r; one less.
Gains(r, s, key) ==
  Good(s) /\ \A k \in Keys : Owners(s, k) = Owners(r, k) + (IF k = key THEN 1 ELSE 0)
Loses(r, s, key) == Gains(s, r, key) /\ Good(s)

\* The guest is told of exactly the press or the release that d accounts for.
Accounts(r, d, key, state) ==
  /\ d.delivery \in {"Forward", "Drop", "EmitBalancedPair"}
  /\ CASE d.delivery = "Forward" /\ state = "press" -> Gains(r, d.reg, key)
       [] d.delivery = "Forward" /\ state = "release" -> Loses(r, d.reg, key)
       [] OTHER -> Keeps(r, d.reg)

-----------------------------------------------------------------------------
(* Generations.                                                            *)

LEMMA NewIs ==
  ASSUME NEW id \in Nat
  PROVE  /\ NewGeneration(id) \in KeyGeneration /\ NewGeneration(id) # None
         /\ EntryOK(NewGeneration(id)) /\ ~Owned(NewGeneration(id))
<1>1. NewGeneration(id) \in KeyGeneration
  BY DEF NewGeneration, KeyGeneration, PhysicalKeyState
<1>2. None \notin {"Physical", "TextInputKeysym"}
  BY NoneAssumption DEF GuestKeyOwner
<1>. QED BY <1>1, <1>2, NoneAssumption DEF NewGeneration, EntryOK, Owned

LEMMA GenIs ==
  ASSUME NEW r, Good(r), NEW key \in Keys
  PROVE  /\ Gen(r, key) \in KeyGeneration /\ EntryOK(Gen(r, key))
         /\ Forwarded(r, key) <=> r.entries[key] # None /\ Owned(r.entries[key])
         /\ Forwarded(r, key) <=> Owned(Gen(r, key))
         /\ r.entries[key] = None => Gen(r, key) = NewGeneration(0)
         /\ r.entries[key] # None => Gen(r, key) = r.entries[key]
<1>1. r.entries[key] \in KeyGeneration \cup {None}
  BY DEF Good, Registry
<1>2. Gen(r, key) \in KeyGeneration /\ EntryOK(Gen(r, key))
  BY <1>1, NewIs DEF Gen, Good
<1>3. Forwarded(r, key) <=> Owned(Gen(r, key))
  BY DEF Forwarded, GuestOwner, Owned
<1>. QED BY <1>1, <1>2, <1>3, NewIs DEF Gen

\* Changing generations without changing who is owned leaves every debt.
LEMMA SameOwners ==
  ASSUME NEW r, Good(r), NEW s \in Registry, s.retired = r.retired,
         \A k \in Keys : s.entries[k] # None => EntryOK(s.entries[k]),
         \A k \in Keys : (s.entries[k] # None /\ Owned(s.entries[k]))
                           <=> (r.entries[k] # None /\ Owned(r.entries[k]))
  PROVE  Keeps(r, s)
<1>1. Good(s)
  BY DEF Good
<1>2. ASSUME NEW k \in Keys PROVE Owners(s, k) = Owners(r, k)
  BY <1>1, GenIs DEF Owners
<1>. QED BY <1>1, <1>2 DEF Keeps

LEMMA SetEntry ==
  ASSUME NEW r, Good(r), NEW key \in Keys, NEW g \in KeyGeneration \cup {None},
         g # None => EntryOK(g),
         (g # None /\ Owned(g)) <=> Forwarded(r, key),
         NEW s \in Registry, s.retired = r.retired,
         s.entries = [r.entries EXCEPT ![key] = g]
  PROVE  Keeps(r, s)
<1>1. r.entries \in [Keys -> KeyGeneration \cup {None}]
  BY DEF Good, Registry
<1>2. s.entries[key] = g /\ \A k \in Keys \ {key} : s.entries[k] = r.entries[k]
  BY <1>1
<1>3. \A k \in Keys : s.entries[k] # None => EntryOK(s.entries[k])
  BY <1>2 DEF Good
<1>4. \A k \in Keys : (s.entries[k] # None /\ Owned(s.entries[k]))
                        <=> (r.entries[k] # None /\ Owned(r.entries[k]))
  BY <1>2, GenIs
<1>. QED BY <1>3, <1>4, SameOwners

LEMMA KeepsTrans ==
  ASSUME NEW r, NEW s, NEW t, Keeps(r, s), Keeps(s, t)
  PROVE  Keeps(r, t)
BY DEF Keeps

LEMMA KeepsSelf ==
  ASSUME NEW r, Good(r) PROVE Keeps(r, r)
BY DEF Keeps

\* Whose release is owed decides what is forwarded, tombstones apart.
LEMMA KeepsForwarded ==
  ASSUME NEW r, NEW s, Keeps(r, s), NEW k \in Keys, s.retired = r.retired, Good(r)
  PROVE  Forwarded(s, k) <=> Forwarded(r, k)
<1>1. Len(r.retired[k]) \in Nat
  BY DEF Good, Registry
<1>2. Len(r.retired[k]) + (IF Forwarded(s, k) THEN 1 ELSE 0)
        = Len(r.retired[k]) + (IF Forwarded(r, k) THEN 1 ELSE 0)
  BY DEF Keeps, Owners
<1>. DEFINE n == Len(r.retired[k])
<1>. HIDE DEF n
<1>3. n \in Nat /\ n + (IF Forwarded(s, k) THEN 1 ELSE 0)
                   = n + (IF Forwarded(r, k) THEN 1 ELSE 0)
  BY <1>1, <1>2 DEF n
<1>4. CASE Forwarded(s, k) /\ ~Forwarded(r, k)
  <2>1. n + 1 = n + 0
    BY <1>3, <1>4
  <2>. QED BY <2>1, <1>3
<1>5. CASE ~Forwarded(s, k) /\ Forwarded(r, k)
  <2>1. n + 0 = n + 1
    BY <1>3, <1>5
  <2>. QED BY <2>1, <1>3
<1>. QED BY <1>4, <1>5 DEF Forwarded

-----------------------------------------------------------------------------
(* The registry operations that owe the guest nothing more and nothing     *)
(* less.                                                                   *)

LEMMA EnsureIs ==
  ASSUME NEW r, Good(r), NEW key \in Keys
  PROVE  /\ Keeps(r, Ensure(r, key)) /\ Ensure(r, key).retired = r.retired
         /\ Ensure(r, key).entries[key] # None
         /\ Ensure(r, key).entries[key] = IF r.entries[key] # None THEN r.entries[key]
                                          ELSE NewGeneration(r.next + 1)
<1>1. CASE r.entries[key] # None
  BY <1>1, KeepsSelf DEF Ensure
<1>2. CASE r.entries[key] = None
  <2>. DEFINE g == NewGeneration(r.next + 1)
              s == Ensure(r, key)
  <2>1. r \in Registry /\ r.next + 1 \in Nat
    BY DEF Good, Registry
  <2>2. g \in KeyGeneration /\ g # None /\ EntryOK(g) /\ ~Owned(g)
    BY <2>1, NewIs
  <2>. HIDE DEF g
  <2>3. s = [r EXCEPT !.next = @ + 1, !.entries[key] = g]
    BY <1>2 DEF Ensure, g
  <2>. HIDE DEF s
  <2>4. /\ s \in Registry /\ s.retired = r.retired
        /\ s.entries = [r.entries EXCEPT ![key] = g] /\ s.entries[key] = g
    BY <2>1, <2>2, <2>3 DEF Registry
  <2>5. ~Forwarded(r, key)
    BY <1>2, GenIs
  <2>6. Keeps(r, s)
    BY <2>2, <2>4, <2>5, SetEntry
  <2>. QED BY <2>2, <2>4, <2>6, <1>2 DEF s, g
<1>. QED BY <1>1, <1>2

LEMMA PruneKeysIs ==
  ASSUME NEW r, Good(r), NEW keys
  PROVE  Keeps(r, PruneKeys(r, keys)) /\ PruneKeys(r, keys).retired = r.retired
<1>. DEFINE s == PruneKeys(r, keys)
<1>1. r \in Registry
  BY DEF Good
<1>2. /\ s \in Registry /\ s.retired = r.retired
      /\ \A k \in Keys : s.entries[k] =
           IF k \in keys /\ r.entries[k] # None /\ IsUnreferenced(r.entries[k])
           THEN None ELSE r.entries[k]
  BY <1>1 DEF PruneKeys, Registry
<1>3. \A g : IsUnreferenced(g) => ~Owned(g)
  BY NoneAssumption DEF IsUnreferenced, Owned, GuestKeyOwner
<1>. HIDE DEF s
<1>4. Keeps(r, s)
  BY <1>2, <1>3, SameOwners DEF Good
<1>. QED BY <1>2, <1>4 DEF s

\* One field of a generation changes.
LEMMA ClearSuppressionsIs ==
  ASSUME NEW r, Good(r)
  PROVE  Keeps(r, ClearSuppressions(r)) /\ ClearSuppressions(r).retired = r.retired
<1>. DEFINE s == [r EXCEPT !.entries = [k \in Keys |->
                    IF @[k] = None THEN None
                    ELSE [@[k] EXCEPT !.host_accelerator_suppressed = FALSE]]]
            f(g) == [g EXCEPT !.host_accelerator_suppressed = FALSE]
<1>1. r \in Registry
  BY DEF Good
<1>2. \A g \in KeyGeneration : f(g) \in KeyGeneration /\ f(g) # None
                               /\ (EntryOK(g) => EntryOK(f(g))) /\ (Owned(f(g)) <=> Owned(g))
  <2>1. \A g \in KeyGeneration : f(g) \in KeyGeneration
    BY DEF KeyGeneration
  <2>. QED BY <2>1, NoneAssumption DEF KeyGeneration, EntryOK, Owned
<1>3. \A k \in Keys : r.entries[k] \in KeyGeneration \cup {None}
  BY <1>1 DEF Registry
<1>4. s = [r EXCEPT !.entries = [k \in Keys |-> IF r.entries[k] = None THEN None
                                                ELSE f(r.entries[k])]]
  OBVIOUS
<1>. HIDE DEF f, s
<1>5. /\ s \in Registry /\ s.retired = r.retired
      /\ \A k \in Keys : s.entries[k] = IF r.entries[k] = None THEN None
                                        ELSE f(r.entries[k])
  BY <1>1, <1>2, <1>3, <1>4 DEF Registry
<1>6. ClearSuppressions(r) = PruneKeys(s, Keys)
  BY DEF ClearSuppressions, s
<1>7. Keeps(r, s)
  BY <1>2, <1>3, <1>5, SameOwners DEF Good
<1>8. Good(s)
  BY <1>7 DEF Keeps
<1>. QED BY <1>5, <1>6, <1>7, <1>8, PruneKeysIs, KeepsTrans

LEMMA RemoveEntryIs ==
  ASSUME NEW r, Good(r), NEW key \in Keys, ~Forwarded(r, key)
  PROVE  Keeps(r, RemoveEntry(r, key)) /\ RemoveEntry(r, key).entries[key] = None
<1>. DEFINE s == RemoveEntry(r, key)
<1>1. /\ s \in Registry /\ s.retired = r.retired
      /\ s.entries = [r.entries EXCEPT ![key] = None] /\ s.entries[key] = None
  BY DEF RemoveEntry, Good, Registry
<1>. HIDE DEF s
<1>2. Keeps(r, s)
  BY <1>1, SetEntry
<1>. QED BY <1>1, <1>2 DEF s

\* The tombstone takes the debt of the generation it replaces over.
LEMMA RetireReleasedIs ==
  ASSUME NEW r, Good(r), NEW key \in Keys, NEW next \in Serial \cup {None}
  PROVE  /\ Keeps(r, RetireReleased(r, key, next))
         /\ IF Released(r, key) THEN RetireReleased(r, key, next).entries[key] = None
            ELSE RetireReleased(r, key, next) = r
<1>1. CASE ~Released(r, key)
  BY <1>1, KeepsSelf DEF RetireReleased
<1>2. CASE Released(r, key)
  <2>. DEFINE g == Gen(r, key)
              tomb(rel) == [owner |-> g.guest_owner, press_serial |-> g.guest_press_serial,
                            release_serial |-> rel, next_press_serial |-> next]
              tombs == CASE g.guest_owner = "Physical"
                              /\ g.physical_release_serial # None ->
                              <<tomb(g.physical_release_serial)>>
                         [] g.guest_owner = "TextInputKeysym"
                              /\ g.guest_press_serial # None -> <<tomb(None)>>
                         [] OTHER -> <<>>
              s == RetireReleased(r, key, next)
  <2>1. g \in KeyGeneration /\ EntryOK(g) /\ g.physical_state = "Released"
    BY <1>2, GenIs DEF Released
  <2>2. g.physical_release_serial # None
    BY <2>1 DEF EntryOK
  <2>3. tombs \in Seq(RetiredGuestRelease)
          /\ Len(tombs) = IF Forwarded(r, key) THEN 1 ELSE 0
    <3>1. CASE g.guest_owner = "Physical"
      <4>1. tombs = <<tomb(g.physical_release_serial)>>
        BY <3>1, <2>2
      <4>2. tomb(g.physical_release_serial) \in RetiredGuestRelease
        BY <3>1, <2>1 DEF RetiredGuestRelease, KeyGeneration
      <4>3. Forwarded(r, key)
        BY <3>1 DEF Forwarded, GuestOwner
      <4>. QED BY <4>1, <4>2, <4>3
    <3>2. CASE g.guest_owner = "TextInputKeysym"
      <4>1. g.guest_press_serial # None
        BY <3>2, <2>1 DEF EntryOK
      <4>2. tombs = <<tomb(None)>>
        BY <3>2, <4>1
      <4>3. tomb(None) \in RetiredGuestRelease
        BY <3>2, <2>1 DEF RetiredGuestRelease, KeyGeneration
      <4>4. Forwarded(r, key)
        BY <3>2 DEF Forwarded, GuestOwner
      <4>. QED BY <4>2, <4>3, <4>4
    <3>3. CASE g.guest_owner \notin {"Physical", "TextInputKeysym"}
      <4>1. tombs = <<>> /\ ~Forwarded(r, key)
        BY <3>3 DEF Forwarded, GuestOwner
      <4>2. <<>> \in Seq(RetiredGuestRelease) /\ Len(<<>>) = 0
        OBVIOUS
      <4>. QED BY <4>1, <4>2
    <3>. QED BY <3>1, <3>2, <3>3
  <2>4. s = [RemoveEntry(r, key) EXCEPT !.retired[key] = @ \o tombs]
    BY <1>2 DEF RetireReleased
  <2>. HIDE DEF tombs, s
  <2>5. r.retired[key] \in Seq(RetiredGuestRelease)
    BY DEF Good, Registry
  <2>6. /\ r.retired[key] \o tombs \in Seq(RetiredGuestRelease)
        /\ Len(r.retired[key] \o tombs) = Len(r.retired[key]) + Len(tombs)
    BY <2>3, <2>5, ConcatProperties
  <2>7. /\ s \in Registry
        /\ s.entries = [r.entries EXCEPT ![key] = None]
        /\ s.retired = [r.retired EXCEPT ![key] = r.retired[key] \o tombs]
    BY <2>4, <2>6 DEF RemoveEntry, Good, Registry
  <2>8. /\ s.entries[key] = None /\ s.retired[key] = r.retired[key] \o tombs
        /\ \A k \in Keys \ {key} : s.entries[k] = r.entries[k] /\ s.retired[k] = r.retired[k]
    BY <2>7 DEF Good, Registry
  <2>9. Good(s)
    BY <2>7, <2>8 DEF Good
  <2>10. ASSUME NEW k \in Keys PROVE Owners(s, k) = Owners(r, k)
    <3>1. CASE k = key
      <4>1. ~Forwarded(s, key)
        BY <2>8, <2>9, GenIs
      <4>2. Owners(s, key) = Len(r.retired[key]) + Len(tombs) + 0
        BY <4>1, <2>6, <2>8 DEF Owners
      <4>3. Len(r.retired[key]) \in Nat /\ Len(tombs) \in Nat
        BY <2>3, <2>5
      <4>4. Owners(s, key) = Len(r.retired[key]) + Len(tombs)
        BY <4>2, <4>3
      <4>. QED BY <3>1, <4>4, <2>3 DEF Owners
    <3>2. CASE k # key
      BY <3>2, <2>8, <2>9, GenIs DEF Owners
    <3>. QED BY <3>1, <3>2
  <2>. QED BY <1>2, <2>8, <2>9, <2>10 DEF Keeps, s
<1>. QED BY <1>1, <1>2

LEMMA ObservePressIs ==
  ASSUME NEW r, Good(r), NEW key \in Keys, NEW next \in Serial \cup {None}
  PROVE  /\ Keeps(r, ObservePress(r, key, next))
         /\ ObservePress(r, key, next).entries[key] # None
<1>. DEFINE a == RetireReleased(r, key, next)
            b == Ensure(a, key)
            s == ObservePress(r, key, next)
<1>1. Keeps(r, a) /\ Good(a)
  BY RetireReleasedIs DEF Keeps
<1>. HIDE DEF a
<1>2. Keeps(a, b) /\ Good(b) /\ b.entries[key] # None
  BY <1>1, EnsureIs DEF Keeps
<1>3. s = [b EXCEPT !.entries[key].physical_state = "Held"]
  BY DEF ObservePress, a
<1>. HIDE DEF b, s
<1>. DEFINE e == b.entries[key]
            g == [e EXCEPT !.physical_state = "Held"]
<1>4. e \in KeyGeneration /\ e # None /\ EntryOK(e)
  BY <1>2 DEF Good, Registry
<1>5. g \in KeyGeneration
  BY <1>4 DEF KeyGeneration, PhysicalKeyState
<1>6. g # None /\ EntryOK(g) /\ (Owned(g) <=> Owned(e))
  BY <1>4, <1>5, NoneAssumption DEF KeyGeneration, EntryOK, Owned
<1>7. /\ s \in Registry /\ s.retired = b.retired
      /\ s.entries = [b.entries EXCEPT ![key] = g] /\ s.entries[key] = g
  BY <1>2, <1>3, <1>5 DEF Good, Registry
<1>. HIDE DEF g, e
<1>8. Owned(g) <=> Forwarded(b, key)
  BY <1>2, <1>4, <1>6, GenIs DEF e
<1>9. Keeps(b, s)
  BY <1>2, <1>5, <1>6, <1>7, <1>8, SetEntry
<1>. QED BY <1>1, <1>2, <1>6, <1>7, <1>9, KeepsTrans DEF s

\* A generation of r with only fields of no owner changed.
LEMMA FieldsOnly ==
  ASSUME NEW r, Good(r), NEW key \in Keys, r.entries[key] # None,
         NEW g \in KeyGeneration, EntryOK(g), g.guest_owner = r.entries[key].guest_owner,
         NEW s, s = [r EXCEPT !.entries = [@ EXCEPT ![key] = g]]
  PROVE  /\ Keeps(r, s) /\ s.retired = r.retired
         /\ s.entries[key] = g /\ s.next = r.next /\ s.latest = r.latest
<1>1. /\ s \in Registry /\ s.retired = r.retired /\ s.next = r.next /\ s.latest = r.latest
      /\ s.entries = [r.entries EXCEPT ![key] = g] /\ s.entries[key] = g
  BY DEF Good, Registry
<1>2. Owned(g) <=> Forwarded(r, key)
  BY GenIs DEF Owned
<1>3. g # None /\ g \in KeyGeneration \cup {None}
  BY NoneAssumption
<1>4. (g # None /\ Owned(g)) <=> Forwarded(r, key)
  BY <1>2, <1>3
<1>5. Keeps(r, s)
  BY ONLY Good(r), key \in Keys, EntryOK(g), <1>1, <1>3, <1>4, SetEntry
<1>. QED BY <1>1, <1>5

LEMMA ObserveReleaseIs ==
  ASSUME NEW r, Good(r), NEW key \in Keys, NEW serial \in Serial
  PROVE  Keeps(r, ObserveRelease(r, key, serial))
<1>. DEFINE r1 == IF r.entries[key] = None THEN r
                  ELSE [r EXCEPT !.entries[key] =
                          [@ EXCEPT !.physical_state = "Released",
                                    !.physical_release_serial = serial,
                                    !.backspace_repeat_cancelled = FALSE,
                                    !.ime_repeat = FALSE]]
            u(g) == [g EXCEPT !.peek = None]
            unpeeked == [k \in Keys |-> IF r1.entries[k] = None THEN None
                                        ELSE u(r1.entries[k])]
<1>1. ObserveRelease(r, key, serial) =
        IF AnyHeld(r1) THEN PruneKeys(r1, {key})
        ELSE PruneKeys([r1 EXCEPT !.entries = unpeeked], Keys)
  BY DEF ObserveRelease
<1>2. Keeps(r, r1)
  <2>1. CASE r.entries[key] = None
    BY <2>1, KeepsSelf
  <2>2. CASE r.entries[key] # None
    <3>. DEFINE e == r.entries[key]
                g == [e EXCEPT !.physical_state = "Released",
                               !.physical_release_serial = serial,
                               !.backspace_repeat_cancelled = FALSE,
                               !.ime_repeat = FALSE]
    <3>1. e \in KeyGeneration /\ EntryOK(e)
      BY <2>2 DEF Good, Registry
    <3>2. g \in KeyGeneration
      BY <3>1 DEF KeyGeneration, PhysicalKeyState
    <3>3. serial # None
      BY NoneAssumption DEF Serial
    <3>4. EntryOK(g) /\ g.guest_owner = e.guest_owner
      BY <3>1, <3>3 DEF KeyGeneration, EntryOK, Owned
    <3>5. r1 = [r EXCEPT !.entries = [@ EXCEPT ![key] = g]]
      BY <2>2
    <3>. HIDE DEF r1, g
    <3>. QED BY <2>2, <3>2, <3>4, <3>5, FieldsOnly
  <2>. QED BY <2>1, <2>2
<1>3. Good(r1)
  BY <1>2 DEF Keeps
<1>. HIDE DEF r1
<1>4. \A g \in KeyGeneration : u(g) \in KeyGeneration /\ u(g) # None
                               /\ (EntryOK(g) => EntryOK(u(g))) /\ (Owned(u(g)) <=> Owned(g))
  <2>1. \A g \in KeyGeneration : u(g) \in KeyGeneration
    BY DEF KeyGeneration
  <2>. QED BY <2>1, NoneAssumption DEF KeyGeneration, EntryOK, Owned
<1>. HIDE DEF u
<1>. DEFINE s == [r1 EXCEPT !.entries = unpeeked]
<1>5. /\ s \in Registry /\ s.retired = r1.retired
      /\ \A k \in Keys : s.entries[k] = IF r1.entries[k] = None THEN None
                                        ELSE u(r1.entries[k])
  BY <1>3, <1>4 DEF Good, Registry
<1>. HIDE DEF s
<1>6. \A k \in Keys : r1.entries[k] \in KeyGeneration \cup {None}
  BY <1>3 DEF Good, Registry
<1>7. Keeps(r1, s) /\ Good(s)
  <2>1. Keeps(r1, s)
    BY <1>3, <1>4, <1>5, <1>6, SameOwners DEF Good
  <2>. QED BY <2>1 DEF Keeps
<1>8. Keeps(s, PruneKeys(s, Keys)) /\ Keeps(r1, PruneKeys(r1, {key}))
  BY <1>3, <1>7, PruneKeysIs
<1>. QED BY <1>1, <1>2, <1>7, <1>8, KeepsTrans DEF s

LEMMA RecordLatestPeekIs ==
  ASSUME NEW r, Good(r), NEW n \in Nat PROVE Keeps(r, RecordLatestPeek(r, n))
<1>. DEFINE s == RecordLatestPeek(r, n)
<1>1. s \in Registry /\ s.retired = r.retired /\ s.entries = r.entries
  BY DEF RecordLatestPeek, Good, Registry, PeekWatermark
<1>. HIDE DEF s
<1>2. Keeps(r, s)
  BY <1>1, SameOwners DEF Good
<1>. QED BY <1>2 DEF s

LEMMA SetPeekIs ==
  ASSUME NEW r, Good(r), NEW key \in Keys, r.entries[key] # None,
         NEW serial \in Serial, NEW eligible \in BOOLEAN, NEW s,
         s = [r EXCEPT !.entries[key].peek_press_serial = serial,
                       !.entries[key].peek = [serial |-> serial, eligible |-> eligible,
                                              sequence |-> r.entries[key].id]]
  PROVE  Keeps(r, s) /\ s.entries[key] # None /\ s.entries[key].id \in Nat
<1>. DEFINE e == r.entries[key]
            p == [serial |-> serial, eligible |-> eligible, sequence |-> e.id]
            g == [e EXCEPT !.peek_press_serial = serial, !.peek = p]
<1>1. e \in KeyGeneration /\ EntryOK(e)
  BY DEF Good, Registry
<1>2. p \in PeekKeyProvenance
  BY <1>1 DEF KeyGeneration, PeekKeyProvenance
<1>3. g \in KeyGeneration
  <2>. HIDE DEF p
  <2>. QED BY <1>1, <1>2 DEF KeyGeneration
<1>4. EntryOK(g) /\ g.guest_owner = e.guest_owner
  BY <1>1 DEF KeyGeneration, EntryOK, Owned
<1>5. s = [r EXCEPT !.entries = [@ EXCEPT ![key] = g]]
  BY DEF Good, Registry
<1>. HIDE DEF p, g
<1>6. Keeps(r, s) /\ s.entries[key] = g
  <2>1. Good(r) /\ key \in Keys /\ r.entries[key] # None /\ g \in KeyGeneration
        /\ EntryOK(g) /\ g.guest_owner = r.entries[key].guest_owner
    BY <1>3, <1>4
  <2>2. Keeps(r, [r EXCEPT !.entries = [@ EXCEPT ![key] = g]])
    BY <2>1, FieldsOnly
  <2>3. r \in Registry
    BY DEF Good
  <2>4. s.entries[key] = g
    BY ONLY <2>3, <1>5, key \in Keys DEF Registry
  <2>. QED BY ONLY <2>2, <2>4, <1>5
<1>7. g # None /\ g.id \in Nat
  BY <1>3, NoneAssumption DEF KeyGeneration
<1>. QED BY <1>6, <1>7

LEMMA ObservePeekPressIs ==
  ASSUME NEW r, Good(r), NEW key \in Keys, NEW serial \in Serial, NEW eligible \in BOOLEAN
  PROVE  /\ Keeps(r, ObservePeekPress(r, key, serial, eligible))
         /\ ObservePeekPress(r, key, serial, eligible).entries[key] # None
         /\ ObservePeekPress(r, key, serial, eligible).entries[key].id \in Nat
<1>. DEFINE r1 == IF Held(r, key) THEN r ELSE ObservePress(r, key, serial)
            r2 == Ensure(r1, key)
            s == ObservePeekPress(r, key, serial, eligible)
<1>1. Keeps(r, r1)
  BY ObservePressIs, KeepsSelf
<1>2. Keeps(r1, r2) /\ r2.entries[key] # None /\ Good(r2)
  BY <1>1, EnsureIs DEF Keeps
<1>3. s = [r2 EXCEPT
             !.entries[key].peek_press_serial = serial,
             !.entries[key].peek = [serial |-> serial, eligible |-> eligible,
                                    sequence |-> r2.entries[key].id]]
  BY DEF ObservePeekPress
<1>. HIDE DEF r1, r2, s
<1>4. Keeps(r2, s) /\ s.entries[key] # None /\ s.entries[key].id \in Nat
  BY <1>2, <1>3, SetPeekIs
<1>. QED BY <1>1, <1>2, <1>4, KeepsTrans DEF s

LEMMA RefreshPeekIs ==
  ASSUME NEW r, Good(r), NEW key \in Keys, NEW serial \in Serial
  PROVE  Keeps(r, RefreshPeek(r, key, serial))
<1>1. CASE r.entries[key] = None
  BY <1>1, KeepsSelf DEF RefreshPeek
<1>2. CASE r.entries[key] # None
  <2>. DEFINE e == r.entries[key]
              p == IF e.peek = None THEN None ELSE [e.peek EXCEPT !.serial = serial]
              g == [e EXCEPT !.peek_press_serial = serial, !.peek = p]
              s == RefreshPeek(r, key, serial)
  <2>1. e \in KeyGeneration /\ EntryOK(e)
    BY <1>2 DEF Good, Registry
  <2>2. p \in PeekKeyProvenance \cup {None}
    BY <2>1 DEF KeyGeneration, PeekKeyProvenance
  <2>3. g \in KeyGeneration
    <3>. HIDE DEF p
    <3>. QED BY <2>1, <2>2 DEF KeyGeneration
  <2>4. EntryOK(g) /\ g.guest_owner = e.guest_owner
    BY <2>1 DEF KeyGeneration, EntryOK, Owned
  <2>5. s = [r EXCEPT !.entries = [@ EXCEPT ![key] = g]]
    BY <1>2, <2>1 DEF RefreshPeek, Good, Registry, KeyGeneration
  <2>. HIDE DEF g, s
  <2>. QED BY <1>2, <2>3, <2>4, <2>5, FieldsOnly DEF s
<1>. QED BY <1>1, <1>2

LEMMA InvalidatePeekIs ==
  ASSUME NEW r, Good(r), NEW key \in Keys
  PROVE  Keeps(r, InvalidatePeek(r, key))
<1>1. CASE Peek(r, key) = None
  BY <1>1, KeepsSelf DEF InvalidatePeek
<1>2. CASE Peek(r, key) # None
  <2>. DEFINE e == r.entries[key]
              p == [e.peek EXCEPT !.eligible = FALSE]
              g == [e EXCEPT !.peek = p]
              s == InvalidatePeek(r, key)
  <2>1. r.entries[key] # None /\ e.peek # None
    BY <1>2, GenIs DEF Peek, NewGeneration
  <2>2. e \in KeyGeneration /\ EntryOK(e)
    BY <2>1 DEF Good, Registry
  <2>3. p \in PeekKeyProvenance
    BY <2>1, <2>2 DEF KeyGeneration, PeekKeyProvenance
  <2>4. g \in KeyGeneration
    <3>. HIDE DEF p
    <3>. QED BY <2>2, <2>3 DEF KeyGeneration
  <2>5. EntryOK(g) /\ g.guest_owner = e.guest_owner
    BY <2>2 DEF KeyGeneration, EntryOK, Owned
  <2>6. s = [r EXCEPT !.entries = [@ EXCEPT ![key] = g]]
    BY <1>2 DEF InvalidatePeek
  <2>. HIDE DEF g, s
  <2>. QED BY <2>1, <2>4, <2>5, <2>6, FieldsOnly DEF s
<1>. QED BY <1>1, <1>2

LEMMA CancelRepeatIs ==
  ASSUME NEW r, Good(r) PROVE Keeps(r, CancelRepeat(r))
<1>1. CASE ~Held(r, Backspace)
  BY <1>1, KeepsSelf DEF CancelRepeat
<1>2. CASE Held(r, Backspace)
  <2>. DEFINE e == r.entries[Backspace]
              g == [e EXCEPT !.backspace_repeat_cancelled = TRUE, !.ime_repeat = FALSE]
              s == CancelRepeat(r)
  <2>0. Backspace \in Keys
    BY BackspaceAssumption
  <2>1. e # None
    BY <1>2, <2>0, GenIs DEF Held, NewGeneration
  <2>2. e \in KeyGeneration /\ EntryOK(e)
    BY <2>0, <2>1 DEF Good, Registry
  <2>3. g \in KeyGeneration
    BY <2>2 DEF KeyGeneration
  <2>4. EntryOK(g) /\ g.guest_owner = e.guest_owner
    BY <2>2 DEF KeyGeneration, EntryOK, Owned
  <2>5. s = [r EXCEPT !.entries = [@ EXCEPT ![Backspace] = g]]
    BY <1>2, <2>0, <2>2 DEF CancelRepeat, Good, Registry, KeyGeneration
  <2>. HIDE DEF g, s
  <2>. QED BY <2>0, <2>1, <2>3, <2>4, <2>5, FieldsOnly DEF s
<1>. QED BY <1>1, <1>2

LEMMA EndRepeatIs ==
  ASSUME NEW r, Good(r) PROVE Keeps(r, EndRepeat(r))
BY CancelRepeatIs, KeepsSelf DEF EndRepeat

LEMMA ArmImeRepeatIs ==
  ASSUME NEW r, Good(r), NEW key \in Keys
  PROVE  Keeps(r, ArmImeRepeat(r, key))
<1>1. CASE ~(Held(r, key) /\ ~r.entries[key].backspace_repeat_cancelled)
  BY <1>1, KeepsSelf DEF ArmImeRepeat
<1>2. CASE Held(r, key) /\ ~r.entries[key].backspace_repeat_cancelled
  <2>. DEFINE e == r.entries[key]
              g == [e EXCEPT !.ime_repeat = TRUE]
              s == ArmImeRepeat(r, key)
  <2>1. e # None
    BY <1>2, GenIs DEF Held, NewGeneration
  <2>2. e \in KeyGeneration /\ EntryOK(e)
    BY <2>1 DEF Good, Registry
  <2>3. g \in KeyGeneration
    BY <2>2 DEF KeyGeneration
  <2>4. EntryOK(g) /\ g.guest_owner = e.guest_owner
    BY <2>2 DEF KeyGeneration, EntryOK, Owned
  <2>5. s = [r EXCEPT !.entries = [@ EXCEPT ![key] = g]]
    BY <1>2 DEF ArmImeRepeat
  <2>. HIDE DEF g, s
  <2>. QED BY <2>1, <2>3, <2>4, <2>5, FieldsOnly DEF s
<1>. QED BY <1>1, <1>2

-----------------------------------------------------------------------------
(* The operations that pass a debt on.                                     *)

LEMMA OwnersNat ==
  ASSUME NEW r, Good(r), NEW k \in Keys PROVE Owners(r, k) \in Nat
<1>1. Len(r.retired[k]) \in Nat
  BY DEF Good, Registry
<1>2. CASE Forwarded(r, k)
  BY <1>1, <1>2 DEF Owners
<1>3. CASE ~Forwarded(r, k)
  BY <1>1, <1>3 DEF Owners
<1>. QED BY <1>2, <1>3

LEMMA KeepsGains ==
  ASSUME NEW r, NEW s, NEW t, NEW key, Keeps(r, s), Gains(s, t, key)
  PROVE  Gains(r, t, key)
BY DEF Keeps, Gains

LEMMA GainsKeeps ==
  ASSUME NEW r, NEW s, NEW t, NEW key, Gains(r, s, key), Keeps(s, t)
  PROVE  Gains(r, t, key)
BY DEF Keeps, Gains

LEMMA KeepsLoses ==
  ASSUME NEW r, NEW s, NEW t, NEW key, Keeps(r, s), Loses(s, t, key), Good(r)
  PROVE  Loses(r, t, key)
BY DEF Keeps, Loses, Gains

LEMMA LosesKeeps ==
  ASSUME NEW r, NEW s, NEW t, NEW key, Loses(r, s, key), Keeps(s, t)
  PROVE  Loses(r, t, key)
BY DEF Keeps, Loses, Gains

\* A generation nobody owns is claimed; read backwards, an owner is dropped.
LEMMA GainsOwner ==
  ASSUME NEW r, Good(r), NEW key \in Keys, ~Forwarded(r, key),
         NEW s, Good(s), Forwarded(s, key), s.retired = r.retired,
         \A k \in Keys \ {key} : s.entries[k] = r.entries[k]
  PROVE  Gains(r, s, key)
<1>1. ASSUME NEW k \in Keys
      PROVE  Owners(s, k) = Owners(r, k) + (IF k = key THEN 1 ELSE 0)
  <2>1. Len(r.retired[k]) \in Nat
    BY DEF Good, Registry
  <2>2. CASE k = key
    BY <2>1, <2>2 DEF Owners
  <2>3. CASE k # key
    <3>1. Forwarded(s, k) <=> Forwarded(r, k)
      BY <2>3 DEF Forwarded, GuestOwner, Gen
    <3>2. Owners(s, k) = Owners(r, k)
      BY <3>1 DEF Owners, Forwarded
    <3>. QED BY <2>3, <3>2, OwnersNat
  <2>. QED BY <2>2, <2>3
<1>. QED BY <1>1 DEF Gains

LEMMA ReplaceEntry ==
  ASSUME NEW r, Good(r), NEW key \in Keys, NEW g \in KeyGeneration, EntryOK(g),
         NEW s \in Registry, s.retired = r.retired,
         s.entries = [r.entries EXCEPT ![key] = g]
  PROVE  /\ Good(s) /\ s.entries[key] = g
         /\ Forwarded(s, key) <=> Owned(g)
         /\ \A k \in Keys \ {key} : s.entries[k] = r.entries[k]
<1>1. s.entries[key] = g /\ \A k \in Keys \ {key} : s.entries[k] = r.entries[k]
  BY DEF Good, Registry
<1>2. Good(s)
  BY <1>1 DEF Good
<1>3. g # None
  BY NoneAssumption
<1>. QED BY <1>1, <1>2, <1>3, GenIs

LEMMA ClaimPhysicalIs ==
  ASSUME NEW r, Good(r), NEW key \in Keys, ~Forwarded(r, key), ~Suppressed(r, key)
  PROVE  Gains(r, Claim(r, key, "Physical"), key)
<1>. DEFINE b == Ensure(r, key)
            s == Claim(r, key, "Physical")
            e == b.entries[key]
            g == [e EXCEPT !.guest_owner = "Physical"]
<1>1. /\ Keeps(r, b) /\ Good(b) /\ b.retired = r.retired
      /\ e = IF r.entries[key] # None THEN r.entries[key] ELSE NewGeneration(r.next + 1)
      /\ e # None
  BY EnsureIs DEF Keeps
<1>2. s = [b EXCEPT !.entries[key].guest_owner = "Physical"]
  BY DEF Claim
<1>3. ~e.host_accelerator_suppressed
  BY <1>1, GenIs DEF Suppressed, NewGeneration
<1>. HIDE DEF b, s
<1>4. e \in KeyGeneration /\ EntryOK(e)
  BY <1>1 DEF Good, Registry
<1>5. g \in KeyGeneration
  BY <1>4 DEF KeyGeneration, GuestKeyOwner
<1>6. EntryOK(g) /\ Owned(g)
  BY <1>3, <1>4 DEF KeyGeneration, EntryOK, Owned
<1>7. s \in Registry /\ s.retired = b.retired /\ s.entries = [b.entries EXCEPT ![key] = g]
  BY <1>1, <1>2, <1>5 DEF Good, Registry
<1>. HIDE DEF g, e
<1>8. Good(s) /\ Forwarded(s, key) /\ \A k \in Keys \ {key} : s.entries[k] = b.entries[k]
  BY <1>1, <1>5, <1>6, <1>7, ReplaceEntry
<1>9. ~Forwarded(b, key)
  BY <1>1, KeepsForwarded
<1>10. Gains(b, s, key)
  BY <1>1, <1>7, <1>8, <1>9, GainsOwner
<1>. QED BY <1>1, <1>10, KeepsGains DEF s

\* The press the IME swallowed owes the guest nothing.
LEMMA ClaimImeIs ==
  ASSUME NEW r, Good(r), NEW key \in Keys, ~Forwarded(r, key)
  PROVE  /\ Keeps(r, Claim(r, key, "ImeRecovery"))
         /\ Claim(r, key, "ImeRecovery").retired = r.retired
<1>. DEFINE b == Ensure(r, key)
            s == Claim(r, key, "ImeRecovery")
            e == b.entries[key]
            g == [e EXCEPT !.guest_owner = "ImeRecovery"]
<1>1. Keeps(r, b) /\ Good(b) /\ b.retired = r.retired /\ e # None
  BY EnsureIs DEF Keeps
<1>2. s = [b EXCEPT !.entries[key].guest_owner = "ImeRecovery"]
  BY DEF Claim
<1>. HIDE DEF b, s
<1>3. e \in KeyGeneration /\ EntryOK(e)
  BY <1>1 DEF Good, Registry
<1>4. g \in KeyGeneration
  BY <1>3 DEF KeyGeneration, GuestKeyOwner
<1>5. EntryOK(g) /\ ~Owned(g) /\ g # None
  BY <1>3, <1>4, NoneAssumption DEF KeyGeneration, EntryOK, Owned
<1>6. s \in Registry /\ s.retired = b.retired /\ s.entries = [b.entries EXCEPT ![key] = g]
  BY <1>1, <1>2, <1>4 DEF Good, Registry
<1>. HIDE DEF g, e
<1>7. ~Forwarded(b, key)
  BY <1>1, KeepsForwarded
<1>8. Keeps(b, s)
  BY <1>1, <1>4, <1>5, <1>6, <1>7, SetEntry
<1>. QED BY <1>1, <1>6, <1>8, KeepsTrans DEF s

LEMMA SuppressAcceleratorIs ==
  ASSUME NEW r, Good(r), NEW key \in Keys, ~Forwarded(r, key)
  PROVE  Keeps(r, SuppressAccelerator(r, key))
<1>. DEFINE b == Ensure(r, key)
            s == SuppressAccelerator(r, key)
            e == b.entries[key]
            g == [e EXCEPT !.host_accelerator_suppressed = TRUE]
<1>1. Keeps(r, b) /\ Good(b) /\ b.retired = r.retired /\ e # None
  BY EnsureIs DEF Keeps
<1>2. s = [b EXCEPT !.entries[key].host_accelerator_suppressed = TRUE]
  BY DEF SuppressAccelerator
<1>3. ~Forwarded(b, key)
  BY <1>1, KeepsForwarded
<1>. HIDE DEF b, s
<1>4. e \in KeyGeneration /\ EntryOK(e) /\ ~Owned(e)
  BY <1>1, <1>3, GenIs DEF Good, Registry
<1>5. g \in KeyGeneration
  BY <1>4 DEF KeyGeneration
<1>6. EntryOK(g) /\ ~Owned(g) /\ g # None
  BY <1>4, <1>5, NoneAssumption DEF KeyGeneration, EntryOK, Owned
<1>7. s \in Registry /\ s.retired = b.retired /\ s.entries = [b.entries EXCEPT ![key] = g]
  BY <1>1, <1>2, <1>5 DEF Good, Registry
<1>. HIDE DEF g, e
<1>8. Keeps(b, s)
  BY <1>1, <1>3, <1>5, <1>6, <1>7, SetEntry
<1>. QED BY <1>1, <1>8, KeepsTrans DEF s

LEMMA TakeSuppressionIs ==
  ASSUME NEW r, Good(r), NEW key \in Keys
  PROVE  /\ Keeps(r, TakeSuppression(r, key))
         /\ TakeSuppression(r, key).retired = r.retired
<1>1. CASE r.entries[key] = None
  BY <1>1, KeepsSelf DEF TakeSuppression
<1>2. CASE r.entries[key] # None
  <2>. DEFINE e == r.entries[key]
              g == [e EXCEPT !.host_accelerator_suppressed = FALSE]
              s == [r EXCEPT !.entries[key].host_accelerator_suppressed = FALSE]
  <2>1. e \in KeyGeneration /\ EntryOK(e)
    BY <1>2 DEF Good, Registry
  <2>2. g \in KeyGeneration
    BY <2>1 DEF KeyGeneration
  <2>3. EntryOK(g) /\ g.guest_owner = e.guest_owner
    BY <2>1 DEF KeyGeneration, EntryOK, Owned
  <2>4. s = [r EXCEPT !.entries = [@ EXCEPT ![key] = g]]
    OBVIOUS
  <2>5. TakeSuppression(r, key) = PruneKeys(s, {key})
    BY <1>2 DEF TakeSuppression
  <2>. HIDE DEF g, s
  <2>6. Keeps(r, s) /\ s.retired = r.retired
    BY <1>2, <2>2, <2>3, <2>4, FieldsOnly
  <2>7. Good(s)
    BY <2>6 DEF Keeps
  <2>8. Keeps(s, PruneKeys(s, {key})) /\ PruneKeys(s, {key}).retired = s.retired
    BY <2>7, PruneKeysIs
  <2>. QED BY <2>5, <2>6, <2>8, KeepsTrans
<1>. QED BY <1>1, <1>2

\* The release of the owner's press is delivered.
LEMMA TakeOwnerIs ==
  ASSUME NEW r, Good(r), NEW key \in Keys
  PROVE  IF Forwarded(r, key) THEN Loses(r, TakeOwner(r, key), key)
         ELSE Keeps(r, TakeOwner(r, key))
<1>1. CASE GuestOwner(r, key) = None
  <2>1. ~Forwarded(r, key)
    BY <1>1, NoneAssumption DEF Forwarded, GuestKeyOwner
  <2>. QED BY <1>1, <2>1, PruneKeysIs DEF TakeOwner
<1>2. CASE GuestOwner(r, key) # None
  <2>. DEFINE e == r.entries[key]
              g == [e EXCEPT !.guest_owner = None, !.guest_press_serial = None]
              s == [r EXCEPT !.entries[key].guest_owner = None,
                             !.entries[key].guest_press_serial = None]
  <2>1. e # None
    BY <1>2, GenIs DEF GuestOwner, NewGeneration
  <2>2. e \in KeyGeneration /\ EntryOK(e)
    BY <2>1 DEF Good, Registry
  <2>3. g \in KeyGeneration
    BY <2>2 DEF KeyGeneration
  <2>4. None \notin {"Physical", "TextInputKeysym"}
    BY NoneAssumption DEF GuestKeyOwner
  <2>5. EntryOK(g) /\ ~Owned(g) /\ g # None
    BY <2>2, <2>3, <2>4, NoneAssumption DEF KeyGeneration, EntryOK, Owned
  <2>6. s \in Registry /\ s.retired = r.retired /\ s.entries = [r.entries EXCEPT ![key] = g]
    BY <2>1, <2>2, <2>3 DEF Good, Registry
  <2>7. TakeOwner(r, key) = PruneKeys(s, {key})
    BY <1>2 DEF TakeOwner
  <2>. HIDE DEF s, g
  <2>8. Good(s) /\ ~Forwarded(s, key) /\ \A k \in Keys \ {key} : s.entries[k] = r.entries[k]
    BY <2>3, <2>5, <2>6, ReplaceEntry
  <2>9. Keeps(s, PruneKeys(s, {key}))
    BY <2>8, PruneKeysIs
  <2>10. CASE Forwarded(r, key)
    <3>1. Gains(s, r, key)
      BY <2>6, <2>8, <2>10, GainsOwner
    <3>2. Loses(r, s, key)
      BY <3>1, <2>8 DEF Loses
    <3>. QED BY <2>7, <2>9, <2>10, <3>2, LosesKeeps
  <2>11. CASE ~Forwarded(r, key)
    <3>1. Keeps(r, s)
      BY <2>3, <2>5, <2>6, <2>11, SetEntry
    <3>. QED BY <2>7, <2>9, <2>11, <3>1, KeepsTrans
  <2>. QED BY <2>10, <2>11
<1>. QED BY <1>1, <1>2

LEMMA CompleteTextOwnerIs ==
  ASSUME NEW r, Good(r), NEW key \in Keys, GuestOwner(r, key) = "TextInputKeysym"
  PROVE  Loses(r, CompleteTextOwner(r, key), key)
<1>. DEFINE e == r.entries[key]
            g == [e EXCEPT !.guest_owner = "ImeRecovery"]
            s == CompleteTextOwner(r, key)
<1>1. None # "TextInputKeysym"
  BY NoneAssumption DEF GuestKeyOwner
<1>2. e # None
  BY <1>1, GenIs DEF GuestOwner, NewGeneration
<1>3. e \in KeyGeneration /\ EntryOK(e)
  BY <1>2 DEF Good, Registry
<1>4. g \in KeyGeneration
  BY <1>3 DEF KeyGeneration, GuestKeyOwner
<1>5. EntryOK(g) /\ ~Owned(g)
  BY <1>3 DEF KeyGeneration, EntryOK, Owned
<1>6. s \in Registry /\ s.retired = r.retired /\ s.entries = [r.entries EXCEPT ![key] = g]
  BY <1>4 DEF CompleteTextOwner, Good, Registry
<1>. HIDE DEF s, g
<1>7. Good(s) /\ ~Forwarded(s, key) /\ \A k \in Keys \ {key} : s.entries[k] = r.entries[k]
  BY <1>4, <1>5, <1>6, ReplaceEntry
<1>8. Forwarded(r, key)
  BY DEF Forwarded
<1>9. Gains(s, r, key)
  BY <1>6, <1>7, <1>8, GainsOwner
<1>. QED BY <1>7, <1>9 DEF Loses, s

LEMMA MinIs ==
  ASSUME NEW S, S \subseteq Nat, S # {}
  PROVE  Min(S) \in S
<1>. DEFINE Below == {ss \in Nat \X Nat : ss[1] < ss[2]}
<1>1. IsWellFoundedOn(Below, Nat)
  BY NatLessThanWellFounded DEF OpToRel
<1>2. PICK m \in S : \A k \in S : ~(<<k, m>> \in Below)
  BY <1>1, WFMin
<1>3. ASSUME NEW k \in S PROVE m <= k
  <2>1. k \in Nat /\ m \in Nat
    OBVIOUS
  <2>2. k < m => <<k, m>> \in Below
    BY <2>1
  <2>. QED BY <2>1, <2>2, <1>2
<1>. QED BY <1>3 DEF Min

WithoutFirst(q, M) == RemoveFirstMatch(q, LAMBDA t : t \in M)

\* Removing a match that exists removes one element.
LEMMA RemoveFirstMatchIs ==
  ASSUME NEW S, NEW q \in Seq(S), NEW M, NEW i \in 1 .. Len(q), q[i] \in M
  PROVE  WithoutFirst(q, M) \in Seq(S) /\ Len(WithoutFirst(q, M)) = Len(q) - 1
<1>. DEFINE I == {j \in 1 .. Len(q) : q[j] \in M}
            n == Min(I)
<1>1. I \in SUBSET Nat /\ I # {}
  OBVIOUS
<1>2. n \in I
  BY <1>1, MinIs
<1>3. WithoutFirst(q, M) = RemoveAt(q, n)
  BY <1>1 DEF WithoutFirst, RemoveFirstMatch, SelectInSeq
<1>. HIDE DEF n
<1>4. n \in 1 .. Len(q) /\ Len(q) \in Nat
  BY <1>2
<1>5. SubSeq(q, 1, n - 1) \in Seq(S) /\ Len(SubSeq(q, 1, n - 1)) = n - 1
  BY <1>4, SubSeqProperties
<1>6. SubSeq(q, n + 1, Len(q)) \in Seq(S) /\ Len(SubSeq(q, n + 1, Len(q))) = Len(q) - n
  BY <1>4, SubSeqProperties
<1>. DEFINE a == SubSeq(q, 1, n - 1)
            b == SubSeq(q, n + 1, Len(q))
<1>7. RemoveAt(q, n) = a \o b
  BY DEF RemoveAt
<1>. HIDE DEF a, b
<1>8. a \o b \in Seq(S) /\ Len(a \o b) = Len(a) + Len(b)
  BY <1>5, <1>6, ConcatProperties DEF a, b
<1>9. (n - 1) + (Len(q) - n) = Len(q) - 1
  BY <1>4
<1>. QED BY <1>3, <1>5, <1>6, <1>7, <1>8, <1>9 DEF a, b

LEMMA TakeRetiredIs ==
  ASSUME NEW r, Good(r), NEW key \in Keys, NEW matches,
         matches \subseteq Range(r.retired[key]), matches # {}
  PROVE  Loses(r, TakeRetired(r, key, matches), key)
<1>. DEFINE q == r.retired[key]
            f == WithoutFirst(q, matches)
            s == TakeRetired(r, key, matches)
<1>1. q \in Seq(RetiredGuestRelease) /\ Len(q) \in Nat
  BY DEF Good, Registry
<1>2. PICK i \in 1 .. Len(q) : q[i] \in matches
  BY <1>1 DEF Range
<1>. HIDE DEF f
<1>3. f \in Seq(RetiredGuestRelease) /\ Len(f) = Len(q) - 1
  BY <1>1, <1>2, RemoveFirstMatchIs DEF f
<1>4. s = [r EXCEPT !.retired = [@ EXCEPT ![key] = f]]
  BY DEF TakeRetired, f, WithoutFirst
<1>. HIDE DEF s
<1>5. s \in Registry /\ s.entries = r.entries /\ s.retired = [r.retired EXCEPT ![key] = f]
  BY <1>3, <1>4 DEF Good, Registry
<1>6. s.retired[key] = f /\ \A k \in Keys \ {key} : s.retired[k] = r.retired[k]
  BY <1>5 DEF Good, Registry
<1>7. Good(s)
  BY <1>5 DEF Good
<1>8. ASSUME NEW k \in Keys
      PROVE  Owners(r, k) = Owners(s, k) + (IF k = key THEN 1 ELSE 0)
  <2>1. Forwarded(s, k) <=> Forwarded(r, k)
    BY <1>5 DEF Forwarded, GuestOwner, Gen
  <2>2. CASE k = key
    <3>. DEFINE d == IF Forwarded(r, key) THEN 1 ELSE 0
    <3>1. d \in Nat
      OBVIOUS
    <3>2. Owners(r, key) = Len(q) + d /\ Owners(s, key) = Len(f) + d
      BY <2>1, <2>2, <1>6 DEF Owners, Forwarded
    <3>. HIDE DEF d
    <3>3. Len(q) + d = Len(f) + d + 1
      BY <1>1, <1>3, <3>1
    <3>. QED BY <2>2, <3>2, <3>3
  <2>3. CASE k # key
    <3>1. Owners(s, k) = Owners(r, k)
      BY <2>1, <2>3, <1>6 DEF Owners, Forwarded
    <3>. QED BY <2>3, <3>1, <1>7, OwnersNat
  <2>. QED BY <2>2, <2>3
<1>. QED BY <1>7, <1>8 DEF Loses, Gains, s

LEMMA BeforeTextClaimIs ==
  ASSUME NEW r, Good(r), NEW key \in Keys, NEW serial \in Serial
  PROVE  /\ Keeps(r, BeforeTextClaim(r, key, serial))
         /\ \/ BeforeTextClaim(r, key, serial) = r
            \/ BeforeTextClaim(r, key, serial).entries[key] = None
<1>1. CASE ~StartsNew(Gen(r, key), serial)
  BY <1>1, KeepsSelf DEF BeforeTextClaim
<1>2. CASE StartsNew(Gen(r, key), serial) /\ Released(r, key)
  BY <1>2, RetireReleasedIs DEF BeforeTextClaim
<1>3. CASE StartsNew(Gen(r, key), serial) /\ ~Released(r, key)
  <2>1. ~Forwarded(r, key)
    BY <1>3 DEF StartsNew, Released, Forwarded, GuestOwner
  <2>2. BeforeTextClaim(r, key, serial) = RemoveEntry(r, key)
    BY <1>3 DEF BeforeTextClaim
  <2>. QED BY <2>1, <2>2, RemoveEntryIs
<1>. QED BY <1>1, <1>2, <1>3

\* A keysym opens the generation: its serial is what ends it.
LEMMA ClaimTextIs ==
  ASSUME NEW r, Good(r), NEW key \in Keys, ~Forwarded(r, key), ~Suppressed(r, key),
         NEW serial \in Serial
  PROVE  Gains(r, [Claim(r, key, "TextInputKeysym")
                     EXCEPT !.entries[key].guest_press_serial = serial], key)
<1>. DEFINE b == Ensure(r, key)
            s == [Claim(r, key, "TextInputKeysym")
                    EXCEPT !.entries[key].guest_press_serial = serial]
            e == b.entries[key]
            g == [e EXCEPT !.guest_owner = "TextInputKeysym", !.guest_press_serial = serial]
<1>1. /\ Keeps(r, b) /\ Good(b) /\ b.retired = r.retired
      /\ e = IF r.entries[key] # None THEN r.entries[key] ELSE NewGeneration(r.next + 1)
      /\ e # None
  BY EnsureIs DEF Keeps
<1>2. s = [[b EXCEPT !.entries[key].guest_owner = "TextInputKeysym"]
             EXCEPT !.entries[key].guest_press_serial = serial]
  BY DEF Claim
<1>3. ~e.host_accelerator_suppressed
  BY <1>1, GenIs DEF Suppressed, NewGeneration
<1>. HIDE DEF b, s
<1>4. e \in KeyGeneration /\ EntryOK(e)
  BY <1>1 DEF Good, Registry
<1>5. g \in KeyGeneration
  BY <1>4 DEF KeyGeneration, GuestKeyOwner
<1>6. serial # None
  BY NoneAssumption DEF Serial
<1>7. EntryOK(g) /\ Owned(g)
  BY <1>3, <1>4, <1>6 DEF KeyGeneration, EntryOK, Owned
<1>8. s = [b EXCEPT !.entries = [@ EXCEPT ![key] = g]]
  BY <1>1, <1>2, <1>4 DEF Good, Registry, KeyGeneration
<1>9. s \in Registry /\ s.retired = b.retired /\ s.entries = [b.entries EXCEPT ![key] = g]
  BY <1>1, <1>5, <1>8 DEF Good, Registry
<1>. HIDE DEF g, e
<1>10. Good(s) /\ Forwarded(s, key) /\ \A k \in Keys \ {key} : s.entries[k] = b.entries[k]
  BY <1>1, <1>5, <1>7, <1>9, ReplaceEntry
<1>11. ~Forwarded(b, key)
  BY <1>1, KeepsForwarded
<1>12. Gains(b, s, key)
  BY <1>1, <1>9, <1>10, <1>11, GainsOwner
<1>. QED BY <1>1, <1>12, KeepsGains DEF s

-----------------------------------------------------------------------------
(* transition_guest_key.                                                   *)

LEMMA DecisionIs ==
  ASSUME NEW r, NEW s, NEW delivery \in {"Forward", "Drop", "EmitBalancedPair"},
         NEW ack, NEW ends, NEW key, NEW state,
         CASE delivery = "Forward" /\ state = "press" -> Gains(r, s, key)
           [] delivery = "Forward" /\ state = "release" -> Loses(r, s, key)
           [] OTHER -> Keeps(r, s)
  PROVE  Accounts(r, Decision(s, delivery, ack, ends), key, state)
<1>1. /\ Decision(s, delivery, ack, ends).reg = s
      /\ Decision(s, delivery, ack, ends).delivery = delivery
  BY DEF Decision
<1>. QED BY <1>1 DEF Accounts

LEMMA DropIs ==
  ASSUME NEW r, NEW s, Keeps(r, s), NEW ack, NEW ends, NEW key, NEW state
  PROVE  Accounts(r, Decision(s, "Drop", ack, ends), key, state)
BY DecisionIs

LEMMA AccountsAfter ==
  ASSUME NEW r, Good(r), NEW s, Keeps(r, s), NEW d, NEW key, NEW state,
         Accounts(s, d, key, state)
  PROVE  Accounts(r, d, key, state)
<1>1. CASE d.delivery = "Forward" /\ state = "press"
  BY <1>1, KeepsGains DEF Accounts
<1>2. CASE d.delivery = "Forward" /\ state = "release"
  BY <1>2, KeepsLoses DEF Accounts
<1>3. CASE ~(d.delivery = "Forward" /\ state \in {"press", "release"})
  BY <1>3, KeepsTrans DEF Accounts
<1>. QED BY <1>1, <1>2, <1>3

\* What follows the decision leaves its account alone.
LEMMA AccountsThen ==
  ASSUME NEW r, NEW d, NEW key, NEW state, Accounts(r, d, key, state),
         NEW s, Keeps(d.reg, s), NEW e, e.reg = s, e.delivery = d.delivery
  PROVE  Accounts(r, e, key, state)
<1>1. CASE d.delivery = "Forward" /\ state = "press"
  BY <1>1, GainsKeeps DEF Accounts
<1>2. CASE d.delivery = "Forward" /\ state = "release"
  BY <1>2, LosesKeeps DEF Accounts
<1>3. CASE ~(d.delivery = "Forward" /\ state \in {"press", "release"})
  BY <1>3, KeepsTrans DEF Accounts
<1>. QED BY <1>1, <1>2, <1>3

LEMMA AccountsGood ==
  ASSUME NEW r, NEW d, NEW key, NEW state, Accounts(r, d, key, state)
  PROVE  Good(d.reg)
<1>1. CASE d.delivery = "Forward" /\ state = "press"
  BY <1>1 DEF Accounts, Gains
<1>2. CASE d.delivery = "Forward" /\ state = "release"
  BY <1>2 DEF Accounts, Loses
<1>3. CASE ~(d.delivery = "Forward" /\ state \in {"press", "release"})
  BY <1>3 DEF Accounts, Keeps
<1>. QED BY <1>1, <1>2, <1>3

LEMMA PhysicalPressIs ==
  ASSUME NEW r, Good(r), NEW key \in Keys, NEW state \in {"press", "repeat"},
         NEW accelerator, NEW imeRepeat
  PROVE  Accounts(r, PhysicalPress(r, key, state = "repeat", accelerator, imeRepeat),
                  key, state)
<1>. DEFINE owner == GuestOwner(r, key)
            forwarded == Forwarded(r, key)
            repeated == state = "repeat"
            forIme == owner = "ImeRecovery" \/ (imeRepeat /\ ~forwarded)
            r1 == IF forIme /\ owner = None THEN Claim(r, key, "ImeRecovery") ELSE r
            r2 == IF forwarded THEN r1 ELSE SuppressAccelerator(r1, key)
            d == PhysicalPress(r, key, repeated, accelerator, imeRepeat)
<1>1. owner = None => ~forwarded
  BY NoneAssumption DEF Forwarded, GuestKeyOwner
<1>2. Keeps(r, r1) /\ r1.retired = r.retired
  BY <1>1, ClaimImeIs, KeepsSelf
<1>3. CASE Suppressed(r1, key) \/ accelerator
  <2>1. d = Decision(r2, "Drop", FALSE, FALSE)
    BY <1>3 DEF PhysicalPress
  <2>2. Good(r1) /\ (Forwarded(r1, key) <=> forwarded)
    BY <1>2, KeepsForwarded DEF Keeps
  <2>. HIDE DEF r1, d
  <2>3. Keeps(r1, r2)
    BY <2>2, SuppressAcceleratorIs, KeepsSelf
  <2>. HIDE DEF r2
  <2>4. Keeps(r, r2)
    BY <1>2, <2>3, KeepsTrans
  <2>5. Accounts(r, Decision(r2, "Drop", FALSE, FALSE), key, state)
    BY <2>4, DropIs
  <2>. QED BY <2>1, <2>5 DEF d
<1>4. CASE ~(Suppressed(r1, key) \/ accelerator) /\ forIme
  <2>1. d = Decision(r1, "Drop", FALSE, FALSE)
    BY <1>4 DEF PhysicalPress
  <2>. HIDE DEF r1, d
  <2>2. Accounts(r, Decision(r1, "Drop", FALSE, FALSE), key, state)
    BY <1>2, DropIs
  <2>. QED BY <2>1, <2>2 DEF d
<1>5. CASE ~(Suppressed(r1, key) \/ accelerator) /\ ~forIme /\ ~repeated /\ forwarded
  <2>1. d = Decision(r1, "Drop", TRUE, FALSE)
    BY <1>5 DEF PhysicalPress
  <2>. HIDE DEF r1, d
  <2>2. Accounts(r, Decision(r1, "Drop", TRUE, FALSE), key, state)
    BY <1>2, DropIs
  <2>. QED BY <2>1, <2>2 DEF d
<1>6. CASE ~(Suppressed(r1, key) \/ accelerator) /\ ~forIme /\ repeated
  <2>1. d = Decision(r1, IF forwarded THEN "Forward" ELSE "Drop", forwarded, FALSE)
    BY <1>6 DEF PhysicalPress
  <2>. DEFINE delivery == IF forwarded THEN "Forward" ELSE "Drop"
  <2>2. delivery \in {"Forward", "Drop", "EmitBalancedPair"} /\ state = "repeat"
    BY <1>6
  <2>. HIDE DEF r1, d, delivery
  <2>3. Accounts(r, Decision(r1, delivery, forwarded, FALSE), key, state)
    BY <1>2, <2>2, DecisionIs
  <2>. QED BY <2>1, <2>3 DEF d, delivery
<1>7. CASE ~(Suppressed(r1, key) \/ accelerator) /\ ~forIme /\ ~repeated /\ ~forwarded
  <2>1. d = Decision(Claim(r1, key, "Physical"), "Forward", TRUE, FALSE)
    BY <1>7 DEF PhysicalPress
  <2>2. r1 = r /\ ~Suppressed(r, key) /\ state = "press"
    BY <1>7
  <2>3. Gains(r, Claim(r, key, "Physical"), key)
    BY <1>7, <2>2, ClaimPhysicalIs
  <2>. DEFINE s == Claim(r, key, "Physical")
  <2>. HIDE DEF s, d, r1
  <2>4. Accounts(r, Decision(s, "Forward", TRUE, FALSE), key, state)
    BY <2>2, <2>3, DecisionIs DEF s
  <2>. QED BY <2>1, <2>2, <2>4 DEF d, s
<1>. QED BY <1>3, <1>4, <1>5, <1>6, <1>7

LEMMA PhysicalReleaseIs ==
  ASSUME NEW r, Good(r), NEW key \in Keys
  PROVE  Accounts(r, PhysicalRelease(r, key), key, "release")
<1>. DEFINE suppressed == Suppressed(r, key)
            r1 == TakeSuppression(r, key)
            forwarded == Forwarded(r1, key)
            r2 == IF GuestOwner(r1, key) = "ImeRecovery" THEN r1 ELSE TakeOwner(r1, key)
            delivery == IF forwarded /\ ~suppressed THEN "Forward" ELSE "Drop"
<1>1. PhysicalRelease(r, key) = Decision(r2, delivery, forwarded, TRUE)
  BY DEF PhysicalRelease
<1>2. Keeps(r, r1) /\ Good(r1) /\ (forwarded <=> Forwarded(r, key))
  <2>1. Keeps(r, r1) /\ r1.retired = r.retired
    BY TakeSuppressionIs
  <2>. HIDE DEF r1
  <2>. QED BY <2>1, KeepsForwarded DEF Keeps
<1>. HIDE DEF r1
<1>3. CASE forwarded
  <2>1. GuestOwner(r1, key) # "ImeRecovery"
    BY <1>3 DEF Forwarded
  <2>2. Loses(r1, r2, key)
    BY <1>2, <1>3, <2>1, TakeOwnerIs
  <2>3. ~suppressed
    BY <1>2, <1>3, GenIs DEF Suppressed, EntryOK
  <2>4. delivery = "Forward"
    BY <1>3, <2>3
  <2>. HIDE DEF r2, delivery
  <2>5. Loses(r, r2, key)
    BY <1>2, <2>2, KeepsLoses
  <2>6. Accounts(r, Decision(r2, "Forward", forwarded, TRUE), key, "release")
    BY <2>5, DecisionIs
  <2>. QED BY <1>1, <2>4, <2>6
<1>4. CASE ~forwarded
  <2>1. delivery = "Drop"
    BY <1>4
  <2>2. Keeps(r1, r2)
    BY <1>2, <1>4, TakeOwnerIs, KeepsSelf
  <2>. HIDE DEF r2, delivery
  <2>3. Keeps(r, r2)
    BY <1>2, <2>2, KeepsTrans
  <2>4. Accounts(r, Decision(r2, "Drop", forwarded, TRUE), key, "release")
    BY <2>3, DropIs
  <2>. QED BY <1>1, <2>1, <2>4
<1>. QED BY <1>3, <1>4

LEMMA TextInputPressIs ==
  ASSUME NEW r, Good(r), NEW key \in Keys, NEW serial \in Serial
  PROVE  Accounts(r, TextInputPress(r, key, serial), key, "press")
<1>. DEFINE g == Gen(r, key)
            accelerated == \/ g.host_accelerator_suppressed
                           \/ Held(r, key) /\ g.peek # None /\ ~g.peek.eligible
            r1 == BeforeTextClaim(r, key, serial)
            free == GuestOwner(r1, key) = None
            s == [Claim(r1, key, "TextInputKeysym")
                    EXCEPT !.entries[key].guest_press_serial = serial]
            d == TextInputPress(r, key, serial)
<1>1. Keeps(r, r1) /\ Good(r1) /\ (r1 = r \/ r1.entries[key] = None)
  BY BeforeTextClaimIs DEF Keeps
<1>2. CASE accelerated \/ g.guest_owner = "Physical"
  <2>1. d = Decision(r, "Drop", None, FALSE)
    BY <1>2 DEF TextInputPress
  <2>2. Accounts(r, Decision(r, "Drop", None, FALSE), key, "press")
    BY KeepsSelf, DropIs
  <2>. QED BY <2>1, <2>2
<1>3. CASE ~(accelerated \/ g.guest_owner = "Physical") /\ ~free
  <2>1. d = Decision(r1, "Drop", None, FALSE)
    BY <1>3 DEF TextInputPress
  <2>. HIDE DEF r1
  <2>2. Accounts(r, Decision(r1, "Drop", None, FALSE), key, "press")
    BY <1>1, DropIs
  <2>. QED BY <2>1, <2>2
<1>4. CASE ~(accelerated \/ g.guest_owner = "Physical") /\ free
  <2>1. d = Decision(s, "Forward", None, FALSE)
    BY <1>4 DEF TextInputPress
  <2>2. ~Suppressed(r, key)
    BY <1>4 DEF Suppressed
  <2>. HIDE DEF r1, d
  <2>3. ~Suppressed(r1, key)
    BY <1>1, <2>2, GenIs DEF Suppressed, NewGeneration
  <2>4. ~Forwarded(r1, key)
    BY <1>4, NoneAssumption DEF Forwarded, GuestKeyOwner
  <2>5. Gains(r1, s, key)
    BY <1>1, <2>3, <2>4, ClaimTextIs
  <2>. HIDE DEF s
  <2>6. Gains(r, s, key)
    BY <1>1, <2>5, KeepsGains
  <2>7. Accounts(r, Decision(s, "Forward", None, FALSE), key, "press")
    BY <2>6, DecisionIs
  <2>. QED BY <2>1, <2>7 DEF d
<1>. QED BY <1>2, <1>3, <1>4

LEMMA TextInputRepeatIs ==
  ASSUME NEW r, Good(r), NEW key \in Keys
  PROVE  Accounts(r, TextInputRepeat(r, key), key, "repeat")
BY KeepsSelf, DecisionIs DEF TextInputRepeat

LEMMA TextInputReleaseIs ==
  ASSUME NEW r, Good(r), NEW key \in Keys, NEW serial \in Serial
  PROVE  Accounts(r, TextInputRelease(r, key, serial), key, "release")
<1>. DEFINE g == Gen(r, key)
            matches == {t \in Range(r.retired[key]) : InInterval(r, key, serial, t)}
            current == /\ g.guest_press_serial = None
                            \/ SerialIsAfter(serial, g.guest_press_serial)
                       /\ g.guest_owner = "TextInputKeysym"
            d == TextInputRelease(r, key, serial)
<1>1. CASE matches # {}
  <2>1. d = Decision(TakeRetired(r, key, matches), "Forward", None, FALSE)
    BY <1>1 DEF TextInputRelease
  <2>2. matches \subseteq Range(r.retired[key])
    OBVIOUS
  <2>. HIDE DEF matches, d
  <2>3. Loses(r, TakeRetired(r, key, matches), key)
    BY <1>1, <2>2, TakeRetiredIs
  <2>. DEFINE s == TakeRetired(r, key, matches)
  <2>. HIDE DEF s
  <2>4. Accounts(r, Decision(s, "Forward", None, FALSE), key, "release")
    BY <2>3, DecisionIs DEF s
  <2>. QED BY <2>1, <2>4 DEF d, s
<1>2. CASE matches = {} /\ current
  <2>1. d = Decision(CompleteTextOwner(r, key), "Forward", None, TRUE)
    BY <1>2 DEF TextInputRelease
  <2>2. GuestOwner(r, key) = "TextInputKeysym"
    BY <1>2 DEF GuestOwner
  <2>. HIDE DEF matches, d
  <2>3. Loses(r, CompleteTextOwner(r, key), key)
    BY <2>2, CompleteTextOwnerIs
  <2>. DEFINE s == CompleteTextOwner(r, key)
  <2>. HIDE DEF s
  <2>4. Accounts(r, Decision(s, "Forward", None, TRUE), key, "release")
    BY <2>3, DecisionIs DEF s
  <2>. QED BY <2>1, <2>4 DEF d, s
<1>3. CASE matches = {} /\ ~current
  <2>1. d = Decision(r, "Drop", None, FALSE)
    BY <1>3 DEF TextInputRelease
  <2>2. Accounts(r, Decision(r, "Drop", None, FALSE), key, "release")
    BY KeepsSelf, DropIs
  <2>. QED BY <2>1, <2>2
<1>. QED BY <1>1, <1>2, <1>3

LEMMA RecoverImeIs ==
  ASSUME NEW r, Good(r), NEW key \in Keys
  PROVE  /\ Keeps(r, RecoverIme(r, key).reg)
         /\ RecoverIme(r, key).delivery \in {"Drop", "EmitBalancedPair"}
<1>1. CASE Forwarded(r, key)
  BY <1>1, KeepsSelf DEF RecoverIme, Decision
<1>2. CASE ~Forwarded(r, key)
  <2>. DEFINE s == IF GuestOwner(r, key) = None THEN Claim(r, key, "ImeRecovery") ELSE r
  <2>1. Keeps(r, s)
    BY <1>2, ClaimImeIs, KeepsSelf
  <2>2. RecoverIme(r, key) = Decision(s, "EmitBalancedPair", None, FALSE)
    BY <1>2 DEF RecoverIme
  <2>. HIDE DEF s
  <2>. QED BY <2>1, <2>2 DEF Decision
<1>. QED BY <1>1, <1>2

-----------------------------------------------------------------------------
(* The handlers.                                                           *)

LEMMA OnPeekKeyIs ==
  ASSUME NEW r, Good(r), NEW key \in Keys, NEW state \in KeyState, NEW serial \in Serial
  PROVE  Keeps(r, OnPeekKey(r, key, state, serial))
<1>. DEFINE g == Gen(r, key)
            fresh == state = "press" /\ ~(Held(r, key) /\ g.peek # None)
            eligible == ~Suppressed(r, key) /\ ~IsHostAccelerator(key)
            r1 == ObservePeekPress(r, key, serial, eligible)
            seen == IF fresh THEN RecordLatestPeek(r1, r1.entries[key].id)
                    ELSE RefreshPeek(r, key, serial)
            stale == g.peek # None /\ SerialIsAfter(g.peek.serial, serial)
            released == ObservePeekRelease(r, key, serial)
            s == OnPeekKey(r, key, state, serial)
<1>1. Keeps(r, seen) /\ Good(seen)
  <2>1. eligible \in BOOLEAN
    OBVIOUS
  <2>. HIDE DEF eligible
  <2>2. Keeps(r, r1) /\ Good(r1) /\ r1.entries[key].id \in Nat
    BY <2>1, ObservePeekPressIs DEF Keeps
  <2>. HIDE DEF r1
  <2>3. Keeps(r1, RecordLatestPeek(r1, r1.entries[key].id))
    BY <2>2, RecordLatestPeekIs
  <2>4. Keeps(r, RecordLatestPeek(r1, r1.entries[key].id))
    BY <2>2, <2>3, KeepsTrans
  <2>5. Keeps(r, RefreshPeek(r, key, serial))
    BY RefreshPeekIs
  <2>6. Keeps(r, seen)
    BY <2>4, <2>5
  <2>. QED BY <2>6 DEF Keeps
<1>2. CASE state = "press"
  <2>1. s = IF key = Backspace THEN ObservePress(seen, key, None)
            ELSE EndRepeat(CancelRepeat(ObservePress(seen, key, None)))
    BY <1>2 DEF OnPeekKey
  <2>. HIDE DEF seen, s
  <2>. DEFINE a == ObservePress(seen, key, None)
  <2>2. Keeps(seen, a) /\ Good(a)
    BY <1>1, ObservePressIs DEF Keeps
  <2>. HIDE DEF a
  <2>3. Keeps(a, CancelRepeat(a)) /\ Good(CancelRepeat(a))
    BY <2>2, CancelRepeatIs DEF Keeps
  <2>4. Keeps(CancelRepeat(a), EndRepeat(CancelRepeat(a)))
    BY <2>3, EndRepeatIs
  <2>5. Keeps(r, a)
    BY <1>1, <2>2, KeepsTrans
  <2>6. Keeps(r, EndRepeat(CancelRepeat(a)))
    BY <2>3, <2>4, <2>5, KeepsTrans
  <2>. QED BY <2>1, <2>5, <2>6 DEF a, s
<1>3. CASE state = "repeat"
  <2>1. s = IF Held(r, key) THEN seen ELSE r
    BY <1>3 DEF OnPeekKey
  <2>. QED BY <2>1, <1>1, KeepsSelf
<1>4. CASE state = "release"
  <2>1. s = IF stale THEN r ELSE IF key = Backspace THEN EndRepeat(released) ELSE released
    BY <1>4 DEF OnPeekKey
  <2>2. Keeps(r, released) /\ Good(released)
    BY ObserveReleaseIs DEF Keeps, ObservePeekRelease
  <2>. HIDE DEF released, s, stale
  <2>3. Keeps(released, EndRepeat(released))
    BY <2>2, EndRepeatIs
  <2>4. Keeps(r, EndRepeat(released))
    BY <2>2, <2>3, KeepsTrans
  <2>. QED BY <2>1, <2>2, <2>4, KeepsSelf DEF s
<1>. QED BY <1>2, <1>3, <1>4 DEF KeyState

\* Every observation of the key before the decision.
LEMMA EndsRepeatIs ==
  ASSUME NEW r, Good(r), NEW s, Keeps(r, s), NEW b
  PROVE  Keeps(r, IF b THEN s ELSE EndRepeat(CancelRepeat(s)))
<1>1. Keeps(s, CancelRepeat(s)) /\ Good(CancelRepeat(s))
  BY CancelRepeatIs DEF Keeps
<1>2. Keeps(CancelRepeat(s), EndRepeat(CancelRepeat(s)))
  BY <1>1, EndRepeatIs
<1>. QED BY <1>1, <1>2, KeepsTrans

LEMMA OnKeyIs ==
  ASSUME NEW r, Good(r), NEW key \in Keys, NEW state \in KeyState, NEW serial \in Serial
  PROVE  Accounts(r, OnKey(r, key, state, serial), key, state)
<1>. DEFINE matches == PendingPhysicalReleases(r, key, serial)
            otherRelease == /\ state = "release" /\ PeekPressSerial(r, key) # None
                            /\ ReleaseSerial(r, key) # serial
            otherPress == /\ state = "press" /\ Held(r, key)
                          /\ PeekPressSerial(r, key) \notin {None, serial}
            delayedPress == Released(r, key) /\ PeekPressSerial(r, key) = serial
            imeRepeat == key = Backspace /\ ImeRepeatActive(r)
            observed == CASE state = "press" -> IF delayedPress THEN r
                                                ELSE ObservePress(r, key, None)
                          [] state = "repeat" -> r
                          [] state = "release" -> ObserveRelease(r, key, serial)
            r1 == IF key = Backspace THEN observed
                  ELSE EndRepeat(CancelRepeat(observed))
            r2 == IF IsHostAccelerator(key) THEN InvalidatePeek(r1, key) ELSE r1
            release == PhysicalRelease(observed, key)
            d == OnKey(r, key, state, serial)
<1>1. CASE state = "release" /\ matches # {}
  <2>1. d = Decision(TakeRetired(r, key, matches), "Forward", TRUE, FALSE)
    BY <1>1 DEF OnKey
  <2>2. matches \subseteq Range(r.retired[key])
    BY DEF PendingPhysicalReleases
  <2>. DEFINE s == TakeRetired(r, key, matches)
  <2>. HIDE DEF matches
  <2>3. Loses(r, s, key)
    BY <1>1, <2>2, TakeRetiredIs
  <2>. HIDE DEF s, d
  <2>4. Accounts(r, Decision(s, "Forward", TRUE, FALSE), key, state)
    BY <1>1, <2>3, DecisionIs
  <2>. QED BY <2>1, <2>4 DEF d, s
<1>2. CASE ~(state = "release" /\ matches # {}) /\ (otherRelease \/ otherPress)
  <2>1. d = Decision(r, "Drop", FALSE, FALSE)
    BY <1>2 DEF OnKey
  <2>2. Accounts(r, Decision(r, "Drop", FALSE, FALSE), key, state)
    BY KeepsSelf, DropIs
  <2>. QED BY <2>1, <2>2
<1>3. CASE ~(state = "release" /\ matches # {}) /\ ~(otherRelease \/ otherPress)
  <2>1. Keeps(r, observed) /\ Good(observed)
    <3>1. Keeps(r, ObservePress(r, key, None))
      BY ObservePressIs
    <3>2. Keeps(r, ObserveRelease(r, key, serial)) /\ Keeps(r, r)
      BY ObserveReleaseIs, KeepsSelf
    <3>3. CASE state = "press"
      BY <3>1, <3>2, <3>3 DEF Keeps
    <3>4. CASE state = "repeat"
      BY <3>1, <3>2, <3>4 DEF Keeps
    <3>5. CASE state = "release"
      BY <3>1, <3>2, <3>5 DEF Keeps
    <3>. QED BY <3>3, <3>4, <3>5 DEF KeyState
  <2>2. CASE state = "release"
    <3>1. d = IF key = Backspace THEN [release EXCEPT !.reg = EndRepeat(@)] ELSE release
      BY <1>3, <2>2 DEF OnKey
    <3>. HIDE DEF observed, matches, otherRelease, otherPress
    <3>2. Accounts(observed, release, key, "release")
      BY <2>1, PhysicalReleaseIs
    <3>3. \E s, x, a, e : release = Decision(s, x, a, e)
      BY DEF PhysicalRelease
    <3>. HIDE DEF d, release
    <3>4. Accounts(r, release, key, "release")
      BY <2>1, <3>2, AccountsAfter
    <3>. DEFINE e == [release EXCEPT !.reg = EndRepeat(@)]
    <3>5. e.reg = EndRepeat(release.reg) /\ e.delivery = release.delivery
      BY <3>3 DEF Decision
    <3>6. Good(release.reg)
      BY <3>4, AccountsGood
    <3>7. Keeps(release.reg, EndRepeat(release.reg))
      BY <3>6, EndRepeatIs
    <3>. HIDE DEF e
    <3>8. Accounts(r, e, key, "release")
      BY <3>4, <3>5, <3>7, AccountsThen
    <3>. QED BY <2>2, <3>1, <3>4, <3>8 DEF d, e
  <2>3. CASE state # "release"
    <3>1. d = PhysicalPress(r2, key, state = "repeat", IsHostAccelerator(key), imeRepeat)
      BY <1>3, <2>3 DEF OnKey
    <3>2. state \in {"press", "repeat"}
      BY <2>3 DEF KeyState
    <3>. HIDE DEF observed, matches, otherRelease, otherPress, d
    <3>3. Keeps(r, r1) /\ Good(r1)
      BY <2>1, EndsRepeatIs DEF Keeps
    <3>. HIDE DEF r1
    <3>4. Keeps(r1, r2)
      BY <3>3, InvalidatePeekIs, KeepsSelf
    <3>5. Keeps(r, r2) /\ Good(r2)
      BY <3>3, <3>4, KeepsTrans DEF Keeps
    <3>. HIDE DEF r2
    <3>6. Accounts(r2, PhysicalPress(r2, key, state = "repeat", IsHostAccelerator(key),
                                     imeRepeat), key, state)
      BY <3>2, <3>5, PhysicalPressIs
    <3>7. Accounts(r2, d, key, state)
      BY <3>1, <3>6
    <3>8. Accounts(r, d, key, state)
      BY <3>5, <3>7, AccountsAfter
    <3>. QED BY <3>8 DEF d
  <2>. QED BY <2>2, <2>3
<1>. QED BY <1>1, <1>2, <1>3

LEMMA OnKeysymIs ==
  ASSUME NEW r, Good(r), NEW key \in Keys, NEW state \in KeyState, NEW serial \in Serial
  PROVE  Accounts(r, OnKeysym(r, key, state, serial), key, state)
<1>. DEFINE d == CASE state = "press" -> TextInputPress(r, key, serial)
                   [] state = "repeat" -> TextInputRepeat(r, key)
                   [] state = "release" -> TextInputRelease(r, key, serial)
            e == [d EXCEPT !.reg = EndRepeat(@)]
<1>1. OnKeysym(r, key, state, serial) \in {d, e}
  BY DEF OnKeysym
<1>2. Accounts(r, d, key, state) /\ \E s, x, a, f : d = Decision(s, x, a, f)
  <2>1. CASE state = "press"
    <3>1. Accounts(r, TextInputPress(r, key, serial), key, "press")
      BY TextInputPressIs
    <3>2. \E s, x, a, f : TextInputPress(r, key, serial) = Decision(s, x, a, f)
      BY DEF TextInputPress
    <3>. QED BY <2>1, <3>1, <3>2
  <2>2. CASE state = "repeat"
    <3>1. Accounts(r, TextInputRepeat(r, key), key, "repeat")
      BY TextInputRepeatIs
    <3>2. \E s, x, a, f : TextInputRepeat(r, key) = Decision(s, x, a, f)
      BY DEF TextInputRepeat
    <3>. QED BY <2>2, <3>1, <3>2
  <2>3. CASE state = "release"
    <3>1. Accounts(r, TextInputRelease(r, key, serial), key, "release")
      BY TextInputReleaseIs
    <3>2. \E s, x, a, f : TextInputRelease(r, key, serial) = Decision(s, x, a, f)
      BY DEF TextInputRelease
    <3>. QED BY <2>3, <3>1, <3>2
  <2>. QED BY <2>1, <2>2, <2>3 DEF KeyState
<1>. HIDE DEF d
<1>3. e.reg = EndRepeat(d.reg) /\ e.delivery = d.delivery
  BY <1>2 DEF Decision
<1>4. Good(d.reg)
  BY <1>2, AccountsGood
<1>5. Keeps(d.reg, EndRepeat(d.reg))
  BY <1>4, EndRepeatIs
<1>. HIDE DEF e
<1>6. Accounts(r, e, key, state)
  BY <1>2, <1>3, <1>5, AccountsThen
<1>. QED BY <1>1, <1>2, <1>6

\* Recovery is a press and a release at once.
LEMMA OnEmptyConfirmIs ==
  ASSUME NEW r, Good(r), NEW key \in Keys
  PROVE  /\ Keeps(r, OnEmptyConfirm(r, key).reg)
         /\ OnEmptyConfirm(r, key).delivery \in {"Drop", "EmitBalancedPair"}
<1>. DEFINE d == RecoverIme(r, key)
            x == [d EXCEPT !.reg = ArmImeRepeat(@, key)]
            y == [d EXCEPT !.reg = EndRepeat(@)]
<1>1. OnEmptyConfirm(r, key) \in {d, x, y}
  BY DEF OnEmptyConfirm
<1>2. Keeps(r, d.reg) /\ d.delivery \in {"Drop", "EmitBalancedPair"}
  BY RecoverImeIs
<1>3. \E s, z, a, f : d = Decision(s, z, a, f)
  BY DEF RecoverIme
<1>. HIDE DEF d
<1>4. /\ x.reg = ArmImeRepeat(d.reg, key) /\ x.delivery = d.delivery
      /\ y.reg = EndRepeat(d.reg) /\ y.delivery = d.delivery
  BY <1>3 DEF Decision
<1>5. Keeps(d.reg, ArmImeRepeat(d.reg, key)) /\ Keeps(d.reg, EndRepeat(d.reg))
  BY <1>2, ArmImeRepeatIs, EndRepeatIs DEF Keeps
<1>. HIDE DEF x, y
<1>6. Keeps(r, x.reg) /\ Keeps(r, y.reg)
  BY <1>2, <1>4, <1>5, KeepsTrans
<1>. QED BY <1>1, <1>2, <1>4, <1>6

\* A sequence of the held keys lists each of them.
LEMMA SetToSeqsIs ==
  ASSUME NEW S, IsFiniteSet(S), NEW order \in SetToSeqs(S)
  PROVE  Len(order) \in Nat /\ DOMAIN order \subseteq Nat /\ Range(order) = S
<1>. DEFINE D == 1 .. Cardinality(S)
<1>1. Cardinality(S) \in Nat
  BY FS_CardinalityType
<1>2. order \in [D -> S] /\ \A i, j \in D : i # j => order[i] # order[j]
  BY DEF SetToSeqs
<1>3. order \in Injection(D, S)
  BY <1>2 DEF Injection, IsInjective
<1>4. IsFiniteSet(D) /\ Cardinality(D) = Cardinality(S)
  BY <1>1, FS_Interval
<1>5. order \in Surjection(D, S)
  BY <1>3, <1>4, FS_Injection
<1>6. Range(order) = S
  BY <1>2, <1>5 DEF Surjection, Range
<1>7. Len(order) = Cardinality(S)
  BY <1>1, <1>2
<1>. QED BY <1>1, <1>2, <1>6, <1>7

\* The generation of a key found down on enter.
Entered(g) ==
  /\ g # None /\ g.physical_state = "Held" /\ g.guest_owner = "Physical"
  /\ g.peek = None /\ g.peek_press_serial = None /\ g.physical_release_serial = None

LEMMA InstallEnterSnapshotIs ==
  ASSUME NEW r, Good(r), NEW S \in SUBSET Keys, NEW order \in SetToSeqs(S)
  PROVE  /\ Good(InstallEnterSnapshot(r, order))
         /\ \A k \in Keys : Owners(InstallEnterSnapshot(r, order), k)
                              = IF k \in S THEN 1 ELSE 0
         /\ \A k \in Keys :
              /\ InstallEnterSnapshot(r, order).retired[k] = <<>>
              /\ k \in S => Entered(InstallEnterSnapshot(r, order).entries[k])
              /\ k \notin S => InstallEnterSnapshot(r, order).entries[k] = None
<1>. DEFINE at(k) == CHOOSE i \in DOMAIN order : order[i] = k
            entered(k) == [NewGeneration(r.next + at(k)) EXCEPT
                             !.physical_state = "Held", !.guest_owner = "Physical"]
            s == InstallEnterSnapshot(r, order)
<1>1. IsFiniteSet(S)
  BY BackspaceAssumption, FS_Subset
<1>2. Len(order) \in Nat /\ DOMAIN order \subseteq Nat /\ Range(order) = S
  BY <1>1, SetToSeqsIs
<1>3. r.next \in Nat
  BY DEF Good, Registry
<1>4. ASSUME NEW k \in S
      PROVE  /\ entered(k) \in KeyGeneration /\ EntryOK(entered(k)) /\ Owned(entered(k))
             /\ Entered(entered(k))
  <2>1. at(k) \in DOMAIN order
    BY <1>2 DEF Range
  <2>2. r.next + at(k) \in Nat
    BY <1>2, <1>3, <2>1
  <2>. DEFINE n == r.next + at(k)
              e == NewGeneration(n)
  <2>. HIDE DEF n
  <2>3. e \in KeyGeneration
    BY <2>2, NewIs DEF n
  <2>4. /\ ~e.host_accelerator_suppressed /\ e.peek = None
        /\ e.peek_press_serial = None /\ e.physical_release_serial = None
    BY DEF NewGeneration
  <2>. HIDE DEF e
  <2>. DEFINE g == [e EXCEPT !.physical_state = "Held", !.guest_owner = "Physical"]
  <2>5. g \in KeyGeneration
    BY <2>3 DEF KeyGeneration, PhysicalKeyState, GuestKeyOwner
  <2>6. g.physical_state = "Held" /\ g.guest_owner = "Physical"
        /\ ~g.host_accelerator_suppressed /\ g.peek = None
        /\ g.peek_press_serial = None /\ g.physical_release_serial = None
    BY <2>3, <2>4 DEF KeyGeneration
  <2>7. EntryOK(g) /\ Owned(g) /\ Entered(g)
    BY <2>5, <2>6, NoneAssumption DEF EntryOK, Owned, Entered
  <2>8. entered(k) = g
    BY DEF e, n
  <2>. QED BY <2>5, <2>7, <2>8
<1>5. s = [ClearKeyboard(r) EXCEPT
             !.next = @ + Len(order),
             !.entries = [k \in Keys |-> IF k \in Range(order) THEN entered(k) ELSE None]]
  BY DEF InstallEnterSnapshot
<1>. HIDE DEF entered, s
<1>6. \A k \in Keys : (IF k \in Range(order) THEN entered(k) ELSE None)
                        \in KeyGeneration \cup {None}
  BY <1>2, <1>4
<1>7. /\ s \in Registry
      /\ \A k \in Keys : s.retired[k] = <<>>
      /\ \A k \in Keys : s.entries[k] = IF k \in S THEN entered(k) ELSE None
  <2>1. <<>> \in Seq(RetiredGuestRelease)
    OBVIOUS
  <2>. DEFINE ee == [k \in Keys |-> IF k \in Range(order) THEN entered(k) ELSE None]
              rr == [k \in Keys |-> <<>>]
  <2>2. ee \in [Keys -> KeyGeneration \cup {None}] /\ rr \in [Keys -> Seq(RetiredGuestRelease)]
    BY <1>6, <2>1
  <2>3. s.entries = ee /\ s.retired = rr /\ s \in Registry
    <3>. HIDE DEF ee, rr
    <3>1. ClearKeyboard(r) = [r EXCEPT !.entries = [k \in Keys |-> None],
                                       !.retired = rr, !.latest = None]
      BY DEF ClearKeyboard, rr
    <3>2. s = [ClearKeyboard(r) EXCEPT !.next = @ + Len(order), !.entries = ee]
      BY <1>5 DEF ee
    <3>. DEFINE c == ClearKeyboard(r)
                oo == [k \in Keys |-> None]
    <3>3. oo \in [Keys -> KeyGeneration \cup {None}]
      OBVIOUS
    <3>4. c \in Registry /\ c.retired = rr
      <4>. HIDE DEF oo
      <4>1. c = [r EXCEPT !.entries = oo, !.retired = rr, !.latest = None]
        BY <3>1 DEF oo
      <4>. HIDE DEF c, at
      <4>. QED BY <2>2, <3>3, <4>1 DEF Good, Registry, PeekWatermark
    <3>5. s = [c EXCEPT !.next = @ + Len(order), !.entries = ee]
      BY <3>2
    <3>. HIDE DEF c, at, oo
    <3>6. c.next + Len(order) \in Nat
      BY <1>2, <3>4 DEF Registry
    <3>. QED BY <2>2, <3>4, <3>5, <3>6 DEF Registry
  <2>. QED BY <1>2, <2>3
<1>8. \A k \in S : entered(k) # None
  BY <1>4, NoneAssumption
<1>9. Good(s)
  BY <1>4, <1>7, <1>8 DEF Good
<1>10. ASSUME NEW k \in Keys PROVE Owners(s, k) = IF k \in S THEN 1 ELSE 0
  <2>1. Forwarded(s, k) <=> k \in S
    BY <1>4, <1>7, <1>8, <1>9, GenIs
  <2>2. Len(s.retired[k]) = 0
    BY <1>7
  <2>. QED BY <2>1, <2>2 DEF Owners, Forwarded
<1>. QED BY <1>4, <1>7, <1>9, <1>10 DEF s

LEMMA ClearKeyboardIs ==
  ASSUME NEW r, Good(r)
  PROVE  Good(ClearKeyboard(r)) /\ \A k \in Keys : Owners(ClearKeyboard(r), k) = 0
<1>. DEFINE s == ClearKeyboard(r)
<1>1. <<>> \in Seq(RetiredGuestRelease)
  OBVIOUS
<1>2. s \in Registry /\ \A k \in Keys : s.retired[k] = <<>> /\ s.entries[k] = None
  BY <1>1 DEF ClearKeyboard, Good, Registry, PeekWatermark
<1>. HIDE DEF s
<1>3. Good(s)
  BY <1>2 DEF Good
<1>4. ASSUME NEW k \in Keys PROVE Owners(s, k) = 0
  <2>1. ~Forwarded(s, k) /\ Len(s.retired[k]) = 0
    BY <1>2, <1>3, GenIs
  <2>. QED BY <2>1 DEF Owners
<1>. QED BY <1>3, <1>4 DEF s

-----------------------------------------------------------------------------
(* The invariant.                                                          *)

Events == Seq([key : Keys, state : KeyState, via : Channels \cup {"recovery"}])

\* The guest counts on what the registry r owes, unless a keymap was rejected.
Owed(r, o, lost) == ~lost => \A k \in Keys : o[k] = Owners(r, k)

KeyInv == TypeOK /\ Good(reg) /\ Owed(reg, open, rejected)

LEMMA OwedKeeps ==
  ASSUME NEW r, NEW s, NEW o, NEW lost, Keeps(r, s), Owed(r, o, lost)
  PROVE  Owed(s, o, lost)
BY DEF Keeps, Owed

\* What is delivered is what the decision accounts for.
LEMMA DeliverIs ==
  ASSUME KeyInv, NEW d, NEW key \in Keys, NEW state \in KeyState,
         NEW via \in Channels \cup {"recovery"},
         Accounts(reg, d, key, state), Deliver(d, key, state, via)
  PROVE  /\ Good(reg') /\ Owed(reg', open', rejected)
         /\ open' \in [Keys -> Nat] /\ out' \in Events /\ given' \in SUBSET Keys
<1>. DEFINE ev(x) == [key |-> key, state |-> x, via |-> via]
<1>1. reg' = d.reg /\ Good(reg')
  BY AccountsGood DEF Deliver
<1>2. open \in [Keys -> Nat] /\ given \in SUBSET Keys
  BY DEF KeyInv, TypeOK
<1>3. out' \in Events
  <2>1. \A x \in KeyState : <<ev(x)>> \in Events
    BY DEF Events
  <2>2. <<ev("press"), ev("release")>> \in Events /\ <<>> \in Events
    BY DEF Events, KeyState
  <2>. HIDE DEF Events
  <2>3. CASE d.delivery = "Forward"
    BY <2>1, <2>3 DEF Deliver
  <2>4. CASE d.delivery = "EmitBalancedPair"
    BY <2>2, <2>4 DEF Deliver
  <2>5. CASE d.delivery = "Drop"
    BY <2>2, <2>5 DEF Deliver
  <2>. QED BY <2>3, <2>4, <2>5 DEF Accounts
<1>4. given' \in SUBSET Keys
  BY <1>2 DEF Deliver
<1>5. CASE d.delivery = "Forward" /\ state = "press"
  <2>1. open' = [open EXCEPT ![key] = @ + 1]
    BY <1>5 DEF Deliver
  <2>2. Gains(reg, reg', key)
    BY <1>1, <1>5 DEF Accounts
  <2>3. open' \in [Keys -> Nat]
    BY <1>2, <2>1
  <2>4. ASSUME ~rejected, NEW k \in Keys PROVE open'[k] = Owners(reg', k)
    <3>1. open[k] = Owners(reg, k) /\ open[k] \in Nat
      BY <1>2, <2>4 DEF KeyInv, Owed
    <3>2. Owners(reg', k) = Owners(reg, k) + (IF k = key THEN 1 ELSE 0)
      BY <2>2 DEF Gains
    <3>3. open'[k] = open[k] + (IF k = key THEN 1 ELSE 0)
      BY <1>2, <2>1, <3>1
    <3>. QED BY <3>1, <3>2, <3>3
  <2>. QED BY <1>1, <1>3, <1>4, <2>3, <2>4 DEF Owed
<1>6. CASE d.delivery = "Forward" /\ state = "release"
  <2>1. open' = [open EXCEPT ![key] = IF @ = 0 THEN 0 ELSE @ - 1]
    BY <1>6 DEF Deliver
  <2>2. Gains(reg', reg, key)
    BY <1>1, <1>6 DEF Accounts, Loses
  <2>3. open' \in [Keys -> Nat]
    <3>1. (IF open[key] = 0 THEN 0 ELSE open[key] - 1) \in Nat
      BY <1>2
    <3>. QED BY <1>2, <2>1, <3>1
  <2>4. ASSUME ~rejected, NEW k \in Keys PROVE open'[k] = Owners(reg', k)
    <3>1. open[k] = Owners(reg, k) /\ open[k] \in Nat /\ Owners(reg', k) \in Nat
      BY <1>1, <1>2, <2>4, OwnersNat DEF KeyInv, Owed
    <3>2. Owners(reg, k) = Owners(reg', k) + (IF k = key THEN 1 ELSE 0)
      BY <2>2 DEF Gains
    <3>3. CASE k = key
      <4>1. open'[k] = IF open[k] = 0 THEN 0 ELSE open[k] - 1
        BY <1>2, <2>1, <3>3
      <4>2. open[k] = Owners(reg', k) + 1
        BY <3>1, <3>2, <3>3
      <4>. QED BY <3>1, <4>1, <4>2
    <3>4. CASE k # key
      <4>1. open'[k] = open[k]
        BY <1>2, <2>1, <3>4
      <4>2. Owners(reg, k) = Owners(reg', k)
        BY <3>1, <3>2, <3>4
      <4>. QED BY <3>1, <4>1, <4>2
    <3>. QED BY <3>3, <3>4
  <2>. QED BY <1>1, <1>3, <1>4, <2>3, <2>4 DEF Owed
<1>7. CASE ~(d.delivery = "Forward" /\ state \in {"press", "release"})
  <2>1. open' = open
    BY <1>7 DEF Deliver
  <2>2. Keeps(reg, reg')
    BY <1>1, <1>7 DEF Accounts
  <2>3. Owed(reg', open, rejected)
    BY <2>2, OwedKeeps DEF KeyInv
  <2>. QED BY <1>1, <1>2, <1>3, <1>4, <2>1, <2>3
<1>. QED BY <1>5, <1>6, <1>7

LEMMA KeyInit == Init => KeyInv
<1>. SUFFICES ASSUME Init PROVE KeyInv
  OBVIOUS
<1>1. reg \in Registry
  <2>1. <<>> \in Seq(RetiredGuestRelease)
    OBVIOUS
  <2>. QED BY <2>1 DEF Init, Registry, PeekWatermark
<1>2. TypeOK
  <2>1. \A S : <<>> \in Seq(S)
    OBVIOUS
  <2>2. 0 \in 0 .. MaxTransitions
    BY SerialAssumption
  <2>. QED BY <1>1, <2>1, <2>2 DEF Init, TypeOK
<1>3. Good(reg)
  BY <1>1 DEF Init, Good
<1>4. ASSUME NEW k \in Keys PROVE Owners(reg, k) = 0
  <2>1. reg.retired[k] = <<>> /\ reg.entries[k] = None
    BY DEF Init
  <2>2. ~Forwarded(reg, k)
    BY <1>3, <2>1, GenIs
  <2>. QED BY <2>1, <2>2 DEF Owners
<1>5. Owed(reg, open, rejected)
  BY <1>4 DEF Owed, Init
<1>. QED BY <1>2, <1>3, <1>5 DEF KeyInv

LEMMA CurrentSerialIs ==
  ASSUME TypeOK PROVE CurrentSerial \in Serial
<1>1. SerialMod \in Nat \ {0} /\ FirstSerial + used \in Nat
  BY SerialAssumption DEF TypeOK
<1>. DEFINE n == FirstSerial + used
<1>. HIDE DEF n
<1>2. n % SerialMod \in 0 .. SerialMod - 1
  BY <1>1 DEF n
<1>. QED BY <1>2 DEF CurrentSerial, Serial, n

\* A transition of a key only queues the events of the slower channels.
LEMMA SendIs ==
  ASSUME TypeOK, NEW key \in Keys, NEW state \in KeyState, NEW channels,
         Send(key, state, channels)
  PROVE  /\ used' \in 0 .. MaxTransitions
         /\ keyQ' \in Seq(KeyEvent) /\ textQ' \in Seq(KeyEvent)
         /\ out' = <<>> /\ open' = open /\ mods' = mods /\ focused' = focused
         /\ rejected' = rejected
<1>. DEFINE e == [key |-> key, state |-> state, serial |-> CurrentSerial]
<1>1. e \in KeyEvent
  BY CurrentSerialIs DEF KeyEvent
<1>2. keyQ' \in {keyQ, Append(keyQ, e)} /\ textQ' \in {textQ, Append(textQ, e)}
  BY DEF Send
<1>. HIDE DEF e
<1>3. keyQ' \in Seq(KeyEvent) /\ textQ' \in Seq(KeyEvent)
  <2>1. keyQ \in Seq(KeyEvent) /\ textQ \in Seq(KeyEvent)
    BY DEF TypeOK
  <2>2. \A q \in Seq(KeyEvent) : Append(q, e) \in Seq(KeyEvent)
    BY <1>1, AppendProperties
  <2>. QED BY <1>2, <2>1, <2>2
<1>4. used' \in 0 .. MaxTransitions
  BY SerialAssumption DEF Send, TypeOK
<1>. QED BY <1>3, <1>4 DEF Send, Quiet

\* What the steps without a delivery leave to show.
LEMMA Undelivered ==
  ASSUME KeyInv, Keeps(reg, reg'), open' = open, rejected' = rejected
  PROVE  /\ reg' \in Registry /\ Good(reg') /\ Owed(reg', open', rejected')
         /\ open' \in [Keys -> Nat] /\ rejected' \in BOOLEAN
<1>1. Good(reg') /\ reg' \in Registry
  BY DEF Keeps, Good
<1>2. Owed(reg', open, rejected)
  BY OwedKeeps DEF KeyInv
<1>. QED BY <1>1, <1>2 DEF KeyInv, TypeOK

LEMMA EmptyIs == \A S : <<>> \in Seq(S)
OBVIOUS

LEMMA PressKeyIs ==
  ASSUME KeyInv, NEW key \in Keys, PressKey(key) PROVE KeyInv'
<1>1. PICK channels \in SUBSET Channels :
        Send(key, "press", channels) /\ route' = [route EXCEPT ![key] = channels]
  BY DEF PressKey
<1>2. /\ used' \in 0 .. MaxTransitions
      /\ keyQ' \in Seq(KeyEvent) /\ textQ' \in Seq(KeyEvent)
      /\ out' = <<>> /\ open' = open /\ mods' = mods /\ focused' = focused
      /\ rejected' = rejected
  BY <1>1, SendIs DEF KeyInv, KeyState
<1>3. Keeps(reg, reg')
  BY OnPeekKeyIs, CurrentSerialIs DEF PressKey, KeyInv, KeyState
<1>4. /\ held' \in SUBSET Keys /\ given' \in SUBSET Keys /\ accel' \in SUBSET Keys
      /\ route' \in [Keys -> SUBSET Channels]
  BY <1>1 DEF PressKey, KeyInv, TypeOK
<1>5. /\ reg' \in Registry /\ Good(reg') /\ Owed(reg', open', rejected')
      /\ open' \in [Keys -> Nat] /\ rejected' \in BOOLEAN
  BY <1>2, <1>3, Undelivered
<1>. QED BY <1>2, <1>4, <1>5, EmptyIs DEF KeyInv, TypeOK

LEMMA RepeatKeyIs ==
  ASSUME KeyInv, NEW key \in Keys, RepeatKey(key) PROVE KeyInv'
<1>1. Send(key, "repeat", route[key])
  BY DEF RepeatKey
<1>2. /\ used' \in 0 .. MaxTransitions
      /\ keyQ' \in Seq(KeyEvent) /\ textQ' \in Seq(KeyEvent)
      /\ out' = <<>> /\ open' = open /\ mods' = mods /\ focused' = focused
      /\ rejected' = rejected
  BY <1>1, SendIs DEF KeyInv, KeyState
<1>3. Keeps(reg, reg')
  BY OnPeekKeyIs, CurrentSerialIs DEF RepeatKey, KeyInv, KeyState
<1>4. /\ reg' \in Registry /\ Good(reg') /\ Owed(reg', open', rejected')
      /\ open' \in [Keys -> Nat] /\ rejected' \in BOOLEAN
  BY <1>2, <1>3, Undelivered
<1>. QED BY <1>2, <1>4, EmptyIs DEF RepeatKey, KeyInv, TypeOK, strokes

LEMMA ReleaseKeyIs ==
  ASSUME KeyInv, NEW key \in Keys, ReleaseKey(key) PROVE KeyInv'
<1>1. Send(key, "release", route[key])
  BY DEF ReleaseKey
<1>2. /\ used' \in 0 .. MaxTransitions
      /\ keyQ' \in Seq(KeyEvent) /\ textQ' \in Seq(KeyEvent)
      /\ out' = <<>> /\ open' = open /\ mods' = mods /\ focused' = focused
      /\ rejected' = rejected
  BY <1>1, SendIs DEF KeyInv, KeyState
<1>3. Keeps(reg, reg')
  BY OnPeekKeyIs, CurrentSerialIs DEF ReleaseKey, KeyInv, KeyState
<1>4. /\ reg' \in Registry /\ Good(reg') /\ Owed(reg', open', rejected')
      /\ open' \in [Keys -> Nat] /\ rejected' \in BOOLEAN
  BY <1>2, <1>3, Undelivered
<1>5. held' \in SUBSET Keys
  BY DEF ReleaseKey, KeyInv, TypeOK
<1>. QED BY <1>2, <1>4, <1>5, EmptyIs DEF ReleaseKey, KeyInv, TypeOK, strokes

LEMMA ReleaseKeysymIs ==
  ASSUME KeyInv, NEW key \in Keys, ReleaseKeysym(key) PROVE KeyInv'
<1>1. Send(key, "release", {"text"})
  BY DEF ReleaseKeysym
<1>2. /\ used' \in 0 .. MaxTransitions
      /\ keyQ' \in Seq(KeyEvent) /\ textQ' \in Seq(KeyEvent)
      /\ out' = <<>> /\ open' = open /\ mods' = mods /\ focused' = focused
      /\ rejected' = rejected
  BY <1>1, SendIs DEF KeyInv, KeyState
<1>3. Keeps(reg, reg')
  BY KeepsSelf DEF ReleaseKeysym, KeyInv
<1>4. /\ reg' \in Registry /\ Good(reg') /\ Owed(reg', open', rejected')
      /\ open' \in [Keys -> Nat] /\ rejected' \in BOOLEAN
  BY <1>2, <1>3, Undelivered
<1>5. route' \in [Keys -> SUBSET Channels]
  BY DEF ReleaseKeysym, KeyInv, TypeOK
<1>. QED BY <1>2, <1>4, <1>5, EmptyIs DEF ReleaseKeysym, KeyInv, TypeOK, strokes

LEMMA KeyArrivesIs ==
  ASSUME KeyInv, KeyArrives PROVE KeyInv'
<1>. DEFINE e == Head(keyQ)
<1>1. keyQ \in Seq(KeyEvent) /\ keyQ # <<>>
  BY DEF KeyInv, TypeOK, KeyArrives
<1>2. e \in KeyEvent /\ keyQ' \in Seq(KeyEvent)
  BY <1>1, HeadTailProperties DEF KeyArrives
<1>3. e.key \in Keys /\ e.state \in KeyState /\ e.serial \in Serial
  BY <1>2 DEF KeyEvent
<1>4. /\ Deliver(OnKey(reg, e.key, e.state, e.serial), e.key, e.state, "key")
      /\ accel' \in {accel \cup {e.key}, accel}
  BY DEF KeyArrives
<1>5. UNCHANGED <<mods, host, focused, rejected, textQ>>
  BY DEF KeyArrives
<1>. HIDE DEF e
<1>6. Accounts(reg, OnKey(reg, e.key, e.state, e.serial), e.key, e.state)
  BY <1>3, OnKeyIs DEF KeyInv
<1>7. /\ Good(reg') /\ Owed(reg', open', rejected)
      /\ open' \in [Keys -> Nat] /\ out' \in Events /\ given' \in SUBSET Keys
  <2>1. "key" \in Channels \cup {"recovery"}
    BY DEF Channels
  <2>. QED BY <1>3, <1>4, <1>6, <2>1, DeliverIs
<1>8. accel' \in SUBSET Keys
  BY <1>3, <1>4 DEF KeyInv, TypeOK
<1>. QED BY <1>2, <1>5, <1>7, <1>8 DEF KeyInv, TypeOK, Events, Good, host

\* A symbol of the layout is found under a key of the layout.
LEMMA KeycodeIs ==
  ASSUME NEW k \in Keys, NEW l \in DOMAIN Layout[k].syms
  PROVE  keysym_to_evdev_keycode(Layout[k].syms[l]) \in Keys
<1>1. k \in KeysWith(Layout[k].syms[l])
  BY BackspaceAssumption DEF KeysWith
<1>2. KeysWith(Layout[k].syms[l]) \subseteq Keys
  BY BackspaceAssumption DEF KeysWith
<1>. QED BY <1>1, <1>2 DEF keysym_to_evdev_keycode

LEMMA KeysymArrivesIs ==
  ASSUME KeyInv, KeysymArrives PROVE KeyInv'
<1>. DEFINE e == Head(textQ)
            syms == Layout[e.key].syms
<1>1. textQ \in Seq(KeyEvent) /\ textQ # <<>>
  BY DEF KeyInv, TypeOK, KeysymArrives
<1>2. e \in KeyEvent /\ textQ' \in Seq(KeyEvent)
  BY <1>1, HeadTailProperties DEF KeysymArrives
<1>3. e.key \in Keys /\ e.state \in KeyState /\ e.serial \in Serial
  BY <1>2 DEF KeyEvent
<1>4. PICK key \in {keysym_to_evdev_keycode(syms[l]) : l \in DOMAIN syms} :
        Deliver(OnKeysym(reg, key, e.state, e.serial), key, e.state, "text")
  BY DEF KeysymArrives
<1>5. UNCHANGED <<mods, host, accel, focused, rejected, keyQ>>
  BY DEF KeysymArrives
<1>6. key \in Keys
  BY <1>3, KeycodeIs
<1>. HIDE DEF e
<1>7. Accounts(reg, OnKeysym(reg, key, e.state, e.serial), key, e.state)
  BY <1>3, <1>6, OnKeysymIs DEF KeyInv
<1>8. /\ Good(reg') /\ Owed(reg', open', rejected)
      /\ open' \in [Keys -> Nat] /\ out' \in Events /\ given' \in SUBSET Keys
  <2>1. "text" \in Channels \cup {"recovery"}
    BY DEF Channels
  <2>. QED BY <1>3, <1>4, <1>6, <1>7, <2>1, DeliverIs
<1>. QED BY <1>2, <1>5, <1>8 DEF KeyInv, TypeOK, Events, Good, host

LEMMA ConfirmPreeditIs ==
  ASSUME KeyInv, ConfirmPreedit PROVE KeyInv'
<1>. DEFINE keys == HeldRepeatKeys(reg)
<1>1. UNCHANGED <<mods, host, accel, focused, rejected, keyQ, textQ>>
  BY DEF ConfirmPreedit
<1>2. CASE keys = {}
  <2>1. reg' = EndRepeat(reg) /\ Quiet /\ UNCHANGED given
    BY <1>2 DEF ConfirmPreedit
  <2>2. Keeps(reg, reg')
    BY <2>1, EndRepeatIs DEF KeyInv
  <2>3. /\ reg' \in Registry /\ Good(reg') /\ Owed(reg', open', rejected')
        /\ open' \in [Keys -> Nat] /\ rejected' \in BOOLEAN
    BY <1>1, <2>1, <2>2, Undelivered DEF Quiet
  <2>. QED BY <1>1, <2>1, <2>3, EmptyIs DEF KeyInv, TypeOK, Quiet, host
<1>3. CASE keys # {}
  <2>1. PICK k \in keys : Deliver(OnEmptyConfirm(reg, k), k, "press", "recovery")
    BY <1>3 DEF ConfirmPreedit
  <2>2. k \in Keys
    BY DEF HeldRepeatKeys, PeekKeys
  <2>. DEFINE d == OnEmptyConfirm(reg, k)
  <2>3. Keeps(reg, d.reg) /\ d.delivery \in {"Drop", "EmitBalancedPair"}
    BY <2>2, OnEmptyConfirmIs DEF KeyInv
  <2>. HIDE DEF d
  <2>4. Accounts(reg, d, k, "press")
    BY <2>3 DEF Accounts
  <2>5. /\ Good(reg') /\ Owed(reg', open', rejected)
        /\ open' \in [Keys -> Nat] /\ out' \in Events /\ given' \in SUBSET Keys
    BY <2>1, <2>2, <2>4, DeliverIs DEF KeyState, d
  <2>. QED BY <1>1, <2>5 DEF KeyInv, TypeOK, Events, Good, host
<1>. QED BY <1>2, <1>3

\* Steps that change nothing but the registry and the modifiers.
LEMMA QuietSteps ==
  ASSUME KeyInv, Keeps(reg, reg'), Quiet, mods' \in HostModifiers \cup {{}, None},
         UNCHANGED <<host, strokes, focused, rejected, keyQ, textQ>>
  PROVE  KeyInv'
<1>1. /\ reg' \in Registry /\ Good(reg') /\ Owed(reg', open', rejected')
      /\ open' \in [Keys -> Nat] /\ rejected' \in BOOLEAN
  BY Undelivered DEF Quiet
<1>. QED BY <1>1, EmptyIs DEF KeyInv, TypeOK, Quiet, host, strokes

LEMMA RepeatSteps ==
  ASSUME KeyInv, PreeditCleared \/ Composition \/ OnModifiers PROVE KeyInv'
<1>1. Backspace \in Keys
  BY BackspaceAssumption
<1>2. Keeps(reg, reg')
  BY <1>1, ArmImeRepeatIs, EndRepeatIs, KeepsSelf
     DEF PreeditCleared, Composition, OnModifiers, KeyInv
<1>3. mods' \in HostModifiers \cup {{}, None}
  BY DEF PreeditCleared, Composition, OnModifiers, KeyInv, TypeOK
<1>. QED BY <1>2, <1>3, QuietSteps DEF PreeditCleared, Composition, OnModifiers

LEMMA OnKeymapIs ==
  ASSUME KeyInv, NEW loads, OnKeymap(loads) PROVE KeyInv'
<1>1. CASE loads
  <2>1. Keeps(reg, reg') /\ mods' = {} /\ UNCHANGED <<used, rejected>>
    BY <1>1, ClearSuppressionsIs DEF OnKeymap, LoadKeymap, KeyInv
  <2>. QED BY <2>1, QuietSteps DEF OnKeymap, host
<1>2. CASE ~loads
  <2>1. reg' = ClearKeyboard(reg) /\ mods' = None /\ rejected' = TRUE
    BY <1>2 DEF OnKeymap, ClearKeymapAndState
  <2>2. used' \in 0 .. MaxTransitions
    BY <1>2, SerialAssumption DEF OnKeymap, KeyInv, TypeOK
  <2>3. Good(reg') /\ reg' \in Registry
    BY <2>1, ClearKeyboardIs DEF KeyInv, Good
  <2>4. /\ out' = <<>>
        /\ UNCHANGED <<open, held, route, strokes, focused, keyQ, textQ>>
    BY DEF OnKeymap, Quiet
  <2>5. Owed(reg', open', rejected')
    BY <2>1 DEF Owed
  <2>. QED BY <2>1, <2>2, <2>3, <2>4, <2>5, EmptyIs DEF KeyInv, TypeOK, strokes
<1>. QED BY <1>1, <1>2

LEMMA ResetIs ==
  ASSUME mods \in HostModifiers \cup {{}, None}
  PROVE  ResetModifiers \in HostModifiers \cup {{}, None}
BY DEF ResetModifiers

LEMMA OnEnterIs ==
  ASSUME KeyInv, OnEnter PROVE KeyInv'
<1>1. PICK order \in SetToSeqs(held) : reg' = InstallEnterSnapshot(reg, order)
  BY DEF OnEnter
<1>2. held \in SUBSET Keys
  BY DEF KeyInv, TypeOK
<1>3. Good(reg') /\ reg' \in Registry
      /\ \A k \in Keys : Owners(reg', k) = IF k \in held THEN 1 ELSE 0
  BY <1>1, <1>2, InstallEnterSnapshotIs DEF KeyInv, Good
<1>4. /\ open' = [k \in Keys |-> IF k \in held THEN 1 ELSE 0]
      /\ route' = [k \in Keys |-> IF k \in held THEN {"key"} ELSE {}]
      /\ mods' = ResetModifiers /\ out' = <<>> /\ given' = held
      /\ focused' = TRUE /\ rejected' = FALSE
      /\ UNCHANGED <<held, used, accel, keyQ, textQ>>
  BY DEF OnEnter
<1>5. Owed(reg', open', rejected')
  BY <1>3, <1>4 DEF Owed
<1>6. open' \in [Keys -> Nat] /\ route' \in [Keys -> SUBSET Channels]
  BY <1>4 DEF Channels
<1>7. mods' \in HostModifiers \cup {{}, None}
  BY <1>4, ResetIs DEF KeyInv, TypeOK
<1>. QED BY <1>2, <1>3, <1>4, <1>5, <1>6, <1>7, EmptyIs DEF KeyInv, TypeOK

LEMMA OnLeaveIs ==
  ASSUME KeyInv, OnLeave PROVE KeyInv'
<1>1. Good(reg') /\ reg' \in Registry /\ \A k \in Keys : Owners(reg', k) = 0
  BY ClearKeyboardIs DEF OnLeave, KeyInv, Good
<1>2. /\ open' = [k \in Keys |-> 0] /\ route' = [k \in Keys |-> {}]
      /\ keyQ' = <<>> /\ textQ' = <<>>
      /\ mods' = ResetModifiers /\ out' = <<>> /\ given' = {}
      /\ focused' = FALSE /\ rejected' = FALSE
      /\ UNCHANGED <<held, used, accel>>
  BY DEF OnLeave
<1>3. Owed(reg', open', rejected')
  BY <1>1, <1>2 DEF Owed
<1>4. open' \in [Keys -> Nat] /\ route' \in [Keys -> SUBSET Channels]
  BY <1>2
<1>5. mods' \in HostModifiers \cup {{}, None}
  BY <1>2, ResetIs DEF KeyInv, TypeOK
<1>. QED BY <1>1, <1>2, <1>3, <1>4, <1>5, EmptyIs DEF KeyInv, TypeOK

LEMMA ReleasedElsewhereIs ==
  ASSUME KeyInv, NEW keys \in SUBSET held, ReleasedElsewhere(keys) PROVE KeyInv'
<1>1. /\ held' = held \ keys /\ accel' = accel \ keys /\ out' = <<>>
      /\ UNCHANGED <<open, reg, mods, route, used, given, focused, rejected, keyQ, textQ>>
  BY DEF ReleasedElsewhere, Quiet
<1>2. Owed(reg', open', rejected') /\ Good(reg')
  BY <1>1 DEF KeyInv
<1>. QED BY <1>1, <1>2, EmptyIs DEF KeyInv, TypeOK

LEMMA KeyNext == KeyInv /\ [Next]_vars => KeyInv'
<1>. SUFFICES ASSUME KeyInv, [Next]_vars PROVE KeyInv'
  OBVIOUS
<1>1. ASSUME NEW k \in Keys, PressKey(k) PROVE KeyInv'
  BY <1>1, PressKeyIs
<1>2. ASSUME NEW k \in Keys, RepeatKey(k) PROVE KeyInv'
  BY <1>2, RepeatKeyIs
<1>3. ASSUME NEW k \in Keys, ReleaseKey(k) PROVE KeyInv'
  BY <1>3, ReleaseKeyIs
<1>4. ASSUME NEW k \in Keys, ReleaseKeysym(k) PROVE KeyInv'
  BY <1>4, ReleaseKeysymIs
<1>5. CASE KeyArrives
  BY <1>5, KeyArrivesIs
<1>6. CASE KeysymArrives
  BY <1>6, KeysymArrivesIs
<1>7. CASE ConfirmPreedit
  BY <1>7, ConfirmPreeditIs
<1>8. CASE PreeditCleared \/ Composition \/ OnModifiers
  BY <1>8, RepeatSteps
<1>9. ASSUME NEW loads \in KeymapOutcomes, OnKeymap(loads) PROVE KeyInv'
  BY <1>9, OnKeymapIs
<1>10. CASE OnEnter
  BY <1>10, OnEnterIs
<1>11. CASE OnLeave
  BY <1>11, OnLeaveIs
<1>12. ASSUME NEW keys \in (SUBSET held) \ {{}}, ReleasedElsewhere(keys) PROVE KeyInv'
  BY <1>12, ReleasedElsewhereIs
<1>13. CASE UNCHANGED vars
  <2>1. UNCHANGED <<reg, mods, open, out, held, route, used, given, accel, focused,
                    rejected, keyQ, textQ>>
    BY <1>13 DEF vars, host, strokes
  <2>. QED BY <2>1 DEF KeyInv, TypeOK
<1>. QED BY <1>1, <1>2, <1>3, <1>4, <1>5, <1>6, <1>7, <1>8, <1>9, <1>10, <1>11, <1>12,
            <1>13 DEF Next

LEMMA KeyInvImplies == KeyInv => OpenPressHasOneOwner
BY DEF KeyInv, OpenPressHasOneOwner, Owed, Owners

\* Every press the guest holds has exactly one party that will release it, the
\* owner of the key's generation or one tombstone: whatever the channels delay,
\* the IME takes back or the modifiers do, no press of any key is left without
\* a releaser and none is released twice (transition_guest_key and the
\* wl_keyboard.key, peek_key, keysym and confirm_preedit handlers).
THEOREM PressesHaveOneOwner == Spec => []OpenPressHasOneOwner
<1>1. Spec => []KeyInv
  BY KeyInit, KeyNext, PTL DEF Spec
<1>. QED BY <1>1, KeyInvImplies, PTL

-----------------------------------------------------------------------------
(* One key: its generation g, its tombstones rt, the events K of           *)
(* wl_keyboard.key and T of the text input still held back, the keys hd    *)
(* down at the host, the channels c of its keystroke, n serials used, the  *)
(* keys gv given to the guest and ac taken for accelerators.               *)

\* How many serials were used before s.
Index(s) == (s - FirstSerial) % SerialMod
Past(s, n) == s \in Serial /\ Index(s) < n

\* The release that ends a debt is still on its way: by its serial, or by its
\* place between two presses.
Coming(K, k, s) == [key |-> k, state |-> "release", serial |-> s] \in K
Between(e, a, b) == Index(a) < Index(e) /\ Index(e) =< Index(b)
EndsAfter(T, k, a) ==
  \E e \in T : e.key = k /\ e.state = "release" /\ Index(a) < Index(e.serial)

\* A press or a repeat held back is of a key still down, on a channel that its
\* keystroke still uses.
EventsOK(E, via, hd, ro, n) == \A e \in E :
  /\ e \in KeyEvent /\ Index(e.serial) < n
  /\ e.state # "release" => e.key \in hd /\ via \in ro[e.key]

\* No release settles two tombstones.
Apart(t, u) ==
  /\ t.owner = "Physical" /\ u.owner = "Physical" => t.release_serial # u.release_serial
  /\ t.owner = "TextInputKeysym" /\ u.owner = "TextInputKeysym" =>
       \/ Index(t.next_press_serial) =< Index(u.press_serial)
       \/ Index(u.next_press_serial) =< Index(t.press_serial)

\* A tombstone waits for a release that will come, and before later events.
TombOK(k, t, K, T, n) ==
  /\ t.owner = "Physical" => Coming(K, k, t.release_serial)
  /\ t.owner = "TextInputKeysym" =>
       /\ Past(t.press_serial, n) /\ Past(t.next_press_serial, n)
       /\ \E e \in T : e.key = k /\ e.state = "release"
                       /\ Between(e.serial, t.press_serial, t.next_press_serial)
       /\ \A e \in T : e.key = k /\ e.state # "release" =>
                         Index(t.next_press_serial) =< Index(e.serial)

TombsOK(k, rt, K, T, n) ==
  /\ \A i \in 1 .. Len(rt) : TombOK(k, rt[i], K, T, n)
  /\ \A i, j \in 1 .. Len(rt) : i # j => Apart(rt[i], rt[j])

\* The owner of a press is told of its release: the key is down and the channel
\* still in use, or the release is on its way and no tombstone takes it.
OwnerOK(k, g, rt, K, T, c, n) ==
  /\ g.guest_owner = "Physical" =>
       /\ g.physical_state = "Held" => "key" \in c
       /\ g.physical_state = "Released" => Coming(K, k, g.physical_release_serial)
       /\ \A i \in 1 .. Len(rt) : rt[i].owner = "Physical" =>
            rt[i].release_serial # g.physical_release_serial
  /\ g.guest_owner = "TextInputKeysym" =>
       /\ Past(g.guest_press_serial, n)
       /\ \/ g.physical_state = "Held" /\ "text" \in c
          \/ EndsAfter(T, k, g.guest_press_serial)
       /\ \A i \in 1 .. Len(rt) : rt[i].owner = "TextInputKeysym" =>
            Index(rt[i].next_press_serial) =< Index(g.guest_press_serial)

\* Of the events still held back, the generation knows its own by their serial.
SerialsOK(k, g, K, hd) ==
  /\ g.physical_state # "Unseen"
  /\ g.physical_state = "Held" => k \in hd /\ g.physical_release_serial = None
  /\ \A e \in K : e.key = k =>
       /\ e.state = "release" /\ g.peek_press_serial = None =>
            e.serial = g.physical_release_serial
       /\ e.state = "press" => e.serial = g.peek_press_serial

\* A generation remembers that its keystroke was given, or left to the host.
StrokeOK(k, g, gv, ac) ==
  /\ k \in gv => g.guest_owner # None
  /\ k \in ac => g.guest_owner = "Physical" \/ (g.peek # None /\ ~g.peek.eligible)
  /\ g.peek = None => g.guest_owner = "Physical"

KeyOK(k, g, rt, K, T, hd, c, n, gv, ac) ==
  /\ k \in hd => g # None /\ g.physical_state = "Held" /\ StrokeOK(k, g, gv, ac)
  /\ g # None => OwnerOK(k, g, rt, K, T, c, n) /\ SerialsOK(k, g, K, hd)
  /\ TombsOK(k, rt, K, T, n)

-----------------------------------------------------------------------------
(* Serials, counted from the first.                                        *)

Wrapped(x, M) == x % M

LEMMA WrappedIs ==
  ASSUME NEW M \in Nat \ {0}, NEW x \in Int
  PROVE  /\ 0 =< x /\ x < M => Wrapped(x, M) = x
         /\ 0 - M =< x /\ x < 0 => Wrapped(x, M) = x + M
         /\ M =< x /\ x < 2 * M => Wrapped(x, M) = x - M
<1>1. x % M \in 0 .. M - 1
  OBVIOUS
<1>2. x = M * (x \div M) + (x % M) /\ x \div M \in Int
  OBVIOUS
<1>. DEFINE q == x \div M
            p == x % M
<1>3. p \in Int /\ 0 =< p /\ p < M /\ x = M * q + p /\ q \in Int
  BY <1>1, <1>2
<1>. HIDE DEF q, p
<1>4. ASSUME q >= 1 PROVE M * q >= M
  BY <1>3, <1>4
<1>5. ASSUME q =< 0 - 1 PROVE M * q =< 0 - M
  BY <1>3, <1>5
<1>6. ASSUME q >= 2 PROVE M * q >= 2 * M
  BY <1>3, <1>6
<1>7. ASSUME q =< 0 - 2 PROVE M * q =< 0 - 2 * M
  BY <1>3, <1>7
<1>8. ASSUME 0 =< x, x < M PROVE p = x
  <2>1. ~(q >= 1) /\ ~(q =< 0 - 1)
    BY <1>3, <1>4, <1>5, <1>8
  <2>2. q = 0
    BY <2>1, <1>3
  <2>. QED BY <2>2, <1>3
<1>9. ASSUME 0 - M =< x, x < 0 PROVE p = x + M
  <2>1. ~(q >= 1) /\ ~(q =< 0 - 2)
    BY <1>3, <1>4, <1>7, <1>9
  <2>2. q \in {0, 0 - 1}
    BY <2>1, <1>3
  <2>. QED BY <2>2, <1>3, <1>9
<1>10. ASSUME M =< x, x < 2 * M PROVE p = x - M
  <2>1. ~(q >= 2) /\ ~(q =< 0 - 1)
    BY <1>3, <1>6, <1>5, <1>10
  <2>2. q \in {0, 1}
    BY <2>1, <1>3
  <2>. QED BY <2>2, <1>3, <1>10
<1>. QED BY <1>8, <1>9, <1>10 DEF p, Wrapped

LEMMA IndexIs ==
  ASSUME NEW s \in Serial
  PROVE  /\ Index(s) \in 0 .. SerialMod - 1
         /\ Index(s) = IF s >= FirstSerial THEN s - FirstSerial
                       ELSE s - FirstSerial + SerialMod
<1>1. /\ SerialMod \in Nat \ {0} /\ FirstSerial \in Int /\ 0 =< FirstSerial
      /\ FirstSerial < SerialMod /\ s \in Int /\ 0 =< s /\ s < SerialMod
  BY SerialAssumption DEF Serial
<1>. DEFINE x == s - FirstSerial
<1>2. x \in Int /\ x < SerialMod /\ 0 - SerialMod =< x
  BY <1>1
<1>. HIDE DEF x
<1>3. Wrapped(x, SerialMod) = IF x >= 0 THEN x ELSE x + SerialMod
  BY <1>1, <1>2, WrappedIs
<1>4. Index(s) = Wrapped(x, SerialMod)
  BY DEF Index, x, Wrapped
<1>5. Index(s) = IF s >= FirstSerial THEN s - FirstSerial
                 ELSE s - FirstSerial + SerialMod
  BY <1>1, <1>3, <1>4 DEF x
<1>. QED BY <1>1, <1>5

LEMMA CurrentIndexIs ==
  ASSUME TypeOK, used < MaxTransitions
  PROVE  CurrentSerial \in Serial /\ Index(CurrentSerial) = used
<1>1. CurrentSerial \in Serial
  BY CurrentSerialIs
<1>2. /\ SerialMod \in Nat \ {0} /\ FirstSerial \in Int /\ 0 =< FirstSerial
      /\ FirstSerial < SerialMod /\ used \in Int /\ 0 =< used /\ used < SerialMod
  BY SerialAssumption DEF TypeOK
<1>. DEFINE x == FirstSerial + used
<1>3. x \in Int /\ 0 =< x /\ x < 2 * SerialMod
  BY <1>2
<1>. HIDE DEF x
<1>4. Wrapped(x, SerialMod) = IF x < SerialMod THEN x ELSE x - SerialMod
  BY <1>2, <1>3, WrappedIs
<1>5. CurrentSerial = Wrapped(x, SerialMod)
  BY DEF CurrentSerial, x, Wrapped
<1>. DEFINE c == CurrentSerial
<1>8. x = FirstSerial + used /\ c = Wrapped(x, SerialMod)
  BY <1>5 DEF x
<1>. HIDE DEF c, x
<1>6. c = IF FirstSerial + used < SerialMod THEN FirstSerial + used
          ELSE FirstSerial + used - SerialMod
  <2>1. CASE x < SerialMod
    BY <2>1, <1>4, <1>8
  <2>2. CASE ~(x < SerialMod)
    BY <2>2, <1>2, <1>3, <1>4, <1>8
  <2>. QED BY <2>1, <2>2, <1>8
<1>7. Index(CurrentSerial) = IF CurrentSerial >= FirstSerial THEN CurrentSerial - FirstSerial
                             ELSE CurrentSerial - FirstSerial + SerialMod
  BY <1>1, IndexIs
<1>. QED BY <1>1, <1>2, <1>6, <1>7 DEF c

\* Within the serials used so far, the wrapping comparison is the order sent.
LEMMA AfterIs ==
  ASSUME NEW n \in 0 .. MaxTransitions, NEW a, NEW b, Past(a, n), Past(b, n)
  PROVE  /\ SerialIsAfter(a, b) <=> Index(b) < Index(a)
         /\ Index(a) = Index(b) => a = b
<1>1. /\ SerialMod \in Nat \ {0} /\ FirstSerial \in Int /\ 0 =< FirstSerial
      /\ FirstSerial < SerialMod /\ n \in Int /\ 2 * n < SerialMod
      /\ a \in Int /\ 0 =< a /\ a < SerialMod /\ b \in Int /\ 0 =< b /\ b < SerialMod
  BY SerialAssumption DEF Past, Serial
<1>. DEFINE x == a - b
            i == Index(a)
            j == Index(b)
<1>2. /\ i \in Int /\ 0 =< i /\ i < n /\ j \in Int /\ 0 =< j /\ j < n
      /\ i = (IF a >= FirstSerial THEN a - FirstSerial ELSE a - FirstSerial + SerialMod)
      /\ j = (IF b >= FirstSerial THEN b - FirstSerial ELSE b - FirstSerial + SerialMod)
  BY IndexIs DEF Past
<1>. HIDE DEF i, j
<1>3. x \in {i - j, i - j + SerialMod, i - j - SerialMod}
  BY <1>1, <1>2
<1>4. x \in Int /\ x < SerialMod /\ 0 - SerialMod =< x
  BY <1>1
<1>. HIDE DEF x
<1>5. Wrapped(x, SerialMod) = IF x >= 0 THEN x ELSE x + SerialMod
  BY <1>1, <1>4, WrappedIs
<1>. DEFINE d == Wrapped(x, SerialMod)
            h == SerialMod \div 2
<1>6. d = IF i >= j THEN i - j ELSE i - j + SerialMod
  BY <1>1, <1>2, <1>3, <1>4, <1>5
<1>7. h \in Int /\ 2 * h =< SerialMod /\ SerialMod =< 2 * h + 1
  BY <1>1
<1>8. SerialIsAfter(a, b) <=> d # 0 /\ d < h
  BY DEF SerialIsAfter, x, Wrapped
<1>. HIDE DEF d, h
<1>9. SerialIsAfter(a, b) <=> j < i
  <2>1. CASE j < i
    <3>1. d = i - j /\ d # 0 /\ d < n /\ d \in Int
      BY <2>1, <1>2, <1>6
    <3>2. n =< h
      BY <1>1, <1>7
    <3>. QED BY <2>1, <3>1, <3>2, <1>7, <1>1, <1>8
  <2>2. CASE i = j
    <3>1. i - j = 0 /\ i >= j /\ ~(j < i)
      BY <2>2, <1>2
    <3>2. d = 0
      BY <3>1, <1>6
    <3>. QED BY <3>1, <3>2, <1>8
  <2>3. CASE i < j
    <3>1. d = i - j + SerialMod /\ d > SerialMod - n /\ d \in Int
      BY <2>3, <1>1, <1>2, <1>6
    <3>2. ~(d < h)
      BY <3>1, <1>1, <1>7
    <3>. QED BY <2>3, <3>2, <1>2, <1>8
  <2>. QED BY <2>1, <2>2, <2>3, <1>2
<1>10. i = j => a = b
  BY <1>1, <1>2
<1>. QED BY <1>9, <1>10 DEF i, j

-----------------------------------------------------------------------------
(* What the registry may do to a generation without the key noticing.      *)

\* h is g with its marks changed, its peek withdrawn or dropped, or g dropped.
Loose(g, h) ==
  /\ g = None => h = None
  /\ h = None => g = None \/ (g.physical_state # "Held" /\ g.guest_owner = None)
  /\ h # None =>
       /\ h.physical_state = g.physical_state /\ h.guest_owner = g.guest_owner
       /\ h.guest_press_serial = g.guest_press_serial
       /\ h.peek_press_serial = g.peek_press_serial
       /\ h.physical_release_serial = g.physical_release_serial
       /\ h.peek = None => g.peek = None \/ g.physical_state # "Held"
       /\ h.peek # None => /\ g.peek # None /\ h.peek.serial = g.peek.serial
                           /\ h.peek.eligible => g.peek.eligible

LEMMA LooseSelf == \A g : Loose(g, g)
BY DEF Loose

LEMMA LooseTrans ==
  ASSUME NEW f, NEW g, NEW h, Loose(f, g), Loose(g, h) PROVE Loose(f, h)
<1>1. CASE h = None
  <2>1. CASE g = None
    BY <1>1, <2>1 DEF Loose
  <2>2. CASE g # None
    BY <1>1, <2>2 DEF Loose
  <2>. QED BY <2>1, <2>2
<1>2. CASE h # None
  <2>1. g # None /\ f # None
    BY <1>2 DEF Loose
  <2>. QED BY <1>2, <2>1 DEF Loose
<1>. QED BY <1>1, <1>2

LEMMA LooseOK ==
  ASSUME NEW k, NEW g, NEW h, NEW rt, NEW K, NEW T, NEW hd, NEW c, NEW n,
         NEW gv, NEW ac,
         KeyOK(k, g, rt, K, T, hd, c, n, gv, ac), Loose(g, h)
  PROVE  KeyOK(k, h, rt, K, T, hd, c, n, gv, ac)
<1>1. CASE h = None
  BY <1>1 DEF KeyOK, Loose
<1>2. CASE h # None
  <2>1. /\ g # None /\ h.physical_state = g.physical_state /\ h.guest_owner = g.guest_owner
        /\ h.guest_press_serial = g.guest_press_serial
        /\ h.peek_press_serial = g.peek_press_serial
        /\ h.physical_release_serial = g.physical_release_serial
        /\ h.peek = None => g.peek = None \/ g.physical_state # "Held"
        /\ h.peek # None => /\ g.peek # None /\ h.peek.serial = g.peek.serial
                            /\ h.peek.eligible => g.peek.eligible
    BY <1>2 DEF Loose
  <2>2. OwnerOK(k, h, rt, K, T, c, n)
    <3>1. OwnerOK(k, g, rt, K, T, c, n)
      BY <2>1 DEF KeyOK
    <3>. QED BY <2>1, <3>1 DEF OwnerOK
  <2>3. SerialsOK(k, h, K, hd)
    <3>1. SerialsOK(k, g, K, hd)
      BY <2>1 DEF KeyOK
    <3>. QED BY <2>1, <3>1 DEF SerialsOK
  <2>4. k \in hd => h.physical_state = "Held" /\ StrokeOK(k, h, gv, ac)
    <3>1. k \in hd => g.physical_state = "Held" /\ StrokeOK(k, g, gv, ac)
      BY DEF KeyOK
    <3>. QED BY <2>1, <3>1 DEF StrokeOK
  <2>. QED BY <1>2, <2>2, <2>3, <2>4 DEF KeyOK
<1>. QED BY <1>1, <1>2

\* Events of other keys and later serials change nothing for k.
LEMMA ElsewhereOK ==
  ASSUME NEW k, NEW g, NEW rt, NEW K, NEW T, NEW hd, NEW c,
         NEW n \in Int, NEW gv, NEW ac,
         KeyOK(k, g, rt, K, T, hd, c, n, gv, ac),
         NEW hd2, k \in hd2 <=> k \in hd, NEW gv2, k \in gv2 => k \in gv,
         NEW ac2, k \in ac2 => k \in ac, NEW K2, NEW T2, NEW m \in Int, n =< m,
         \A e : e.key = k => (e \in K2 <=> e \in K) /\ (e \in T2 <=> e \in T)
  PROVE  KeyOK(k, g, rt, K2, T2, hd2, c, m, gv2, ac2)
<1>1. \A s : Coming(K, k, s) => Coming(K2, k, s)
  BY DEF Coming
<1>2. \A a : EndsAfter(T, k, a) => EndsAfter(T2, k, a)
  BY DEF EndsAfter
<1>3. \A s : Past(s, n) => Past(s, m)
  BY IndexIs DEF Past
<1>4. \A t : TombOK(k, t, K, T, n) => TombOK(k, t, K2, T2, m)
  BY <1>1, <1>3 DEF TombOK
<1>5. TombsOK(k, rt, K2, T2, m)
  BY <1>4 DEF TombsOK, KeyOK
<1>6. OwnerOK(k, g, rt, K, T, c, n) => OwnerOK(k, g, rt, K2, T2, c, m)
  BY <1>1, <1>2, <1>3 DEF OwnerOK
<1>7. SerialsOK(k, g, K, hd) => SerialsOK(k, g, K2, hd2)
  BY DEF SerialsOK
<1>8. StrokeOK(k, g, gv, ac) => StrokeOK(k, g, gv2, ac2)
  BY DEF StrokeOK
<1>. QED BY <1>5, <1>6, <1>7, <1>8 DEF KeyOK

-----------------------------------------------------------------------------
(* A transition of the key itself is sent: at most one event for each      *)
(* channel, of the newest serial.                                          *)

\* E has no event that the IME may still decide about.
Settled(E, k, n) == \A e \in E :
  e \in KeyEvent /\ Index(e.serial) < n /\ (e.key = k => e.state = "release")

\* E2 is E after a transition that uses these channels.
Sent(via, channels, E, E2, k, state, s) ==
  E2 = IF via \in channels THEN E \cup {[key |-> k, state |-> state, serial |-> s]} ELSE E

\* The tombstone that RetireReleased leaves.
Tomb(g, next) ==
  [owner |-> g.guest_owner, press_serial |-> g.guest_press_serial,
   release_serial |-> IF g.guest_owner = "Physical" THEN g.physical_release_serial
                      ELSE None,
   next_press_serial |-> next]

\* The tombstones after a press that opens the next generation.
RetiredBy(g, rt, s) == IF g # None /\ Owned(g) THEN rt \o <<Tomb(g, s)>> ELSE rt

\* TombsOK holds of what is appended to.
LEMMA TombAppended ==
  ASSUME NEW k, NEW rt \in Seq(RetiredGuestRelease), NEW K, NEW T, NEW n,
         TombsOK(k, rt, K, T, n), NEW t \in RetiredGuestRelease, TombOK(k, t, K, T, n),
         \A i \in 1 .. Len(rt) : Apart(rt[i], t)
  PROVE  TombsOK(k, rt \o <<t>>, K, T, n)
<1>. DEFINE q == rt \o <<t>>
<1>1. /\ Len(rt) \in Nat /\ Len(q) = Len(rt) + 1
      /\ \A i \in 1 .. Len(rt) : q[i] = rt[i]
      /\ q[Len(rt) + 1] = t
  OBVIOUS
<1>. HIDE DEF q
<1>2. \A i \in 1 .. Len(q) : i \in 1 .. Len(rt) \/ i = Len(rt) + 1
  BY <1>1
<1>3. \A a, b : Apart(a, b) => Apart(b, a)
  BY DEF Apart
<1>4. \A i \in 1 .. Len(q) : TombOK(k, q[i], K, T, n)
  BY <1>1, <1>2 DEF TombsOK
<1>5. \A i, j \in 1 .. Len(q) : i # j => Apart(q[i], q[j])
  BY <1>1, <1>2, <1>3 DEF TombsOK
<1>. QED BY <1>4, <1>5 DEF TombsOK, q

\* Sending does not disturb the tombstones.
LEMMA TombsSent ==
  ASSUME NEW k, NEW rt, NEW K, NEW T, NEW n \in Nat, TombsOK(k, rt, K, T, n),
         NEW K2, K \subseteq K2, NEW T2, T \subseteq T2,
         \A e \in T2 \ T : Index(e.serial) = n
  PROVE  TombsOK(k, rt, K2, T2, n + 1)
<1>1. \A s : Past(s, n) => Past(s, n + 1) /\ Index(s) =< n
  BY IndexIs DEF Past
<1>2. ASSUME NEW t, TombOK(k, t, K, T, n) PROVE TombOK(k, t, K2, T2, n + 1)
  <2>1. t.owner = "Physical" => Coming(K2, k, t.release_serial)
    BY <1>2 DEF TombOK, Coming
  <2>2. ASSUME t.owner = "TextInputKeysym"
        PROVE  /\ Past(t.press_serial, n + 1) /\ Past(t.next_press_serial, n + 1)
               /\ \E e \in T2 : e.key = k /\ e.state = "release"
                       /\ Between(e.serial, t.press_serial, t.next_press_serial)
               /\ \A e \in T2 : e.key = k /\ e.state # "release" =>
                         Index(t.next_press_serial) =< Index(e.serial)
    BY <1>1, <1>2, <2>2 DEF TombOK
  <2>. QED BY <2>1, <2>2 DEF TombOK
<1>. QED BY <1>2 DEF TombsOK

\* The generation that the press with this serial opens.
Opened(h, s) ==
  /\ h # None /\ h.physical_state = "Held" /\ h.guest_owner = None
  /\ h.physical_release_serial = None /\ h.peek_press_serial = s /\ h.peek # None

LEMMA PressOK ==
  ASSUME NEW k \in Keys, NEW n \in Nat, NEW m, m = n + 1,
         NEW s \in Serial, Index(s) = n, s # None,
         NEW g \in KeyGeneration \cup {None},
         NEW rt \in Seq(RetiredGuestRelease), NEW K, NEW T, NEW c, NEW gv, NEW ac,
         NEW hd, k \notin hd, NEW hd2, k \in hd2, NEW gv2, k \notin gv2,
         KeyOK(k, g, rt, K, T, hd, c, n, gv, ac),
         Settled(K, k, n), Settled(T, k, n),
         NEW c2, NEW K2, Sent("key", c2, K, K2, k, "press", s),
         NEW T2, Sent("text", c2, T, T2, k, "press", s),
         NEW h, Opened(h, s),
         NEW ac2, k \in ac2 => ~h.peek.eligible,
         NEW rt2, rt2 = RetiredBy(g, rt, s)
  PROVE  KeyOK(k, h, rt2, K2, T2, hd2, c2, m, gv2, ac2)
<1>. DEFINE e == [key |-> k, state |-> "press", serial |-> s]
<1>0. K2 \in {K, K \cup {e}} /\ T2 \in {T, T \cup {e}}
  BY DEF Sent
<1>1. None \notin {"Physical", "TextInputKeysym", "ImeRecovery"}
  BY NoneAssumption DEF GuestKeyOwner
<1>h. /\ h # None /\ h.physical_state = "Held" /\ h.guest_owner = None
      /\ h.physical_release_serial = None /\ h.peek_press_serial = s /\ h.peek # None
  BY DEF Opened
<1>2. OwnerOK(k, h, rt2, K2, T2, c2, n + 1)
  BY <1>1, <1>h DEF OwnerOK
<1>3. SerialsOK(k, h, K2, hd2)
  <2>1. \A x \in K2 : x.key = k => (x.state = "release" /\ x \in K) \/ x = e
    BY <1>0 DEF Settled
  <2>2. e.state = "press" /\ e.serial = s
    OBVIOUS
  <2>. QED BY <1>h, <2>1, <2>2 DEF SerialsOK
<1>4. StrokeOK(k, h, gv2, ac2)
  BY <1>h DEF StrokeOK
<1>5. K \subseteq K2 /\ T \subseteq T2 /\ \A x \in T2 \ T : Index(x.serial) = n
  BY <1>0
<1>6. TombsOK(k, rt, K2, T2, n + 1)
  BY <1>5, TombsSent DEF KeyOK
<1>7. TombsOK(k, rt2, K2, T2, n + 1)
  <2>1. CASE ~(g # None /\ Owned(g))
    BY <2>1, <1>6 DEF RetiredBy
  <2>2. CASE g # None /\ Owned(g)
    <3>. DEFINE t == Tomb(g, s)
    <3>1. /\ g \in KeyGeneration /\ g.physical_state = "Released"
          /\ OwnerOK(k, g, rt, K, T, c, n)
      BY <2>2 DEF KeyOK, SerialsOK, KeyGeneration, PhysicalKeyState
    <3>2. /\ t.owner = g.guest_owner /\ t.press_serial = g.guest_press_serial
          /\ t.next_press_serial = s
          /\ t.owner = "Physical" => t.release_serial = g.physical_release_serial
          /\ t \in RetiredGuestRelease
      BY <2>2, <3>1 DEF Tomb, Owned, RetiredGuestRelease, KeyGeneration
    <3>. HIDE DEF t
    <3>3. TombOK(k, t, K2, T2, n + 1)
      <4>1. t.owner = "Physical" => Coming(K2, k, t.release_serial)
        BY <1>5, <3>1, <3>2 DEF OwnerOK, Coming
      <4>2. ASSUME t.owner = "TextInputKeysym"
            PROVE  /\ Past(t.press_serial, n + 1) /\ Past(t.next_press_serial, n + 1)
                   /\ \E x \in T2 : x.key = k /\ x.state = "release"
                        /\ Between(x.serial, t.press_serial, t.next_press_serial)
                   /\ \A x \in T2 : x.key = k /\ x.state # "release" =>
                         Index(t.next_press_serial) =< Index(x.serial)
        <5>1. Past(g.guest_press_serial, n) /\ EndsAfter(T, k, g.guest_press_serial)
          BY <4>2, <3>1, <3>2 DEF OwnerOK
        <5>2. Past(t.press_serial, n + 1) /\ Past(t.next_press_serial, n + 1)
          BY <5>1, <3>2, IndexIs DEF Past
        <5>3. PICK x \in T : x.key = k /\ x.state = "release"
                             /\ Index(g.guest_press_serial) < Index(x.serial)
          BY <5>1 DEF EndsAfter
        <5>4. x.serial \in Serial /\ Index(x.serial) < n
          BY DEF Settled, KeyEvent
        <5>5. Between(x.serial, t.press_serial, t.next_press_serial)
          BY <5>3, <5>4, <3>2, IndexIs DEF Between
        <5>6. \A y \in T2 : y.key = k /\ y.state # "release" => Index(y.serial) = n
          BY <1>0 DEF Settled
        <5>7. \A y \in T2 : y.key = k /\ y.state # "release" =>
                              Index(t.next_press_serial) =< Index(y.serial)
          BY <5>6, <3>2
        <5>. QED BY <1>5, <5>2, <5>3, <5>5, <5>7
      <4>. QED BY <4>1, <4>2 DEF TombOK
    <3>4. \A i \in 1 .. Len(rt) : Apart(rt[i], t)
      BY <3>1, <3>2 DEF Apart, OwnerOK
    <3>. QED BY <1>6, <2>2, <3>2, <3>3, <3>4, TombAppended DEF t, RetiredBy
  <2>. QED BY <2>1, <2>2
<1>. QED BY <1>h, <1>2, <1>3, <1>4, <1>7 DEF KeyOK

LEMMA RepeatOK ==
  ASSUME NEW k \in Keys, NEW n \in Nat, NEW m, m = n + 1,
         NEW s \in Serial, Index(s) = n, s # None,
         NEW g, NEW rt, NEW K, NEW T, NEW c, NEW gv, NEW ac, NEW hd, k \in hd,
         KeyOK(k, g, rt, K, T, hd, c, n, gv, ac),
         Settled(K, k, n), Settled(T, k, n),
         NEW K2, Sent("key", c, K, K2, k, "repeat", s),
         NEW T2, Sent("text", c, T, T2, k, "repeat", s),
         NEW h, h # None, h.physical_state = g.physical_state,
         h.guest_owner = g.guest_owner, h.guest_press_serial = g.guest_press_serial,
         h.physical_release_serial = g.physical_release_serial, h.peek_press_serial = s,
         h.peek = None <=> g.peek = None,
         h.peek # None => (h.peek.eligible <=> g.peek.eligible)
  PROVE  KeyOK(k, h, rt, K2, T2, hd, c, m, gv, ac)
<1>. DEFINE e == [key |-> k, state |-> "repeat", serial |-> s]
<1>0. K2 \in {K, K \cup {e}} /\ T2 \in {T, T \cup {e}}
  BY DEF Sent
<1>1. K \subseteq K2 /\ T \subseteq T2 /\ \A x \in T2 \ T : Index(x.serial) = n
  BY <1>0
<1>2. TombsOK(k, rt, K2, T2, n + 1)
  BY <1>1, TombsSent DEF KeyOK
<1>3. /\ g # None /\ g.physical_state = "Held" /\ OwnerOK(k, g, rt, K, T, c, n)
      /\ SerialsOK(k, g, K, hd) /\ StrokeOK(k, g, gv, ac)
  BY DEF KeyOK
<1>4. OwnerOK(k, h, rt, K2, T2, c, n + 1)
  <2>1. \A a : Past(a, n) => Past(a, n + 1)
    BY IndexIs DEF Past
  <2>2. \A a : EndsAfter(T, k, a) => EndsAfter(T2, k, a)
    BY <1>1 DEF EndsAfter
  <2>. QED BY <2>1, <2>2, <1>3 DEF OwnerOK
<1>5. SerialsOK(k, h, K2, hd)
  <2>1. \A x \in K2 : x.key = k => x.state # "press"
    BY <1>0 DEF Settled
  <2>. QED BY <2>1, <1>3 DEF SerialsOK
<1>6. StrokeOK(k, h, gv, ac)
  BY <1>3 DEF StrokeOK
<1>. QED BY <1>2, <1>3, <1>4, <1>5, <1>6 DEF KeyOK

LEMMA ReleaseOK ==
  ASSUME NEW k \in Keys, NEW n \in Nat, NEW m, m = n + 1,
         NEW s \in Serial, Index(s) = n, s # None,
         NEW g, NEW rt, NEW K, NEW T, NEW c,
         NEW gv, NEW ac, NEW hd, k \in hd,
         NEW hd2, k \notin hd2,
         KeyOK(k, g, rt, K, T, hd, c, n, gv, ac),
         Settled(K, k, n), Settled(T, k, n),
         NEW K2, Sent("key", c, K, K2, k, "release", s),
         NEW T2, Sent("text", c, T, T2, k, "release", s),
         NEW h, h # None => /\ h.physical_state = "Released"
                            /\ h.guest_owner = g.guest_owner
                            /\ h.guest_press_serial = g.guest_press_serial
                            /\ h.physical_release_serial = s
                            /\ h.peek_press_serial = g.peek_press_serial
  PROVE  KeyOK(k, h, rt, K2, T2, hd2, c, m, gv, ac)
<1>. DEFINE e == [key |-> k, state |-> "release", serial |-> s]
<1>0. /\ K2 = IF "key" \in c THEN K \cup {e} ELSE K
      /\ T2 = IF "text" \in c THEN T \cup {e} ELSE T
  BY DEF Sent
<1>1. K \subseteq K2 /\ T \subseteq T2 /\ \A x \in T2 \ T : Index(x.serial) = n
  BY <1>0
<1>2. TombsOK(k, rt, K2, T2, n + 1)
  BY <1>1, TombsSent DEF KeyOK
<1>3. /\ g # None /\ g.physical_state = "Held" /\ OwnerOK(k, g, rt, K, T, c, n)
      /\ SerialsOK(k, g, K, hd) /\ TombsOK(k, rt, K, T, n)
  BY DEF KeyOK
<1>4. ASSUME h # None PROVE OwnerOK(k, h, rt, K2, T2, c, n + 1)
  <2>1. \A a : Past(a, n) => Past(a, n + 1) /\ Index(a) < n
    BY IndexIs DEF Past
  <2>2. ASSUME h.guest_owner = "Physical"
        PROVE  /\ Coming(K2, k, s)
               /\ \A i \in 1 .. Len(rt) : rt[i].owner = "Physical" =>
                    rt[i].release_serial # s
    <3>1. Coming(K2, k, s)
      BY <1>0, <1>3, <1>4, <2>2 DEF OwnerOK, Coming
    <3>2. \A a : Coming(K, k, a) => Index(a) < n
      BY DEF Coming, Settled
    <3>. QED BY <1>3, <3>1, <3>2 DEF TombsOK, TombOK
  <2>3. ASSUME h.guest_owner = "TextInputKeysym"
        PROVE  /\ Past(h.guest_press_serial, n + 1)
               /\ EndsAfter(T2, k, h.guest_press_serial)
               /\ \A i \in 1 .. Len(rt) : rt[i].owner = "TextInputKeysym" =>
                    Index(rt[i].next_press_serial) =< Index(h.guest_press_serial)
    <3>1. /\ Past(h.guest_press_serial, n)
          /\ "text" \in c \/ EndsAfter(T, k, h.guest_press_serial)
          /\ \A i \in 1 .. Len(rt) : rt[i].owner = "TextInputKeysym" =>
                    Index(rt[i].next_press_serial) =< Index(h.guest_press_serial)
      BY <1>3, <1>4, <2>3 DEF OwnerOK
    <3>2. EndsAfter(T2, k, h.guest_press_serial)
      <4>1. CASE "text" \in c
        <5>1. e \in T2 /\ e.key = k /\ e.state = "release" /\ Index(e.serial) = n
          BY <1>0, <4>1
        <5>. QED BY <5>1, <3>1, <2>1 DEF EndsAfter
      <4>2. CASE "text" \notin c
        BY <1>1, <3>1, <4>2 DEF EndsAfter
      <4>. QED BY <4>1, <4>2
    <3>. QED BY <3>1, <3>2, <2>1
  <2>. QED BY <1>4, <2>2, <2>3 DEF OwnerOK
<1>5. ASSUME h # None PROVE SerialsOK(k, h, K2, hd2)
  <2>1. \A x \in K : x.key = k => x.state = "release" /\ x.serial # None
    BY NoneAssumption DEF Settled, KeyEvent, Serial
  <2>2. \A x \in K2 : x \in K \/ x = e
    BY <1>0
  <2>3. h.peek_press_serial = None => \A x \in K : x.key # k
    BY <1>3, <1>5, <2>1 DEF SerialsOK
  <2>4. e.state = "release" /\ e.serial = s
    OBVIOUS
  <2>. QED BY <1>5, <2>1, <2>2, <2>3, <2>4 DEF SerialsOK
<1>. QED BY <1>2, <1>4, <1>5 DEF KeyOK

LEMMA ReleaseKeysymOK ==
  ASSUME NEW k \in Keys, NEW n \in Nat, NEW m, m = n + 1,
         NEW s \in Serial, Index(s) = n,
         NEW g, NEW rt, NEW K, NEW T, NEW c, "text" \in c,
         NEW gv, NEW ac, NEW hd, k \in hd,
         KeyOK(k, g, rt, K, T, hd, c, n, gv, ac),
         NEW T2, Sent("text", {"text"}, T, T2, k, "release", s)
  PROVE  KeyOK(k, g, rt, K, T2, hd, c \ {"text"}, m, gv, ac)
<1>. DEFINE e == [key |-> k, state |-> "release", serial |-> s]
            c2 == c \ {"text"}
<1>0. T2 = T \cup {e}
  BY DEF Sent
<1>1. T \subseteq T2 /\ \A x \in T2 \ T : Index(x.serial) = n
  BY <1>0
<1>2. TombsOK(k, rt, K, T2, n + 1)
  BY <1>1, TombsSent DEF KeyOK
<1>3. /\ g # None /\ g.physical_state = "Held" /\ OwnerOK(k, g, rt, K, T, c, n)
      /\ SerialsOK(k, g, K, hd) /\ StrokeOK(k, g, gv, ac)
  BY DEF KeyOK
<1>4. OwnerOK(k, g, rt, K, T2, c2, n + 1)
  <2>1. \A a : Past(a, n) => Past(a, n + 1) /\ EndsAfter(T2, k, a)
    <3>1. \A a : Past(a, n) => Past(a, n + 1) /\ Index(a) < n
      BY IndexIs DEF Past
    <3>2. e \in T2 /\ e.key = k /\ e.state = "release" /\ Index(e.serial) = n
      BY <1>0
    <3>. QED BY <3>1, <3>2 DEF EndsAfter
  <2>2. "key" \in c => "key" \in c2
    OBVIOUS
  <2>. QED BY <1>3, <2>1, <2>2 DEF OwnerOK
<1>. QED BY <1>2, <1>3, <1>4 DEF KeyOK

-----------------------------------------------------------------------------
(* An event arrives and leaves its channel.                                *)

\* E2 is E after the arrival of e, which may have been sent only once.
Taken(E, E2, e) == E2 \subseteq E /\ \A x \in E : x # e => x \in E2

\* rt2 is rt without its i-th tombstone.
Without(rt, rt2, i) ==
  /\ Len(rt2) = Len(rt) - 1
  /\ \A j \in 1 .. Len(rt2) : rt2[j] = IF j < i THEN rt[j] ELSE rt[j + 1]

LEMMA WithoutOK ==
  ASSUME NEW k, NEW rt, NEW rt2, NEW i \in 1 .. Len(rt), Len(rt) \in Nat,
         Without(rt, rt2, i), NEW K, NEW T, NEW n, TombsOK(k, rt, K, T, n)
  PROVE  /\ \A j \in 1 .. Len(rt2) : \E m \in 1 .. Len(rt) : m # i /\ rt2[j] = rt[m]
         /\ \A j \in 1 .. Len(rt2) : TombOK(k, rt2[j], K, T, n) /\ Apart(rt[i], rt2[j])
         /\ TombsOK(k, rt2, K, T, n)
<1>. DEFINE f(j) == IF j < i THEN j ELSE j + 1
<1>1. /\ Len(rt) \in Nat /\ Len(rt2) = Len(rt) - 1 /\ i \in Int
      /\ \A j \in 1 .. Len(rt2) : rt2[j] = IF j < i THEN rt[j] ELSE rt[j + 1]
  BY DEF Without
<1>2. \A j \in 1 .. Len(rt2) : f(j) \in 1 .. Len(rt) /\ f(j) # i /\ rt2[j] = rt[f(j)]
  BY <1>1
<1>3. \A j, l \in 1 .. Len(rt2) : j # l => f(j) # f(l)
  BY <1>1
<1>. HIDE DEF f
<1>4. \A j \in 1 .. Len(rt2) : TombOK(k, rt2[j], K, T, n) /\ Apart(rt[i], rt2[j])
  BY <1>2 DEF TombsOK
<1>5. \A j, l \in 1 .. Len(rt2) : j # l => Apart(rt2[j], rt2[l])
  BY <1>2, <1>3 DEF TombsOK
<1>. QED BY <1>2, <1>4, <1>5 DEF TombsOK

\* What the channels still owe the generation and the tombstones.
LEMMA TakenOK ==
  ASSUME NEW k, NEW g, NEW rt, NEW K, NEW T, NEW hd, NEW c, NEW n,
         NEW gv, NEW ac,
         KeyOK(k, g, rt, K, T, hd, c, n, gv, ac),
         NEW K2, K2 \subseteq K, NEW T2, T2 \subseteq T,
         g # None /\ g.guest_owner = "Physical" /\ g.physical_state = "Released" =>
           Coming(K2, k, g.physical_release_serial),
         g # None /\ g.guest_owner = "TextInputKeysym" =>
           \/ g.physical_state = "Held" /\ "text" \in c
           \/ EndsAfter(T2, k, g.guest_press_serial),
         \A i \in 1 .. Len(rt) :
           /\ rt[i].owner = "Physical" => Coming(K2, k, rt[i].release_serial)
           /\ rt[i].owner = "TextInputKeysym" =>
                \E e \in T2 : e.key = k /\ e.state = "release" /\
                  Between(e.serial, rt[i].press_serial, rt[i].next_press_serial)
  PROVE  KeyOK(k, g, rt, K2, T2, hd, c, n, gv, ac)
<1>1. g # None => OwnerOK(k, g, rt, K2, T2, c, n)
  BY DEF KeyOK, OwnerOK
<1>2. g # None => SerialsOK(k, g, K2, hd)
  BY DEF KeyOK, SerialsOK
<1>3. TombsOK(k, rt, K2, T2, n)
  BY DEF KeyOK, TombsOK, TombOK
<1>. QED BY <1>1, <1>2, <1>3 DEF KeyOK

LEMMA StillComing ==
  ASSUME NEW k, NEW K, NEW K2, NEW e, Taken(K, K2, e), NEW s, Coming(K, k, s),
         e.state # "release" \/ e.serial # s
  PROVE  Coming(K2, k, s)
<1>. DEFINE x == [key |-> k, state |-> "release", serial |-> s]
<1>1. x # e
  <2>1. x.state = "release" /\ x.serial = s
    OBVIOUS
  <2>. QED BY <2>1
<1>. QED BY <1>1 DEF Taken, Coming

\* wl_keyboard.key with a release that no retired generation waits for and that
\* is not the generation's own.
LEMMA OtherReleaseOK ==
  ASSUME NEW k, NEW g, NEW rt, NEW K, NEW T, NEW hd, NEW c, NEW n,
         NEW gv, NEW ac,
         KeyOK(k, g, rt, K, T, hd, c, n, gv, ac),
         NEW e, NEW K2, Taken(K, K2, e),
         \/ e.state # "release"
         \/ /\ g # None /\ g.guest_owner = "Physical" =>
                 g.physical_release_serial # e.serial
            /\ \A i \in 1 .. Len(rt) : rt[i].owner = "Physical" =>
                 rt[i].release_serial # e.serial
  PROVE  KeyOK(k, g, rt, K2, T, hd, c, n, gv, ac)
<1>1. K2 \subseteq K /\ T \subseteq T
  BY DEF Taken
<1>2. g # None /\ g.guest_owner = "Physical" /\ g.physical_state = "Released" =>
           Coming(K2, k, g.physical_release_serial)
  BY StillComing DEF KeyOK, OwnerOK
<1>3. g # None /\ g.guest_owner = "TextInputKeysym" =>
           \/ g.physical_state = "Held" /\ "text" \in c
           \/ EndsAfter(T, k, g.guest_press_serial)
  BY DEF KeyOK, OwnerOK
<1>4. \A i \in 1 .. Len(rt) :
           /\ rt[i].owner = "Physical" => Coming(K2, k, rt[i].release_serial)
           /\ rt[i].owner = "TextInputKeysym" =>
                \E x \in T : x.key = k /\ x.state = "release" /\
                  Between(x.serial, rt[i].press_serial, rt[i].next_press_serial)
  BY StillComing DEF KeyOK, TombsOK, TombOK
<1>. QED BY <1>1, <1>2, <1>3, <1>4, TakenOK

\* The release a retired generation waits for.
LEMMA RetiredReleaseOK ==
  ASSUME NEW k, NEW g, NEW rt, NEW K, NEW T, NEW hd, NEW c, NEW n,
         NEW gv, NEW ac,
         KeyOK(k, g, rt, K, T, hd, c, n, gv, ac),
         NEW e, NEW K2, Taken(K, K2, e), e.state = "release",
         Len(rt) \in Nat, NEW i \in 1 .. Len(rt),
         rt[i].owner = "Physical", rt[i].release_serial = e.serial,
         NEW rt2, Without(rt, rt2, i)
  PROVE  KeyOK(k, g, rt2, K2, T, hd, c, n, gv, ac)
<1>1. TombsOK(k, rt, K, T, n)
  BY DEF KeyOK
<1>2. /\ \A j \in 1 .. Len(rt2) : \E m \in 1 .. Len(rt) : m # i /\ rt2[j] = rt[m]
      /\ \A j \in 1 .. Len(rt2) : TombOK(k, rt2[j], K, T, n) /\ Apart(rt[i], rt2[j])
      /\ TombsOK(k, rt2, K, T, n)
  BY <1>1, WithoutOK
<1>3. KeyOK(k, g, rt2, K, T, hd, c, n, gv, ac)
  BY <1>2 DEF KeyOK, OwnerOK
<1>4. \A j \in 1 .. Len(rt2) : rt2[j].owner = "Physical" => rt2[j].release_serial # e.serial
  BY <1>2 DEF Apart
<1>5. g # None /\ g.guest_owner = "Physical" => g.physical_release_serial # e.serial
  BY DEF KeyOK, OwnerOK
<1>. QED BY <1>3, <1>4, <1>5, OtherReleaseOK

\* The generation's own release: what is left of it owes the guest nothing.
LEMMA OwnReleaseOK ==
  ASSUME NEW k, NEW g, NEW rt, NEW K, NEW T, NEW c, NEW n,
         NEW gv, NEW ac, NEW hd, k \notin hd,
         KeyOK(k, g, rt, K, T, hd, c, n, gv, ac),
         NEW e, NEW K2, Taken(K, K2, e),
         \A i \in 1 .. Len(rt) : rt[i].owner = "Physical" =>
           rt[i].release_serial # e.serial,
         NEW h, h # None => /\ g # None /\ h.physical_state = "Released"
                            /\ h.guest_owner \in {None, "ImeRecovery"}
                            /\ h.physical_release_serial = g.physical_release_serial
                            /\ h.peek_press_serial = g.peek_press_serial
  PROVE  KeyOK(k, h, rt, K2, T, hd, c, n, gv, ac)
<1>1. h # None => OwnerOK(k, h, rt, K, T, c, n)
  BY NoneAssumption DEF OwnerOK, GuestKeyOwner
<1>2. h # None => SerialsOK(k, h, K, hd)
  BY DEF KeyOK, SerialsOK
<1>3. KeyOK(k, h, rt, K, T, hd, c, n, gv, ac)
  BY <1>1, <1>2 DEF KeyOK
<1>4. h # None => h.guest_owner # "Physical"
  BY NoneAssumption DEF GuestKeyOwner
<1>. QED BY <1>3, <1>4, OtherReleaseOK

\* The generation of a held key after its press or repeat.
Pressed(g, h) ==
  /\ h # None /\ h.physical_state = g.physical_state
  /\ h.guest_press_serial = g.guest_press_serial
  /\ h.peek_press_serial = g.peek_press_serial
  /\ h.physical_release_serial = g.physical_release_serial
  /\ h.peek = None => g.peek = None
  /\ h.peek # None => g.peek # None /\ (h.peek.eligible => g.peek.eligible)
  /\ \/ h.guest_owner = g.guest_owner
     \/ g.guest_owner = None /\ h.guest_owner \in {"Physical", "ImeRecovery"}

\* wl_keyboard.key with a press or a repeat.
LEMMA PhysicalPressOK ==
  ASSUME NEW k, NEW g, NEW rt, NEW K, NEW T, NEW c, NEW n,
         NEW gv, NEW ac, NEW hd, k \in hd,
         KeyOK(k, g, rt, K, T, hd, c, n, gv, ac), K \subseteq KeyEvent,
         NEW e, NEW K2, Taken(K, K2, e), e.state # "release", "key" \in c,
         NEW h, Pressed(g, h), NEW gv2, k \in gv2 => k \in gv \/ h.guest_owner # None,
         NEW ac2, k \in ac2 => \/ k \in ac \/ h.peek = None
                                     \/ (h.peek # None /\ ~h.peek.eligible)
  PROVE  KeyOK(k, h, rt, K2, T, hd, c, n, gv2, ac2)
<1>1. /\ g # None /\ g.physical_state = "Held" /\ OwnerOK(k, g, rt, K, T, c, n)
      /\ SerialsOK(k, g, K, hd) /\ TombsOK(k, rt, K, T, n) /\ StrokeOK(k, g, gv, ac)
  BY DEF KeyOK
<1>2. None \notin {"Physical", "TextInputKeysym", "ImeRecovery"}
  BY NoneAssumption DEF GuestKeyOwner
<1>h. /\ h # None /\ h.physical_state = g.physical_state
      /\ h.guest_press_serial = g.guest_press_serial
      /\ h.peek_press_serial = g.peek_press_serial
      /\ h.physical_release_serial = g.physical_release_serial
      /\ h.peek = None => g.peek = None
      /\ h.peek # None => g.peek # None /\ (h.peek.eligible => g.peek.eligible)
      /\ \/ h.guest_owner = g.guest_owner
         \/ g.guest_owner = None /\ h.guest_owner \in {"Physical", "ImeRecovery"}
  BY DEF Pressed
<1>3. OwnerOK(k, h, rt, K, T, c, n)
  <2>1. CASE h.guest_owner = g.guest_owner
    BY <1>1, <1>h, <2>1 DEF OwnerOK
  <2>2. CASE h.guest_owner = "Physical"
    <3>1. h.physical_release_serial = None /\ h.physical_state = "Held"
      BY <1>1, <1>h DEF SerialsOK
    <3>2. \A s : Coming(K, k, s) => s # None
      BY NoneAssumption DEF Coming, KeyEvent, Serial
    <3>3. \A i \in 1 .. Len(rt) : rt[i].owner = "Physical" => rt[i].release_serial # None
      BY <1>1, <3>2 DEF TombsOK, TombOK
    <3>. QED BY <2>2, <3>1, <3>3 DEF OwnerOK
  <2>3. CASE h.guest_owner = "ImeRecovery"
    BY <2>3 DEF OwnerOK
  <2>. QED BY <1>h, <2>1, <2>2, <2>3
<1>4. SerialsOK(k, h, K, hd)
  BY <1>1, <1>h DEF SerialsOK
<1>5. StrokeOK(k, h, gv2, ac2)
  BY <1>1, <1>2, <1>h DEF StrokeOK
<1>6. KeyOK(k, h, rt, K, T, hd, c, n, gv2, ac2)
  BY <1>1, <1>h, <1>3, <1>4, <1>5 DEF KeyOK
<1>. QED BY <1>6, OtherReleaseOK

\* keysym events that are no release disturb nothing.
LEMMA TextSeenOK ==
  ASSUME NEW k, NEW g, NEW rt, NEW K, NEW T, NEW hd, NEW c, NEW n,
         NEW gv, NEW ac,
         KeyOK(k, g, rt, K, T, hd, c, n, gv, ac),
         NEW e, NEW T2, Taken(T, T2, e), e.state # "release"
  PROVE  KeyOK(k, g, rt, K, T2, hd, c, n, gv, ac)
<1>1. T2 \subseteq T /\ K \subseteq K /\ \A x \in T : x.state = "release" => x \in T2
  BY DEF Taken
<1>2. g # None /\ g.guest_owner = "Physical" /\ g.physical_state = "Released" =>
           Coming(K, k, g.physical_release_serial)
  BY DEF KeyOK, OwnerOK
<1>3. g # None /\ g.guest_owner = "TextInputKeysym" =>
           \/ g.physical_state = "Held" /\ "text" \in c
           \/ EndsAfter(T2, k, g.guest_press_serial)
  BY <1>1 DEF KeyOK, OwnerOK, EndsAfter
<1>4. \A i \in 1 .. Len(rt) :
           /\ rt[i].owner = "Physical" => Coming(K, k, rt[i].release_serial)
           /\ rt[i].owner = "TextInputKeysym" =>
                \E x \in T2 : x.key = k /\ x.state = "release" /\
                  Between(x.serial, rt[i].press_serial, rt[i].next_press_serial)
  BY <1>1 DEF KeyOK, TombsOK, TombOK
<1>. QED BY <1>1, <1>2, <1>3, <1>4, TakenOK

\* A keysym press gives the generation to the text input.
LEMMA TextPressOK ==
  ASSUME NEW k, NEW g, NEW rt, NEW K, NEW T, NEW c, NEW n,
         NEW gv, NEW ac, NEW hd, k \in hd,
         KeyOK(k, g, rt, K, T, hd, c, n, gv, ac),
         NEW e \in T, e.key = k, e.state = "press", Past(e.serial, n), "text" \in c,
         NEW T2, Taken(T, T2, e),
         g.guest_owner = None, g.peek # None /\ g.peek.eligible,
         NEW h, h # None, h.physical_state = g.physical_state,
         h.guest_owner = "TextInputKeysym", h.guest_press_serial = e.serial,
         h.peek_press_serial = g.peek_press_serial,
         h.physical_release_serial = g.physical_release_serial,
         h.peek = g.peek, NEW gv2
  PROVE  KeyOK(k, h, rt, K, T2, hd, c, n, gv2, ac) /\ k \notin ac
<1>1. /\ g # None /\ g.physical_state = "Held"
      /\ SerialsOK(k, g, K, hd) /\ TombsOK(k, rt, K, T, n) /\ StrokeOK(k, g, gv, ac)
  BY DEF KeyOK
<1>2. None \notin {"Physical", "TextInputKeysym", "ImeRecovery"}
  BY NoneAssumption DEF GuestKeyOwner
<1>3. OwnerOK(k, h, rt, K, T, c, n)
  <2>1. \A i \in 1 .. Len(rt) : rt[i].owner = "TextInputKeysym" =>
            Index(rt[i].next_press_serial) =< Index(e.serial)
    BY <1>1 DEF TombsOK, TombOK
  <2>. QED BY <1>1, <2>1 DEF OwnerOK
<1>4. SerialsOK(k, h, K, hd)
  BY <1>1 DEF SerialsOK
<1>5. k \notin ac
  BY <1>1, <1>2 DEF StrokeOK
<1>6. StrokeOK(k, h, gv2, ac)
  BY <1>1, <1>2, <1>5 DEF StrokeOK
<1>7. KeyOK(k, h, rt, K, T, hd, c, n, gv2, ac)
  BY <1>1, <1>3, <1>4, <1>6 DEF KeyOK
<1>. QED BY <1>5, <1>7, TextSeenOK

\* A keysym release no tombstone and no generation takes.
LEMMA OtherKeysymOK ==
  ASSUME NEW k, NEW g, NEW rt, NEW K, NEW T, NEW hd, NEW c, NEW n,
         NEW gv, NEW ac,
         KeyOK(k, g, rt, K, T, hd, c, n, gv, ac),
         NEW e, NEW T2, Taken(T, T2, e),
         g # None /\ g.guest_owner = "TextInputKeysym" =>
           ~(Index(g.guest_press_serial) < Index(e.serial)),
         \A i \in 1 .. Len(rt) : rt[i].owner = "TextInputKeysym" =>
           ~Between(e.serial, rt[i].press_serial, rt[i].next_press_serial)
  PROVE  KeyOK(k, g, rt, K, T2, hd, c, n, gv, ac)
<1>1. T2 \subseteq T /\ K \subseteq K /\ \A x \in T : x # e => x \in T2
  BY DEF Taken
<1>2. g # None /\ g.guest_owner = "Physical" /\ g.physical_state = "Released" =>
           Coming(K, k, g.physical_release_serial)
  BY DEF KeyOK, OwnerOK
<1>3. g # None /\ g.guest_owner = "TextInputKeysym" =>
           \/ g.physical_state = "Held" /\ "text" \in c
           \/ EndsAfter(T2, k, g.guest_press_serial)
  BY <1>1 DEF KeyOK, OwnerOK, EndsAfter
<1>4. \A i \in 1 .. Len(rt) :
           /\ rt[i].owner = "Physical" => Coming(K, k, rt[i].release_serial)
           /\ rt[i].owner = "TextInputKeysym" =>
                \E x \in T2 : x.key = k /\ x.state = "release" /\
                  Between(x.serial, rt[i].press_serial, rt[i].next_press_serial)
  BY <1>1 DEF KeyOK, TombsOK, TombOK
<1>. QED BY <1>1, <1>2, <1>3, <1>4, TakenOK

\* The keysym release a retired generation waits for.
LEMMA RetiredKeysymOK ==
  ASSUME NEW k, NEW g, NEW rt, NEW K, NEW T, NEW hd, NEW c, NEW n,
         NEW gv, NEW ac,
         KeyOK(k, g, rt, K, T, hd, c, n, gv, ac),
         NEW e, e.serial \in Serial, NEW T2, Taken(T, T2, e),
         Len(rt) \in Nat, NEW i \in 1 .. Len(rt), rt[i].owner = "TextInputKeysym",
         Between(e.serial, rt[i].press_serial, rt[i].next_press_serial),
         NEW rt2, Without(rt, rt2, i)
  PROVE  KeyOK(k, g, rt2, K, T2, hd, c, n, gv, ac)
<1>1. TombsOK(k, rt, K, T, n)
  BY DEF KeyOK
<1>2. /\ \A j \in 1 .. Len(rt2) : \E m \in 1 .. Len(rt) : m # i /\ rt2[j] = rt[m]
      /\ \A j \in 1 .. Len(rt2) : TombOK(k, rt2[j], K, T, n) /\ Apart(rt[i], rt2[j])
      /\ TombsOK(k, rt2, K, T, n)
  BY <1>1, WithoutOK
<1>3. KeyOK(k, g, rt2, K, T, hd, c, n, gv, ac)
  BY <1>2 DEF KeyOK, OwnerOK
<1>4. /\ Past(rt[i].press_serial, n) /\ Past(rt[i].next_press_serial, n)
      /\ Index(rt[i].press_serial) \in Int /\ Index(rt[i].next_press_serial) \in Int
      /\ Index(e.serial) \in Int
  <2>1. Past(rt[i].press_serial, n) /\ Past(rt[i].next_press_serial, n)
    BY <1>1 DEF TombsOK, TombOK
  <2>. QED BY <2>1, IndexIs DEF Past
<1>5. ASSUME NEW j \in 1 .. Len(rt2), rt2[j].owner = "TextInputKeysym"
      PROVE  ~Between(e.serial, rt2[j].press_serial, rt2[j].next_press_serial)
  <2>1. /\ Index(rt2[j].press_serial) \in Int /\ Index(rt2[j].next_press_serial) \in Int
        /\ Apart(rt[i], rt2[j])
    BY <1>2, <1>5, IndexIs DEF TombOK, Past
  <2>. QED BY <1>4, <1>5, <2>1 DEF Apart, Between
<1>6. g # None /\ g.guest_owner = "TextInputKeysym" =>
           ~(Index(g.guest_press_serial) < Index(e.serial))
  <2>1. SUFFICES ASSUME g # None, g.guest_owner = "TextInputKeysym"
                 PROVE  ~(Index(g.guest_press_serial) < Index(e.serial))
    OBVIOUS
  <2>2. /\ Index(g.guest_press_serial) \in Int
        /\ Index(rt[i].next_press_serial) =< Index(g.guest_press_serial)
    BY <2>1, IndexIs DEF KeyOK, OwnerOK, Past
  <2>. QED BY <1>4, <2>2 DEF Between
<1>. QED BY <1>3, <1>5, <1>6, OtherKeysymOK

\* The guest has had the keystroke: by its keysym release or by recovery.
LEMMA RecoveredOK ==
  ASSUME NEW k, NEW g, NEW rt, NEW K, NEW T, NEW hd, NEW c, NEW n,
         NEW gv, NEW ac,
         KeyOK(k, g, rt, K, T, hd, c, n, gv, ac), g # None,
         g.guest_owner \in {"TextInputKeysym", None},
         NEW h, h # None, h.physical_state = g.physical_state,
         h.guest_owner = "ImeRecovery", h.guest_press_serial = g.guest_press_serial,
         h.peek_press_serial = g.peek_press_serial,
         h.physical_release_serial = g.physical_release_serial,
         h.peek = g.peek, NEW gv2
  PROVE  KeyOK(k, h, rt, K, T, hd, c, n, gv2, ac)
<1>1. None \notin {"Physical", "TextInputKeysym", "ImeRecovery"}
  BY NoneAssumption DEF GuestKeyOwner
<1>2. OwnerOK(k, h, rt, K, T, c, n)
  BY <1>1 DEF OwnerOK
<1>3. SerialsOK(k, h, K, hd)
  BY DEF KeyOK, SerialsOK
<1>4. k \in hd => h.physical_state = "Held" /\ StrokeOK(k, h, gv2, ac)
  BY <1>1 DEF KeyOK, StrokeOK
<1>. QED BY <1>2, <1>3, <1>4 DEF KeyOK

-----------------------------------------------------------------------------
(* What each registry operation does to the generations, key by key.       *)

LooseAt(r, s, k) == s.retired[k] = r.retired[k] /\ Loose(r.entries[k], s.entries[k])
LooseAll(r, s) == \A k \in Keys : LooseAt(r, s, k)
LooseBut(r, s, key) == \A k \in Keys \ {key} : LooseAt(r, s, k)

\* Only the generation of key changes, to g.
Sets(r, s, key, g) ==
  /\ s.retired = r.retired /\ s.entries[key] = g
  /\ \A k \in Keys \ {key} : s.entries[k] = r.entries[k]

LEMMA LooseAllSelf == \A r : LooseAll(r, r)
BY LooseSelf DEF LooseAll, LooseAt

LEMMA LooseAllTrans ==
  ASSUME NEW q, NEW r, NEW s, LooseAll(q, r), LooseAll(r, s) PROVE LooseAll(q, s)
BY LooseTrans DEF LooseAll, LooseAt

LEMMA LooseButTrans ==
  ASSUME NEW q, NEW r, NEW s, NEW key, LooseBut(q, r, key), LooseBut(r, s, key)
  PROVE  LooseBut(q, s, key)
BY LooseTrans DEF LooseBut, LooseAt

LEMMA LooseAllBut ==
  ASSUME NEW r, NEW s, NEW key, LooseAll(r, s) PROVE LooseBut(r, s, key)
BY DEF LooseAll, LooseBut

LEMMA SetsLoose ==
  ASSUME NEW r, NEW s, NEW key, NEW g, Sets(r, s, key, g)
  PROVE  LooseBut(r, s, key) /\ (Loose(r.entries[key], g) => LooseAll(r, s))
BY LooseSelf DEF Sets, LooseBut, LooseAll, LooseAt

LEMMA SetsIs ==
  ASSUME NEW r, Good(r), NEW key \in Keys, NEW g, NEW s, s.retired = r.retired,
         s.entries = [r.entries EXCEPT ![key] = g]
  PROVE  Sets(r, s, key, g)
BY DEF Sets, Good, Registry

LEMMA EntryIs ==
  ASSUME NEW r, Good(r), NEW key \in Keys
  PROVE  /\ r.entries[key] \in KeyGeneration \cup {None}
         /\ r.entries[key] # None => r.entries[key] \in KeyGeneration /\ EntryOK(r.entries[key])
         /\ r.retired[key] \in Seq(RetiredGuestRelease)
BY DEF Good, Registry

\* A change of the marks alone.
LEMMA MarksLoose ==
  ASSUME NEW g \in KeyGeneration, NEW h \in KeyGeneration,
         h.physical_state = g.physical_state, h.guest_owner = g.guest_owner,
         h.guest_press_serial = g.guest_press_serial,
         h.peek_press_serial = g.peek_press_serial,
         h.physical_release_serial = g.physical_release_serial, h.peek = g.peek
  PROVE  Loose(g, h) /\ h # None /\ g # None
BY NoneAssumption DEF Loose

LEMMA PruneLoose ==
  ASSUME NEW r, Good(r), NEW keys
  PROVE  /\ LooseAll(r, PruneKeys(r, keys))
         /\ \A k \in Keys : \/ PruneKeys(r, keys).entries[k] = r.entries[k]
                            \/ PruneKeys(r, keys).entries[k] = None
<1>. DEFINE s == PruneKeys(r, keys)
<1>1. s.retired = r.retired /\ \A k \in Keys : s.entries[k] =
           IF k \in keys /\ r.entries[k] # None /\ IsUnreferenced(r.entries[k])
           THEN None ELSE r.entries[k]
  BY DEF PruneKeys, Good, Registry
<1>. HIDE DEF s
<1>2. \A g : IsUnreferenced(g) => Loose(g, None)
  BY DEF IsUnreferenced, Loose
<1>3. LooseAll(r, s)
  BY <1>1, <1>2, LooseSelf DEF LooseAll, LooseAt
<1>. QED BY <1>1, <1>3 DEF s

LEMMA CancelRepeatLoose ==
  ASSUME NEW r, Good(r) PROVE LooseAll(r, CancelRepeat(r))
<1>1. CASE ~Held(r, Backspace)
  BY <1>1, LooseAllSelf DEF CancelRepeat
<1>2. CASE Held(r, Backspace)
  <2>. DEFINE e == r.entries[Backspace]
              g == [e EXCEPT !.backspace_repeat_cancelled = TRUE, !.ime_repeat = FALSE]
              s == CancelRepeat(r)
  <2>1. e # None
    BY <1>2 DEF Held, Gen, NewGeneration
  <2>2. e \in KeyGeneration
    BY <2>1, EntryIs, BackspaceAssumption
  <2>3. /\ g \in KeyGeneration
        /\ g.physical_state = e.physical_state /\ g.guest_owner = e.guest_owner
        /\ g.guest_press_serial = e.guest_press_serial
        /\ g.peek_press_serial = e.peek_press_serial
        /\ g.physical_release_serial = e.physical_release_serial /\ g.peek = e.peek
    BY <2>2 DEF KeyGeneration
  <2>4. s = [r EXCEPT !.entries = [@ EXCEPT ![Backspace] = g]]
    BY <1>2 DEF CancelRepeat
  <2>. HIDE DEF g, s
  <2>5. Loose(e, g)
    BY <2>2, <2>3, MarksLoose
  <2>6. s.retired = r.retired /\ s.entries = [r.entries EXCEPT ![Backspace] = g]
    BY <2>4 DEF Good, Registry
  <2>7. Sets(r, s, Backspace, g)
    BY <2>6, SetsIs, BackspaceAssumption
  <2>. QED BY <2>5, <2>7, SetsLoose DEF s
<1>. QED BY <1>1, <1>2

LEMMA EndRepeatLoose ==
  ASSUME NEW r, Good(r) PROVE LooseAll(r, EndRepeat(r))
BY CancelRepeatLoose, LooseAllSelf DEF EndRepeat

LEMMA ArmImeRepeatLoose ==
  ASSUME NEW r, Good(r), NEW key \in Keys PROVE LooseAll(r, ArmImeRepeat(r, key))
<1>1. CASE ~(Held(r, key) /\ ~r.entries[key].backspace_repeat_cancelled)
  BY <1>1, LooseAllSelf DEF ArmImeRepeat
<1>2. CASE Held(r, key) /\ ~r.entries[key].backspace_repeat_cancelled
  <2>. DEFINE e == r.entries[key]
              g == [e EXCEPT !.ime_repeat = TRUE]
              s == ArmImeRepeat(r, key)
  <2>1. e # None
    BY <1>2 DEF Held, Gen, NewGeneration
  <2>2. e \in KeyGeneration
    BY <2>1, EntryIs
  <2>3. /\ g \in KeyGeneration
        /\ g.physical_state = e.physical_state /\ g.guest_owner = e.guest_owner
        /\ g.guest_press_serial = e.guest_press_serial
        /\ g.peek_press_serial = e.peek_press_serial
        /\ g.physical_release_serial = e.physical_release_serial /\ g.peek = e.peek
    BY <2>2 DEF KeyGeneration
  <2>4. s = [r EXCEPT !.entries = [@ EXCEPT ![key] = g]]
    BY <1>2 DEF ArmImeRepeat
  <2>. HIDE DEF g, s
  <2>5. Loose(e, g)
    BY <2>2, <2>3, MarksLoose
  <2>6. s.retired = r.retired /\ s.entries = [r.entries EXCEPT ![key] = g]
    BY <2>4 DEF Good, Registry
  <2>7. Sets(r, s, key, g)
    BY <2>6, SetsIs
  <2>. QED BY <2>5, <2>7, SetsLoose DEF s
<1>. QED BY <1>1, <1>2

LEMMA ClearSuppressionsLoose ==
  ASSUME NEW r, Good(r) PROVE LooseAll(r, ClearSuppressions(r))
<1>. DEFINE f(g) == [g EXCEPT !.host_accelerator_suppressed = FALSE]
            s == [r EXCEPT !.entries = [k \in Keys |-> IF r.entries[k] = None THEN None
                                                       ELSE f(r.entries[k])]]
<1>1. \A g \in KeyGeneration :
        /\ f(g) \in KeyGeneration
        /\ f(g).physical_state = g.physical_state /\ f(g).guest_owner = g.guest_owner
        /\ f(g).guest_press_serial = g.guest_press_serial
        /\ f(g).peek_press_serial = g.peek_press_serial
        /\ f(g).physical_release_serial = g.physical_release_serial /\ f(g).peek = g.peek
        /\ EntryOK(g) => EntryOK(f(g))
  BY DEF KeyGeneration, EntryOK, Owned
<1>2. s \in Registry /\ s.retired = r.retired
      /\ \A k \in Keys : s.entries[k] = IF r.entries[k] = None THEN None
                                        ELSE f(r.entries[k])
  <2>. HIDE DEF f
  <2>. QED BY <1>1 DEF Good, Registry
<1>3. ClearSuppressions(r) = PruneKeys(s, Keys)
  BY DEF ClearSuppressions
<1>. HIDE DEF s, f
<1>4. \A k \in Keys : r.entries[k] # None =>
        s.entries[k] # None /\ EntryOK(s.entries[k]) /\ Loose(r.entries[k], s.entries[k])
  BY <1>1, <1>2, EntryIs, MarksLoose
<1>5. Good(s)
  BY <1>2, <1>4 DEF Good
<1>6. LooseAll(r, s)
  BY <1>2, <1>4, LooseSelf DEF LooseAll, LooseAt
<1>. QED BY <1>3, <1>5, <1>6, PruneLoose, LooseAllTrans

LEMMA TakeSuppressionLoose ==
  ASSUME NEW r, Good(r), NEW key \in Keys PROVE LooseAll(r, TakeSuppression(r, key))
<1>1. CASE r.entries[key] = None
  BY <1>1, LooseAllSelf DEF TakeSuppression
<1>2. CASE r.entries[key] # None
  <2>. DEFINE e == r.entries[key]
              g == [e EXCEPT !.host_accelerator_suppressed = FALSE]
              s == [r EXCEPT !.entries = [@ EXCEPT ![key] = g]]
  <2>2. e \in KeyGeneration /\ EntryOK(e)
    BY <1>2, EntryIs
  <2>3. /\ g \in KeyGeneration
        /\ g.physical_state = e.physical_state /\ g.guest_owner = e.guest_owner
        /\ g.guest_press_serial = e.guest_press_serial
        /\ g.peek_press_serial = e.peek_press_serial
        /\ g.physical_release_serial = e.physical_release_serial /\ g.peek = e.peek
        /\ EntryOK(g)
    BY <2>2 DEF KeyGeneration, EntryOK, Owned
  <2>4. TakeSuppression(r, key) = PruneKeys(s, {key})
    BY <1>2 DEF TakeSuppression
  <2>. HIDE DEF g
  <2>5. Loose(e, g)
    BY <2>2, <2>3, MarksLoose
  <2>6. /\ s.retired = r.retired /\ s.entries = [r.entries EXCEPT ![key] = g]
        /\ Keeps(r, s)
    BY <1>2, <2>2, <2>3, FieldsOnly DEF Good, Registry
  <2>. HIDE DEF s
  <2>7. Sets(r, s, key, g)
    BY <2>6, SetsIs
  <2>8. LooseAll(r, s) /\ Good(s)
    BY <2>5, <2>6, <2>7, SetsLoose DEF Keeps
  <2>. QED BY <2>4, <2>8, PruneLoose, LooseAllTrans
<1>. QED BY <1>1, <1>2

\* The peek of key is withdrawn and everything else of it stays.
LEMMA InvalidatePeekLoose ==
  ASSUME NEW r, Good(r), NEW key \in Keys
  PROVE  /\ LooseAll(r, InvalidatePeek(r, key))
         /\ InvalidatePeek(r, key).entries[key] # None =>
              \/ InvalidatePeek(r, key).entries[key].peek = None
              \/ /\ InvalidatePeek(r, key).entries[key].peek # None
                 /\ ~InvalidatePeek(r, key).entries[key].peek.eligible
<1>1. CASE Peek(r, key) = None
  BY <1>1, LooseAllSelf DEF InvalidatePeek, Peek, Gen
<1>2. CASE Peek(r, key) # None
  <2>. DEFINE e == r.entries[key]
              p == [e.peek EXCEPT !.eligible = FALSE]
              g == [e EXCEPT !.peek = p]
              s == InvalidatePeek(r, key)
  <2>1. e # None /\ e.peek # None
    BY <1>2 DEF Peek, Gen, NewGeneration
  <2>2. e \in KeyGeneration /\ e.peek \in PeekKeyProvenance
    BY <2>1, EntryIs DEF KeyGeneration
  <2>3. p \in PeekKeyProvenance /\ p.serial = e.peek.serial /\ p.eligible = FALSE
    BY <2>2 DEF PeekKeyProvenance
  <2>. HIDE DEF p
  <2>4. p # None
    BY <2>3, NoneAssumption
  <2>5. /\ g \in KeyGeneration /\ g.peek = p
        /\ g.physical_state = e.physical_state /\ g.guest_owner = e.guest_owner
        /\ g.guest_press_serial = e.guest_press_serial
        /\ g.peek_press_serial = e.peek_press_serial
        /\ g.physical_release_serial = e.physical_release_serial
    BY <2>2, <2>3 DEF KeyGeneration
  <2>6. s = [r EXCEPT !.entries = [@ EXCEPT ![key] = g]]
    BY <1>2 DEF InvalidatePeek, p
  <2>. HIDE DEF g, s
  <2>7. g # None
    BY <2>5, NoneAssumption
  <2>8. Loose(e, g)
    BY <2>1, <2>3, <2>4, <2>5, <2>7 DEF Loose
  <2>9. s.retired = r.retired /\ s.entries = [r.entries EXCEPT ![key] = g]
    BY <2>6 DEF Good, Registry
  <2>10. Sets(r, s, key, g)
    BY <2>9, SetsIs
  <2>11. LooseAll(r, s) /\ s.entries[key] = g
    BY <2>8, <2>10, SetsLoose DEF Sets
  <2>. QED BY <2>3, <2>4, <2>5, <2>11 DEF s
<1>. QED BY <1>1, <1>2

LEMMA EnsureSets ==
  ASSUME NEW r, Good(r), NEW key \in Keys
  PROVE  \E g : /\ Sets(r, Ensure(r, key), key, g)
                /\ r.entries[key] # None => g = r.entries[key]
                /\ r.entries[key] = None => \E id \in Nat : g = NewGeneration(id)
<1>1. CASE r.entries[key] # None
  BY <1>1 DEF Ensure, Sets
<1>2. CASE r.entries[key] = None
  <2>. DEFINE g == NewGeneration(r.next + 1)
              s == Ensure(r, key)
  <2>1. r.next + 1 \in Nat
    BY DEF Good, Registry
  <2>. HIDE DEF g
  <2>2. s = [r EXCEPT !.next = @ + 1, !.entries[key] = g]
    BY <1>2 DEF Ensure, g
  <2>. HIDE DEF s
  <2>3. s.retired = r.retired /\ s.entries = [r.entries EXCEPT ![key] = g]
    BY <2>2 DEF Good, Registry
  <2>4. Sets(r, s, key, g)
    BY <2>3, SetsIs
  <2>. QED BY <2>1, <2>4, <1>2 DEF s, g
<1>. QED BY <1>1, <1>2

\* The tombstones of key after its generation is retired.
TombsAfter(r, key, next) ==
  IF Released(r, key) /\ Forwarded(r, key)
  THEN r.retired[key] \o <<Tomb(r.entries[key], next)>> ELSE r.retired[key]

LEMMA RetireReleasedSets ==
  ASSUME NEW r, Good(r), NEW key \in Keys, NEW next
  PROVE  /\ RetireReleased(r, key, next).retired[key] = TombsAfter(r, key, next)
         /\ RetireReleased(r, key, next).entries[key]
              = IF Released(r, key) THEN None ELSE r.entries[key]
         /\ \A k \in Keys \ {key} :
              /\ RetireReleased(r, key, next).entries[k] = r.entries[k]
              /\ RetireReleased(r, key, next).retired[k] = r.retired[k]
<1>1. CASE ~Released(r, key)
  BY <1>1 DEF RetireReleased, TombsAfter
<1>2. CASE Released(r, key)
  <2>. DEFINE g == Gen(r, key)
              tomb(rel) == [owner |-> g.guest_owner, press_serial |-> g.guest_press_serial,
                            release_serial |-> rel, next_press_serial |-> next]
              tombs == CASE g.guest_owner = "Physical"
                              /\ g.physical_release_serial # None ->
                              <<tomb(g.physical_release_serial)>>
                         [] g.guest_owner = "TextInputKeysym"
                              /\ g.guest_press_serial # None -> <<tomb(None)>>
                         [] OTHER -> <<>>
              s == RetireReleased(r, key, next)
  <2>1. g \in KeyGeneration /\ EntryOK(g) /\ g.physical_state = "Released"
    BY <1>2, GenIs DEF Released
  <2>2. r.entries[key] # None /\ g = r.entries[key]
    BY <1>2 DEF Released, Gen, NewGeneration
  <2>3. tombs = IF Forwarded(r, key) THEN <<Tomb(g, next)>> ELSE <<>>
    <3>1. CASE g.guest_owner = "Physical"
      <4>1. tombs = <<tomb(g.physical_release_serial)>>
        BY <3>1, <2>1 DEF EntryOK
      <4>2. tomb(g.physical_release_serial) = Tomb(g, next)
        BY <3>1 DEF Tomb
      <4>3. Forwarded(r, key)
        BY <3>1 DEF Forwarded, GuestOwner
      <4>. QED BY <4>1, <4>2, <4>3
    <3>2. CASE g.guest_owner = "TextInputKeysym"
      <4>1. tombs = <<tomb(None)>>
        BY <3>2, <2>1 DEF EntryOK
      <4>2. tomb(None) = Tomb(g, next)
        BY <3>2 DEF Tomb
      <4>3. Forwarded(r, key)
        BY <3>2 DEF Forwarded, GuestOwner
      <4>. QED BY <4>1, <4>2, <4>3
    <3>3. CASE g.guest_owner \notin {"Physical", "TextInputKeysym"}
      <4>1. tombs = <<>> /\ ~Forwarded(r, key)
        BY <3>3 DEF Forwarded, GuestOwner
      <4>. QED BY <4>1
    <3>. QED BY <3>1, <3>2, <3>3
  <2>4. s = [RemoveEntry(r, key) EXCEPT !.retired[key] = @ \o tombs]
    BY <1>2 DEF RetireReleased
  <2>. HIDE DEF tombs, s, g
  <2>5. /\ s.entries = [r.entries EXCEPT ![key] = None]
        /\ s.retired = [r.retired EXCEPT ![key] = r.retired[key] \o tombs]
    BY <2>4 DEF RemoveEntry, Good, Registry
  <2>6. r.retired[key] \in Seq(RetiredGuestRelease)
    BY EntryIs
  <2>7. /\ s.entries[key] = None /\ s.retired[key] = r.retired[key] \o tombs
        /\ \A k \in Keys \ {key} : s.entries[k] = r.entries[k] /\ s.retired[k] = r.retired[k]
    BY <2>5 DEF Good, Registry
  <2>8. r.retired[key] \o <<>> = r.retired[key]
    BY <2>6
  <2>9. s.retired[key] = TombsAfter(r, key, next)
    BY <1>2, <2>2, <2>3, <2>7, <2>8 DEF TombsAfter
  <2>. QED BY <1>2, <2>7, <2>9 DEF s
<1>. QED BY <1>1, <1>2

\* A generation no channel knows of but the one that announced its press.
Fresh(g) ==
  /\ g # None /\ g.physical_state = "Held" /\ g.guest_owner = None
  /\ g.physical_release_serial = None /\ g.peek_press_serial = None /\ g.peek = None

\* g is held from now on.
HeldFrom(g, h) ==
  /\ h # None /\ h.physical_state = "Held" /\ h.guest_owner = g.guest_owner
  /\ h.guest_press_serial = g.guest_press_serial
  /\ h.peek_press_serial = g.peek_press_serial
  /\ h.physical_release_serial = g.physical_release_serial /\ h.peek = g.peek

LEMMA ObservePressSets ==
  ASSUME NEW r, Good(r), NEW key \in Keys, NEW next \in Serial \cup {None}
  PROVE  /\ ObservePress(r, key, next).retired[key] = TombsAfter(r, key, next)
         /\ IF r.entries[key] = None \/ Released(r, key)
            THEN Fresh(ObservePress(r, key, next).entries[key])
            ELSE HeldFrom(r.entries[key], ObservePress(r, key, next).entries[key])
         /\ LooseBut(r, ObservePress(r, key, next), key)
<1>. DEFINE a == RetireReleased(r, key, next)
            b == Ensure(a, key)
            s == ObservePress(r, key, next)
<1>1. Good(a)
  BY RetireReleasedIs DEF Keeps
<1>2. /\ a.retired[key] = TombsAfter(r, key, next)
      /\ a.entries[key] = IF Released(r, key) THEN None ELSE r.entries[key]
      /\ \A k \in Keys \ {key} : a.entries[k] = r.entries[k] /\ a.retired[k] = r.retired[k]
  BY RetireReleasedSets
<1>. HIDE DEF a
<1>3. Good(b)
  BY <1>1, EnsureIs DEF Keeps
<1>4. PICK g : /\ Sets(a, b, key, g)
               /\ a.entries[key] # None => g = a.entries[key]
               /\ a.entries[key] = None => \E id \in Nat : g = NewGeneration(id)
  BY <1>1, EnsureSets
<1>5. s = [b EXCEPT !.entries[key].physical_state = "Held"]
  BY DEF ObservePress, a
<1>. HIDE DEF b, s
<1>6. b.entries[key] = g /\ g # None /\ g \in KeyGeneration
  <2>1. g # None
    BY <1>4, NewIs
  <2>. QED BY <2>1, <1>3, <1>4, EntryIs DEF Sets
<1>. DEFINE h == [g EXCEPT !.physical_state = "Held"]
<1>7. /\ h \in KeyGeneration /\ h.physical_state = "Held" /\ h.guest_owner = g.guest_owner
      /\ h.guest_press_serial = g.guest_press_serial
      /\ h.peek_press_serial = g.peek_press_serial
      /\ h.physical_release_serial = g.physical_release_serial /\ h.peek = g.peek
  BY <1>6 DEF KeyGeneration, PhysicalKeyState
<1>8. s.retired = b.retired /\ s.entries = [b.entries EXCEPT ![key] = h]
  BY <1>5, <1>6 DEF Good, Registry
<1>. HIDE DEF h
<1>9. HeldFrom(g, h)
  BY <1>7, NoneAssumption DEF HeldFrom
<1>10. Sets(b, s, key, h)
  BY <1>3, <1>8, SetsIs
<1>11. s.retired[key] = TombsAfter(r, key, next) /\ s.entries[key] = h
  BY <1>2, <1>4, <1>10 DEF Sets
<1>12. LooseBut(r, s, key)
  <2>1. \A k \in Keys \ {key} : s.entries[k] = r.entries[k] /\ s.retired[k] = r.retired[k]
    BY <1>2, <1>4, <1>10 DEF Sets
  <2>. QED BY <2>1, LooseSelf DEF LooseBut, LooseAt
<1>13. IF r.entries[key] = None \/ Released(r, key) THEN Fresh(h)
       ELSE HeldFrom(r.entries[key], h)
  <2>1. CASE r.entries[key] = None \/ Released(r, key)
    <3>1. \E id \in Nat : g = NewGeneration(id)
      BY <2>1, <1>2, <1>4
    <3>. QED BY <2>1, <3>1, <1>9 DEF Fresh, HeldFrom, NewGeneration
  <2>2. CASE ~(r.entries[key] = None \/ Released(r, key))
    BY <2>2, <1>2, <1>4, <1>9
  <2>. QED BY <2>1, <2>2
<1>. QED BY <1>11, <1>12, <1>13 DEF s

\* The generation after its press is announced with this serial.
Announced(h, serial, eligible, new) ==
  /\ h # None /\ h.physical_state = "Held" /\ h.peek_press_serial = serial
  /\ h.peek # None /\ h.peek.serial = serial /\ (h.peek.eligible => eligible)
  /\ new => h.guest_owner = None /\ h.physical_release_serial = None

LEMMA ObservePeekPressSets ==
  ASSUME NEW r, Good(r), NEW key \in Keys, NEW serial \in Serial, NEW eligible \in BOOLEAN,
         ~Held(r, key)
  PROVE  /\ ObservePeekPress(r, key, serial, eligible).retired[key]
              = TombsAfter(r, key, serial)
         /\ Announced(ObservePeekPress(r, key, serial, eligible).entries[key], serial,
                      eligible, r.entries[key] = None \/ Released(r, key))
         /\ LooseBut(r, ObservePeekPress(r, key, serial, eligible), key)
<1>. DEFINE a == ObservePress(r, key, serial)
            new == r.entries[key] = None \/ Released(r, key)
            s == ObservePeekPress(r, key, serial, eligible)
<1>1. /\ Good(a) /\ a.retired[key] = TombsAfter(r, key, serial)
      /\ IF new THEN Fresh(a.entries[key]) ELSE HeldFrom(r.entries[key], a.entries[key])
      /\ LooseBut(r, a, key)
  BY ObservePressSets, ObservePressIs DEF Keeps
<1>2. a.entries[key] # None /\ a.entries[key].physical_state = "Held"
      /\ (new => a.entries[key].guest_owner = None
                 /\ a.entries[key].physical_release_serial = None)
  BY <1>1 DEF Fresh, HeldFrom
<1>. HIDE DEF a, new
<1>3. Ensure(a, key) = a
  BY <1>2 DEF Ensure
<1>. DEFINE e == a.entries[key]
            p == [serial |-> serial, eligible |-> eligible, sequence |-> e.id]
            g == [e EXCEPT !.peek_press_serial = serial, !.peek = p]
<1>4. s = [a EXCEPT !.entries[key].peek_press_serial = serial, !.entries[key].peek = p]
  BY <1>3 DEF ObservePeekPress, a
<1>5. e \in KeyGeneration
  BY <1>1, <1>2, EntryIs
<1>6. p \in PeekKeyProvenance /\ p.serial = serial /\ p.eligible = eligible
  BY <1>5 DEF PeekKeyProvenance, KeyGeneration
<1>. HIDE DEF p, s
<1>7. p # None
  BY <1>6, NoneAssumption
<1>8. /\ g \in KeyGeneration /\ g.physical_state = e.physical_state
      /\ g.guest_owner = e.guest_owner
      /\ g.physical_release_serial = e.physical_release_serial
      /\ g.peek_press_serial = serial /\ g.peek = p
  BY <1>5, <1>6 DEF KeyGeneration
<1>9. s.retired = a.retired /\ s.entries = [a.entries EXCEPT ![key] = g]
  BY <1>1, <1>4, <1>5 DEF Good, Registry
<1>. HIDE DEF g
<1>10. Sets(a, s, key, g)
  BY <1>1, <1>9, SetsIs
<1>11. Announced(g, serial, eligible, new)
  BY <1>2, <1>6, <1>7, <1>8, NoneAssumption DEF Announced
<1>12. /\ s.retired[key] = TombsAfter(r, key, serial) /\ s.entries[key] = g
       /\ LooseBut(r, s, key)
  BY <1>1, <1>10, SetsLoose, LooseButTrans DEF Sets
<1>. QED BY <1>11, <1>12 DEF s, new

\* The generation after an event with this serial refreshes its peek.
Refreshed(g, h, serial) ==
  /\ h # None /\ h.physical_state = g.physical_state
  /\ h.guest_owner = g.guest_owner /\ h.guest_press_serial = g.guest_press_serial
  /\ h.physical_release_serial = g.physical_release_serial
  /\ h.peek_press_serial = serial /\ (h.peek = None <=> g.peek = None)
  /\ h.peek # None => h.peek.serial = serial /\ (h.peek.eligible <=> g.peek.eligible)

LEMMA RefreshPeekSets ==
  ASSUME NEW r, Good(r), NEW key \in Keys, NEW serial \in Serial, r.entries[key] # None
  PROVE  \E g : Sets(r, RefreshPeek(r, key, serial), key, g)
                /\ Refreshed(r.entries[key], g, serial)
<1>. DEFINE e == r.entries[key]
            p == IF e.peek = None THEN None ELSE [e.peek EXCEPT !.serial = serial]
            g == [e EXCEPT !.peek_press_serial = serial, !.peek = p]
            s == RefreshPeek(r, key, serial)
<1>1. e \in KeyGeneration
  BY EntryIs
<1>2. /\ p \in PeekKeyProvenance \cup {None} /\ (p = None <=> e.peek = None)
      /\ p # None => p.serial = serial /\ (p.eligible <=> e.peek.eligible)
  <2>1. e.peek \in PeekKeyProvenance \cup {None}
    BY <1>1 DEF KeyGeneration
  <2>2. CASE e.peek = None
    BY <2>2
  <2>3. CASE e.peek # None
    <3>1. p \in PeekKeyProvenance /\ p.serial = serial /\ p.eligible = e.peek.eligible
      BY <2>1, <2>3 DEF PeekKeyProvenance
    <3>. QED BY <2>3, <3>1, NoneAssumption
  <2>. QED BY <2>2, <2>3
<1>3. s = [r EXCEPT !.entries[key].peek_press_serial = serial, !.entries[key].peek = p]
  BY DEF RefreshPeek
<1>. HIDE DEF p, s
<1>4. /\ g \in KeyGeneration /\ g.physical_state = e.physical_state
      /\ g.guest_owner = e.guest_owner /\ g.guest_press_serial = e.guest_press_serial
      /\ g.physical_release_serial = e.physical_release_serial
      /\ g.peek_press_serial = serial /\ g.peek = p
  BY <1>1, <1>2 DEF KeyGeneration
<1>5. s.retired = r.retired /\ s.entries = [r.entries EXCEPT ![key] = g]
  BY <1>1, <1>3 DEF Good, Registry
<1>. HIDE DEF g
<1>6. Sets(r, s, key, g)
  BY <1>5, SetsIs
<1>7. Refreshed(e, g, serial)
  BY <1>2, <1>4, NoneAssumption DEF Refreshed
<1>. QED BY <1>6, <1>7 DEF s

\* The generation after the release with this serial: ended, or dropped when
\* nothing refers to it.
Ended(g, h, serial) ==
  h # None => /\ g # None /\ h.physical_state = "Released"
              /\ h.guest_owner = g.guest_owner
              /\ h.guest_press_serial = g.guest_press_serial
              /\ h.physical_release_serial = serial
              /\ h.peek_press_serial = g.peek_press_serial
              /\ h.peek # None => g.peek # None /\ h.peek.serial = g.peek.serial

LEMMA ObserveReleaseSets ==
  ASSUME NEW r, Good(r), NEW key \in Keys, NEW serial \in Serial
  PROVE  /\ ObserveRelease(r, key, serial).retired = r.retired
         /\ Ended(r.entries[key], ObserveRelease(r, key, serial).entries[key], serial)
         /\ LooseBut(r, ObserveRelease(r, key, serial), key)
<1>. DEFINE r1 == IF r.entries[key] = None THEN r
                  ELSE [r EXCEPT !.entries[key] =
                          [@ EXCEPT !.physical_state = "Released",
                                    !.physical_release_serial = serial,
                                    !.backspace_repeat_cancelled = FALSE,
                                    !.ime_repeat = FALSE]]
            u(g) == [g EXCEPT !.peek = None]
            unpeeked == [k \in Keys |-> IF r1.entries[k] = None THEN None
                                        ELSE u(r1.entries[k])]
            s == ObserveRelease(r, key, serial)
<1>1. s = IF AnyHeld(r1) THEN PruneKeys(r1, {key})
          ELSE PruneKeys([r1 EXCEPT !.entries = unpeeked], Keys)
  BY DEF ObserveRelease
<1>2. \E g : Sets(r, r1, key, g) /\ Good(r1) /\ Ended(r.entries[key], g, serial)
  <2>1. CASE r.entries[key] = None
    BY <2>1 DEF Sets, Ended
  <2>2. CASE r.entries[key] # None
    <3>. DEFINE e == r.entries[key]
                g == [e EXCEPT !.physical_state = "Released",
                               !.physical_release_serial = serial,
                               !.backspace_repeat_cancelled = FALSE,
                               !.ime_repeat = FALSE]
    <3>1. e \in KeyGeneration /\ EntryOK(e)
      BY <2>2, EntryIs
    <3>2. /\ g \in KeyGeneration /\ g.physical_state = "Released"
          /\ g.guest_owner = e.guest_owner /\ g.guest_press_serial = e.guest_press_serial
          /\ g.physical_release_serial = serial
          /\ g.peek_press_serial = e.peek_press_serial /\ g.peek = e.peek
          /\ g.host_accelerator_suppressed = e.host_accelerator_suppressed
      BY <3>1 DEF KeyGeneration, PhysicalKeyState
    <3>3. EntryOK(g)
      BY <3>1, <3>2, NoneAssumption DEF EntryOK, Owned, Serial
    <3>4. r1 = [r EXCEPT !.entries = [@ EXCEPT ![key] = g]]
      BY <2>2
    <3>. HIDE DEF g, r1
    <3>5. Keeps(r, r1)
      BY <2>2, <3>2, <3>3, <3>4, FieldsOnly
    <3>6. r1.retired = r.retired /\ r1.entries = [r.entries EXCEPT ![key] = g]
      BY <3>4 DEF Good, Registry
    <3>7. Sets(r, r1, key, g)
      BY <3>6, SetsIs
    <3>. QED BY <2>2, <3>2, <3>5, <3>7 DEF Ended, Keeps
  <2>. QED BY <2>1, <2>2
<1>. HIDE DEF r1
<1>3. PICK g : Sets(r, r1, key, g) /\ Good(r1) /\ Ended(r.entries[key], g, serial)
  BY <1>2
<1>4. CASE AnyHeld(r1)
  <2>1. s = PruneKeys(r1, {key})
    BY <1>1, <1>4
  <2>2. /\ s.retired = r1.retired /\ LooseAll(r1, s)
        /\ s.entries[key] \in {r1.entries[key], None}
    BY <2>1, <1>3, PruneKeysIs, PruneLoose
  <2>. HIDE DEF s
  <2>3. s.retired = r.retired /\ Ended(r.entries[key], s.entries[key], serial)
    BY <1>3, <2>2 DEF Sets, Ended
  <2>4. LooseBut(r, s, key)
    BY <1>3, <2>2, SetsLoose, LooseAllBut, LooseButTrans
  <2>. QED BY <2>3, <2>4 DEF s
<1>5. CASE ~AnyHeld(r1)
  <2>. DEFINE t == [r1 EXCEPT !.entries = unpeeked]
  <2>1. \A f \in KeyGeneration :
          /\ u(f) \in KeyGeneration /\ (EntryOK(f) => EntryOK(u(f)))
          /\ u(f).physical_state = f.physical_state /\ u(f).guest_owner = f.guest_owner
          /\ u(f).guest_press_serial = f.guest_press_serial
          /\ u(f).peek_press_serial = f.peek_press_serial
          /\ u(f).physical_release_serial = f.physical_release_serial
          /\ u(f).peek = None
    BY DEF KeyGeneration, EntryOK, Owned
  <2>. HIDE DEF u
  <2>2. /\ t \in Registry /\ t.retired = r1.retired
        /\ \A k \in Keys : t.entries[k] = IF r1.entries[k] = None THEN None
                                          ELSE u(r1.entries[k])
    BY <1>3, <2>1 DEF Good, Registry
  <2>3. s = PruneKeys(t, Keys)
    BY <1>1, <1>5
  <2>. HIDE DEF t
  <2>4. \A k \in Keys : r1.entries[k] # None =>
          /\ r1.entries[k] \in KeyGeneration /\ EntryOK(r1.entries[k])
          /\ r1.entries[k].physical_state # "Held"
    BY <1>3, <1>5, EntryIs DEF AnyHeld, Held, Gen
  <2>5. \A k \in Keys : t.entries[k] # None => EntryOK(t.entries[k])
    BY <2>1, <2>2, <2>4, NoneAssumption
  <2>6. Good(t)
    BY <2>2, <2>5 DEF Good
  <2>7. \A k \in Keys : Loose(r1.entries[k], t.entries[k])
    <3>. TAKE k \in Keys
    <3>1. CASE r1.entries[k] = None
      BY <3>1, <2>2, LooseSelf
    <3>2. CASE r1.entries[k] # None
      <4>1. t.entries[k] = u(r1.entries[k]) /\ t.entries[k] # None
        BY <3>2, <2>1, <2>2, <2>4, NoneAssumption
      <4>. QED BY <3>2, <4>1, <2>1, <2>4 DEF Loose
    <3>. QED BY <3>1, <3>2
  <2>8. LooseAll(r1, t)
    BY <2>2, <2>7 DEF LooseAll, LooseAt
  <2>9. s.retired = t.retired /\ LooseAll(t, s)
    BY <2>3, <2>6, PruneKeysIs, PruneLoose
  <2>. HIDE DEF s
  <2>10. LooseAll(r1, s)
    BY <2>8, <2>9, LooseAllTrans
  <2>11. s.retired = r.retired
    BY <1>3, <2>2, <2>9 DEF Sets
  <2>12. s.entries[key] # None => t.entries[key] # None /\ s.entries[key].peek = None
    <3>1. Loose(t.entries[key], s.entries[key])
      BY <2>9 DEF LooseAll, LooseAt
    <3>2. t.entries[key] # None => t.entries[key].peek = None
      BY <2>1, <2>2, <2>4
    <3>. QED BY <3>1, <3>2 DEF Loose
  <2>13. Ended(r.entries[key], s.entries[key], serial)
    <3>1. Loose(g, s.entries[key])
      BY <1>3, <2>10 DEF LooseAll, LooseAt, Sets
    <3>. QED BY <1>3, <2>12, <3>1 DEF Ended, Loose
  <2>14. LooseBut(r, s, key)
    BY <1>3, <2>10, SetsLoose, LooseAllBut, LooseButTrans
  <2>. QED BY <2>11, <2>13, <2>14 DEF s
<1>. QED BY <1>4, <1>5

LEMMA AnnouncedLoose ==
  ASSUME NEW g, NEW h, NEW serial, NEW eligible, NEW new,
         Announced(g, serial, eligible, new), Loose(g, h)
  PROVE  Announced(h, serial, eligible, new)
BY DEF Announced, Loose

LEMMA EndedLoose ==
  ASSUME NEW f, NEW g, NEW h, NEW serial, Ended(f, g, serial), Loose(g, h)
  PROVE  Ended(f, h, serial)
BY DEF Ended, Loose

LEMMA LooseAllAfter ==
  ASSUME NEW r, NEW s, NEW t, NEW key \in Keys, LooseBut(r, s, key), LooseAll(s, t)
  PROVE  /\ LooseBut(r, t, key) /\ t.retired[key] = s.retired[key]
         /\ Loose(s.entries[key], t.entries[key])
BY LooseAllBut, LooseButTrans DEF LooseAll, LooseAt

\* CancelRepeat and EndRepeat, when the key is not Backspace.
LEMMA EndsRepeatLoose ==
  ASSUME NEW r, Good(r), NEW b
  PROVE  LooseAll(r, IF b THEN r ELSE EndRepeat(CancelRepeat(r)))
<1>1. Good(CancelRepeat(r)) /\ LooseAll(r, CancelRepeat(r))
  BY CancelRepeatIs, CancelRepeatLoose DEF Keeps
<1>. QED BY <1>1, EndRepeatLoose, LooseAllTrans, LooseAllSelf

LEMMA PeekPressSets ==
  ASSUME NEW r, Good(r), NEW key \in Keys, NEW serial \in Serial, ~Held(r, key)
  PROVE  /\ OnPeekKey(r, key, "press", serial).retired[key] = TombsAfter(r, key, serial)
         /\ Announced(OnPeekKey(r, key, "press", serial).entries[key], serial,
                      ~IsHostAccelerator(key), r.entries[key] = None \/ Released(r, key))
         /\ LooseBut(r, OnPeekKey(r, key, "press", serial), key)
<1>. DEFINE new == r.entries[key] = None \/ Released(r, key)
            eligible == ~Suppressed(r, key) /\ ~IsHostAccelerator(key)
            r1 == ObservePeekPress(r, key, serial, eligible)
            seen == RecordLatestPeek(r1, r1.entries[key].id)
            o == ObservePress(seen, key, None)
            s == OnPeekKey(r, key, "press", serial)
<1>1. s = IF key = Backspace THEN o ELSE EndRepeat(CancelRepeat(o))
  BY DEF OnPeekKey
<1>2. eligible \in BOOLEAN
  BY DEF Held, Gen, Suppressed, IsHostAccelerator, is_host_accelerator
<1>. HIDE DEF eligible
<1>3. /\ r1.retired[key] = TombsAfter(r, key, serial)
      /\ Announced(r1.entries[key], serial, eligible, new)
      /\ LooseBut(r, r1, key) /\ Good(r1) /\ r1.entries[key].id \in Nat
  BY <1>2, ObservePeekPressSets, ObservePeekPressIs DEF Keeps
<1>. HIDE DEF r1, new
<1>4. Good(seen) /\ seen.entries = r1.entries /\ seen.retired = r1.retired
  <2>1. Keeps(r1, seen)
    BY <1>3, RecordLatestPeekIs
  <2>2. seen.entries = r1.entries /\ seen.retired = r1.retired
    BY <1>3 DEF RecordLatestPeek, Good, Registry
  <2>. QED BY <2>1, <2>2 DEF Keeps
<1>. HIDE DEF seen
<1>5. /\ seen.entries[key] # None /\ ~Released(seen, key)
      /\ TombsAfter(seen, key, None) = r1.retired[key]
  BY <1>3, <1>4 DEF Announced, Released, Gen, TombsAfter
<1>6. /\ o.retired[key] = r1.retired[key] /\ HeldFrom(r1.entries[key], o.entries[key])
      /\ LooseBut(seen, o, key) /\ Good(o)
  BY <1>4, <1>5, ObservePressSets, ObservePressIs DEF Keeps
<1>. HIDE DEF o
<1>7. Announced(o.entries[key], serial, eligible, new)
  BY <1>3, <1>6 DEF Announced, HeldFrom
<1>8. LooseBut(r, o, key)
  <2>1. LooseBut(r1, o, key)
    BY <1>4, <1>6 DEF LooseBut, LooseAt
  <2>. QED BY <2>1, <1>3, LooseButTrans
<1>9. LooseAll(o, s)
  BY <1>1, <1>6, EndsRepeatLoose
<1>. HIDE DEF s
<1>10. /\ LooseBut(r, s, key) /\ s.retired[key] = o.retired[key]
       /\ Loose(o.entries[key], s.entries[key])
  BY <1>8, <1>9, LooseAllAfter
<1>11. Announced(s.entries[key], serial, eligible, new)
  BY <1>7, <1>10, AnnouncedLoose
<1>12. Announced(s.entries[key], serial, ~IsHostAccelerator(key), new)
  BY <1>11 DEF Announced, eligible
<1>. QED BY <1>3, <1>6, <1>10, <1>12 DEF s, new

LEMMA PeekRepeatSets ==
  ASSUME NEW r, Good(r), NEW key \in Keys, NEW serial \in Serial
  PROVE  /\ ~Held(r, key) => OnPeekKey(r, key, "repeat", serial) = r
         /\ Held(r, key) =>
              \E g : /\ Sets(r, OnPeekKey(r, key, "repeat", serial), key, g)
                     /\ Refreshed(r.entries[key], g, serial)
<1>1. OnPeekKey(r, key, "repeat", serial)
        = IF Held(r, key) THEN RefreshPeek(r, key, serial) ELSE r
  BY DEF OnPeekKey
<1>2. Held(r, key) => r.entries[key] # None
  BY DEF Held, Gen, NewGeneration
<1>. QED BY <1>1, <1>2, RefreshPeekSets

LEMMA PeekReleaseSets ==
  ASSUME NEW r, Good(r), NEW key \in Keys, NEW serial \in Serial,
         Peek(r, key) # None => ~SerialIsAfter(Peek(r, key).serial, serial)
  PROVE  /\ OnPeekKey(r, key, "release", serial).retired[key] = r.retired[key]
         /\ Ended(r.entries[key], OnPeekKey(r, key, "release", serial).entries[key], serial)
         /\ LooseBut(r, OnPeekKey(r, key, "release", serial), key)
<1>. DEFINE o == ObserveRelease(r, key, serial)
            s == OnPeekKey(r, key, "release", serial)
<1>1. s = IF key = Backspace THEN EndRepeat(o) ELSE o
  BY DEF OnPeekKey, ObservePeekRelease, Peek
<1>2. /\ o.retired = r.retired /\ Ended(r.entries[key], o.entries[key], serial)
      /\ LooseBut(r, o, key) /\ Good(o)
  BY ObserveReleaseSets, ObserveReleaseIs DEF Keeps
<1>. HIDE DEF o
<1>3. LooseAll(o, s)
  BY <1>1, <1>2, EndRepeatLoose, LooseAllSelf
<1>. HIDE DEF s
<1>4. /\ LooseBut(r, s, key) /\ s.retired[key] = o.retired[key]
      /\ Loose(o.entries[key], s.entries[key])
  BY <1>2, <1>3, LooseAllAfter
<1>. QED BY <1>2, <1>4, EndedLoose DEF s

\* One tombstone is taken, and only it.
LEMMA TakeRetiredSets ==
  ASSUME NEW r, Good(r), NEW key \in Keys, NEW matches,
         matches \subseteq Range(r.retired[key]), matches # {}
  PROVE  /\ TakeRetired(r, key, matches).entries = r.entries
         /\ \A k \in Keys \ {key} : TakeRetired(r, key, matches).retired[k] = r.retired[k]
         /\ \E i \in 1 .. Len(r.retired[key]) :
              /\ r.retired[key][i] \in matches
              /\ Without(r.retired[key], TakeRetired(r, key, matches).retired[key], i)
<1>. DEFINE q == r.retired[key]
            f == WithoutFirst(q, matches)
            s == TakeRetired(r, key, matches)
            I == {j \in 1 .. Len(q) : q[j] \in matches}
            n == Min(I)
<1>1. q \in Seq(RetiredGuestRelease) /\ Len(q) \in Nat
  BY EntryIs
<1>2. I \in SUBSET Nat /\ I # {}
  BY <1>1 DEF Range
<1>3. n \in I
  BY <1>2, MinIs
<1>4. f = RemoveAt(q, n)
  BY <1>2 DEF WithoutFirst, RemoveFirstMatch, SelectInSeq
<1>. HIDE DEF n, f, s
<1>5. n \in 1 .. Len(q) /\ q[n] \in matches
  BY <1>3
<1>6. Without(q, f, n)
  <2>. DEFINE a == SubSeq(q, 1, n - 1)
              b == SubSeq(q, n + 1, Len(q))
  <2>1. /\ a \in Seq(RetiredGuestRelease) /\ Len(a) = n - 1
        /\ \A j \in 1 .. n - 1 : a[j] = q[j]
    BY <1>1, <1>5, SubSeqProperties
  <2>2. /\ b \in Seq(RetiredGuestRelease) /\ Len(b) = Len(q) - n
        /\ \A j \in 1 .. Len(q) - n : b[j] = q[n + j]
    BY <1>1, <1>5, SubSeqProperties
  <2>3. f = a \o b
    BY <1>4 DEF RemoveAt
  <2>. HIDE DEF a, b
  <2>4. /\ Len(a \o b) = Len(a) + Len(b)
        /\ \A j \in 1 .. Len(a) + Len(b) :
             (a \o b)[j] = IF j =< Len(a) THEN a[j] ELSE b[j - Len(a)]
    BY <2>1, <2>2, ConcatProperties
  <2>5. Len(f) = Len(q) - 1
    BY <1>1, <1>5, <2>1, <2>2, <2>3, <2>4
  <2>6. ASSUME NEW j \in 1 .. Len(f) PROVE f[j] = IF j < n THEN q[j] ELSE q[j + 1]
    <3>1. j \in Int /\ 1 =< j /\ j =< Len(q) - 1 /\ n \in Int /\ 1 =< n /\ n =< Len(q)
      BY <1>1, <1>5, <2>5
    <3>2. f[j] = IF j =< n - 1 THEN a[j] ELSE b[j - (n - 1)]
      BY <1>1, <2>1, <2>2, <2>3, <2>4, <3>1
    <3>3. CASE j < n
      BY <1>1, <2>1, <3>1, <3>2, <3>3
    <3>4. CASE ~(j < n)
      <4>1. j - (n - 1) \in 1 .. Len(q) - n /\ n + (j - (n - 1)) = j + 1
        BY <1>1, <3>1, <3>4
      <4>2. f[j] = b[j - (n - 1)]
        BY <3>1, <3>2, <3>4
      <4>. QED BY <3>4, <4>1, <4>2, <2>2
    <3>. QED BY <3>3, <3>4
  <2>. QED BY <2>5, <2>6 DEF Without
<1>7. s = [r EXCEPT !.retired = [@ EXCEPT ![key] = f]]
  BY DEF TakeRetired, f, WithoutFirst, s
<1>8. s.entries = r.entries /\ s.retired = [r.retired EXCEPT ![key] = f]
  BY <1>7 DEF Good, Registry
<1>9. s.retired[key] = f /\ \A k \in Keys \ {key} : s.retired[k] = r.retired[k]
  BY <1>8 DEF Good, Registry
<1>. QED BY <1>5, <1>6, <1>8, <1>9 DEF s

\* Everything but the owner and the marks stays.
SameKey(g, h) ==
  /\ h # None /\ h.physical_state = g.physical_state
  /\ h.peek_press_serial = g.peek_press_serial
  /\ h.physical_release_serial = g.physical_release_serial /\ h.peek = g.peek

\* A generation nothing physical is known of.
Blank(h) == h = None \/ (h.physical_state # "Held" /\ h.peek = None)

LEMMA ClaimSets ==
  ASSUME NEW r, Good(r), NEW key \in Keys, NEW owner \in GuestKeyOwner
  PROVE  \E h : /\ Sets(r, Claim(r, key, owner), key, h) /\ h \in KeyGeneration
                /\ h.guest_owner = owner
                /\ r.entries[key] # None => /\ SameKey(r.entries[key], h)
                     /\ h.guest_press_serial = r.entries[key].guest_press_serial
                /\ r.entries[key] = None => Blank(h)
<1>. DEFINE b == Ensure(r, key)
            e == b.entries[key]
            g == [e EXCEPT !.guest_owner = owner]
            s == Claim(r, key, owner)
<1>1. PICK f : /\ Sets(r, b, key, f)
               /\ r.entries[key] # None => f = r.entries[key]
               /\ r.entries[key] = None => \E id \in Nat : f = NewGeneration(id)
  BY EnsureSets
<1>2. Good(b) /\ e # None
  BY EnsureIs DEF Keeps
<1>3. s = [b EXCEPT !.entries = [@ EXCEPT ![key] = g]]
  BY DEF Claim
<1>. HIDE DEF b, s
<1>4. e \in KeyGeneration /\ e = f
  BY <1>1, <1>2, EntryIs DEF Sets
<1>5. /\ g \in KeyGeneration /\ g.physical_state = e.physical_state
      /\ g.guest_owner = owner /\ g.guest_press_serial = e.guest_press_serial
      /\ g.physical_release_serial = e.physical_release_serial
      /\ g.peek_press_serial = e.peek_press_serial /\ g.peek = e.peek
  BY <1>4 DEF KeyGeneration
<1>. HIDE DEF g
<1>6. s.retired = b.retired /\ s.entries = [b.entries EXCEPT ![key] = g]
  BY <1>2, <1>3 DEF Good, Registry
<1>7. Sets(b, s, key, g)
  BY <1>2, <1>6, SetsIs
<1>8. Sets(r, s, key, g)
  BY <1>1, <1>7 DEF Sets
<1>9. SameKey(e, g)
  BY <1>5, NoneAssumption DEF SameKey
<1>10. r.entries[key] = None => Blank(g)
  <2>1. \A id : NewGeneration(id).physical_state = "Unseen" /\ NewGeneration(id).peek = None
    BY DEF NewGeneration
  <2>. QED BY <1>1, <1>4, <1>5, <2>1 DEF Blank
<1>11. r.entries[key] # None => e = r.entries[key]
  BY <1>1, <1>4
<1>. QED BY <1>5, <1>8, <1>9, <1>10, <1>11 DEF s

LEMMA SuppressAcceleratorSets ==
  ASSUME NEW r, Good(r), NEW key \in Keys
  PROVE  \E h : /\ Sets(r, SuppressAccelerator(r, key), key, h)
                /\ r.entries[key] # None => /\ SameKey(r.entries[key], h)
                     /\ h.guest_owner = r.entries[key].guest_owner
                     /\ h.guest_press_serial = r.entries[key].guest_press_serial
                /\ r.entries[key] = None => Blank(h)
<1>. DEFINE b == Ensure(r, key)
            e == b.entries[key]
            g == [e EXCEPT !.host_accelerator_suppressed = TRUE]
            s == SuppressAccelerator(r, key)
<1>1. PICK f : /\ Sets(r, b, key, f)
               /\ r.entries[key] # None => f = r.entries[key]
               /\ r.entries[key] = None => \E id \in Nat : f = NewGeneration(id)
  BY EnsureSets
<1>2. Good(b) /\ e # None
  BY EnsureIs DEF Keeps
<1>3. s = [b EXCEPT !.entries = [@ EXCEPT ![key] = g]]
  BY DEF SuppressAccelerator
<1>. HIDE DEF b, s
<1>4. e \in KeyGeneration /\ e = f
  BY <1>1, <1>2, EntryIs DEF Sets
<1>5. /\ g \in KeyGeneration /\ g.physical_state = e.physical_state
      /\ g.guest_owner = e.guest_owner /\ g.guest_press_serial = e.guest_press_serial
      /\ g.physical_release_serial = e.physical_release_serial
      /\ g.peek_press_serial = e.peek_press_serial /\ g.peek = e.peek
  BY <1>4 DEF KeyGeneration
<1>. HIDE DEF g
<1>6. s.retired = b.retired /\ s.entries = [b.entries EXCEPT ![key] = g]
  BY <1>2, <1>3 DEF Good, Registry
<1>7. Sets(b, s, key, g)
  BY <1>2, <1>6, SetsIs
<1>8. Sets(r, s, key, g)
  BY <1>1, <1>7 DEF Sets
<1>9. SameKey(e, g)
  BY <1>5, NoneAssumption DEF SameKey
<1>10. r.entries[key] = None => Blank(g)
  <2>1. \A id : NewGeneration(id).physical_state = "Unseen" /\ NewGeneration(id).peek = None
    BY DEF NewGeneration
  <2>. QED BY <1>1, <1>4, <1>5, <2>1 DEF Blank
<1>11. r.entries[key] # None => e = r.entries[key]
  BY <1>1, <1>4
<1>. QED BY <1>5, <1>8, <1>9, <1>10, <1>11 DEF s

\* The generation after its physical release is delivered.
Closed(g, h) ==
  h # None => /\ g # None /\ h.physical_state = g.physical_state
              /\ h.guest_owner \in {None, "ImeRecovery"}
              /\ h.peek_press_serial = g.peek_press_serial
              /\ h.physical_release_serial = g.physical_release_serial
              /\ h.peek # None => g.peek # None /\ h.peek.serial = g.peek.serial

LEMMA TakeOwnerSets ==
  ASSUME NEW r, Good(r), NEW key \in Keys
  PROVE  /\ TakeOwner(r, key).retired = r.retired
         /\ Closed(r.entries[key], TakeOwner(r, key).entries[key])
         /\ LooseBut(r, TakeOwner(r, key), key)
<1>. DEFINE e == r.entries[key]
            s == TakeOwner(r, key)
<1>1. CASE GuestOwner(r, key) = None
  <2>1. s = PruneKeys(r, {key})
    BY <1>1 DEF TakeOwner
  <2>2. /\ s.retired = r.retired /\ LooseAll(r, s)
        /\ s.entries[key] = e \/ s.entries[key] = None
    BY <2>1, PruneKeysIs, PruneLoose
  <2>. HIDE DEF s
  <2>3. e # None => e.guest_owner = None
    BY <1>1 DEF GuestOwner, Gen
  <2>. QED BY <2>2, <2>3, LooseAllBut DEF Closed, s
<1>2. CASE GuestOwner(r, key) # None
  <2>. DEFINE g == [e EXCEPT !.guest_owner = None, !.guest_press_serial = None]
              t == [r EXCEPT !.entries = [@ EXCEPT ![key] = g]]
  <2>1. e # None
    BY <1>2 DEF GuestOwner, Gen, NewGeneration
  <2>2. e \in KeyGeneration /\ EntryOK(e)
    BY <2>1, EntryIs
  <2>3. /\ g \in KeyGeneration /\ g.physical_state = e.physical_state
        /\ g.guest_owner = None
        /\ g.physical_release_serial = e.physical_release_serial
        /\ g.peek_press_serial = e.peek_press_serial /\ g.peek = e.peek
    BY <2>2 DEF KeyGeneration
  <2>4. EntryOK(g)
    BY <2>2, <2>3, NoneAssumption DEF EntryOK, Owned, GuestKeyOwner
  <2>5. s = PruneKeys(t, {key})
    BY <1>2 DEF TakeOwner
  <2>. HIDE DEF g
  <2>6. /\ t \in Registry /\ t.retired = r.retired
        /\ t.entries = [r.entries EXCEPT ![key] = g]
    BY <2>3 DEF Good, Registry
  <2>. HIDE DEF t, s
  <2>7. Sets(r, t, key, g)
    BY <2>6, SetsIs
  <2>8. Good(t)
    BY <2>4, <2>6, <2>7 DEF Good, Sets
  <2>9. /\ s.retired = t.retired /\ LooseAll(t, s)
        /\ s.entries[key] = g \/ s.entries[key] = None
    BY <2>5, <2>7, <2>8, PruneKeysIs, PruneLoose DEF Sets
  <2>10. LooseBut(r, s, key)
    BY <2>7, <2>9, SetsLoose, LooseAllBut, LooseButTrans
  <2>. QED BY <2>1, <2>3, <2>6, <2>9, <2>10 DEF Closed, s
<1>. QED BY <1>1, <1>2

LEMMA PhysicalReleaseSets ==
  ASSUME NEW r, Good(r), NEW key \in Keys
  PROVE  /\ PhysicalRelease(r, key).reg.retired = r.retired
         /\ Closed(r.entries[key], PhysicalRelease(r, key).reg.entries[key])
         /\ LooseBut(r, PhysicalRelease(r, key).reg, key)
<1>. DEFINE r1 == TakeSuppression(r, key)
            r2 == IF GuestOwner(r1, key) = "ImeRecovery" THEN r1 ELSE TakeOwner(r1, key)
            s == PhysicalRelease(r, key).reg
<1>1. s = r2
  BY DEF PhysicalRelease, Decision
<1>2. Good(r1) /\ LooseAll(r, r1) /\ r1.retired = r.retired
  BY TakeSuppressionIs, TakeSuppressionLoose DEF Keeps
<1>. HIDE DEF r1
<1>3. /\ r2.retired = r1.retired /\ Closed(r1.entries[key], r2.entries[key])
      /\ LooseBut(r1, r2, key)
  <2>1. CASE GuestOwner(r1, key) = "ImeRecovery"
    <3>1. r1.entries[key] # None => r1.entries[key].guest_owner = "ImeRecovery"
      BY <2>1 DEF GuestOwner, Gen
    <3>. QED BY <2>1, <3>1, LooseAllSelf, LooseAllBut DEF Closed
  <2>2. CASE GuestOwner(r1, key) # "ImeRecovery"
    BY <2>2, <1>2, TakeOwnerSets
  <2>. QED BY <2>1, <2>2
<1>. HIDE DEF r2, s
<1>4. Loose(r.entries[key], r1.entries[key])
  BY <1>2 DEF LooseAll, LooseAt
<1>5. Closed(r.entries[key], r2.entries[key])
  BY <1>3, <1>4 DEF Closed, Loose
<1>6. LooseBut(r, r2, key)
  BY <1>2, <1>3, LooseAllBut, LooseButTrans
<1>. QED BY <1>1, <1>2, <1>3, <1>5, <1>6 DEF s

\* The generation after a press or a repeat: given an owner if it had none.
Claimed(g, h) ==
  /\ g # None => /\ SameKey(g, h) /\ h.guest_press_serial = g.guest_press_serial
                 /\ \/ h.guest_owner = g.guest_owner
                    \/ g.guest_owner = None /\ h.guest_owner \in {"Physical", "ImeRecovery"}
  /\ g = None => Blank(h)

LEMMA ClaimedTrans ==
  ASSUME NEW f, NEW g, NEW h, Claimed(f, g), Claimed(g, h) PROVE Claimed(f, h)
<1>1. None \notin {"Physical", "ImeRecovery"}
  BY NoneAssumption DEF GuestKeyOwner
<1>2. CASE f # None
  BY <1>1, <1>2 DEF Claimed, SameKey
<1>3. CASE f = None
  BY <1>3 DEF Claimed, SameKey, Blank
<1>. QED BY <1>2, <1>3

LEMMA ClaimedSelf ==
  ASSUME NEW r, Good(r), NEW key \in Keys
  PROVE  \E h : Sets(r, r, key, h) /\ Claimed(r.entries[key], h)
BY DEF Sets, Claimed, SameKey, Blank

LEMMA ClaimedThen ==
  ASSUME NEW q, NEW r, NEW s, NEW key, \E h : Sets(q, r, key, h) /\ Claimed(q.entries[key], h),
         \E h : Sets(r, s, key, h) /\ Claimed(r.entries[key], h)
  PROVE  \E h : Sets(q, s, key, h) /\ Claimed(q.entries[key], h)
BY ClaimedTrans DEF Sets

LEMMA ClaimClaimed ==
  ASSUME NEW r, Good(r), NEW key \in Keys, NEW owner \in {"Physical", "ImeRecovery"},
         GuestOwner(r, key) = None
  PROVE  \E h : /\ Sets(r, Claim(r, key, owner), key, h) /\ Claimed(r.entries[key], h)
                /\ h # None /\ h.guest_owner = owner
<1>1. PICK h : /\ Sets(r, Claim(r, key, owner), key, h) /\ h \in KeyGeneration
               /\ h.guest_owner = owner
               /\ r.entries[key] # None => /\ SameKey(r.entries[key], h)
                    /\ h.guest_press_serial = r.entries[key].guest_press_serial
               /\ r.entries[key] = None => Blank(h)
  BY ClaimSets DEF GuestKeyOwner
<1>2. r.entries[key] # None => r.entries[key].guest_owner = None
  BY DEF GuestOwner, Gen
<1>. QED BY <1>1, <1>2, NoneAssumption DEF Claimed

LEMMA PhysicalPressSets ==
  ASSUME NEW r, Good(r), NEW key \in Keys, NEW repeated \in BOOLEAN,
         NEW accelerator, NEW imeRepeat,
         NEW d, d = PhysicalPress(r, key, repeated, accelerator, imeRepeat)
  PROVE  /\ \E h : Sets(r, d.reg, key, h) /\ Claimed(r.entries[key], h)
         /\ d.delivery \in {"Drop", "Forward"}
         /\ d.delivery = "Forward" /\ ~repeated =>
              /\ GuestOwner(r, key) = None
              /\ d.reg.entries[key] # None /\ d.reg.entries[key].guest_owner = "Physical"
<1>. DEFINE owner == GuestOwner(r, key)
            forwarded == Forwarded(r, key)
            forIme == owner = "ImeRecovery" \/ (imeRepeat /\ ~forwarded)
            r1 == IF forIme /\ owner = None THEN Claim(r, key, "ImeRecovery") ELSE r
            r2 == IF forwarded THEN r1 ELSE SuppressAccelerator(r1, key)
            p == Claim(r1, key, "Physical")
<1>1. Good(r1) /\ \E h : Sets(r, r1, key, h) /\ Claimed(r.entries[key], h)
  <2>1. CASE forIme /\ owner = None
    <3>1. r1 = Claim(r, key, "ImeRecovery")
      BY <2>1
    <3>2. ~Forwarded(r, key)
      BY <2>1, NoneAssumption DEF Forwarded, GuestKeyOwner
    <3>. HIDE DEF r1
    <3>. QED BY <2>1, <3>1, <3>2, ClaimClaimed, ClaimImeIs DEF Keeps
  <2>2. CASE ~(forIme /\ owner = None)
    BY <2>2, ClaimedSelf
  <2>. QED BY <2>1, <2>2
<1>2. \E h : Sets(r, r2, key, h) /\ Claimed(r.entries[key], h)
  <2>. HIDE DEF r1
  <2>1. CASE forwarded
    BY <1>1, <2>1
  <2>2. CASE ~forwarded
    <3>1. r2 = SuppressAccelerator(r1, key)
      BY <2>2
    <3>. HIDE DEF r2
    <3>2. \E h : Sets(r1, r2, key, h) /\ Claimed(r1.entries[key], h)
      BY <1>1, <3>1, SuppressAcceleratorSets DEF Claimed
    <3>. QED BY <1>1, <3>2, ClaimedThen
  <2>. QED BY <2>1, <2>2
<1>3. \/ d = Decision(r2, "Drop", FALSE, FALSE)
      \/ d.reg = r1 /\ d.delivery = "Drop"
      \/ repeated /\ d.reg = r1 /\ d.delivery \in {"Drop", "Forward"}
      \/ /\ ~repeated /\ ~forIme /\ ~forwarded
         /\ d.reg = p /\ d.delivery = "Forward"
  <2>. HIDE DEF r1, r2, p, forwarded, forIme
  <2>1. d = CASE Suppressed(r1, key) \/ accelerator ->
             Decision(r2, "Drop", FALSE, FALSE)
        [] OTHER ->
             CASE forIme -> Decision(r1, "Drop", FALSE, FALSE)
               [] ~forIme /\ forwarded /\ ~repeated ->
                    Decision(r1, "Drop", TRUE, FALSE)
               [] ~forIme /\ repeated ->
                    Decision(r1, IF forwarded THEN "Forward" ELSE "Drop",
                             forwarded, FALSE)
               [] OTHER -> Decision(p, "Forward", TRUE, FALSE)
    BY DEF PhysicalPress, r1, r2, p, forwarded, forIme
  <2>2. CASE Suppressed(r1, key) \/ accelerator
    BY <2>1, <2>2
  <2>3. CASE ~(Suppressed(r1, key) \/ accelerator)
    <3>1. CASE forIme
      BY <2>1, <2>3, <3>1 DEF Decision
    <3>2. CASE ~forIme /\ forwarded /\ ~repeated
      BY <2>1, <2>3, <3>2 DEF Decision
    <3>3. CASE ~forIme /\ repeated
      BY <2>1, <2>3, <3>3 DEF Decision
    <3>4. CASE ~forIme /\ ~repeated /\ ~forwarded
      BY <2>1, <2>3, <3>4 DEF Decision
    <3>. QED BY <3>1, <3>2, <3>3, <3>4
  <2>. QED BY <2>2, <2>3
<1>4. CASE d = Decision(r2, "Drop", FALSE, FALSE)
  <2>1. d.reg = r2 /\ d.delivery = "Drop"
    BY <1>4 DEF Decision
  <2>. HIDE DEF r2
  <2>. QED BY <1>2, <2>1
<1>5. CASE \/ d.reg = r1 /\ d.delivery = "Drop"
           \/ repeated /\ d.reg = r1 /\ d.delivery \in {"Drop", "Forward"}
  <2>. HIDE DEF r1
  <2>. QED BY <1>1, <1>5
<1>6. CASE /\ ~repeated /\ ~forIme /\ ~forwarded
           /\ d.reg = p /\ d.delivery = "Forward"
  <2>1. r1 = r
    BY <1>6
  <2>2. owner \in GuestKeyOwner \cup {None}
    BY GenIs DEF GuestOwner, KeyGeneration
  <2>3. GuestOwner(r, key) = None
    BY <1>6, <2>2 DEF GuestKeyOwner, Forwarded
  <2>4. d.reg = Claim(r, key, "Physical")
    BY <1>6, <2>1
  <2>. QED BY <1>6, <2>3, <2>4, ClaimClaimed DEF Sets
<1>. QED BY <1>3, <1>4, <1>5, <1>6

\* What a step may leave of a generation: held only if it was or the key k is
\* down, announced only as it was.
Tame(g, h, k, D) ==
  h # None =>
    /\ h.physical_state = "Held" => k \in D \/ (g # None /\ g.physical_state = "Held")
    /\ h.peek # None => g # None /\ g.peek # None /\ h.peek.serial = g.peek.serial

LEMMA TameTrans ==
  ASSUME NEW f, NEW g, NEW h, NEW k, NEW D, Tame(f, g, k, D), Tame(g, h, k, D)
  PROVE  Tame(f, h, k, D)
BY DEF Tame

LEMMA LooseTame ==
  ASSUME NEW g, NEW h, NEW k, NEW D, Loose(g, h) PROVE Tame(g, h, k, D)
BY DEF Loose, Tame

LEMMA ClaimedTame ==
  ASSUME NEW g, NEW h, NEW k, NEW D, Claimed(g, h) PROVE Tame(g, h, k, D)
BY DEF Claimed, SameKey, Blank, Tame

LEMMA ObservedLoose ==
  ASSUME NEW r, Good(r), NEW key \in Keys, Held(r, key)
  PROVE  /\ r.entries[key] # None /\ r.entries[key].physical_state = "Held"
         /\ LooseAll(r, ObservePress(r, key, None))
<1>1. r.entries[key] # None /\ r.entries[key].physical_state = "Held"
  BY DEF Held, Gen, NewGeneration
<1>2. ~Released(r, key)
  BY DEF Held, Released
<1>3. /\ ObservePress(r, key, None).retired[key] = r.retired[key]
      /\ HeldFrom(r.entries[key], ObservePress(r, key, None).entries[key])
      /\ LooseBut(r, ObservePress(r, key, None), key)
  BY <1>1, <1>2, ObservePressSets DEF TombsAfter
<1>4. Loose(r.entries[key], ObservePress(r, key, None).entries[key])
  BY <1>1, <1>3 DEF HeldFrom, Loose
<1>. QED BY <1>1, <1>3, <1>4 DEF LooseBut, LooseAll, LooseAt

LEMMA ObservedTame ==
  ASSUME NEW r, Good(r), NEW key \in Keys, NEW D, key \in D
  PROVE  /\ LooseBut(r, ObservePress(r, key, None), key)
         /\ Tame(r.entries[key], ObservePress(r, key, None).entries[key], key, D)
<1>1. /\ LooseBut(r, ObservePress(r, key, None), key)
      /\ IF r.entries[key] = None \/ Released(r, key)
            THEN Fresh(ObservePress(r, key, None).entries[key])
            ELSE HeldFrom(r.entries[key], ObservePress(r, key, None).entries[key])
  BY ObservePressSets
<1>. DEFINE h == ObservePress(r, key, None).entries[key]
<1>. HIDE DEF h
<1>2. CASE r.entries[key] = None \/ Released(r, key)
  <2>1. Fresh(h)
    BY <1>1, <1>2 DEF h
  <2>2. Tame(r.entries[key], h, key, D)
    BY <2>1 DEF Fresh, Tame
  <2>. QED BY <1>1, <2>2 DEF h
<1>3. CASE ~(r.entries[key] = None \/ Released(r, key))
  <2>1. HeldFrom(r.entries[key], h)
    BY <1>1, <1>3 DEF h
  <2>2. Tame(r.entries[key], h, key, D)
    BY <1>3, <2>1 DEF HeldFrom, Tame
  <2>. QED BY <1>1, <2>2 DEF h
<1>. QED BY <1>2, <1>3

LEMMA PressedIs ==
  ASSUME NEW f, f # None, f.physical_state = "Held", NEW g, Loose(f, g),
         NEW h, Claimed(g, h)
  PROVE  Pressed(f, h) /\ g # None
BY DEF Loose, Claimed, SameKey, Pressed

\* The generation is not fit for recovery.
Withheld(g) == g # None => g.peek = None \/ (g.peek # None /\ ~g.peek.eligible)

\* What follows the observation of a press or a repeat.
LEMMA AfterObserved ==
  ASSUME NEW r, Good(r), NEW key \in Keys, NEW D, key \in D,
         NEW q, LooseAll(r, q), NEW s, NEW h, Sets(q, s, key, h),
         Claimed(q.entries[key], h)
  PROVE  /\ LooseBut(r, s, key)
         /\ Tame(r.entries[key], s.entries[key], key, D)
         /\ s.retired[key] = r.retired[key]
         /\ Held(r, key) =>
              /\ Pressed(r.entries[key], s.entries[key])
              /\ Withheld(q.entries[key]) => Withheld(s.entries[key])
              /\ GuestOwner(q, key) = GuestOwner(r, key)
<1>1. s.entries[key] = h /\ s.retired = q.retired
  BY DEF Sets
<1>2. s.retired[key] = r.retired[key] /\ Loose(r.entries[key], q.entries[key])
  BY <1>1 DEF LooseAll, LooseAt
<1>3. LooseBut(r, s, key)
  BY LooseAllBut, SetsLoose, LooseButTrans
<1>4. Tame(r.entries[key], h, key, D)
  BY <1>2, LooseTame, ClaimedTame, TameTrans
<1>5. ASSUME Held(r, key)
      PROVE  /\ Pressed(r.entries[key], h)
             /\ Withheld(q.entries[key]) => Withheld(h)
             /\ GuestOwner(q, key) = GuestOwner(r, key)
  <2>1. r.entries[key] # None /\ r.entries[key].physical_state = "Held"
    BY <1>5 DEF Held, Gen, NewGeneration
  <2>2. Pressed(r.entries[key], h) /\ q.entries[key] # None
    BY <1>2, <2>1, PressedIs
  <2>3. GuestOwner(q, key) = GuestOwner(r, key)
    BY <1>2, <2>1, <2>2 DEF GuestOwner, Gen, Loose
  <2>4. h.peek = q.entries[key].peek
    BY <2>2 DEF Claimed, SameKey
  <2>. QED BY <2>2, <2>3, <2>4 DEF Withheld
<1>. QED BY <1>1, <1>2, <1>3, <1>4, <1>5

LEMMA KeyPressShape ==
  ASSUME NEW r, Good(r), NEW key \in Keys, NEW D, key \in D, NEW state \in {"press", "repeat"},
         NEW serial \in Serial, NEW d, d = OnKey(r, key, state, serial)
  PROVE  /\ LooseBut(r, d.reg, key)
         /\ Tame(r.entries[key], d.reg.entries[key], key, D)
         /\ d.delivery \in {"Drop", "Forward"}
         /\ Held(r, key) /\ (state = "press" => PeekPressSerial(r, key) \in {None, serial}) =>
              /\ d.reg.retired[key] = r.retired[key]
              /\ Pressed(r.entries[key], d.reg.entries[key])
              /\ IsHostAccelerator(key) => Withheld(d.reg.entries[key])
              /\ d.delivery = "Forward" /\ state = "press" =>
                   /\ GuestOwner(r, key) = None
                   /\ d.reg.entries[key].guest_owner = "Physical"
<1>. DEFINE otherPress == /\ state = "press" /\ Held(r, key)
                          /\ PeekPressSerial(r, key) \notin {None, serial}
            delayedPress == Released(r, key) /\ PeekPressSerial(r, key) = serial
            imeRepeat == key = Backspace /\ ImeRepeatActive(r)
            observed == IF state = "press"
                        THEN IF delayedPress THEN r ELSE ObservePress(r, key, None) ELSE r
            r1 == IF key = Backspace THEN observed
                  ELSE EndRepeat(CancelRepeat(observed))
            r2 == IF IsHostAccelerator(key) THEN InvalidatePeek(r1, key) ELSE r1
            p == PhysicalPress(r2, key, state = "repeat", IsHostAccelerator(key), imeRepeat)
<1>1. CASE otherPress
  <2>1. d = Decision(r, "Drop", FALSE, FALSE)
    BY <1>1 DEF OnKey
  <2>2. d.reg = r /\ d.delivery = "Drop"
    BY <2>1 DEF Decision
  <2>3. LooseBut(r, r, key) /\ Tame(r.entries[key], r.entries[key], key, D)
    BY LooseAllSelf, LooseAllBut, LooseSelf, LooseTame
  <2>. QED BY <1>1, <2>2, <2>3
<1>2. CASE ~otherPress
  <2>1. d = p
    BY <1>2 DEF OnKey
  <2>2. /\ Good(observed) /\ LooseBut(r, observed, key)
        /\ Tame(r.entries[key], observed.entries[key], key, D)
    <3>1. LooseBut(r, r, key) /\ Tame(r.entries[key], r.entries[key], key, D)
      BY LooseAllSelf, LooseAllBut, LooseSelf, LooseTame
    <3>. QED BY <3>1, ObservedTame, ObservePressIs DEF Keeps
  <2>3. Held(r, key) => /\ LooseAll(r, observed) /\ r.entries[key] # None
                        /\ r.entries[key].physical_state = "Held"
    BY ObservedLoose, LooseAllSelf
  <2>. HIDE DEF observed, p, otherPress, delayedPress, imeRepeat
  <2>4. /\ LooseBut(observed, d.reg, key)
        /\ Tame(observed.entries[key], d.reg.entries[key], key, D)
        /\ d.delivery \in {"Drop", "Forward"}
        /\ d.reg.retired[key] = observed.retired[key]
        /\ Held(observed, key) =>
              /\ Pressed(observed.entries[key], d.reg.entries[key])
              /\ IsHostAccelerator(key) => Withheld(d.reg.entries[key])
              /\ d.delivery = "Forward" /\ state # "repeat" =>
                   /\ GuestOwner(observed, key) = None
                   /\ d.reg.entries[key].guest_owner = "Physical"
    <3>1. r1 \in {observed, EndRepeat(CancelRepeat(observed))}
      OBVIOUS
    <3>2. r2 = (IF IsHostAccelerator(key) THEN InvalidatePeek(r1, key) ELSE r1)
      OBVIOUS
    <3>3. d = PhysicalPress(r2, key, state = "repeat", IsHostAccelerator(key), imeRepeat)
      BY <2>1 DEF p
    <3>. HIDE DEF r1, r2
    <3>4. PICK repeated \in BOOLEAN : repeated <=> state = "repeat"
      OBVIOUS
    <3>5. d = PhysicalPress(r2, key, repeated, IsHostAccelerator(key), imeRepeat)
      BY <3>3, <3>4
    <3>6. /\ Good(r2) /\ LooseAll(observed, r2)
          /\ IsHostAccelerator(key) => Withheld(r2.entries[key])
      <4>1. Good(observed) /\ LooseAll(observed, observed)
        BY <2>2, LooseAllSelf
      <4>2. /\ Keeps(observed, EndRepeat(CancelRepeat(observed)))
            /\ LooseAll(observed, EndRepeat(CancelRepeat(observed)))
        BY <2>2, EndsRepeatLoose, EndsRepeatIs, KeepsSelf
      <4>3. Good(r1) /\ LooseAll(observed, r1)
        BY <3>1, <4>1, <4>2 DEF Keeps
      <4>4. CASE IsHostAccelerator(key)
        BY <3>2, <4>3, <4>4, InvalidatePeekLoose, InvalidatePeekIs, LooseAllTrans
           DEF Keeps, Withheld
      <4>. QED BY <3>2, <4>3, <4>4
    <3>7. /\ \E h : Sets(r2, d.reg, key, h) /\ Claimed(r2.entries[key], h)
          /\ d.delivery \in {"Drop", "Forward"}
          /\ d.delivery = "Forward" /\ state # "repeat" =>
               /\ GuestOwner(r2, key) = None
               /\ d.reg.entries[key] # None /\ d.reg.entries[key].guest_owner = "Physical"
      BY <3>4, <3>5, <3>6, PhysicalPressSets
    <3>8. /\ LooseBut(observed, d.reg, key)
          /\ Tame(observed.entries[key], d.reg.entries[key], key, D)
          /\ d.reg.retired[key] = observed.retired[key]
          /\ Held(observed, key) =>
                /\ Pressed(observed.entries[key], d.reg.entries[key])
                /\ IsHostAccelerator(key) => Withheld(d.reg.entries[key])
                /\ GuestOwner(r2, key) = GuestOwner(observed, key)
      <4>1. PICK h : Sets(r2, d.reg, key, h) /\ Claimed(r2.entries[key], h)
        BY <3>7
      <4>. DEFINE s == d.reg
      <4>. HIDE DEF s
      <4>2. Sets(r2, s, key, h)
        BY <4>1 DEF s
      <4>3. /\ LooseBut(observed, s, key)
            /\ Tame(observed.entries[key], s.entries[key], key, D)
            /\ s.retired[key] = observed.retired[key]
            /\ Held(observed, key) =>
                 /\ Pressed(observed.entries[key], s.entries[key])
                 /\ Withheld(r2.entries[key]) => Withheld(s.entries[key])
                 /\ GuestOwner(r2, key) = GuestOwner(observed, key)
        BY <2>2, <3>6, <4>1, <4>2, AfterObserved
      <4>. QED BY <3>6, <4>3 DEF s
    <3>. QED BY <3>7, <3>8
  <2>5. /\ LooseBut(r, d.reg, key)
        /\ Tame(r.entries[key], d.reg.entries[key], key, D)
    BY <2>2, <2>4, LooseButTrans, TameTrans
  <2>. HIDE DEF r1, r2
  <2>6. ASSUME Held(r, key)
        PROVE  /\ Held(observed, key) /\ observed.retired[key] = r.retired[key]
               /\ GuestOwner(observed, key) = GuestOwner(r, key)
               /\ Pressed(observed.entries[key], d.reg.entries[key]) =>
                    Pressed(r.entries[key], d.reg.entries[key])
    <3>1. Loose(r.entries[key], observed.entries[key]) /\ observed.retired[key] = r.retired[key]
          /\ r.entries[key] # None /\ r.entries[key].physical_state = "Held"
      BY <2>3, <2>6 DEF LooseAll, LooseAt
    <3>2. observed.entries[key] # None /\ observed.entries[key].physical_state = "Held"
      BY <3>1 DEF Loose
    <3>3. Held(observed, key) /\ GuestOwner(observed, key) = GuestOwner(r, key)
      BY <3>1, <3>2 DEF Held, GuestOwner, Gen, Loose
    <3>4. Pressed(observed.entries[key], d.reg.entries[key]) =>
            Pressed(r.entries[key], d.reg.entries[key])
      BY <3>1, <3>2 DEF Pressed, Loose
    <3>. QED BY <3>1, <3>3, <3>4
  <2>. QED BY <2>4, <2>5, <2>6
<1>. QED BY <1>1, <1>2

\* The generation after the release of its own press.
Freed(g, h, serial) ==
  h # None => /\ g # None /\ h.physical_state = "Released"
              /\ h.guest_owner \in {None, "ImeRecovery"}
              /\ h.physical_release_serial = serial
              /\ h.peek_press_serial = g.peek_press_serial
              /\ h.peek # None => g.peek # None /\ h.peek.serial = g.peek.serial

LEMMA FreedIs ==
  ASSUME NEW f, NEW g, NEW h, NEW serial, Ended(f, g, serial), Closed(g, h)
  PROVE  Freed(f, h, serial)
BY DEF Ended, Closed, Freed

LEMMA FreedLoose ==
  ASSUME NEW f, NEW g, NEW h, NEW serial, Freed(f, g, serial), Loose(g, h)
  PROVE  Freed(f, h, serial)
BY DEF Freed, Loose

LEMMA FreedTame ==
  ASSUME NEW g, NEW h, NEW serial, NEW k, NEW D, Freed(g, h, serial) PROVE Tame(g, h, k, D)
BY DEF Freed, Tame

LEMMA KeyReleaseShape ==
  ASSUME NEW r, Good(r), NEW key \in Keys, NEW serial \in Serial,
         NEW d, d = OnKey(r, key, "release", serial),
         NEW matches, matches = PendingPhysicalReleases(r, key, serial)
  PROVE  /\ d.delivery \in {"Drop", "Forward"}
         /\ \/ matches # {} /\ d.reg = TakeRetired(r, key, matches)
            \/ /\ matches = {} /\ PeekPressSerial(r, key) # None
               /\ ReleaseSerial(r, key) # serial /\ d.reg = r
            \/ /\ matches = {}
               /\ PeekPressSerial(r, key) # None => ReleaseSerial(r, key) = serial
               /\ d.reg.retired[key] = r.retired[key] /\ LooseBut(r, d.reg, key)
               /\ Freed(r.entries[key], d.reg.entries[key], serial)
<1>. DEFINE other == PeekPressSerial(r, key) # None /\ ReleaseSerial(r, key) # serial
            observed == ObserveRelease(r, key, serial)
            release == PhysicalRelease(observed, key)
<1>1. CASE matches # {}
  <2>1. d = Decision(TakeRetired(r, key, matches), "Forward", TRUE, FALSE)
    BY <1>1 DEF OnKey
  <2>. QED BY <1>1, <2>1 DEF Decision
<1>2. CASE matches = {} /\ other
  <2>1. d = Decision(r, "Drop", FALSE, FALSE)
    BY <1>2 DEF OnKey
  <2>. QED BY <1>2, <2>1 DEF Decision
<1>3. CASE matches = {} /\ ~other
  <2>1. d = IF key = Backspace THEN [release EXCEPT !.reg = EndRepeat(@)] ELSE release
    BY <1>3 DEF OnKey
  <2>2. /\ Good(observed) /\ observed.retired = r.retired
        /\ Ended(r.entries[key], observed.entries[key], serial)
        /\ LooseBut(r, observed, key)
    BY ObserveReleaseIs, ObserveReleaseSets DEF Keeps
  <2>. HIDE DEF observed
  <2>3. /\ release.reg.retired = observed.retired
        /\ Closed(observed.entries[key], release.reg.entries[key])
        /\ LooseBut(observed, release.reg, key) /\ Good(release.reg)
    BY <2>2, PhysicalReleaseSets, PhysicalReleaseIs, AccountsGood
  <2>4. \E s, a : \E x \in {"Drop", "Forward"} : release = Decision(s, x, a, TRUE)
    BY DEF PhysicalRelease
  <2>. HIDE DEF release
  <2>5. /\ release.reg.retired = r.retired /\ LooseBut(r, release.reg, key)
        /\ Freed(r.entries[key], release.reg.entries[key], serial)
    BY <2>2, <2>3, FreedIs, LooseButTrans
  <2>6. d.delivery \in {"Drop", "Forward"} /\ d.reg \in {release.reg, EndRepeat(release.reg)}
    BY <2>1, <2>4 DEF Decision
  <2>7. CASE d.reg = release.reg
    BY <1>3, <2>5, <2>6, <2>7
  <2>8. CASE d.reg = EndRepeat(release.reg)
    <3>1. LooseAll(release.reg, d.reg)
      BY <2>3, <2>8, EndRepeatLoose
    <3>2. /\ LooseBut(r, d.reg, key) /\ d.reg.retired[key] = release.reg.retired[key]
          /\ Loose(release.reg.entries[key], d.reg.entries[key])
      BY <2>5, <3>1, LooseAllAfter
    <3>3. Freed(r.entries[key], d.reg.entries[key], serial)
      BY <2>5, <3>2, FreedLoose
    <3>. QED BY <1>3, <2>5, <2>6, <3>2, <3>3
  <2>. QED BY <2>6, <2>7, <2>8
<1>. QED BY <1>1, <1>2, <1>3

\* The generation after the keysym that opened it.
Typed(g, h, serial) ==
  /\ h # None /\ h.guest_owner = "TextInputKeysym" /\ h.guest_press_serial = serial
  /\ g # None => SameKey(g, h)
  /\ g = None => Blank(h)

LEMMA TypedTame ==
  ASSUME NEW g, NEW h, NEW serial, NEW k, NEW D, Typed(g, h, serial)
  PROVE  Tame(g, h, k, D)
BY DEF Typed, SameKey, Blank, Tame

LEMMA ClaimTextSets ==
  ASSUME NEW r, Good(r), NEW key \in Keys, NEW serial \in Serial,
         NEW s, s = [Claim(r, key, "TextInputKeysym")
                       EXCEPT !.entries[key].guest_press_serial = serial]
  PROVE  \E h : Sets(r, s, key, h) /\ Typed(r.entries[key], h, serial)
<1>. DEFINE b == Ensure(r, key)
            e == b.entries[key]
            g == [e EXCEPT !.guest_owner = "TextInputKeysym", !.guest_press_serial = serial]
<1>1. PICK f : /\ Sets(r, b, key, f)
               /\ r.entries[key] # None => f = r.entries[key]
               /\ r.entries[key] = None => \E id \in Nat : f = NewGeneration(id)
  BY EnsureSets
<1>2. Good(b) /\ e # None
  BY EnsureIs DEF Keeps
<1>3. s = [[b EXCEPT !.entries[key].guest_owner = "TextInputKeysym"]
             EXCEPT !.entries[key].guest_press_serial = serial]
  BY DEF Claim
<1>. HIDE DEF b
<1>4. e \in KeyGeneration /\ e = f
  BY <1>1, <1>2, EntryIs DEF Sets
<1>5. s = [b EXCEPT !.entries = [@ EXCEPT ![key] = g]]
  BY <1>2, <1>3, <1>4 DEF Good, Registry, KeyGeneration
<1>6. /\ g \in KeyGeneration /\ g.physical_state = e.physical_state
      /\ g.guest_owner = "TextInputKeysym" /\ g.guest_press_serial = serial
      /\ g.physical_release_serial = e.physical_release_serial
      /\ g.peek_press_serial = e.peek_press_serial /\ g.peek = e.peek
  BY <1>4 DEF KeyGeneration, GuestKeyOwner
<1>. HIDE DEF g
<1>7. s.retired = b.retired /\ s.entries = [b.entries EXCEPT ![key] = g]
  BY <1>2, <1>5 DEF Good, Registry
<1>8. Sets(b, s, key, g)
  BY <1>2, <1>7, SetsIs
<1>9. Sets(r, s, key, g)
  BY <1>1, <1>8 DEF Sets
<1>10. g # None /\ SameKey(e, g)
  BY <1>6, NoneAssumption DEF SameKey
<1>11. r.entries[key] = None => Blank(g)
  <2>1. \A id : NewGeneration(id).physical_state = "Unseen" /\ NewGeneration(id).peek = None
    BY DEF NewGeneration
  <2>. QED BY <1>1, <1>4, <1>6, <2>1 DEF Blank
<1>12. r.entries[key] # None => e = r.entries[key]
  BY <1>1, <1>4
<1>. QED BY <1>6, <1>9, <1>10, <1>11, <1>12 DEF Typed

LEMMA BeforeTextClaimSets ==
  ASSUME NEW r, Good(r), NEW key \in Keys, NEW serial,
         NEW b, b = BeforeTextClaim(r, key, serial)
  PROVE  /\ LooseBut(r, b, key) /\ b.entries[key] \in {None, r.entries[key]}
         /\ Held(r, key) => b = r
<1>1. LooseBut(r, r, key)
  BY LooseAllSelf, LooseAllBut
<1>2. CASE ~StartsNew(Gen(r, key), serial)
  BY <1>1, <1>2 DEF BeforeTextClaim
<1>3. CASE StartsNew(Gen(r, key), serial) /\ Released(r, key)
  <2>1. b = RetireReleased(r, key, serial)
    BY <1>3 DEF BeforeTextClaim
  <2>2. ~Held(r, key)
    BY <1>3 DEF Held, Released
  <2>3. b.entries[key] = None
    BY <1>3, <2>1, RetireReleasedSets
  <2>4. LooseBut(r, b, key)
    BY <2>1, RetireReleasedSets, LooseSelf DEF LooseBut, LooseAt
  <2>. QED BY <2>2, <2>3, <2>4
<1>4. CASE StartsNew(Gen(r, key), serial) /\ ~Released(r, key)
  <2>1. b = RemoveEntry(r, key)
    BY <1>4 DEF BeforeTextClaim
  <2>2. ~Held(r, key)
    BY <1>4 DEF StartsNew, Held, Released
  <2>3. /\ b.entries[key] = None /\ b.retired = r.retired
        /\ \A k \in Keys \ {key} : b.entries[k] = r.entries[k]
    BY <2>1 DEF RemoveEntry, Good, Registry
  <2>4. LooseBut(r, b, key)
    BY <2>3, LooseSelf DEF LooseBut, LooseAt
  <2>. QED BY <2>2, <2>3, <2>4
<1>. QED BY <1>2, <1>3, <1>4

LEMMA TextPressShape ==
  ASSUME NEW r, Good(r), NEW key \in Keys, NEW serial \in Serial, NEW D,
         NEW d, d = TextInputPress(r, key, serial)
  PROVE  /\ LooseBut(r, d.reg, key)
         /\ Tame(r.entries[key], d.reg.entries[key], key, D)
         /\ d.delivery \in {"Drop", "Forward"}
         /\ Held(r, key) =>
              /\ d.reg.retired[key] = r.retired[key]
              /\ d.delivery = "Drop" => d.reg = r
              /\ d.delivery = "Forward" =>
                   /\ r.entries[key].guest_owner = None
                   /\ r.entries[key].peek # None => r.entries[key].peek.eligible
                   /\ Typed(r.entries[key], d.reg.entries[key], serial)
<1>. DEFINE g == Gen(r, key)
            accelerated == \/ g.host_accelerator_suppressed
                           \/ Held(r, key) /\ g.peek # None /\ ~g.peek.eligible
            b == BeforeTextClaim(r, key, serial)
            free == GuestOwner(b, key) = None
            s == [Claim(b, key, "TextInputKeysym")
                    EXCEPT !.entries[key].guest_press_serial = serial]
<1>1. LooseBut(r, r, key) /\ Tame(r.entries[key], r.entries[key], key, D)
  BY LooseAllSelf, LooseAllBut, LooseSelf, LooseTame
<1>2. /\ LooseBut(r, b, key) /\ b.entries[key] \in {None, r.entries[key]}
      /\ Held(r, key) => b = r
  BY BeforeTextClaimSets
<1>3. Good(b) /\ Tame(r.entries[key], b.entries[key], key, D)
  <2>1. Good(b)
    BY BeforeTextClaimIs DEF Keeps
  <2>. HIDE DEF b
  <2>. QED BY <1>1, <1>2, <2>1 DEF Tame
<1>4. CASE accelerated \/ g.guest_owner = "Physical"
  <2>1. d = Decision(r, "Drop", None, FALSE)
    BY <1>4 DEF TextInputPress
  <2>2. d.reg = r /\ d.delivery = "Drop"
    BY <2>1 DEF Decision
  <2>. QED BY <1>1, <2>2
<1>5. CASE ~(accelerated \/ g.guest_owner = "Physical") /\ ~free
  <2>1. d = Decision(b, "Drop", None, FALSE)
    BY <1>5 DEF TextInputPress
  <2>2. d.reg = b /\ d.delivery = "Drop"
    BY <2>1 DEF Decision
  <2>. HIDE DEF b
  <2>. QED BY <1>2, <1>3, <2>2
<1>6. CASE ~(accelerated \/ g.guest_owner = "Physical") /\ free
  <2>1. d = Decision(s, "Forward", None, FALSE)
    BY <1>6 DEF TextInputPress
  <2>2. d.reg = s /\ d.delivery = "Forward"
    BY <2>1 DEF Decision
  <2>3. \E h : Sets(b, s, key, h) /\ Typed(b.entries[key], h, serial)
    BY <1>3, ClaimTextSets
  <2>. HIDE DEF b, s, accelerated
  <2>4. PICK h : Sets(b, d.reg, key, h) /\ Typed(b.entries[key], h, serial)
    BY <2>2, <2>3
  <2>5. /\ d.reg.entries[key] = h /\ d.reg.retired = b.retired /\ LooseBut(b, d.reg, key)
    BY <2>4, SetsLoose DEF Sets
  <2>6. LooseBut(r, d.reg, key)
    BY <1>2, <2>5, LooseButTrans
  <2>7. Tame(r.entries[key], h, key, D)
    BY <1>3, <2>4, TypedTame, TameTrans
  <2>8. ASSUME Held(r, key)
        PROVE  /\ b = r /\ r.entries[key].guest_owner = None
               /\ r.entries[key].peek # None => r.entries[key].peek.eligible
    <3>1. b = r /\ r.entries[key] # None
      BY <1>2, <2>8 DEF Held, Gen, NewGeneration
    <3>2. g = r.entries[key]
      BY <3>1 DEF Gen
    <3>. QED BY <1>6, <2>8, <3>1, <3>2 DEF GuestOwner, accelerated
  <2>. QED BY <2>2, <2>4, <2>5, <2>6, <2>7, <2>8
<1>. QED BY <1>4, <1>5, <1>6

\* The generation after the keysym that ends it.
Completed(g, h) ==
  /\ SameKey(g, h) /\ h.guest_owner = "ImeRecovery"
  /\ h.guest_press_serial = g.guest_press_serial

LEMMA CompletedTame ==
  ASSUME NEW g, g # None, NEW h, NEW k, NEW D, Completed(g, h) PROVE Tame(g, h, k, D)
BY DEF Completed, SameKey, Tame

LEMMA CompleteTextOwnerSets ==
  ASSUME NEW r, Good(r), NEW key \in Keys, r.entries[key] # None
  PROVE  \E h : Sets(r, CompleteTextOwner(r, key), key, h) /\ Completed(r.entries[key], h)
<1>. DEFINE e == r.entries[key]
            g == [e EXCEPT !.guest_owner = "ImeRecovery"]
            s == CompleteTextOwner(r, key)
<1>1. e \in KeyGeneration
  BY EntryIs
<1>2. s = [r EXCEPT !.entries = [@ EXCEPT ![key] = g]]
  BY DEF CompleteTextOwner
<1>3. /\ g \in KeyGeneration /\ g.physical_state = e.physical_state
      /\ g.guest_owner = "ImeRecovery" /\ g.guest_press_serial = e.guest_press_serial
      /\ g.physical_release_serial = e.physical_release_serial
      /\ g.peek_press_serial = e.peek_press_serial /\ g.peek = e.peek
  BY <1>1 DEF KeyGeneration, GuestKeyOwner
<1>. HIDE DEF g
<1>4. s.retired = r.retired /\ s.entries = [r.entries EXCEPT ![key] = g]
  BY <1>2 DEF Good, Registry
<1>. HIDE DEF s
<1>5. Sets(r, s, key, g)
  BY <1>4, SetsIs
<1>6. Completed(e, g)
  BY <1>3, NoneAssumption DEF Completed, SameKey
<1>. QED BY <1>5, <1>6 DEF s

LEMMA TextReleaseShape ==
  ASSUME NEW r, Good(r), NEW key \in Keys, NEW serial \in Serial,
         NEW d, d = TextInputRelease(r, key, serial),
         NEW matches,
         matches = {t \in Range(r.retired[key]) : InInterval(r, key, serial, t)}
  PROVE  \/ /\ matches # {} /\ d.reg = TakeRetired(r, key, matches)
            /\ d.delivery = "Forward"
         \/ /\ matches = {} /\ GuestOwner(r, key) = "TextInputKeysym"
            /\ d.reg = CompleteTextOwner(r, key) /\ d.delivery = "Forward"
         \/ /\ matches = {} /\ d.reg = r /\ d.delivery = "Drop"
            /\ GuestOwner(r, key) = "TextInputKeysym" =>
                 /\ GuestPressSerial(r, key) # None
                 /\ ~SerialIsAfter(serial, GuestPressSerial(r, key))
<1>. DEFINE now == /\ GuestPressSerial(r, key) = None
                        \/ SerialIsAfter(serial, GuestPressSerial(r, key))
                   /\ GuestOwner(r, key) = "TextInputKeysym"
<1>1. CASE matches # {}
  <2>1. d = Decision(TakeRetired(r, key, matches), "Forward", None, FALSE)
    BY <1>1 DEF TextInputRelease
  <2>. QED BY <1>1, <2>1 DEF Decision
<1>2. CASE matches = {} /\ now
  <2>1. d = Decision(CompleteTextOwner(r, key), "Forward", None, TRUE)
    BY <1>2 DEF TextInputRelease, GuestPressSerial, GuestOwner
  <2>. QED BY <1>2, <2>1 DEF Decision
<1>3. CASE matches = {} /\ ~now
  <2>1. d = Decision(r, "Drop", None, FALSE)
    BY <1>3 DEF TextInputRelease, GuestPressSerial, GuestOwner
  <2>. QED BY <1>3, <2>1 DEF Decision
<1>. QED BY <1>1, <1>2, <1>3

\* The keysym handler's decision, before the repeat session ends.
KeysymDecision(r, key, state, serial) ==
  CASE state = "press" -> TextInputPress(r, key, serial)
    [] state = "repeat" -> TextInputRepeat(r, key)
    [] state = "release" -> TextInputRelease(r, key, serial)

\* The end of the repeat session releases no press.
LEMMA KeysymEnds ==
  ASSUME NEW r, NEW key, NEW state \in KeyState, NEW serial,
         NEW d, d = KeysymDecision(r, key, state, serial),
         Good(d.reg),
         NEW f, f = OnKeysym(r, key, state, serial)
  PROVE  LooseAll(d.reg, f.reg) /\ f.delivery = d.delivery
<1>1. f \in {d, [d EXCEPT !.reg = EndRepeat(@)]}
  BY DEF OnKeysym, KeysymDecision
<1>2. \E s, x, a, e : d = Decision(s, x, a, e)
  <2>1. CASE state = "press"
    BY <2>1 DEF KeysymDecision, TextInputPress
  <2>2. CASE state = "repeat"
    BY <2>2 DEF KeysymDecision, TextInputRepeat
  <2>3. CASE state = "release"
    BY <2>3 DEF KeysymDecision, TextInputRelease
  <2>. QED BY <2>1, <2>2, <2>3 DEF KeyState
<1>3. LooseAll(d.reg, d.reg) /\ LooseAll(d.reg, EndRepeat(d.reg))
  BY LooseAllSelf, EndRepeatLoose
<1>4. CASE f = d
  BY <1>3, <1>4
<1>5. CASE f = [d EXCEPT !.reg = EndRepeat(@)]
  <2>1. f.reg = EndRepeat(d.reg) /\ f.delivery = d.delivery
    BY ONLY <1>2, <1>5 DEF Decision
  <2>. QED BY <1>3, <2>1
<1>. QED BY <1>1, <1>4, <1>5

\* Recovery takes the key the guest has not been given.
LEMMA EmptyConfirmShape ==
  ASSUME NEW r, Good(r), NEW key \in Keys, NEW f, f = OnEmptyConfirm(r, key)
  PROVE  \E s : /\ LooseAll(s, f.reg)
               /\ \/ f.delivery = "Drop" /\ s = r
                  \/ /\ f.delivery = "EmitBalancedPair" /\ ~Forwarded(r, key)
                     /\ \/ GuestOwner(r, key) # None /\ s = r
                        \/ /\ GuestOwner(r, key) = None
                           /\ \E h : /\ Sets(r, s, key, h) /\ Claimed(r.entries[key], h)
                                    /\ h # None /\ h.guest_owner = "ImeRecovery"
<1>. DEFINE d == RecoverIme(r, key)
            c == Claim(r, key, "ImeRecovery")
<1>1. f \in {d, [d EXCEPT !.reg = ArmImeRepeat(@, key)], [d EXCEPT !.reg = EndRepeat(@)]}
  BY DEF OnEmptyConfirm
<1>2. \E s, x, a, e : d = Decision(s, x, a, e)
  BY DEF RecoverIme
<1>3. Good(d.reg)
  BY RecoverImeIs DEF Keeps
<1>4. \/ d.delivery = "Drop" /\ d.reg = r
      \/ /\ d.delivery = "EmitBalancedPair" /\ ~Forwarded(r, key)
         /\ \/ GuestOwner(r, key) # None /\ d.reg = r
            \/ GuestOwner(r, key) = None /\ d.reg = c
  BY DEF RecoverIme, Decision
<1>5. GuestOwner(r, key) = None =>
        \E h : /\ Sets(r, c, key, h) /\ Claimed(r.entries[key], h)
              /\ h # None /\ h.guest_owner = "ImeRecovery"
  BY ClaimClaimed
<1>. HIDE DEF d, c
<1>6. f.delivery = d.delivery /\ f.reg \in {d.reg, ArmImeRepeat(d.reg, key), EndRepeat(d.reg)}
  BY ONLY <1>1, <1>2 DEF Decision
<1>7. LooseAll(d.reg, f.reg)
  BY <1>3, <1>6, LooseAllSelf, ArmImeRepeatLoose, EndRepeatLoose
<1>8. WITNESS d.reg
<1>. QED BY <1>4, <1>5, <1>6, <1>7

-----------------------------------------------------------------------------
(* Queues, key codes and the guest's open presses.                         *)

LEMMA AppendIs ==
  ASSUME NEW S, NEW q \in Seq(S), NEW e
  PROVE  Range(Append(q, e)) = Range(q) \cup {e}
<1>1. /\ Len(q) \in Nat /\ DOMAIN q = 1 .. Len(q)
      /\ DOMAIN Append(q, e) = 1 .. Len(q) + 1
      /\ Append(q, e)[Len(q) + 1] = e
      /\ \A i \in 1 .. Len(q) : Append(q, e)[i] = q[i]
  OBVIOUS
<1>2. Range(q) \cup {e} \subseteq Range(Append(q, e))
  <2>1. \A i \in 1 .. Len(q) : i \in 1 .. Len(q) + 1
    BY <1>1
  <2>2. Len(q) + 1 \in 1 .. Len(q) + 1
    BY <1>1
  <2>. QED BY <1>1, <2>1, <2>2 DEF Range
<1>3. Range(Append(q, e)) \subseteq Range(q) \cup {e}
  <2>1. \A i \in 1 .. Len(q) + 1 : i \in 1 .. Len(q) \/ i = Len(q) + 1
    BY <1>1
  <2>. QED BY <1>1, <2>1 DEF Range
<1>. QED BY <1>2, <1>3

LEMMA TailIs ==
  ASSUME NEW S, NEW q \in Seq(S), q # <<>>
  PROVE  /\ Head(q) \in Range(q) /\ Range(q) \subseteq S
         /\ Taken(Range(q), Range(Tail(q)), Head(q))
<1>1. /\ Len(q) \in Nat /\ Len(q) > 0 /\ DOMAIN q = 1 .. Len(q) /\ Head(q) = q[1]
      /\ DOMAIN Tail(q) = 1 .. Len(q) - 1
      /\ \A i \in 1 .. Len(q) - 1 : Tail(q)[i] = q[i + 1]
      /\ \A i \in 1 .. Len(q) : q[i] \in S
  OBVIOUS
<1>2. 1 \in 1 .. Len(q)
  BY <1>1
<1>3. Head(q) \in Range(q) /\ Range(q) \subseteq S
  BY <1>1, <1>2 DEF Range
<1>4. Range(Tail(q)) \subseteq Range(q)
  <2>1. \A i \in 1 .. Len(q) - 1 : i + 1 \in 1 .. Len(q)
    BY <1>1
  <2>. QED BY <1>1, <2>1 DEF Range
<1>5. ASSUME NEW x \in Range(q), x # Head(q) PROVE x \in Range(Tail(q))
  <2>1. PICK i \in 1 .. Len(q) : x = q[i]
    BY <1>1, <1>5 DEF Range
  <2>2. i - 1 \in 1 .. Len(q) - 1 /\ (i - 1) + 1 = i
    BY <1>1, <1>5, <2>1
  <2>3. Tail(q)[i - 1] = x
    BY <1>1, <2>1, <2>2
  <2>. QED BY <1>1, <2>2, <2>3 DEF Range
<1>. QED BY <1>3, <1>4, <1>5 DEF Taken

LEMMA EmptyRange == Range(<<>>) = {}
BY DEF Range

\* A keysym comes back as the key it was pressed with, whatever the level.
LEMMA KeycodeBack ==
  ASSUME NEW k \in Keys, NEW l \in DOMAIN Layout[k].syms
  PROVE  keysym_to_evdev_keycode(Layout[k].syms[l]) = k
<1>. DEFINE s == Layout[k].syms[l]
<1>1. k \in KeysWith(s)
  BY BackspaceAssumption DEF KeysWith
<1>2. ASSUME NEW j \in KeysWith(s) PROVE j = k
  <2>1. j \in DOMAIN Layout /\ \E m \in DOMAIN Layout[j].syms : Layout[j].syms[m] = s
    BY DEF KeysWith
  <2>. QED BY <2>1, LayoutAssumption, BackspaceAssumption
<1>. QED BY <1>1, <1>2 DEF keysym_to_evdev_keycode

\* The guest still has every press open that the registry will release.
OpenOwed(r, o) == \A k \in Keys : Owners(r, k) =< o[k]

LEMMA OpenKeeps ==
  ASSUME NEW r, NEW s, Keeps(r, s), NEW o, OpenOwed(r, o) PROVE OpenOwed(s, o)
BY DEF Keeps, OpenOwed

LEMMA DeliverOpen ==
  ASSUME KeyInv, OpenOwed(reg, open), NEW d, NEW key \in Keys, NEW state \in KeyState,
         NEW via, Accounts(reg, d, key, state), Deliver(d, key, state, via)
  PROVE  /\ OpenOwed(reg', open')
         /\ d.delivery = "Forward" /\ state = "release" => open[key] > 0
<1>1. reg' = d.reg /\ Good(reg') /\ Good(reg)
  BY AccountsGood DEF Deliver, KeyInv
<1>2. open \in [Keys -> Nat]
  BY DEF KeyInv, TypeOK
<1>3. \A k \in Keys : Owners(reg, k) \in Nat /\ Owners(reg', k) \in Nat
  BY <1>1, OwnersNat
<1>4. CASE d.delivery = "Forward" /\ state = "press"
  <2>1. open' = [open EXCEPT ![key] = @ + 1] /\ Gains(reg, reg', key)
    BY <1>1, <1>4 DEF Deliver, Accounts
  <2>2. ASSUME NEW k \in Keys PROVE Owners(reg', k) =< open'[k]
    <3>1. Owners(reg', k) = Owners(reg, k) + (IF k = key THEN 1 ELSE 0)
      BY <2>1 DEF Gains
    <3>2. open'[k] = open[k] + (IF k = key THEN 1 ELSE 0)
      BY <1>2, <2>1
    <3>3. Owners(reg, k) =< open[k] /\ open[k] \in Nat
      BY <1>2 DEF OpenOwed
    <3>. QED BY <1>3, <3>1, <3>2, <3>3
  <2>. QED BY <1>4, <2>2 DEF OpenOwed
<1>5. CASE d.delivery = "Forward" /\ state = "release"
  <2>1. /\ open' = [open EXCEPT ![key] = IF @ = 0 THEN 0 ELSE @ - 1]
        /\ Gains(reg', reg, key)
    BY <1>1, <1>5 DEF Deliver, Accounts, Loses
  <2>2. ASSUME NEW k \in Keys
        PROVE Owners(reg', k) =< open'[k] /\ (k = key => open[k] > 0)
    <3>1. Owners(reg, k) = Owners(reg', k) + (IF k = key THEN 1 ELSE 0)
      BY <2>1 DEF Gains
    <3>2. open'[k] = IF k # key THEN open[k] ELSE IF open[k] = 0 THEN 0 ELSE open[k] - 1
      BY <1>2, <2>1
    <3>3. Owners(reg, k) =< open[k] /\ open[k] \in Nat
      BY <1>2 DEF OpenOwed
    <3>. QED BY <1>3, <3>1, <3>2, <3>3
  <2>. QED BY <2>2 DEF OpenOwed
<1>6. CASE ~(d.delivery = "Forward" /\ state \in {"press", "release"})
  <2>1. open' = open
    BY <1>6 DEF Deliver
  <2>2. Keeps(reg, reg')
    BY <1>1, <1>6 DEF Accounts
  <2>. QED BY <1>6, <2>1, <2>2, OpenKeeps
<1>. QED BY <1>4, <1>5, <1>6

-----------------------------------------------------------------------------
(* The invariant and the steps that send an event.                         *)

\* A generation is held only while its key is down, and announced with a
\* serial of the past.
SoundAt(k, g, hd, n) ==
  g # None => /\ g.physical_state = "Held" => k \in hd
              /\ g.peek # None => Past(g.peek.serial, n)
Sound(r, hd, n) == \A k \in Keys : SoundAt(k, r.entries[k], hd, n)

KeysOK(r, K, T, hd, ro, n, gv, ac) ==
  \A k \in Keys : KeyOK(k, r.entries[k], r.retired[k], K, T, hd, ro[k], n, gv, ac)

\* Every chord the user leaves to the host is one the list names.
ChordsReserved == \A c \in Chords : is_host_accelerator(c.key, c.modifiers)
Kept(ac) == {k \in ac : ChordsReserved}

KQ == Range(keyQ)
TQ == Range(textQ)

\* Without the focus nothing is held back and nothing remembered.
Idle == /\ KQ = {} /\ TQ = {}
        /\ \A k \in Keys : reg.entries[k] = None /\ reg.retired[k] = <<>>

\* While the focus lasts and no keymap was rejected, every key is in order.
StrokeInv ==
  /\ Sound(reg, held, used)
  /\ EventsOK(KQ, "key", held, route, used)
  /\ EventsOK(TQ, "text", held, route, used)
  /\ ~focused => Idle
  /\ OpenOwed(reg, open)
  /\ focused /\ ~rejected => KeysOK(reg, KQ, TQ, held, route, used, given, Kept(accel))

LEMMA SoundIs ==
  ASSUME Good(reg), Sound(reg, held, used) PROVE HeldMeansDown
BY DEF Sound, SoundAt, HeldMeansDown, Held, Gen, NewGeneration

LEMMA PastLater ==
  ASSUME NEW n \in Int, NEW m \in Int, n =< m, NEW s, Past(s, n) PROVE Past(s, m)
BY IndexIs DEF Past

LEMMA SoundTame ==
  ASSUME NEW r, NEW s, NEW hd, NEW n, Sound(r, hd, n),
         \A k \in Keys : Tame(r.entries[k], s.entries[k], k, hd)
  PROVE  Sound(s, hd, n)
BY DEF Sound, SoundAt, Tame

LEMMA SoundBut ==
  ASSUME NEW r, NEW s, NEW hd, NEW n \in Int, Sound(r, hd, n), NEW key \in Keys,
         LooseBut(r, s, key), NEW m \in Int, n =< m,
         NEW hd2, \A k \in Keys \ {key} : k \in hd => k \in hd2,
         SoundAt(key, s.entries[key], hd2, m)
  PROVE  Sound(s, hd2, m)
<1>1. ASSUME NEW k \in Keys \ {key} PROVE SoundAt(k, s.entries[k], hd2, m)
  <2>1. SoundAt(k, r.entries[k], hd, n) /\ Loose(r.entries[k], s.entries[k])
    BY DEF Sound, LooseBut, LooseAt
  <2>. QED BY <2>1, PastLater DEF SoundAt, Loose
<1>. QED BY <1>1 DEF Sound

\* The events of the other keys are the same.
Elsewhere(E, E2, key) == \A e : e.key # key => (e \in E2 <=> e \in E)

LEMMA ElsewhereIs ==
  ASSUME NEW E, NEW e, NEW key, e.key = key
  PROVE  /\ \A E2 : Taken(E, E2, e) => Elsewhere(E, E2, key)
         /\ Elsewhere(E, E \cup {e}, key) /\ Elsewhere(E, E, key)
BY DEF Taken, Elsewhere

\* A step about one key leaves the others in order.
LEMMA OthersOK ==
  ASSUME NEW r, NEW s, NEW key \in Keys, LooseBut(r, s, key),
         NEW K, NEW T, NEW hd, NEW ro, NEW n \in Int, NEW gv, NEW ac,
         KeysOK(r, K, T, hd, ro, n, gv, ac),
         NEW K2, Elsewhere(K, K2, key), NEW T2, Elsewhere(T, T2, key),
         NEW hd2, NEW ro2, NEW m \in Int, n =< m, NEW gv2, NEW ac2,
         \A k \in Keys \ {key} : /\ k \in hd2 <=> k \in hd
                                 /\ ro2[k] = ro[k]
                                 /\ k \in gv2 => k \in gv
                                 /\ k \in ac2 => k \in ac,
         KeyOK(key, s.entries[key], s.retired[key], K2, T2, hd2, ro2[key], m, gv2, ac2)
  PROVE  KeysOK(s, K2, T2, hd2, ro2, m, gv2, ac2)
<1>1. ASSUME NEW k \in Keys \ {key}
      PROVE  KeyOK(k, s.entries[k], s.retired[k], K2, T2, hd2, ro2[k], m, gv2, ac2)
  <2>1. KeyOK(k, r.entries[k], r.retired[k], K, T, hd, ro[k], n, gv, ac)
    BY DEF KeysOK
  <2>2. s.retired[k] = r.retired[k] /\ Loose(r.entries[k], s.entries[k])
    BY DEF LooseBut, LooseAt
  <2>3. KeyOK(k, s.entries[k], s.retired[k], K, T, hd, ro[k], n, gv, ac)
    BY <2>1, <2>2, LooseOK
  <2>4. \A e : e.key = k => (e \in K2 <=> e \in K) /\ (e \in T2 <=> e \in T)
    BY DEF Elsewhere
  <2>5. KeyOK(k, s.entries[k], s.retired[k], K2, T2, hd2, ro[k], m, gv2, ac2)
    BY <2>3, <2>4, ElsewhereOK
  <2>. QED BY <2>5
<1>. QED BY <1>1 DEF KeysOK

LEMMA KeysLoose ==
  ASSUME NEW r, NEW s, LooseAll(r, s),
         NEW K, NEW T, NEW hd, NEW ro, NEW n, NEW gv, NEW ac,
         KeysOK(r, K, T, hd, ro, n, gv, ac)
  PROVE  KeysOK(s, K, T, hd, ro, n, gv, ac)
<1>1. ASSUME NEW k \in Keys
      PROVE  KeyOK(k, s.entries[k], s.retired[k], K, T, hd, ro[k], n, gv, ac)
  <2>1. KeyOK(k, r.entries[k], r.retired[k], K, T, hd, ro[k], n, gv, ac)
    BY DEF KeysOK
  <2>2. s.retired[k] = r.retired[k] /\ Loose(r.entries[k], s.entries[k])
    BY DEF LooseAll, LooseAt
  <2>. QED BY <2>1, <2>2, LooseOK
<1>. QED BY <1>1 DEF KeysOK

LEMMA EventsSent ==
  ASSUME NEW E, NEW via, NEW hd, NEW ro, NEW n \in Nat, EventsOK(E, via, hd, ro, n),
         NEW key \in Keys, Settled(E, key, n), NEW state \in KeyState,
         NEW s \in Serial, Index(s) = n, NEW channels,
         NEW E2, Sent(via, channels, E, E2, key, state, s),
         NEW hd2, NEW ro2, NEW m, m = n + 1,
         \A k \in Keys \ {key} : (k \in hd => k \in hd2) /\ ro2[k] = ro[k],
         state # "release" => key \in hd2 /\ channels \subseteq ro2[key]
  PROVE  EventsOK(E2, via, hd2, ro2, m)
<1>. DEFINE e == [key |-> key, state |-> state, serial |-> s]
<1>1. e \in KeyEvent /\ e.key = key /\ e.state = state /\ Index(e.serial) = n
  BY DEF KeyEvent
<1>2. E2 = IF via \in channels THEN E \cup {e} ELSE E
  BY DEF Sent
<1>. HIDE DEF e
<1>3. ASSUME NEW x \in E
      PROVE  /\ x \in KeyEvent /\ Index(x.serial) < m
             /\ x.state # "release" => x.key \in hd2 /\ via \in ro2[x.key]
  <2>1. /\ x \in KeyEvent /\ Index(x.serial) < n /\ x.serial \in Serial /\ x.key \in Keys
        /\ x.state # "release" => x.key \in hd /\ via \in ro[x.key]
        /\ x.key = key => x.state = "release"
    BY DEF EventsOK, Settled, KeyEvent
  <2>. QED BY <2>1, IndexIs
<1>4. CASE via \in channels
  <2>1. /\ e.state # "release" => e.key \in hd2 /\ via \in ro2[e.key]
        /\ Index(e.serial) < m
    BY <1>1, <1>4
  <2>. QED BY <1>1, <1>2, <1>3, <1>4, <2>1 DEF EventsOK
<1>5. CASE via \notin channels
  BY <1>2, <1>3, <1>5 DEF EventsOK
<1>. QED BY <1>4, <1>5

LEMMA SendSets ==
  ASSUME KeyInv, StrokeInv, PressesPrompt, NEW key \in Keys, NEW state \in KeyState,
         NEW channels, Send(key, state, channels)
  PROVE  /\ Sent("key", channels, KQ, KQ', key, state, CurrentSerial)
         /\ Sent("text", channels, TQ, TQ', key, state, CurrentSerial)
         /\ Elsewhere(KQ, KQ', key) /\ Elsewhere(TQ, TQ', key)
         /\ Settled(KQ, key, used) /\ Settled(TQ, key, used)
         /\ used' = used + 1 /\ used \in Nat /\ used < MaxTransitions
         /\ CurrentSerial \in Serial /\ Index(CurrentSerial) = used /\ CurrentSerial # None
         /\ open' = open /\ focused' = focused /\ rejected' = rejected
<1>. DEFINE e == [key |-> key, state |-> state, serial |-> CurrentSerial]
<1>1. keyQ \in Seq(KeyEvent) /\ textQ \in Seq(KeyEvent) /\ used \in Nat
  BY DEF KeyInv, TypeOK
<1>2. /\ CurrentSerial \in Serial /\ Index(CurrentSerial) = used /\ CurrentSerial # None
      /\ used < MaxTransitions
  BY CurrentIndexIs, NoneAssumption DEF KeyInv, Send, Serial
<1>3. KQ' = IF "key" \in channels THEN KQ \cup {e} ELSE KQ
  <2>1. keyQ' = IF "key" \in channels THEN Append(keyQ, e) ELSE keyQ
    BY DEF Send
  <2>. QED BY <1>1, <2>1, AppendIs DEF KQ
<1>4. TQ' = IF "text" \in channels THEN TQ \cup {e} ELSE TQ
  <2>1. textQ' = IF "text" \in channels THEN Append(textQ, e) ELSE textQ
    BY DEF Send
  <2>. QED BY <1>1, <2>1, AppendIs DEF TQ
<1>5. \A x \in KQ \cup TQ : x.key = key => x.state = "release"
  BY DEF Send, KQ, TQ
<1>6. Settled(KQ, key, used) /\ Settled(TQ, key, used)
  BY <1>5 DEF StrokeInv, EventsOK, Settled
<1>7. /\ Sent("key", channels, KQ, KQ', key, state, CurrentSerial)
      /\ Sent("text", channels, TQ, TQ', key, state, CurrentSerial)
  BY <1>3, <1>4 DEF Sent
<1>8. Elsewhere(KQ, KQ', key) /\ Elsewhere(TQ, TQ', key)
  <2>1. e.key = key
    OBVIOUS
  <2>. HIDE DEF e
  <2>2. /\ Elsewhere(KQ, KQ \cup {e}, key) /\ Elsewhere(KQ, KQ, key)
        /\ Elsewhere(TQ, TQ \cup {e}, key) /\ Elsewhere(TQ, TQ, key)
    BY <2>1, ElsewhereIs
  <2>. QED BY <1>3, <1>4, <2>2
<1>. QED BY <1>1, <1>2, <1>6, <1>7, <1>8 DEF Send, Quiet

LEMMA PressKeyStroke ==
  ASSUME KeyInv, StrokeInv, PressesPrompt, NEW key \in Keys, PressKey(key)
  PROVE  StrokeInv'
<1>1. /\ focused /\ key \notin held /\ held' = held \cup {key}
      /\ reg' = OnPeekKey(reg, key, "press", CurrentSerial)
      /\ given' = given \ {key}
      /\ accel' = IF LeftToHost(key) THEN accel \cup {key} ELSE accel \ {key}
  BY DEF PressKey
<1>2. PICK channels \in SUBSET Channels :
        Send(key, "press", channels) /\ route' = [route EXCEPT ![key] = channels]
  BY DEF PressKey
<1>. DEFINE s == CurrentSerial
            g == reg.entries[key]
            h == reg'.entries[key]
            rt == reg.retired[key]
<1>3. /\ Sent("key", channels, KQ, KQ', key, "press", s)
      /\ Sent("text", channels, TQ, TQ', key, "press", s)
      /\ Elsewhere(KQ, KQ', key) /\ Elsewhere(TQ, TQ', key)
      /\ Settled(KQ, key, used) /\ Settled(TQ, key, used)
      /\ used' = used + 1 /\ used \in Nat /\ used < MaxTransitions
      /\ s \in Serial /\ Index(s) = used /\ s # None
      /\ open' = open /\ focused' = focused /\ rejected' = rejected
  BY <1>2, SendSets DEF KeyState
<1>. HIDE DEF s
<1>4. route \in [Keys -> SUBSET Channels] /\ Good(reg) /\ Sound(reg, held, used)
  BY DEF KeyInv, TypeOK, StrokeInv
<1>5. ~Held(reg, key)
  BY <1>1, <1>4, SoundIs DEF HeldMeansDown
<1>6. /\ reg'.retired[key] = TombsAfter(reg, key, s)
      /\ Announced(h, s, ~IsHostAccelerator(key), g = None \/ Released(reg, key))
      /\ LooseBut(reg, reg', key)
  BY <1>1, <1>3, <1>4, <1>5, PeekPressSets DEF s
<1>7. /\ h # None /\ h.physical_state = "Held" /\ h.peek_press_serial = s
      /\ h.peek # None /\ h.peek.serial = s
      /\ h.peek.eligible => ~IsHostAccelerator(key)
      /\ g = None \/ Released(reg, key) =>
           h.guest_owner = None /\ h.physical_release_serial = None
  BY <1>6 DEF Announced
<1>8. Sound(reg', held', used')
  <2>1. SoundAt(key, h, held', used + 1)
    BY <1>1, <1>3, <1>7 DEF SoundAt, Past
  <2>2. \A k \in Keys \ {key} : k \in held => k \in held'
    BY <1>1
  <2>. QED BY <1>3, <1>4, <1>6, <2>1, <2>2, SoundBut
<1>9. \A k \in Keys \ {key} : (k \in held => k \in held') /\ route'[k] = route[k]
  BY <1>1, <1>2, <1>4
<1>10. route'[key] = channels /\ key \in held' /\ "press" \in KeyState
  BY <1>1, <1>2, <1>4 DEF KeyState
<1>11. EventsOK(KQ', "key", held', route', used') /\ EventsOK(TQ', "text", held', route', used')
  BY <1>3, <1>9, <1>10, EventsSent DEF StrokeInv
<1>12. OpenOwed(reg', open')
  <2>1. Keeps(reg, reg')
    BY <1>1, <1>3, <1>4, OnPeekKeyIs DEF KeyState, s
  <2>. QED BY <1>3, <2>1, OpenKeeps DEF StrokeInv
<1>13. ASSUME ~rejected'
       PROVE  KeysOK(reg', KQ', TQ', held', route', used', given', Kept(accel'))
  <2>1. KeysOK(reg, KQ, TQ, held, route, used, given, Kept(accel))
    BY <1>1, <1>3, <1>13 DEF StrokeInv
  <2>2. KeyOK(key, g, rt, KQ, TQ, held, route[key], used, given, Kept(accel))
    BY <2>1 DEF KeysOK
  <2>3. /\ g \in KeyGeneration \cup {None} /\ g # None => EntryOK(g)
        /\ g # None => g \in KeyGeneration
        /\ rt \in Seq(RetiredGuestRelease)
    BY <1>4, EntryIs
  <2>4. g = None \/ Released(reg, key)
    <3>1. SUFFICES ASSUME g # None PROVE Released(reg, key)
      OBVIOUS
    <3>2. Gen(reg, key) = g
      BY <1>4, <3>1, GenIs
    <3>3. g.physical_state # "Held"
      BY <1>5, <3>2 DEF Held
    <3>4. g.physical_state # "Unseen"
      BY <2>2, <3>1 DEF KeyOK, SerialsOK
    <3>. HIDE DEF g
    <3>5. g.physical_state \in PhysicalKeyState
      BY ONLY <2>3, <3>1 DEF KeyGeneration
    <3>. QED BY <3>2, <3>3, <3>4, <3>5 DEF Released, PhysicalKeyState
  <2>5. reg'.retired[key] = RetiredBy(g, rt, s)
    BY <1>4, <1>6, <2>4, GenIs DEF TombsAfter, RetiredBy
  <2>6. key \in Kept(accel') => ~h.peek.eligible
    <3>1. SUFFICES ASSUME key \in accel', ChordsReserved PROVE IsHostAccelerator(key)
      BY <1>7 DEF Kept
    <3>2. mods # None /\ [modifiers |-> mods, key |-> key] \in Chords
      BY <1>1, <3>1 DEF LeftToHost
    <3>. QED BY <3>1, <3>2 DEF ChordsReserved, IsHostAccelerator
  <2>8. key \notin given' /\ key \in held' /\ key \notin held
    BY <1>1
  <2>9. h.guest_owner = None /\ h.physical_release_serial = None
    BY <1>7, <2>4
  <2>. DEFINE rt2 == reg'.retired[key]
              ac2 == Kept(accel')
  <2>. HIDE DEF g, h, rt, rt2, ac2
  <2>10. KeyOK(key, h, rt2, KQ', TQ', held', channels, used', given', ac2)
    <3>1. /\ rt2 = RetiredBy(g, rt, s)
          /\ key \in ac2 => ~h.peek.eligible
      BY <2>5, <2>6 DEF rt2, ac2
    <3>2. Opened(h, s) /\ key \in Keys
      BY <1>7, <2>9 DEF Opened
    <3>. DEFINE K2 == KQ'
                T2 == TQ'
                hd2 == held'
                gv2 == given'
                m == used'
                c == route[key]
                ac == Kept(accel)
    <3>3. /\ Sent("key", channels, KQ, K2, key, "press", s)
          /\ Sent("text", channels, TQ, T2, key, "press", s)
          /\ Settled(KQ, key, used) /\ Settled(TQ, key, used)
          /\ m = used + 1 /\ used \in Nat /\ used < MaxTransitions
          /\ s \in Serial /\ Index(s) = used /\ s # None
      BY <1>3
    <3>4. KeyOK(key, g, rt, KQ, TQ, held, c, used, given, ac)
      BY <2>2
    <3>5. key \notin gv2 /\ key \in hd2 /\ key \notin held
      BY <2>8
    <3>. HIDE DEF K2, T2, hd2, gv2, m, c, ac
    <3>6. KeyOK(key, h, rt2, K2, T2, hd2, channels, m, gv2, ac2)
      BY ONLY <2>3, <3>1, <3>2, <3>3, <3>4, <3>5, PressOK
    <3>. QED BY <3>6 DEF K2, T2, hd2, gv2, m
  <2>11. \A k \in Keys \ {key} : /\ k \in held' <=> k \in held
                                 /\ route'[k] = route[k]
                                 /\ k \in given' => k \in given
                                 /\ k \in Kept(accel') => k \in Kept(accel)
    BY <1>1, <1>9 DEF Kept
  <2>. QED BY <1>3, <1>6, <1>10, <2>1, <2>10, <2>11, OthersOK DEF h, rt2, ac2
<1>. QED BY <1>1, <1>3, <1>8, <1>11, <1>12, <1>13 DEF StrokeInv

LEMMA RepeatKeyStroke ==
  ASSUME KeyInv, StrokeInv, PressesPrompt, NEW key \in Keys, RepeatKey(key)
  PROVE  StrokeInv'
<1>1. /\ focused /\ key \in held /\ Send(key, "repeat", route[key])
      /\ reg' = OnPeekKey(reg, key, "repeat", CurrentSerial)
      /\ held' = held /\ route' = route /\ given' = given /\ accel' = accel
  BY DEF RepeatKey, strokes
<1>. DEFINE s == CurrentSerial
            g == reg.entries[key]
            h == reg'.entries[key]
            rt == reg.retired[key]
            c == route[key]
<1>2. /\ Sent("key", c, KQ, KQ', key, "repeat", s)
      /\ Sent("text", c, TQ, TQ', key, "repeat", s)
      /\ Elsewhere(KQ, KQ', key) /\ Elsewhere(TQ, TQ', key)
      /\ Settled(KQ, key, used) /\ Settled(TQ, key, used)
      /\ used' = used + 1 /\ used \in Nat /\ used < MaxTransitions
      /\ s \in Serial /\ Index(s) = used /\ s # None
      /\ open' = open /\ focused' = focused /\ rejected' = rejected
  BY <1>1, SendSets DEF KeyState
<1>. HIDE DEF s
<1>3. Good(reg) /\ Sound(reg, held, used)
  BY DEF KeyInv, StrokeInv
<1>4. /\ ~Held(reg, key) => reg' = reg
      /\ Held(reg, key) => \E f : Sets(reg, reg', key, f) /\ Refreshed(g, f, s)
  BY <1>1, <1>2, <1>3, PeekRepeatSets DEF s
<1>5. reg'.retired = reg.retired /\ LooseBut(reg, reg', key)
  BY <1>4, SetsLoose, LooseAllSelf, LooseAllBut DEF Sets
<1>6. ASSUME Held(reg, key) PROVE g # None /\ g.physical_state = "Held" /\ Refreshed(g, h, s)
  BY <1>4, <1>6 DEF Sets, Held, Gen, NewGeneration
<1>7. Sound(reg', held', used')
  <2>1. SoundAt(key, h, held, used + 1)
    <3>1. SoundAt(key, g, held, used)
      BY <1>3 DEF Sound
    <3>2. CASE Held(reg, key)
      BY <1>2, <1>6, <3>1, <3>2 DEF SoundAt, Refreshed, Past
    <3>3. CASE ~Held(reg, key)
      BY <1>2, <1>4, <3>1, <3>3, PastLater DEF SoundAt
    <3>. QED BY <3>2, <3>3
  <2>. DEFINE hd == held
              m == used'
  <2>2. \A k \in Keys \ {key} : k \in held => k \in hd
    OBVIOUS
  <2>3. SoundAt(key, h, hd, m) /\ used \in Int /\ m \in Int /\ used =< m
    BY <1>2, <2>1
  <2>. HIDE DEF hd, m
  <2>4. Sound(reg', hd, m)
    BY ONLY <1>3, <1>5, <2>2, <2>3, SoundBut DEF h
  <2>. QED BY <1>1, <1>2, <2>4 DEF hd, m
<1>8. EventsOK(KQ', "key", held', route', used') /\ EventsOK(TQ', "text", held', route', used')
  <2>1. "repeat" \in KeyState
    BY DEF KeyState
  <2>. QED BY <1>1, <1>2, <2>1, EventsSent DEF StrokeInv
<1>9. OpenOwed(reg', open')
  <2>1. Keeps(reg, reg')
    BY <1>1, <1>2, <1>3, OnPeekKeyIs DEF KeyState, s
  <2>. QED BY <1>2, <2>1, OpenKeeps DEF StrokeInv
<1>10. ASSUME ~rejected'
       PROVE  KeysOK(reg', KQ', TQ', held', route', used', given', Kept(accel'))
  <2>1. KeysOK(reg, KQ, TQ, held, route, used, given, Kept(accel))
    BY <1>1, <1>2, <1>10 DEF StrokeInv
  <2>2. KeyOK(key, g, rt, KQ, TQ, held, c, used, given, Kept(accel))
    BY <2>1 DEF KeysOK
  <2>3. Held(reg, key)
    BY <1>1, <2>2 DEF KeyOK, Held, Gen
  <2>4. Refreshed(g, h, s) /\ g # None
    BY <1>6, <2>3
  <2>. HIDE DEF g, h, rt, c
  <2>5. KeyOK(key, h, rt, KQ', TQ', held, c, used', given, Kept(accel))
    BY ONLY <1>1, <1>2, <2>2, <2>4, RepeatOK DEF Refreshed
  <2>. QED BY <1>1, <1>2, <1>5, <2>1, <2>5, OthersOK DEF h, rt, c
<1>. QED BY <1>1, <1>2, <1>7, <1>8, <1>9, <1>10 DEF StrokeInv

LEMMA ReleaseKeyStroke ==
  ASSUME KeyInv, StrokeInv, PressesPrompt, NEW key \in Keys, ReleaseKey(key)
  PROVE  StrokeInv'
<1>1. /\ focused /\ key \in held /\ Send(key, "release", route[key])
      /\ reg' = OnPeekKey(reg, key, "release", CurrentSerial)
      /\ held' = held \ {key} /\ route' = route /\ given' = given /\ accel' = accel
  BY DEF ReleaseKey, strokes
<1>. DEFINE s == CurrentSerial
            g == reg.entries[key]
            h == reg'.entries[key]
            rt == reg.retired[key]
            c == route[key]
<1>2. /\ Sent("key", c, KQ, KQ', key, "release", s)
      /\ Sent("text", c, TQ, TQ', key, "release", s)
      /\ Elsewhere(KQ, KQ', key) /\ Elsewhere(TQ, TQ', key)
      /\ Settled(KQ, key, used) /\ Settled(TQ, key, used)
      /\ used' = used + 1 /\ used \in Nat /\ used < MaxTransitions
      /\ s \in Serial /\ Index(s) = used /\ s # None
      /\ open' = open /\ focused' = focused /\ rejected' = rejected
  BY <1>1, SendSets DEF KeyState
<1>. HIDE DEF s
<1>3. Good(reg) /\ Sound(reg, held, used)
  BY DEF KeyInv, StrokeInv
<1>4. Peek(reg, key) # None => ~SerialIsAfter(Peek(reg, key).serial, s)
  <2>1. SUFFICES ASSUME Peek(reg, key) # None PROVE ~SerialIsAfter(Peek(reg, key).serial, s)
    OBVIOUS
  <2>2. g # None /\ Peek(reg, key) = g.peek
    BY <1>3, <2>1, GenIs DEF Peek, NewGeneration
  <2>3. Past(g.peek.serial, used)
    BY <1>3, <2>1, <2>2 DEF Sound, SoundAt
  <2>4. used + 1 \in 0 .. MaxTransitions
    BY <1>2, SerialAssumption
  <2>5. Past(g.peek.serial, used + 1) /\ Past(s, used + 1)
    BY <1>2, <2>3, IndexIs DEF Past
  <2>6. ~(Index(s) < Index(g.peek.serial))
    BY <1>2, <2>3, IndexIs DEF Past
  <2>. QED BY <2>2, <2>4, <2>5, <2>6, AfterIs
<1>5. /\ reg'.retired[key] = rt /\ Ended(g, h, s) /\ LooseBut(reg, reg', key)
  BY <1>1, <1>2, <1>3, <1>4, PeekReleaseSets DEF s
<1>6. Sound(reg', held', used')
  <2>. DEFINE hd == held'
              m == used'
  <2>1. SoundAt(key, h, hd, m)
    <3>1. SoundAt(key, g, held, used)
      BY <1>3 DEF Sound
    <3>2. \A p : Past(p, used) => Past(p, used + 1)
      BY <1>2, IndexIs DEF Past
    <3>. QED BY <1>2, <1>5, <3>1, <3>2 DEF SoundAt, Ended
  <2>2. \A k \in Keys \ {key} : k \in held => k \in hd
    BY <1>1
  <2>3. used \in Int /\ m \in Int /\ used =< m
    BY <1>2
  <2>. HIDE DEF hd, m
  <2>4. Sound(reg', hd, m)
    BY ONLY <1>3, <1>5, <2>1, <2>2, <2>3, SoundBut DEF h
  <2>. QED BY <2>4 DEF hd, m
<1>7. EventsOK(KQ', "key", held', route', used') /\ EventsOK(TQ', "text", held', route', used')
  <2>1. \A k \in Keys \ {key} : (k \in held => k \in held') /\ route'[k] = route[k]
    BY <1>1
  <2>2. "release" \in KeyState
    BY DEF KeyState
  <2>. QED BY <1>1, <1>2, <2>1, <2>2, EventsSent DEF StrokeInv
<1>8. OpenOwed(reg', open')
  <2>1. Keeps(reg, reg')
    BY <1>1, <1>2, <1>3, OnPeekKeyIs DEF KeyState, s
  <2>. QED BY <1>2, <2>1, OpenKeeps DEF StrokeInv
<1>9. ASSUME ~rejected'
      PROVE  KeysOK(reg', KQ', TQ', held', route', used', given', Kept(accel'))
  <2>1. KeysOK(reg, KQ, TQ, held, route, used, given, Kept(accel))
    BY <1>1, <1>2, <1>9 DEF StrokeInv
  <2>2. KeyOK(key, g, rt, KQ, TQ, held, c, used, given, Kept(accel))
    BY <2>1 DEF KeysOK
  <2>3. h # None => /\ h.physical_state = "Released"
                    /\ h.guest_owner = g.guest_owner
                    /\ h.guest_press_serial = g.guest_press_serial
                    /\ h.physical_release_serial = s
                    /\ h.peek_press_serial = g.peek_press_serial
    BY <1>5 DEF Ended
  <2>4. key \notin held'
    BY <1>1
  <2>. HIDE DEF g, h, rt, c
  <2>5. KeyOK(key, h, rt, KQ', TQ', held', c, used', given, Kept(accel))
    BY ONLY <1>1, <1>2, <2>2, <2>3, <2>4, ReleaseOK
  <2>6. \A k \in Keys \ {key} : (k \in held' <=> k \in held) /\ route'[k] = route[k]
    BY <1>1
  <2>. QED BY <1>1, <1>2, <1>5, <2>1, <2>5, <2>6, OthersOK DEF h, rt, c
<1>. QED BY <1>1, <1>2, <1>6, <1>7, <1>8, <1>9 DEF StrokeInv

LEMMA ReleaseKeysymStroke ==
  ASSUME KeyInv, StrokeInv, PressesPrompt, NEW key \in Keys, ReleaseKeysym(key)
  PROVE  StrokeInv'
<1>1. /\ focused /\ key \in held /\ "text" \in route[key]
      /\ Send(key, "release", {"text"})
      /\ route' = [route EXCEPT ![key] = @ \ {"text"}]
      /\ reg' = reg /\ held' = held /\ given' = given /\ accel' = accel
  BY DEF ReleaseKeysym, strokes
<1>. DEFINE s == CurrentSerial
            g == reg.entries[key]
            rt == reg.retired[key]
            c == route[key]
<1>2. /\ Sent("key", {"text"}, KQ, KQ', key, "release", s)
      /\ Sent("text", {"text"}, TQ, TQ', key, "release", s)
      /\ Elsewhere(KQ, KQ', key) /\ Elsewhere(TQ, TQ', key)
      /\ Settled(KQ, key, used) /\ Settled(TQ, key, used)
      /\ used' = used + 1 /\ used \in Nat /\ used < MaxTransitions
      /\ s \in Serial /\ Index(s) = used /\ s # None
      /\ open' = open /\ focused' = focused /\ rejected' = rejected
  BY <1>1, SendSets DEF KeyState
<1>. HIDE DEF s
<1>3. /\ Good(reg) /\ Sound(reg, held, used) /\ route \in [Keys -> SUBSET Channels]
      /\ LooseBut(reg, reg', key)
  BY <1>1, LooseAllSelf, LooseAllBut DEF KeyInv, TypeOK, StrokeInv
<1>4. Sound(reg', held', used')
  BY <1>1, <1>2, <1>3, PastLater DEF Sound, SoundAt
<1>5. route'[key] = c \ {"text"} /\ \A k \in Keys \ {key} : route'[k] = route[k]
  BY <1>1, <1>3
<1>6. EventsOK(KQ', "key", held', route', used') /\ EventsOK(TQ', "text", held', route', used')
  <2>1. \A k \in Keys \ {key} : (k \in held => k \in held') /\ route'[k] = route[k]
    BY <1>1, <1>5
  <2>2. "release" \in KeyState
    BY DEF KeyState
  <2>. QED BY <1>2, <2>1, <2>2, EventsSent DEF StrokeInv
<1>7. KQ' = KQ
  BY <1>2 DEF Sent
<1>8. OpenOwed(reg', open')
  BY <1>1, <1>2 DEF StrokeInv
<1>9. ASSUME ~rejected'
      PROVE  KeysOK(reg', KQ', TQ', held', route', used', given', Kept(accel'))
  <2>1. KeysOK(reg, KQ, TQ, held, route, used, given, Kept(accel))
    BY <1>1, <1>2, <1>9 DEF StrokeInv
  <2>2. KeyOK(key, g, rt, KQ, TQ, held, c, used, given, Kept(accel))
    BY <2>1 DEF KeysOK
  <2>. DEFINE c2 == c \ {"text"}
              ro2 == route'
  <2>3. "text" \in c
    BY <1>1
  <2>. HIDE DEF g, rt, c
  <2>4. KeyOK(key, g, rt, KQ, TQ', held, c2, used', given, Kept(accel))
    BY ONLY <1>1, <1>2, <2>2, <2>3, ReleaseKeysymOK
  <2>5. \A k \in Keys \ {key} : (k \in held' <=> k \in held) /\ ro2[k] = route[k]
    BY <1>1, <1>5
  <2>6. ro2[key] = c2
    BY <1>5
  <2>. HIDE DEF c2, ro2
  <2>7. KeysOK(reg', KQ', TQ', held', ro2, used', given', Kept(accel'))
    BY <1>1, <1>2, <1>3, <1>7, <2>1, <2>4, <2>5, <2>6, OthersOK DEF g, rt
  <2>. QED BY <2>7 DEF ro2
<1>. QED BY <1>1, <1>2, <1>4, <1>6, <1>8, <1>9 DEF StrokeInv

-----------------------------------------------------------------------------
(* The steps that deliver an event.                                        *)

LEMMA EventsTaken ==
  ASSUME NEW E, NEW via, NEW hd, NEW ro, NEW n, EventsOK(E, via, hd, ro, n),
         NEW e, NEW E2, Taken(E, E2, e)
  PROVE  EventsOK(E2, via, hd, ro, n)
BY DEF EventsOK, Taken

LEMMA SoundShape ==
  ASSUME NEW r, NEW s, NEW hd, NEW n, Sound(r, hd, n), NEW key \in Keys,
         LooseBut(r, s, key), Tame(r.entries[key], s.entries[key], key, hd)
  PROVE  Sound(s, hd, n)
<1>1. \A k \in Keys : Tame(r.entries[k], s.entries[k], k, hd)
  BY LooseTame DEF LooseBut, LooseAt
<1>. QED BY <1>1, SoundTame

\* What KeyArrives does to the generation of the key.
LEMMA KeyArrivesOK ==
  ASSUME KeyInv, StrokeInv, NEW key \in Keys, NEW state \in KeyState, NEW serial \in Serial,
         NEW e \in KQ, e.key = key, e.state = state, e.serial = serial,
         NEW K2, Taken(KQ, K2, e),
         NEW d, d = OnKey(reg, key, state, serial), NEW s, s = d.reg,
         NEW gv2, gv2 = IF d.delivery # "Drop" /\ state = "press" THEN given \cup {key}
                        ELSE given,
         NEW ac2, ac2 = IF state # "release" /\ LeftToHost(key) THEN accel \cup {key}
                        ELSE accel
  PROVE  /\ LooseBut(reg, s, key) /\ Tame(reg.entries[key], s.entries[key], key, held)
         /\ focused /\ ~rejected =>
              /\ KeyOK(key, s.entries[key], s.retired[key], K2, TQ, held, route[key], used,
                       gv2, Kept(ac2))
              /\ d.delivery # "Drop" /\ state = "press" => key \notin given
<1>. DEFINE g == reg.entries[key]
            h == s.entries[key]
            rt == reg.retired[key]
            c == route[key]
            ac == Kept(accel)
<1>1. /\ Good(reg) /\ Sound(reg, held, used) /\ KQ \subseteq KeyEvent
      /\ state # "release" => key \in held /\ "key" \in c
  BY DEF KeyInv, StrokeInv, EventsOK
<1>2. focused /\ ~rejected => KeyOK(key, g, rt, KQ, TQ, held, c, used, given, ac)
  BY DEF StrokeInv, KeysOK
<1>3. None \notin GuestKeyOwner /\ serial # None
  BY NoneAssumption DEF Serial
<1>4. /\ g = None => PeekPressSerial(reg, key) = None
      /\ g # None => /\ PeekPressSerial(reg, key) = g.peek_press_serial
                     /\ ReleaseSerial(reg, key) = g.physical_release_serial
                     /\ GuestOwner(reg, key) = g.guest_owner
  BY <1>1, GenIs DEF PeekPressSerial, ReleaseSerial, GuestOwner, NewGeneration
<1>5. CASE state # "release"
  <2>1. state \in {"press", "repeat"} /\ key \in held /\ "key" \in c
    BY <1>1, <1>5 DEF KeyState
  <2>2. /\ LooseBut(reg, s, key) /\ Tame(g, h, key, held)
        /\ d.delivery \in {"Drop", "Forward"}
        /\ Held(reg, key) /\ (state = "press" => PeekPressSerial(reg, key) \in {None, serial}) =>
              /\ s.retired[key] = rt /\ Pressed(g, h)
              /\ IsHostAccelerator(key) => Withheld(h)
              /\ d.delivery = "Forward" /\ state = "press" =>
                   h.guest_owner = "Physical" /\ GuestOwner(reg, key) = None
    BY <1>1, <2>1, KeyPressShape
  <2>3. ASSUME focused, ~rejected
        PROVE  /\ KeyOK(key, h, s.retired[key], K2, TQ, held, c, used, gv2, Kept(ac2))
               /\ d.delivery # "Drop" /\ state = "press" => key \notin given
    <3>1. KeyOK(key, g, rt, KQ, TQ, held, c, used, given, ac)
      BY <1>2, <2>3
    <3>2. Held(reg, key) /\ g # None
      BY <2>1, <3>1 DEF KeyOK, Held, Gen
    <3>3. state = "press" => PeekPressSerial(reg, key) \in {None, serial}
      BY <1>4, <3>1, <3>2 DEF KeyOK, SerialsOK
    <3>4. /\ s.retired[key] = rt /\ Pressed(g, h)
          /\ IsHostAccelerator(key) => Withheld(h)
          /\ d.delivery = "Forward" /\ state = "press" =>
               h.guest_owner = "Physical" /\ g.guest_owner = None
      BY <1>4, <2>2, <3>2, <3>3
    <3>0. d.delivery # "Drop" /\ state = "press" => key \notin given
      BY <2>1, <2>2, <3>1, <3>4 DEF KeyOK, StrokeOK
    <3>5. key \in gv2 => key \in given \/ h.guest_owner # None
      BY <1>3, <2>2, <3>4 DEF GuestKeyOwner
    <3>6. h # None
      BY <3>4 DEF Pressed
    <3>7. key \in Kept(ac2) => \/ key \in ac \/ h.peek = None
                               \/ (h.peek # None /\ ~h.peek.eligible)
      <4>1. LeftToHost(key) /\ ChordsReserved => IsHostAccelerator(key)
        BY DEF LeftToHost, ChordsReserved, IsHostAccelerator
      <4>. QED BY <3>4, <3>6, <4>1 DEF Kept, Withheld
    <3>. DEFINE acc2 == Kept(ac2)
    <3>8. key \in acc2 => \/ key \in ac \/ h.peek = None
                          \/ (h.peek # None /\ ~h.peek.eligible)
      BY <3>7
    <3>9. e.state # "release"
      BY <1>5
    <3>. HIDE DEF g, h, rt, c, ac, acc2
    <3>10. KeyOK(key, h, rt, K2, TQ, held, c, used, gv2, acc2)
      BY ONLY <1>1, <2>1, <3>1, <3>4, <3>5, <3>8, <3>9, Taken(KQ, K2, e), PhysicalPressOK
    <3>. QED BY <3>0, <3>4, <3>10 DEF acc2
  <2>. QED BY <2>2, <2>3
<1>6. CASE state = "release"
  <2>. DEFINE matches == PendingPhysicalReleases(reg, key, serial)
  <2>1. gv2 = given /\ ac2 = accel
    BY <1>6
  <2>2. \/ matches # {} /\ s = TakeRetired(reg, key, matches)
        \/ /\ matches = {} /\ PeekPressSerial(reg, key) # None
           /\ ReleaseSerial(reg, key) # serial /\ s = reg
        \/ /\ matches = {}
           /\ PeekPressSerial(reg, key) # None => ReleaseSerial(reg, key) = serial
           /\ s.retired[key] = rt /\ LooseBut(reg, s, key)
           /\ Freed(g, h, serial)
    BY <1>1, <1>6, KeyReleaseShape
  <2>3. rt \in Seq(RetiredGuestRelease) /\ Len(rt) \in Nat
    BY <1>1, EntryIs
  <2>4. matches = {t \in Range(rt) : t.owner = "Physical" /\ t.release_serial = serial}
    BY DEF PendingPhysicalReleases
  <2>5. matches = {} => \A i \in 1 .. Len(rt) : rt[i].owner = "Physical" =>
                          rt[i].release_serial # serial
    <3>1. \A i \in 1 .. Len(rt) : rt[i] \in Range(rt)
      BY <2>3 DEF Range
    <3>. QED BY <2>4, <3>1
  <2>. HIDE DEF matches
  <2>6. CASE matches # {}
    <3>1. matches \subseteq Range(rt) /\ s = TakeRetired(reg, key, matches)
      BY <2>2, <2>4, <2>6
    <3>2. /\ s.entries = reg.entries
          /\ \A k \in Keys \ {key} : s.retired[k] = reg.retired[k]
          /\ \E i \in 1 .. Len(rt) : rt[i] \in matches /\ Without(rt, s.retired[key], i)
      BY <1>1, <2>6, <3>1, TakeRetiredSets
    <3>3. LooseBut(reg, s, key) /\ Tame(g, h, key, held)
      BY <3>2, LooseSelf, LooseTame DEF LooseBut, LooseAt
    <3>4. PICK i \in 1 .. Len(rt) : rt[i] \in matches /\ Without(rt, s.retired[key], i)
      BY <3>2
    <3>5. rt[i].owner = "Physical" /\ rt[i].release_serial = e.serial /\ e.state = "release"
      BY <1>6, <2>4, <3>4
    <3>6. ASSUME focused, ~rejected
          PROVE  KeyOK(key, g, s.retired[key], K2, TQ, held, c, used, given, ac)
      <4>1. KeyOK(key, g, rt, KQ, TQ, held, c, used, given, ac)
        BY <1>2, <3>6
      <4>. DEFINE rt2 == s.retired[key]
      <4>2. Without(rt, rt2, i)
        BY <3>4
      <4>. HIDE DEF g, rt, c, ac, rt2
      <4>. QED BY ONLY <2>3, <3>5, <4>1, <4>2, i \in 1 .. Len(rt), Taken(KQ, K2, e),
                     RetiredReleaseOK DEF rt2
    <3>. QED BY <1>6, <2>1, <3>2, <3>3, <3>6
  <2>7. CASE matches = {} /\ s = reg /\ PeekPressSerial(reg, key) # None
              /\ ReleaseSerial(reg, key) # serial
    <3>1. LooseBut(reg, s, key) /\ Tame(g, h, key, held)
      BY <2>7, LooseSelf, LooseTame DEF LooseBut, LooseAt
    <3>2. ASSUME focused, ~rejected
          PROVE  KeyOK(key, g, rt, K2, TQ, held, c, used, given, ac)
      <4>1. KeyOK(key, g, rt, KQ, TQ, held, c, used, given, ac)
        BY <1>2, <3>2
      <4>2. g # None /\ g.guest_owner = "Physical" => g.physical_release_serial # e.serial
        BY <1>4, <2>7
      <4>3. \A i \in 1 .. Len(rt) : rt[i].owner = "Physical" => rt[i].release_serial # e.serial
        BY <2>5, <2>7
      <4>. HIDE DEF g, rt, c, ac
      <4>. QED BY ONLY <4>1, <4>2, <4>3, Taken(KQ, K2, e), OtherReleaseOK
    <3>. QED BY <1>6, <2>1, <2>7, <3>1, <3>2
  <2>8. CASE /\ matches = {} /\ s.retired[key] = rt /\ LooseBut(reg, s, key)
             /\ PeekPressSerial(reg, key) # None => ReleaseSerial(reg, key) = serial
             /\ Freed(g, h, serial)
    <3>1. Tame(g, h, key, held)
      BY <2>8, FreedTame
    <3>2. ASSUME focused, ~rejected
          PROVE  KeyOK(key, h, rt, K2, TQ, held, c, used, given, ac)
      <4>1. KeyOK(key, g, rt, KQ, TQ, held, c, used, given, ac)
        BY <1>2, <3>2
      <4>2. g # None => g.physical_release_serial = serial
        <5>1. g # None /\ g.peek_press_serial = None => g.physical_release_serial = serial
          BY <1>6, <4>1 DEF KeyOK, SerialsOK
        <5>. QED BY <1>4, <2>8, <5>1
      <4>3. key \notin held
        BY <1>3, <4>1, <4>2 DEF KeyOK, SerialsOK
      <4>4. \A i \in 1 .. Len(rt) : rt[i].owner = "Physical" => rt[i].release_serial # e.serial
        BY <2>5, <2>8
      <4>5. h # None => /\ g # None /\ h.physical_state = "Released"
                        /\ h.guest_owner \in {None, "ImeRecovery"}
                        /\ h.physical_release_serial = g.physical_release_serial
                        /\ h.peek_press_serial = g.peek_press_serial
        BY <2>8, <4>2 DEF Freed
      <4>. HIDE DEF g, h, rt, c, ac
      <4>. QED BY ONLY <4>1, <4>3, <4>4, <4>5, Taken(KQ, K2, e), OwnReleaseOK
    <3>. QED BY <1>6, <2>1, <2>8, <3>1, <3>2
  <2>. QED BY <1>6, <2>2, <2>6, <2>7, <2>8
<1>. QED BY <1>5, <1>6

LEMMA Focused ==
  ASSUME StrokeInv, KQ # {} \/ TQ # {} PROVE focused
BY DEF StrokeInv, Idle

LEMMA KeyArrivesStroke ==
  ASSUME KeyInv, StrokeInv, KeyArrives PROVE StrokeInv'
<1>. DEFINE e == Head(keyQ)
            key == e.key
            state == e.state
            serial == e.serial
            d == OnKey(reg, key, state, serial)
<1>1. /\ keyQ # <<>> /\ keyQ' = Tail(keyQ) /\ Deliver(d, key, state, "key")
      /\ accel' = IF state # "release" /\ LeftToHost(key) THEN accel \cup {key} ELSE accel
      /\ held' = held /\ route' = route /\ used' = used
      /\ focused' = focused /\ rejected' = rejected /\ textQ' = textQ
  BY DEF KeyArrives, host
<1>2. keyQ \in Seq(KeyEvent) /\ Good(reg)
  BY DEF KeyInv, TypeOK
<1>3. e \in KQ /\ KQ \subseteq KeyEvent /\ Taken(KQ, KQ', e)
  BY <1>1, <1>2, TailIs DEF KQ
<1>4. focused
  BY <1>3, Focused
<1>. HIDE DEF e
<1>5. key \in Keys /\ state \in KeyState /\ serial \in Serial
  BY <1>3 DEF KeyEvent
<1>6. TQ' = TQ /\ used \in Nat
  BY <1>1 DEF TQ, KeyInv, TypeOK
<1>7. reg' = d.reg /\ given' = IF d.delivery # "Drop" /\ state = "press"
                               THEN given \cup {key} ELSE given
  BY <1>1 DEF Deliver
<1>8. OpenOwed(reg', open')
  <2>1. Accounts(reg, d, key, state)
    BY <1>2, <1>5, OnKeyIs
  <2>. QED BY <1>1, <1>5, <2>1, DeliverOpen DEF StrokeInv
<1>. DEFINE k == e.key
            K2 == KQ'
            s == reg'
            gv2 == given'
            ac2 == accel'
<1>9. /\ LooseBut(reg, s, k) /\ Tame(reg.entries[k], s.entries[k], k, held)
      /\ focused /\ ~rejected =>
              KeyOK(k, s.entries[k], s.retired[k], K2, TQ, held, route[k], used,
                    gv2, Kept(ac2))
  BY <1>1, <1>3, <1>5, <1>7, KeyArrivesOK
<1>10. Sound(s, held, used)
  BY <1>5, <1>9, SoundShape DEF StrokeInv
<1>11. EventsOK(K2, "key", held, route, used)
  BY <1>3, EventsTaken DEF StrokeInv
<1>12. ASSUME ~rejected PROVE KeysOK(s, K2, TQ, held, route, used, gv2, Kept(ac2))
  <2>1. KeysOK(reg, KQ, TQ, held, route, used, given, Kept(accel))
    BY <1>4, <1>12 DEF StrokeInv
  <2>2. Elsewhere(KQ, K2, k) /\ Elsewhere(TQ, TQ, k)
    BY <1>3, ElsewhereIs DEF Elsewhere
  <2>3. \A j \in Keys \ {k} : /\ j \in held <=> j \in held
                              /\ route[j] = route[j]
                              /\ j \in gv2 => j \in given
                              /\ j \in Kept(ac2) => j \in Kept(accel)
    BY <1>1, <1>7 DEF Kept
  <2>4. KeyOK(k, s.entries[k], s.retired[k], K2, TQ, held, route[k], used, gv2, Kept(ac2))
    BY <1>4, <1>9, <1>12
  <2>5. k \in Keys /\ used \in Int /\ used =< used
    BY <1>5, <1>6
  <2>. DEFINE hd2 == held
              ro2 == route
              T2 == TQ
              m == used
              acc2 == Kept(ac2)
              acc == Kept(accel)
  <2>6. /\ \A j \in Keys \ {k} : /\ j \in hd2 <=> j \in held
                                 /\ ro2[j] = route[j]
                                 /\ j \in gv2 => j \in given
                                 /\ j \in acc2 => j \in acc
        /\ m \in Int /\ used =< m
        /\ KeyOK(k, s.entries[k], s.retired[k], K2, T2, hd2, ro2[k], m, gv2, acc2)
        /\ Elsewhere(TQ, T2, k) /\ LooseBut(reg, s, k)
    BY <1>9, <2>2, <2>3, <2>4, <2>5
  <2>7. KeysOK(reg, KQ, TQ, held, route, used, given, acc)
    BY <2>1
  <2>. HIDE DEF k, K2, s, gv2, ac2, hd2, ro2, T2, m, acc2, acc
  <2>8. KeysOK(s, K2, T2, hd2, ro2, m, gv2, acc2)
    BY ONLY <2>2, <2>5, <2>6, <2>7, OthersOK
  <2>. QED BY <2>8 DEF hd2, ro2, T2, m, acc2
<1>. QED BY <1>1, <1>4, <1>6, <1>8, <1>10, <1>11, <1>12 DEF StrokeInv

\* The interval of a retired generation, read on the serials' order.
LEMMA IntervalIs ==
  ASSUME KeyInv, NEW r, NEW key, NEW serial, Past(serial, used), NEW t,
         t.owner = "TextInputKeysym", Past(t.press_serial, used), Past(t.next_press_serial, used)
  PROVE  InInterval(r, key, serial, t)
           <=> Between(serial, t.press_serial, t.next_press_serial)
<1>1. used \in 0 .. MaxTransitions
  BY DEF KeyInv, TypeOK
<1>2. t.next_press_serial # None
  BY NoneAssumption DEF Past, Serial
<1>3. /\ SerialIsAfter(serial, t.press_serial) <=> Index(t.press_serial) < Index(serial)
      /\ SerialIsAfter(serial, t.next_press_serial)
           <=> Index(t.next_press_serial) < Index(serial)
  BY <1>1, AfterIs
<1>4. Index(serial) \in Int /\ Index(t.next_press_serial) \in Int
  BY IndexIs DEF Past
<1>. QED BY <1>2, <1>3, <1>4 DEF InInterval, Between

\* What the keysym release does to the generation of the key.
LEMMA KeysymReleaseOK ==
  ASSUME KeyInv, StrokeInv, NEW key \in Keys, NEW serial \in Serial,
         NEW e \in TQ, e.key = key, e.state = "release", e.serial = serial,
         NEW T2, Taken(TQ, T2, e),
         NEW d, d = TextInputRelease(reg, key, serial), NEW s, s = d.reg
  PROVE  /\ LooseBut(reg, s, key) /\ Tame(reg.entries[key], s.entries[key], key, held)
         /\ focused /\ ~rejected =>
              KeyOK(key, s.entries[key], s.retired[key], KQ, T2, held, route[key], used,
                    given, Kept(accel))
<1>. DEFINE g == reg.entries[key]
            h == s.entries[key]
            rt == reg.retired[key]
            c == route[key]
            ac == Kept(accel)
            matches == {t \in Range(rt) : InInterval(reg, key, serial, t)}
<1>1. Good(reg) /\ used \in 0 .. MaxTransitions /\ Past(serial, used) /\ Past(e.serial, used)
  BY DEF KeyInv, TypeOK, StrokeInv, EventsOK, Past
<1>2. focused /\ ~rejected => KeyOK(key, g, rt, KQ, TQ, held, c, used, given, ac)
  BY DEF StrokeInv, KeysOK
<1>3. /\ g = None => GuestOwner(reg, key) = None
      /\ g # None => /\ GuestPressSerial(reg, key) = g.guest_press_serial
                     /\ GuestOwner(reg, key) = g.guest_owner
  BY <1>1, GenIs DEF GuestPressSerial, GuestOwner, NewGeneration
<1>4. rt \in Seq(RetiredGuestRelease) /\ Len(rt) \in Nat
  BY <1>1, EntryIs
<1>5. \/ matches # {} /\ s = TakeRetired(reg, key, matches)
      \/ /\ matches = {} /\ GuestOwner(reg, key) = "TextInputKeysym"
         /\ s = CompleteTextOwner(reg, key)
      \/ /\ matches = {} /\ s = reg
         /\ GuestOwner(reg, key) = "TextInputKeysym" =>
              /\ GuestPressSerial(reg, key) # None
              /\ ~SerialIsAfter(serial, GuestPressSerial(reg, key))
  BY <1>1, TextReleaseShape
<1>6. ASSUME KeyOK(key, g, rt, KQ, TQ, held, c, used, given, ac),
             NEW i \in 1 .. Len(rt)
      PROVE  rt[i] \in matches <=>
               /\ rt[i].owner = "TextInputKeysym"
               /\ Between(e.serial, rt[i].press_serial, rt[i].next_press_serial)
  <2>1. rt[i] \in Range(rt)
    BY <1>4 DEF Range
  <2>2. rt[i].owner = "TextInputKeysym" =>
          Past(rt[i].press_serial, used) /\ Past(rt[i].next_press_serial, used)
    BY <1>6 DEF KeyOK, TombsOK, TombOK
  <2>3. InInterval(reg, key, serial, rt[i]) => rt[i].owner = "TextInputKeysym"
    BY DEF InInterval
  <2>. QED BY <1>1, <2>1, <2>2, <2>3, IntervalIs
<1>. HIDE DEF matches
<1>7. CASE matches # {}
  <2>1. matches \subseteq Range(rt) /\ s = TakeRetired(reg, key, matches)
    BY <1>5, <1>7 DEF matches
  <2>2. /\ s.entries = reg.entries
        /\ \A k \in Keys \ {key} : s.retired[k] = reg.retired[k]
        /\ \E i \in 1 .. Len(rt) : rt[i] \in matches /\ Without(rt, s.retired[key], i)
    BY <1>1, <1>7, <2>1, TakeRetiredSets
  <2>3. LooseBut(reg, s, key) /\ Tame(g, h, key, held)
    BY <2>2, LooseSelf, LooseTame DEF LooseBut, LooseAt
  <2>4. PICK i \in 1 .. Len(rt) : rt[i] \in matches /\ Without(rt, s.retired[key], i)
    BY <2>2
  <2>5. ASSUME focused, ~rejected
        PROVE  KeyOK(key, g, s.retired[key], KQ, T2, held, c, used, given, ac)
    <3>1. KeyOK(key, g, rt, KQ, TQ, held, c, used, given, ac)
      BY <1>2, <2>5
    <3>2. /\ rt[i].owner = "TextInputKeysym" /\ e.serial \in Serial
          /\ Between(e.serial, rt[i].press_serial, rt[i].next_press_serial)
      BY <1>6, <2>4, <3>1
    <3>. DEFINE rt2 == s.retired[key]
    <3>3. Without(rt, rt2, i)
      BY <2>4
    <3>. HIDE DEF g, rt, c, ac, rt2
    <3>. QED BY ONLY <1>4, <3>1, <3>2, <3>3, i \in 1 .. Len(rt), Taken(TQ, T2, e),
                   RetiredKeysymOK DEF rt2
  <2>. QED BY <2>2, <2>3, <2>5
<1>8. CASE /\ matches = {} /\ GuestOwner(reg, key) = "TextInputKeysym"
           /\ s = CompleteTextOwner(reg, key)
  <2>1. g # None /\ g.guest_owner = "TextInputKeysym"
    BY <1>3, <1>8, NoneAssumption DEF GuestKeyOwner
  <2>2. PICK f : Sets(reg, s, key, f) /\ Completed(g, f)
    BY <1>1, <1>8, <2>1, CompleteTextOwnerSets
  <2>3. /\ LooseBut(reg, s, key) /\ s.retired[key] = rt /\ Completed(g, h)
        /\ Tame(g, h, key, held)
    BY <2>1, <2>2, SetsLoose, CompletedTame DEF Sets
  <2>4. ASSUME focused, ~rejected
        PROVE  KeyOK(key, h, rt, KQ, T2, held, c, used, given, ac)
    <3>1. KeyOK(key, g, rt, KQ, TQ, held, c, used, given, ac)
      BY <1>2, <2>4
    <3>2. /\ h # None /\ h.physical_state = g.physical_state
          /\ h.guest_owner = "ImeRecovery" /\ h.guest_press_serial = g.guest_press_serial
          /\ h.peek_press_serial = g.peek_press_serial
          /\ h.physical_release_serial = g.physical_release_serial
          /\ h.peek = g.peek
      BY <2>3 DEF Completed, SameKey
    <3>3. \A i \in 1 .. Len(rt) : rt[i].owner = "TextInputKeysym" =>
            ~Between(e.serial, rt[i].press_serial, rt[i].next_press_serial)
      BY <1>6, <1>8, <3>1
    <3>4. g.guest_owner \in {"TextInputKeysym", None}
      BY <2>1
    <3>. DEFINE gv == given
    <3>. HIDE DEF g, h, rt, c, ac
    <3>5. KeyOK(key, h, rt, KQ, TQ, held, c, used, gv, ac)
      BY ONLY <2>1, <3>1, <3>2, <3>4, RecoveredOK
    <3>6. h # None /\ h.guest_owner = "TextInputKeysym" =>
            ~(Index(h.guest_press_serial) < Index(e.serial))
      BY <3>2
    <3>. QED BY ONLY <3>3, <3>5, <3>6, Taken(TQ, T2, e), OtherKeysymOK
  <2>. QED BY <2>3, <2>4
<1>9. CASE /\ matches = {} /\ s = reg
           /\ GuestOwner(reg, key) = "TextInputKeysym" =>
              /\ GuestPressSerial(reg, key) # None
              /\ ~SerialIsAfter(serial, GuestPressSerial(reg, key))
  <2>1. LooseBut(reg, s, key) /\ Tame(g, h, key, held)
    BY <1>9, LooseSelf, LooseTame DEF LooseBut, LooseAt
  <2>2. ASSUME focused, ~rejected
        PROVE  KeyOK(key, g, rt, KQ, T2, held, c, used, given, ac)
    <3>1. KeyOK(key, g, rt, KQ, TQ, held, c, used, given, ac)
      BY <1>2, <2>2
    <3>2. g # None /\ g.guest_owner = "TextInputKeysym" =>
            ~(Index(g.guest_press_serial) < Index(e.serial))
      <4>1. SUFFICES ASSUME g # None, g.guest_owner = "TextInputKeysym"
                     PROVE  ~(Index(g.guest_press_serial) < Index(e.serial))
        OBVIOUS
      <4>2. Past(g.guest_press_serial, used)
        BY <3>1, <4>1 DEF KeyOK, OwnerOK
      <4>3. ~SerialIsAfter(serial, g.guest_press_serial)
        BY <1>3, <1>9, <4>1
      <4>. QED BY <1>1, <4>2, <4>3, AfterIs
    <3>3. \A i \in 1 .. Len(rt) : rt[i].owner = "TextInputKeysym" =>
            ~Between(e.serial, rt[i].press_serial, rt[i].next_press_serial)
      BY <1>6, <1>9, <3>1
    <3>. HIDE DEF g, rt, c, ac
    <3>. QED BY ONLY <3>1, <3>2, <3>3, Taken(TQ, T2, e), OtherKeysymOK
  <2>. QED BY <1>9, <2>1, <2>2
<1>. QED BY <1>5, <1>7, <1>8, <1>9

\* What KeysymArrives does to the generation of the key, its repeat session aside.
LEMMA KeysymPressOK ==
  ASSUME KeyInv, StrokeInv, NEW key \in Keys, NEW serial \in Serial,
         NEW e \in TQ, e.key = key, e.state = "press", e.serial = serial,
         NEW T2, Taken(TQ, T2, e),
         NEW d, d = TextInputPress(reg, key, serial), NEW s, s = d.reg, NEW gv2,
         key \in gv2 => key \in given \/ d.delivery # "Drop"
  PROVE  /\ LooseBut(reg, s, key) /\ Tame(reg.entries[key], s.entries[key], key, held)
         /\ focused /\ ~rejected =>
              /\ KeyOK(key, s.entries[key], s.retired[key], KQ, T2, held, route[key], used,
                       gv2, Kept(accel))
              /\ d.delivery # "Drop" => key \notin given /\ key \notin Kept(accel)
<1>. DEFINE g == reg.entries[key]
            h == s.entries[key]
            rt == reg.retired[key]
            c == route[key]
            ac == Kept(accel)
<1>1. Good(reg) /\ Past(e.serial, used) /\ key \in held /\ "text" \in c
  BY DEF KeyInv, StrokeInv, EventsOK, Past
<1>2. /\ LooseBut(reg, s, key) /\ Tame(g, h, key, held)
      /\ d.delivery \in {"Drop", "Forward"}
      /\ Held(reg, key) =>
           /\ s.retired[key] = rt
           /\ d.delivery = "Drop" => s = reg
           /\ d.delivery = "Forward" =>
                /\ g.guest_owner = None
                /\ g.peek # None => g.peek.eligible
                /\ Typed(g, h, serial)
  BY <1>1, TextPressShape
<1>3. ASSUME focused, ~rejected
      PROVE  /\ KeyOK(key, h, s.retired[key], KQ, T2, held, c, used, gv2, ac)
             /\ d.delivery # "Drop" => key \notin given /\ key \notin ac
  <2>1. KeyOK(key, g, rt, KQ, TQ, held, c, used, given, ac)
    BY <1>3 DEF StrokeInv, KeysOK
  <2>2. Held(reg, key) /\ g # None /\ StrokeOK(key, g, given, ac)
    BY <1>1, <2>1 DEF KeyOK, Held, Gen
  <2>3. CASE d.delivery = "Drop"
    <3>1. s = reg /\ key \in gv2 => key \in given
      BY <1>2, <2>2, <2>3
    <3>. DEFINE gv == given
    <3>2. e.state # "release"
      OBVIOUS
    <3>. HIDE DEF g, rt, c, ac, gv
    <3>3. KeyOK(key, g, rt, KQ, T2, held, c, used, gv, ac)
      BY ONLY <2>1, <3>2, Taken(TQ, T2, e), TextSeenOK DEF gv
    <3>4. KeyOK(key, g, rt, KQ, T2, held, c, used, gv2, ac)
      BY <2>3, <3>3 DEF KeyOK, StrokeOK, gv
    <3>5. s = reg
      BY <1>2, <2>2, <2>3
    <3>. QED BY <2>3, <3>4, <3>5 DEF g, rt
  <2>4. CASE d.delivery = "Forward"
    <3>1. /\ s.retired[key] = rt /\ g.guest_owner = None /\ Typed(g, h, serial)
          /\ g.peek # None => g.peek.eligible
      BY <1>2, <2>2, <2>4
    <3>2. g.peek # None /\ g.peek.eligible
      BY <2>2, <3>1, NoneAssumption DEF StrokeOK, GuestKeyOwner
    <3>3. /\ h # None /\ h.physical_state = g.physical_state
          /\ h.guest_owner = "TextInputKeysym" /\ h.guest_press_serial = e.serial
          /\ h.peek_press_serial = g.peek_press_serial
          /\ h.physical_release_serial = g.physical_release_serial
          /\ h.peek = g.peek
      BY <2>2, <3>1 DEF Typed, SameKey
    <3>4. key \notin given
      BY <2>2, <3>1 DEF StrokeOK
    <3>. HIDE DEF g, h, rt, c, ac
    <3>5. KeyOK(key, h, rt, KQ, T2, held, c, used, gv2, ac) /\ key \notin ac
      BY ONLY <1>1, <2>1, <3>1, <3>2, <3>3, Taken(TQ, T2, e), e \in TQ, e.key = key,
              e.state = "press", TextPressOK
    <3>. QED BY <3>1, <3>4, <3>5
  <2>. QED BY <1>2, <2>3, <2>4
<1>. QED BY <1>2, <1>3

LEMMA KeysymArrivesOK ==
  ASSUME KeyInv, StrokeInv, NEW key \in Keys, NEW state \in KeyState, NEW serial \in Serial,
         NEW e \in TQ, e.key = key, e.state = state, e.serial = serial,
         NEW T2, Taken(TQ, T2, e),
         NEW d, d = KeysymDecision(reg, key, state, serial),
         NEW s, s = d.reg,
         NEW gv2, gv2 = IF d.delivery # "Drop" /\ state = "press" THEN given \cup {key}
                        ELSE given
  PROVE  /\ LooseBut(reg, s, key) /\ Tame(reg.entries[key], s.entries[key], key, held)
         /\ focused /\ ~rejected =>
              /\ KeyOK(key, s.entries[key], s.retired[key], KQ, T2, held, route[key], used,
                       gv2, Kept(accel))
              /\ d.delivery # "Drop" /\ state = "press" =>
                   key \notin given /\ key \notin Kept(accel)
<1>1. CASE state = "press"
  <2>1. d = TextInputPress(reg, key, serial)
    BY <1>1 DEF KeysymDecision
  <2>2. key \in gv2 => key \in given \/ d.delivery # "Drop"
    OBVIOUS
  <2>3. e.state = "press"
    BY <1>1
  <2>. QED BY <2>1, <2>2, <2>3, KeysymPressOK
<1>2. CASE state = "repeat"
  <2>. DEFINE g == reg.entries[key]
              rt == reg.retired[key]
              c == route[key]
              ac == Kept(accel)
  <2>1. s = reg /\ gv2 = given /\ e.state # "release"
    BY <1>2 DEF KeysymDecision, TextInputRepeat, Decision
  <2>2. LooseBut(reg, s, key) /\ Tame(g, s.entries[key], key, held)
    BY <2>1, LooseSelf, LooseTame DEF LooseBut, LooseAt
  <2>3. ASSUME focused, ~rejected PROVE KeyOK(key, g, rt, KQ, T2, held, c, used, given, ac)
    <3>1. KeyOK(key, g, rt, KQ, TQ, held, c, used, given, ac)
      BY <2>3 DEF StrokeInv, KeysOK
    <3>. HIDE DEF g, rt, c, ac
    <3>. QED BY ONLY <2>1, <3>1, Taken(TQ, T2, e), TextSeenOK
  <2>. QED BY <1>2, <2>1, <2>2, <2>3
<1>3. CASE state = "release"
  <2>1. d = TextInputRelease(reg, key, serial) /\ gv2 = given /\ e.state = "release"
    BY <1>3 DEF KeysymDecision
  <2>. QED BY <1>3, <2>1, KeysymReleaseOK
<1>. QED BY <1>1, <1>2, <1>3 DEF KeyState

LEMMA KeysymDecided ==
  ASSUME NEW r, Good(r), NEW key \in Keys, NEW state \in KeyState, NEW serial \in Serial,
         NEW d, d = KeysymDecision(r, key, state, serial)
  PROVE  Good(d.reg)
<1>1. CASE state = "press"
  <2>1. d = TextInputPress(r, key, serial)
    BY <1>1 DEF KeysymDecision
  <2>. QED BY <2>1, TextInputPressIs, AccountsGood
<1>2. CASE state = "repeat"
  <2>1. d = TextInputRepeat(r, key)
    BY <1>2 DEF KeysymDecision
  <2>. QED BY <2>1, TextInputRepeatIs, AccountsGood
<1>3. CASE state = "release"
  <2>1. d = TextInputRelease(r, key, serial)
    BY <1>3 DEF KeysymDecision
  <2>. QED BY <2>1, TextInputReleaseIs, AccountsGood
<1>. QED BY <1>1, <1>2, <1>3 DEF KeyState

\* The key a keysym event names, and what its handler decides.
LEMMA KeysymEvent ==
  ASSUME KeyInv, StrokeInv, KeysymArrives
  PROVE  \E e \in TQ : \E key \in Keys, state \in KeyState, serial \in Serial :
           /\ e.key = key /\ e.state = state /\ e.serial = serial /\ Taken(TQ, TQ', e)
           /\ Deliver(OnKeysym(reg, key, state, serial), key, state, "text")
<1>. DEFINE e == Head(textQ)
<1>1. textQ \in Seq(KeyEvent) /\ textQ # <<>> /\ textQ' = Tail(textQ)
  BY DEF KeyInv, TypeOK, KeysymArrives
<1>2. e \in TQ /\ TQ \subseteq KeyEvent /\ Taken(TQ, TQ', e)
  BY <1>1, TailIs DEF TQ
<1>3. e.key \in Keys /\ e.state \in KeyState /\ e.serial \in Serial
  BY <1>2 DEF KeyEvent
<1>4. PICK l \in DOMAIN Layout[e.key].syms :
        Deliver(OnKeysym(reg, keysym_to_evdev_keycode(Layout[e.key].syms[l]),
                         e.state, e.serial),
                keysym_to_evdev_keycode(Layout[e.key].syms[l]), e.state, "text")
  BY DEF KeysymArrives
<1>5. keysym_to_evdev_keycode(Layout[e.key].syms[l]) = e.key
  BY <1>3, KeycodeBack
<1>6. Deliver(OnKeysym(reg, e.key, e.state, e.serial), e.key, e.state, "text")
  BY <1>4, <1>5
<1>. HIDE DEF e
<1>. QED BY <1>2, <1>3, <1>6

LEMMA KeysymArrivesStroke ==
  ASSUME KeyInv, StrokeInv, KeysymArrives PROVE StrokeInv'
<1>1. PICK e \in TQ : \E key \in Keys, state \in KeyState, serial \in Serial :
           /\ e.key = key /\ e.state = state /\ e.serial = serial /\ Taken(TQ, TQ', e)
           /\ Deliver(OnKeysym(reg, key, state, serial), key, state, "text")
  BY KeysymEvent
<1>2. PICK key \in Keys, state \in KeyState, serial \in Serial :
           /\ e.key = key /\ e.state = state /\ e.serial = serial /\ Taken(TQ, TQ', e)
           /\ Deliver(OnKeysym(reg, key, state, serial), key, state, "text")
  BY <1>1
<1>. DEFINE f == OnKeysym(reg, key, state, serial)
            d == KeysymDecision(reg, key, state, serial)
            q == d.reg
            r2 == reg'
            T2 == TQ'
            gv2 == given'
            acc == Kept(accel)
<1>3. /\ held' = held /\ route' = route /\ used' = used /\ accel' = accel
      /\ focused' = focused /\ rejected' = rejected /\ KQ' = KQ /\ Good(reg)
      /\ used \in Int /\ used =< used
  BY DEF KeysymArrives, host, KQ, KeyInv, TypeOK
<1>4. focused
  BY <1>1, Focused
<1>5. LooseAll(q, f.reg) /\ f.delivery = d.delivery
  <2>1. Good(q)
    BY <1>3, KeysymDecided
  <2>. QED BY <2>1, KeysymEnds
<1>6. r2 = f.reg /\ given' = IF f.delivery # "Drop" /\ state = "press"
                             THEN given \cup {key} ELSE given
  BY <1>2 DEF Deliver
<1>7. OpenOwed(reg', open')
  <2>1. Accounts(reg, f, key, state)
    BY <1>3, OnKeysymIs
  <2>. QED BY <1>2, <2>1, DeliverOpen DEF StrokeInv
<1>8. /\ LooseBut(reg, q, key) /\ Tame(reg.entries[key], q.entries[key], key, held)
      /\ focused /\ ~rejected =>
           KeyOK(key, q.entries[key], q.retired[key], KQ, T2, held, route[key], used,
                 gv2, acc)
  BY <1>2, <1>5, <1>6, KeysymArrivesOK
<1>. HIDE DEF f, d, q
<1>9. LooseAll(q, r2)
  BY <1>5, <1>6
<1>10. Sound(r2, held, used)
  <2>1. Sound(q, held, used)
    BY <1>8, SoundShape DEF StrokeInv
  <2>. QED BY <1>9, <2>1, SoundTame, LooseTame DEF LooseAll, LooseAt
<1>11. EventsOK(T2, "text", held, route, used)
  BY <1>2, EventsTaken DEF StrokeInv
<1>12. ASSUME ~rejected PROVE KeysOK(r2, KQ, T2, held, route, used, gv2, acc)
  <2>1. KeysOK(reg, KQ, TQ, held, route, used, given, acc)
    BY <1>4, <1>12 DEF StrokeInv
  <2>. DEFINE hd2 == held
              ro2 == route
              K2 == KQ
              m == used
              ac2 == acc
  <2>2. Elsewhere(TQ, T2, key) /\ Elsewhere(KQ, K2, key)
    BY <1>2, ElsewhereIs DEF Elsewhere
  <2>3. /\ \A j \in Keys \ {key} : /\ j \in hd2 <=> j \in held
                                   /\ ro2[j] = route[j]
                                   /\ j \in gv2 => j \in given
                                   /\ j \in ac2 => j \in acc
        /\ m \in Int /\ used =< m
    BY <1>3, <1>6
  <2>4. KeyOK(key, q.entries[key], q.retired[key], K2, T2, hd2, ro2[key], m, gv2, ac2)
    BY <1>4, <1>8, <1>12
  <2>. HIDE DEF r2, T2, gv2, acc, hd2, ro2, K2, m, ac2
  <2>5. KeysOK(q, K2, T2, hd2, ro2, m, gv2, ac2)
    BY ONLY <1>2, <1>3, <1>8, <2>1, <2>2, <2>3, <2>4, OthersOK
  <2>6. KeysOK(r2, K2, T2, hd2, ro2, m, gv2, ac2)
    BY <1>9, <2>5, KeysLoose
  <2>. QED BY <2>6 DEF hd2, ro2, K2, m, ac2
<1>. QED BY <1>3, <1>4, <1>7, <1>10, <1>11, <1>12 DEF StrokeInv

-----------------------------------------------------------------------------
(* The steps of the IME, of the modifiers and of the focus.                *)

\* A step that changes no more than marks.
LEMMA LooseStroke ==
  ASSUME KeyInv, StrokeInv, LooseAll(reg, reg'), Keeps(reg, reg'), open' = open,
         UNCHANGED <<host, strokes, focused, rejected, keyQ, textQ>>
  PROVE  StrokeInv'
<1>1. /\ held' = held /\ route' = route /\ used' = used /\ given' = given
      /\ accel' = accel /\ focused' = focused /\ rejected' = rejected
      /\ KQ' = KQ /\ TQ' = TQ
  BY DEF host, strokes, KQ, TQ
<1>2. Sound(reg', held, used)
  BY SoundTame, LooseTame DEF LooseAll, LooseAt, StrokeInv
<1>3. OpenOwed(reg', open')
  BY OpenKeeps DEF StrokeInv
<1>4. ~focused => Idle'
  <2>1. ASSUME ~focused PROVE \A k \in Keys : reg'.entries[k] = None /\ reg'.retired[k] = <<>>
    BY <2>1 DEF StrokeInv, Idle, LooseAll, LooseAt, Loose
  <2>. QED BY <1>1, <2>1 DEF StrokeInv, Idle
<1>5. focused /\ ~rejected =>
        KeysOK(reg', KQ, TQ, held, route, used, given, Kept(accel))
  BY KeysLoose DEF StrokeInv
<1>. QED BY <1>1, <1>2, <1>3, <1>4, <1>5 DEF StrokeInv

LEMMA MarksStroke ==
  ASSUME KeyInv, StrokeInv,
         PreeditCleared \/ Composition \/ OnModifiers \/ OnKeymap(TRUE) \/ UNCHANGED vars
  PROVE  StrokeInv'
<1>1. Good(reg) /\ Backspace \in Keys
  BY BackspaceAssumption DEF KeyInv
<1>2. reg' \in {reg, ArmImeRepeat(reg, Backspace), EndRepeat(reg), ClearSuppressions(reg)}
  BY DEF PreeditCleared, Composition, OnModifiers, OnKeymap, LoadKeymap, vars
<1>3. LooseAll(reg, reg') /\ Keeps(reg, reg')
  BY <1>1, <1>2, LooseAllSelf, ArmImeRepeatLoose, EndRepeatLoose, ClearSuppressionsLoose,
     KeepsSelf, ArmImeRepeatIs, EndRepeatIs, ClearSuppressionsIs
<1>4. open' = open /\ UNCHANGED <<host, strokes, focused, rejected, keyQ, textQ>>
  BY DEF PreeditCleared, Composition, OnModifiers, OnKeymap, Quiet, vars, host, strokes
<1>. QED BY <1>3, <1>4, LooseStroke

\* A keystroke already owned can be given again as far as the owner goes.
LEMMA GivenOK ==
  ASSUME NEW k, NEW g, NEW rt, NEW K, NEW T, NEW hd, NEW c, NEW n, NEW gv, NEW ac,
         KeyOK(k, g, rt, K, T, hd, c, n, gv, ac), g.guest_owner # None, NEW gv2
  PROVE  KeyOK(k, g, rt, K, T, hd, c, n, gv2, ac)
BY DEF KeyOK, StrokeOK

\* What recovery does to the generation of the key.
LEMMA RecoveryOK ==
  ASSUME KeyInv, StrokeInv, NEW key \in HeldRepeatKeys(reg),
         NEW f, f = OnEmptyConfirm(reg, key),
         NEW gv2, gv2 = IF f.delivery # "Drop" THEN given \cup {key} ELSE given
  PROVE  \E s : /\ LooseAll(s, f.reg) /\ LooseBut(reg, s, key)
                /\ Tame(reg.entries[key], s.entries[key], key, held)
                /\ focused /\ ~rejected =>
                     /\ KeyOK(key, s.entries[key], s.retired[key], KQ, TQ, held,
                              route[key], used, gv2, Kept(accel))
                     /\ f.delivery # "Drop" => key \notin Kept(accel)
<1>. DEFINE g == reg.entries[key]
            rt == reg.retired[key]
            c == route[key]
            ac == Kept(accel)
<1>1. /\ Good(reg) /\ key \in Keys /\ Held(reg, key)
      /\ Peek(reg, key) # None /\ Peek(reg, key).eligible
  BY DEF KeyInv, HeldRepeatKeys, PeekKeys
<1>2. g # None /\ Gen(reg, key) = g /\ g \in KeyGeneration
  BY <1>1, EntryIs DEF Held, Gen, NewGeneration
<1>3. /\ g.peek # None /\ g.peek.eligible
      /\ GuestOwner(reg, key) = g.guest_owner
      /\ ~Forwarded(reg, key) => g.guest_owner \in {None, "ImeRecovery"}
  BY <1>1, <1>2 DEF Peek, GuestOwner, Forwarded, KeyGeneration, GuestKeyOwner
<1>4. key \in held
  BY <1>1, SoundIs DEF StrokeInv, HeldMeansDown
<1>5. focused /\ ~rejected => KeyOK(key, g, rt, KQ, TQ, held, c, used, given, ac)
  BY <1>1 DEF StrokeInv, KeysOK
<1>6. focused /\ ~rejected /\ ~Forwarded(reg, key) => key \notin ac
  <2>1. None \notin GuestKeyOwner
    BY NoneAssumption
  <2>. QED BY <1>3, <1>4, <1>5, <2>1 DEF KeyOK, StrokeOK, GuestKeyOwner
<1>7. PICK s : /\ LooseAll(s, f.reg)
               /\ \/ f.delivery = "Drop" /\ s = reg
                  \/ /\ f.delivery = "EmitBalancedPair" /\ ~Forwarded(reg, key)
                     /\ \/ GuestOwner(reg, key) # None /\ s = reg
                        \/ /\ GuestOwner(reg, key) = None
                           /\ \E h : /\ Sets(reg, s, key, h) /\ Claimed(reg.entries[key], h)
                                    /\ h # None /\ h.guest_owner = "ImeRecovery"
  BY <1>1, EmptyConfirmShape
<1>8. f.delivery # "Drop" => ~Forwarded(reg, key)
  BY <1>7
<1>9. CASE s = reg
  <2>1. LooseBut(reg, s, key) /\ Tame(g, s.entries[key], key, held)
    BY <1>9, LooseAllSelf, LooseAllBut, LooseSelf, LooseTame
  <2>2. ASSUME focused, ~rejected
        PROVE  KeyOK(key, g, rt, KQ, TQ, held, c, used, gv2, ac)
    <3>1. KeyOK(key, g, rt, KQ, TQ, held, c, used, given, ac)
      BY <1>5, <2>2
    <3>2. CASE g.guest_owner # None
      <4>. HIDE DEF g, rt, c, ac
      <4>. QED BY ONLY <3>1, <3>2, GivenOK
    <3>3. CASE g.guest_owner = None
      <4>1. f.delivery = "Drop" \/ \E h : Sets(reg, reg, key, h) /\ h # None
                                           /\ h.guest_owner = "ImeRecovery"
        BY <1>3, <1>7, <1>9, <3>3
      <4>2. f.delivery = "Drop"
        BY <3>3, <4>1, NoneAssumption DEF Sets, GuestKeyOwner
      <4>. QED BY <3>1, <4>2
    <3>. QED BY <3>2, <3>3
  <2>. QED BY <1>6, <1>7, <1>8, <1>9, <2>1, <2>2
<1>10. CASE GuestOwner(reg, key) = None /\
            \E h : /\ Sets(reg, s, key, h) /\ Claimed(reg.entries[key], h)
                   /\ h # None /\ h.guest_owner = "ImeRecovery"
  <2>1. PICK h : /\ Sets(reg, s, key, h) /\ Claimed(g, h)
                 /\ h # None /\ h.guest_owner = "ImeRecovery"
    BY <1>10
  <2>2. /\ LooseBut(reg, s, key) /\ Tame(g, h, key, held)
        /\ s.entries[key] = h /\ s.retired[key] = rt
    BY <2>1, SetsLoose, ClaimedTame DEF Sets
  <2>3. ASSUME focused, ~rejected
        PROVE  KeyOK(key, h, rt, KQ, TQ, held, c, used, gv2, ac)
    <3>1. KeyOK(key, g, rt, KQ, TQ, held, c, used, given, ac)
      BY <1>5, <2>3
    <3>2. g.guest_owner \in {"TextInputKeysym", None}
      BY <1>3, <1>10
    <3>3. /\ h.physical_state = g.physical_state /\ h.guest_press_serial = g.guest_press_serial
          /\ h.peek_press_serial = g.peek_press_serial
          /\ h.physical_release_serial = g.physical_release_serial /\ h.peek = g.peek
      BY <1>2, <2>1 DEF Claimed, SameKey
    <3>. HIDE DEF g, rt, c, ac
    <3>. QED BY ONLY <1>2, <2>1, <3>1, <3>2, <3>3, RecoveredOK
  <2>. QED BY <1>6, <1>7, <1>8, <2>2, <2>3
<1>. QED BY <1>7, <1>9, <1>10

LEMMA ConfirmPreeditStroke ==
  ASSUME KeyInv, StrokeInv, ConfirmPreedit PROVE StrokeInv'
<1>1. /\ focused /\ Good(reg)
      /\ held' = held /\ route' = route /\ used' = used /\ accel' = accel
      /\ focused' = focused /\ rejected' = rejected /\ KQ' = KQ /\ TQ' = TQ
  BY DEF ConfirmPreedit, host, KQ, TQ, KeyInv
<1>2. CASE HeldRepeatKeys(reg) = {}
  <2>1. reg' = EndRepeat(reg) /\ open' = open /\ given' = given
    BY <1>2 DEF ConfirmPreedit, Quiet
  <2>2. UNCHANGED <<host, strokes, focused, rejected, keyQ, textQ>>
    BY <2>1 DEF ConfirmPreedit, strokes
  <2>3. LooseAll(reg, reg') /\ Keeps(reg, reg')
    BY <1>1, <2>1, EndRepeatLoose, EndRepeatIs
  <2>. QED BY <2>1, <2>2, <2>3, LooseStroke
<1>3. CASE HeldRepeatKeys(reg) # {}
  <2>1. PICK key \in HeldRepeatKeys(reg) :
               Deliver(OnEmptyConfirm(reg, key), key, "press", "recovery")
    BY <1>3 DEF ConfirmPreedit
  <2>. DEFINE f == OnEmptyConfirm(reg, key)
              gv2 == given'
              r2 == reg'
              ac == Kept(accel)
  <2>2. key \in Keys /\ f.delivery \in {"Drop", "EmitBalancedPair"} /\ Keeps(reg, f.reg)
    BY <1>1, OnEmptyConfirmIs DEF HeldRepeatKeys, PeekKeys
  <2>3. /\ r2 = f.reg /\ open' = open
        /\ gv2 = IF f.delivery # "Drop" THEN given \cup {key} ELSE given
    BY <2>1, <2>2 DEF Deliver
  <2>4. PICK s : /\ LooseAll(s, f.reg) /\ LooseBut(reg, s, key)
                 /\ Tame(reg.entries[key], s.entries[key], key, held)
                 /\ focused /\ ~rejected =>
                      KeyOK(key, s.entries[key], s.retired[key], KQ, TQ, held,
                            route[key], used, gv2, ac)
    BY <2>3, RecoveryOK
  <2>5. OpenOwed(reg', open')
    BY <2>2, <2>3, OpenKeeps DEF StrokeInv
  <2>6. Sound(r2, held, used)
    <3>1. Sound(s, held, used)
      BY <2>2, <2>4, SoundShape DEF StrokeInv
    <3>. QED BY <2>3, <2>4, <3>1, SoundTame, LooseTame DEF LooseAll, LooseAt
  <2>7. ASSUME ~rejected PROVE KeysOK(r2, KQ, TQ, held, route, used, gv2, ac)
    <3>1. KeysOK(reg, KQ, TQ, held, route, used, given, ac)
      BY <1>1, <2>7 DEF StrokeInv
    <3>. DEFINE hd2 == held
                ro2 == route
                K2 == KQ
                T2 == TQ
                m == used
                ac2 == ac
    <3>2. Elsewhere(KQ, K2, key) /\ Elsewhere(TQ, T2, key)
      BY DEF Elsewhere
    <3>3. /\ \A j \in Keys \ {key} : /\ j \in hd2 <=> j \in held
                                     /\ ro2[j] = route[j]
                                     /\ j \in gv2 => j \in given
                                     /\ j \in ac2 => j \in ac
          /\ used \in Int /\ m \in Int /\ used =< m
      BY <2>3 DEF KeyInv, TypeOK
    <3>4. KeyOK(key, s.entries[key], s.retired[key], K2, T2, hd2, ro2[key], m, gv2, ac2)
      BY <1>1, <2>4, <2>7
    <3>5. LooseAll(s, r2)
      BY <2>3, <2>4
    <3>. HIDE DEF gv2, ac, hd2, ro2, K2, T2, m, ac2, r2, f
    <3>6. KeysOK(s, K2, T2, hd2, ro2, m, gv2, ac2)
      BY ONLY <2>2, <2>4, <3>1, <3>2, <3>3, <3>4, OthersOK
    <3>7. KeysOK(r2, K2, T2, hd2, ro2, m, gv2, ac2)
      BY <3>5, <3>6, KeysLoose
    <3>. QED BY <3>7 DEF hd2, ro2, K2, T2, m, ac2
  <2>. QED BY <1>1, <2>5, <2>6, <2>7 DEF StrokeInv
<1>. QED BY <1>2, <1>3

LEMMA EventsLater ==
  ASSUME NEW E, NEW via, NEW hd, NEW ro, NEW n \in Int, EventsOK(E, via, hd, ro, n),
         NEW m \in Int, n =< m
  PROVE  EventsOK(E, via, hd, ro, m)
BY IndexIs DEF EventsOK, KeyEvent

\* An empty registry believes nothing and owes nothing.
LEMMA ClearedIs ==
  ASSUME NEW r, Good(r), NEW s, s = ClearKeyboard(r)
  PROVE  /\ \A k \in Keys : s.entries[k] = None /\ s.retired[k] = <<>>
         /\ \A hd, n : Sound(s, hd, n)
         /\ \A k \in Keys : Owners(s, k) = 0
<1>1. \A k \in Keys : s.entries[k] = None /\ s.retired[k] = <<>>
  BY DEF ClearKeyboard, Good, Registry
<1>. QED BY <1>1, ClearKeyboardIs DEF Sound, SoundAt

\* wl_keyboard.keymap, rejected.
LEMMA RejectedKeymapStroke ==
  ASSUME KeyInv, StrokeInv, OnKeymap(FALSE) PROVE StrokeInv'
<1>1. /\ used' = used + 1 /\ reg' = ClearKeyboard(reg) /\ rejected' = TRUE
      /\ open' = open /\ held' = held /\ route' = route /\ focused' = focused
      /\ KQ' = KQ /\ TQ' = TQ
  BY DEF OnKeymap, ClearKeymapAndState, Quiet, KQ, TQ
<1>2. Good(reg) /\ used \in Int /\ open \in [Keys -> Nat]
  BY DEF KeyInv, TypeOK
<1>. DEFINE s == reg'
            m == used'
<1>3. /\ \A k \in Keys : s.entries[k] = None /\ s.retired[k] = <<>>
      /\ Sound(s, held, m) /\ \A k \in Keys : Owners(s, k) = 0
  BY <1>1, <1>2, ClearedIs
<1>4. m \in Int /\ used =< m
  BY <1>1, <1>2
<1>5. OpenOwed(s, open)
  BY <1>2, <1>3 DEF OpenOwed
<1>. HIDE DEF m
<1>6. EventsOK(KQ, "key", held, route, m) /\ EventsOK(TQ, "text", held, route, m)
  BY <1>2, <1>4, EventsLater DEF StrokeInv
<1>7. ~focused => KQ = {} /\ TQ = {}
  BY DEF StrokeInv, Idle
<1>. QED BY <1>1, <1>3, <1>5, <1>6, <1>7 DEF StrokeInv, Idle, m

LEMMA OnLeaveStroke ==
  ASSUME KeyInv, StrokeInv, OnLeave PROVE StrokeInv'
<1>1. /\ reg' = ClearKeyboard(reg) /\ used' = used /\ held' = held /\ focused' = FALSE
      /\ open' = [k \in Keys |-> 0] /\ keyQ' = <<>> /\ textQ' = <<>>
  BY DEF OnLeave
<1>2. KQ' = {} /\ TQ' = {} /\ Good(reg)
  BY <1>1, EmptyRange DEF KQ, TQ, KeyInv
<1>. DEFINE s == reg'
<1>3. /\ \A k \in Keys : s.entries[k] = None /\ s.retired[k] = <<>>
      /\ Sound(s, held, used) /\ \A k \in Keys : Owners(s, k) = 0
  BY <1>1, <1>2, ClearedIs
<1>4. OpenOwed(s, open')
  BY <1>1, <1>3 DEF OpenOwed
<1>. QED BY <1>1, <1>2, <1>3, <1>4 DEF StrokeInv, Idle, EventsOK

LEMMA ReleasedElsewhereStroke ==
  ASSUME KeyInv, StrokeInv, NEW keys \in (SUBSET held) \ {{}}, ReleasedElsewhere(keys)
  PROVE  StrokeInv'
<1>1. /\ ~focused /\ focused' = focused /\ reg' = reg /\ open' = open /\ used' = used
      /\ KQ' = KQ /\ TQ' = TQ
  BY DEF ReleasedElsewhere, Quiet, KQ, TQ
<1>2. Idle /\ OpenOwed(reg, open)
  BY <1>1 DEF StrokeInv
<1>3. \A hd, n : Sound(reg, hd, n)
  BY <1>2 DEF Sound, SoundAt, Idle
<1>. QED BY <1>1, <1>2, <1>3 DEF StrokeInv, Idle, EventsOK

LEMMA StrokeInit == Init => StrokeInv
<1>. SUFFICES ASSUME Init PROVE StrokeInv
  OBVIOUS
<1>1. KeyInv
  BY KeyInit
<1>2. KQ = {} /\ TQ = {} /\ ~focused /\ ~rejected
  BY EmptyRange DEF Init, KQ, TQ
<1>3. \A k \in Keys : reg.entries[k] = None /\ reg.retired[k] = <<>>
  BY DEF Init
<1>4. OpenOwed(reg, open)
  <2>1. open \in [Keys -> Nat] /\ \A k \in Keys : open[k] = Owners(reg, k)
    BY <1>1, <1>2 DEF KeyInv, TypeOK, Owed
  <2>. QED BY <2>1 DEF OpenOwed
<1>. QED BY <1>2, <1>3, <1>4 DEF StrokeInv, Idle, Sound, SoundAt, EventsOK

LEMMA EnteredOK ==
  ASSUME NEW k, NEW g, NEW rt, rt = <<>>, NEW K, K = {}, NEW T, NEW n, NEW gv, NEW ac,
         NEW hd, NEW c, k \in hd => "key" \in c,
         k \in hd => Entered(g), k \notin hd => g = None
  PROVE  KeyOK(k, g, rt, K, T, hd, c, n, gv, ac)
<1>1. /\ "Held" # "Unseen" /\ "Held" # "Released" /\ "Physical" # "TextInputKeysym"
      /\ "Physical" # None
  BY NoneAssumption DEF GuestKeyOwner
<1>2. TombsOK(k, rt, K, T, n)
  BY DEF TombsOK
<1>3. \A i \in 1 .. Len(rt) : FALSE
  OBVIOUS
<1>4. CASE k \in hd
  <2>1. OwnerOK(k, g, rt, K, T, c, n)
    BY <1>1, <1>3, <1>4 DEF Entered, OwnerOK
  <2>2. SerialsOK(k, g, K, hd)
    BY <1>1, <1>4 DEF Entered, SerialsOK
  <2>3. StrokeOK(k, g, gv, ac)
    BY <1>1, <1>4 DEF Entered, StrokeOK
  <2>. QED BY <1>2, <1>4, <2>1, <2>2, <2>3 DEF Entered, KeyOK
<1>5. CASE k \notin hd
  BY <1>2, <1>5 DEF KeyOK
<1>. QED BY <1>4, <1>5

LEMMA OnEnterStroke ==
  ASSUME KeyInv, StrokeInv, OnEnter PROVE StrokeInv'
<1>1. PICK order \in SetToSeqs(held) : reg' = InstallEnterSnapshot(reg, order)
  BY DEF OnEnter
<1>. DEFINE s == reg'
            ro2 == route'
<1>2. held \in SUBSET Keys /\ Good(reg) /\ used \in Int
  BY DEF KeyInv, TypeOK
<1>3. \A k \in Keys : /\ s.retired[k] = <<>>
                      /\ k \in held => Entered(s.entries[k])
                      /\ k \notin held => s.entries[k] = None
                      /\ Owners(s, k) = IF k \in held THEN 1 ELSE 0
  BY <1>1, <1>2, InstallEnterSnapshotIs
<1>4. /\ open' = [k \in Keys |-> IF k \in held THEN 1 ELSE 0]
      /\ ro2 = [k \in Keys |-> IF k \in held THEN {"key"} ELSE {}]
      /\ given' = held /\ focused' = TRUE /\ ~focused
      /\ held' = held /\ used' = used /\ accel' = accel /\ KQ' = KQ /\ TQ' = TQ
  BY DEF OnEnter, KQ, TQ
<1>5. KQ = {} /\ TQ = {}
  BY <1>4 DEF StrokeInv, Idle
<1>. HIDE DEF s, ro2
<1>6. OpenOwed(s, open')
  BY <1>3, <1>4 DEF OpenOwed
<1>7. Sound(s, held, used)
  BY <1>3 DEF Sound, SoundAt, Entered
<1>8. KeysOK(s, KQ, TQ, held, ro2, used, held, Kept(accel))
  <2>1. ASSUME NEW k \in Keys
        PROVE  KeyOK(k, s.entries[k], s.retired[k], KQ, TQ, held, ro2[k], used, held,
                     Kept(accel))
    <3>1. k \in held => "key" \in ro2[k]
      BY <1>4
    <3>. QED BY <1>3, <1>5, <3>1, EnteredOK
  <2>. QED BY <2>1 DEF KeysOK
<1>9. EventsOK(KQ, "key", held, ro2, used) /\ EventsOK(TQ, "text", held, ro2, used)
  BY <1>5 DEF EventsOK
<1>. QED BY <1>4, <1>6, <1>7, <1>8, <1>9 DEF StrokeInv, s, ro2

LEMMA StrokeNext ==
  KeyInv /\ StrokeInv /\ PressesPrompt /\ [Next]_vars => StrokeInv'
<1>. SUFFICES ASSUME KeyInv, StrokeInv, PressesPrompt, [Next]_vars PROVE StrokeInv'
  OBVIOUS
<1>1. ASSUME NEW k \in Keys, PressKey(k) PROVE StrokeInv'
  BY <1>1, PressKeyStroke
<1>2. ASSUME NEW k \in Keys, RepeatKey(k) PROVE StrokeInv'
  BY <1>2, RepeatKeyStroke
<1>3. ASSUME NEW k \in Keys, ReleaseKey(k) PROVE StrokeInv'
  BY <1>3, ReleaseKeyStroke
<1>4. ASSUME NEW k \in Keys, ReleaseKeysym(k) PROVE StrokeInv'
  BY <1>4, ReleaseKeysymStroke
<1>5. CASE KeyArrives
  BY <1>5, KeyArrivesStroke
<1>6. CASE KeysymArrives
  BY <1>6, KeysymArrivesStroke
<1>7. CASE ConfirmPreedit
  BY <1>7, ConfirmPreeditStroke
<1>8. CASE PreeditCleared \/ Composition \/ OnModifiers \/ UNCHANGED vars
  BY <1>8, MarksStroke
<1>9. ASSUME NEW loads \in KeymapOutcomes, OnKeymap(loads) PROVE StrokeInv'
  <2>1. OnKeymap(TRUE) \/ OnKeymap(FALSE)
    BY <1>9 DEF OnKeymap
  <2>. QED BY <2>1, MarksStroke, RejectedKeymapStroke
<1>10. CASE OnEnter
  BY <1>10, OnEnterStroke
<1>11. CASE OnLeave
  BY <1>11, OnLeaveStroke
<1>12. ASSUME NEW keys \in (SUBSET held) \ {{}}, ReleasedElsewhere(keys) PROVE StrokeInv'
  BY <1>12, ReleasedElsewhereStroke
<1>. QED BY <1>1, <1>2, <1>3, <1>4, <1>5, <1>6, <1>7, <1>8, <1>9, <1>10, <1>11, <1>12
     DEF Next

\* Nothing on the way and the key up: nothing owns a press of it.
LEMMA NothingOwed ==
  ASSUME KeyInv, StrokeInv, ~rejected, keyQ = <<>>, textQ = <<>>, NEW k \in Keys \ held
  PROVE  open[k] = 0
<1>1. KQ = {} /\ TQ = {} /\ Good(reg)
  BY EmptyRange DEF KQ, TQ, KeyInv
<1>. DEFINE g == reg.entries[k]
            rt == reg.retired[k]
<1>2. rt \in Seq(RetiredGuestRelease) /\ Len(rt) \in Nat
  BY <1>1, EntryIs
<1>3. Len(rt) = 0 /\ ~Forwarded(reg, k)
  <2>1. CASE ~focused
    <3>1. g = None /\ rt = <<>>
      BY <2>1 DEF StrokeInv, Idle
    <3>. QED BY <1>1, <3>1, GenIs
  <2>2. CASE focused
    <3>1. KeyOK(k, g, rt, KQ, TQ, held, route[k], used, given, Kept(accel))
      BY <2>2 DEF StrokeInv, KeysOK
    <3>2. ASSUME NEW i \in 1 .. Len(rt) PROVE FALSE
      <4>1. rt[i].owner \in {"Physical", "TextInputKeysym"}
        <5>1. rt[i] \in RetiredGuestRelease
          BY <1>2
        <5>. QED BY <5>1 DEF RetiredGuestRelease
      <4>2. TombOK(k, rt[i], KQ, TQ, used)
        BY <3>1 DEF KeyOK, TombsOK
      <4>. QED BY <1>1, <4>1, <4>2 DEF TombOK, Coming
    <3>3. Len(rt) = 0
      BY <1>2, <3>2
    <3>4. ASSUME Forwarded(reg, k) PROVE FALSE
      <4>1. g # None /\ g \in KeyGeneration /\ Owned(g)
        BY <1>1, <3>4, GenIs, EntryIs
      <4>2. OwnerOK(k, g, rt, KQ, TQ, route[k], used) /\ SerialsOK(k, g, KQ, held)
        BY <3>1, <4>1 DEF KeyOK
      <4>3. g.physical_state = "Released"
        BY <4>1, <4>2 DEF SerialsOK, KeyGeneration, PhysicalKeyState
      <4>. QED BY <1>1, <4>1, <4>2, <4>3 DEF OwnerOK, Owned, Coming, EndsAfter
    <3>. QED BY <3>3, <3>4
  <2>. QED BY <2>1, <2>2
<1>4. open[k] = Owners(reg, k)
  BY DEF KeyInv, Owed
<1>. QED BY <1>3, <1>4 DEF Owners

\* wl_keyboard.key forwards an event or drops it.
LEMMA KeyDrops ==
  ASSUME NEW r, NEW key, NEW state \in KeyState, NEW serial
  PROVE  OnKey(r, key, state, serial).delivery \in {"Drop", "Forward"}
<1>. DEFINE observed == CASE state = "press" ->
                               IF Released(r, key) /\ PeekPressSerial(r, key) = serial
                               THEN r ELSE ObservePress(r, key, None)
                          [] state = "repeat" -> r
                          [] state = "release" -> ObserveRelease(r, key, serial)
            r1 == IF key = Backspace THEN observed
                  ELSE EndRepeat(CancelRepeat(observed))
            r2 == IF IsHostAccelerator(key) THEN InvalidatePeek(r1, key) ELSE r1
            p == PhysicalPress(r2, key, state = "repeat", IsHostAccelerator(key),
                               key = Backspace /\ ImeRepeatActive(r))
            q == PhysicalRelease(observed, key)
            e == [q EXCEPT !.reg = EndRepeat(@)]
            t == TakeRetired(r, key, PendingPhysicalReleases(r, key, serial))
            d == OnKey(r, key, state, serial)
<1>1. d \in {Decision(t, "Forward", TRUE, FALSE), Decision(r, "Drop", FALSE, FALSE), p, q, e}
  BY DEF OnKey
<1>. HIDE DEF observed, r1, r2, t, d
<1>2. p.delivery \in {"Drop", "Forward"}
  BY DEF PhysicalPress, Decision
<1>3. q.delivery \in {"Drop", "Forward"} /\ e.delivery = q.delivery
  BY DEF PhysicalRelease, Decision
<1>. HIDE DEF p, q, e
<1>4. d.delivery \in {"Drop", "Forward"}
  BY <1>1, <1>2, <1>3 DEF Decision
<1>. QED BY <1>4 DEF d

-----------------------------------------------------------------------------
(* What a step tells the guest.                                            *)

LEMMA ToldIs ==
  ASSUME NEW d, NEW key, NEW state, NEW via, Deliver(d, key, state, via),
         d.delivery \in {"Forward", "EmitBalancedPair", "Drop"},
         NEW i \in DOMAIN out'
  PROVE  /\ out'[i].key = key /\ out'[i].via = via /\ d.delivery # "Drop"
         /\ d.delivery = "Forward" => out'[i].state = state
         /\ d.delivery = "EmitBalancedPair" => Len(out') = 2
<1>. DEFINE ev(x) == [key |-> key, state |-> x, via |-> via]
            q == out'
<1>1. q = CASE d.delivery = "Forward" -> <<ev(state)>>
            [] d.delivery = "EmitBalancedPair" -> <<ev("press"), ev("release")>>
            [] d.delivery = "Drop" -> <<>>
  BY DEF Deliver
<1>. HIDE DEF q
<1>2. i \in DOMAIN q
  BY DEF q
<1>3. CASE d.delivery = "Drop"
  BY <1>1, <1>2, <1>3
<1>4. CASE d.delivery = "Forward"
  <2>1. q = <<ev(state)>>
    BY <1>1, <1>4
  <2>2. i = 1 /\ q[1] = ev(state)
    BY <1>2, <2>1
  <2>. QED BY <1>4, <2>2 DEF q
<1>5. CASE d.delivery = "EmitBalancedPair"
  <2>1. q = <<ev("press"), ev("release")>>
    BY <1>1, <1>5
  <2>2. i \in {1, 2} /\ q[1] = ev("press") /\ q[2] = ev("release") /\ Len(q) = 2
    BY <1>2, <2>1
  <2>. QED BY <1>5, <2>2 DEF q
<1>. QED BY <1>3, <1>4, <1>5

\* A repeat goes to the guest for a key it holds.
LEMMA KeyRepeatOwned ==
  ASSUME NEW r, Good(r), NEW key \in Keys, NEW serial \in Serial,
         NEW d, d = OnKey(r, key, "repeat", serial), d.delivery = "Forward"
  PROVE  Owners(r, key) >= 1
<1>. DEFINE imeRepeat == key = Backspace /\ ImeRepeatActive(r)
            r1 == IF key = Backspace THEN r ELSE EndRepeat(CancelRepeat(r))
            r2 == IF IsHostAccelerator(key) THEN InvalidatePeek(r1, key) ELSE r1
<1>1. d = PhysicalPress(r2, key, TRUE, IsHostAccelerator(key), imeRepeat)
  BY DEF OnKey
<1>2. Keeps(r, r1) /\ Good(r1)
  BY EndsRepeatIs, KeepsSelf DEF Keeps
<1>. HIDE DEF r1, imeRepeat
<1>3. Keeps(r1, r2)
  BY <1>2, InvalidatePeekIs, KeepsSelf
<1>4. Good(r2) /\ Owners(r2, key) = Owners(r, key)
  BY <1>2, <1>3 DEF Keeps
<1>. HIDE DEF r2
<1>5. Forwarded(r2, key)
  BY <1>1 DEF PhysicalPress, Decision
<1>6. Owners(r2, key) = Len(r2.retired[key]) + 1
  BY <1>5 DEF Owners
<1>7. Len(r2.retired[key]) \in Nat
  BY <1>4, EntryIs
<1>. QED BY <1>4, <1>6, <1>7

LEMMA KeysymRepeatOwned ==
  ASSUME NEW r, Good(r), NEW key \in Keys, NEW serial,
         NEW d, d = KeysymDecision(r, key, "repeat", serial), d.delivery = "Forward"
  PROVE  Owners(r, key) >= 1
<1>1. Forwarded(r, key)
  BY DEF KeysymDecision, TextInputRepeat, Decision
<1>2. Len(r.retired[key]) \in Nat
  BY EntryIs
<1>. QED BY <1>1, <1>2 DEF Owners

\* The steps that deliver nothing.
LEMMA SilentSteps ==
  ASSUME Next, ~KeyArrives, ~KeysymArrives, ~ConfirmPreedit PROVE out' = <<>>
BY DEF Next, PressKey, RepeatKey, ReleaseKey, ReleaseKeysym, Send, PreeditCleared,
       Composition, OnModifiers, OnKeymap, OnEnter, OnLeave, ReleasedElsewhere, Quiet

LEMMA KeyArrivesTold ==
  ASSUME KeyInv, StrokeInv, KeyArrives, NEW i \in DOMAIN out'
  PROVE  /\ out'[i].via = "key"
         /\ out'[i].state = "press" => (~rejected => out'[i].key \notin given)
         /\ out'[i].state # "press" => open[out'[i].key] > 0
<1>. DEFINE e == Head(keyQ)
            key == e.key
            state == e.state
            serial == e.serial
            d == OnKey(reg, key, state, serial)
<1>1. keyQ # <<>> /\ keyQ' = Tail(keyQ) /\ Deliver(d, key, state, "key")
  BY DEF KeyArrives
<1>2. keyQ \in Seq(KeyEvent) /\ Good(reg) /\ open \in [Keys -> Nat]
  BY DEF KeyInv, TypeOK
<1>3. e \in KQ /\ KQ \subseteq KeyEvent /\ Taken(KQ, KQ', e)
  BY <1>1, <1>2, TailIs DEF KQ
<1>4. focused
  BY <1>3, Focused
<1>. HIDE DEF e
<1>5. key \in Keys /\ state \in KeyState /\ serial \in Serial
  BY <1>3 DEF KeyEvent
<1>6. Accounts(reg, d, key, state) /\ d.delivery \in {"Drop", "Forward"}
  <2>1. Accounts(reg, d, key, state)
    BY <1>2, <1>5, OnKeyIs
  <2>. QED BY <2>1, <1>2, <1>5, KeyDrops DEF Accounts
<1>7. /\ out'[i].key = key /\ out'[i].via = "key" /\ out'[i].state = state
      /\ d.delivery = "Forward"
  BY <1>1, <1>6, ToldIs
<1>8. ASSUME state = "press", ~rejected PROVE key \notin given
  <2>. DEFINE K2 == KQ'
              gv2 == IF d.delivery # "Drop" /\ state = "press" THEN given \cup {key}
                     ELSE given
              ac2 == IF state # "release" /\ LeftToHost(key) THEN accel \cup {key}
                     ELSE accel
  <2>1. d.delivery # "Drop" /\ state = "press" => key \notin given
    BY <1>3, <1>4, <1>5, <1>8, KeyArrivesOK
  <2>. QED BY <1>7, <1>8, <2>1
<1>9. ASSUME state = "release" PROVE open[key] > 0
  BY <1>1, <1>5, <1>6, <1>7, <1>9, DeliverOpen DEF StrokeInv
<1>10. ASSUME state = "repeat" PROVE open[key] > 0
  <2>1. Owners(reg, key) >= 1
    BY <1>2, <1>5, <1>7, <1>10, KeyRepeatOwned
  <2>2. Owners(reg, key) =< open[key] /\ open[key] \in Nat /\ Owners(reg, key) \in Nat
    BY <1>2, <1>5, OwnersNat DEF StrokeInv, OpenOwed
  <2>. QED BY <2>1, <2>2
<1>. QED BY <1>5, <1>7, <1>8, <1>9, <1>10 DEF KeyState

LEMMA KeysymArrivesTold ==
  ASSUME KeyInv, StrokeInv, KeysymArrives, NEW i \in DOMAIN out'
  PROVE  /\ out'[i].state = "press" =>
              (~rejected => out'[i].key \notin given /\ out'[i].key \notin Kept(accel))
         /\ out'[i].state # "press" => open[out'[i].key] > 0
<1>1. PICK e \in TQ : \E key \in Keys, state \in KeyState, serial \in Serial :
           /\ e.key = key /\ e.state = state /\ e.serial = serial /\ Taken(TQ, TQ', e)
           /\ Deliver(OnKeysym(reg, key, state, serial), key, state, "text")
  BY KeysymEvent
<1>2. PICK key \in Keys, state \in KeyState, serial \in Serial :
           /\ e.key = key /\ e.state = state /\ e.serial = serial /\ Taken(TQ, TQ', e)
           /\ Deliver(OnKeysym(reg, key, state, serial), key, state, "text")
  BY <1>1
<1>. DEFINE f == OnKeysym(reg, key, state, serial)
            d == KeysymDecision(reg, key, state, serial)
<1>3. Good(reg) /\ open \in [Keys -> Nat]
  BY DEF KeyInv, TypeOK
<1>4. focused
  BY <1>1, Focused
<1>5. f.delivery = d.delivery
  <2>1. Good(d.reg)
    BY <1>3, KeysymDecided
  <2>. QED BY <2>1, KeysymEnds
<1>6. Accounts(reg, f, key, state)
  BY <1>3, OnKeysymIs
<1>7. f.delivery \in {"Forward", "Drop"}
  <2>1. d.delivery \in {"Forward", "Drop"}
    BY DEF KeysymDecision, TextInputPress, TextInputRepeat, TextInputRelease, Decision,
           KeyState
  <2>. QED BY <1>5, <2>1
<1>8. /\ out'[i].key = key /\ out'[i].via = "text" /\ out'[i].state = state
      /\ f.delivery = "Forward"
  BY <1>2, <1>7, ToldIs
<1>9. ASSUME state = "press", ~rejected PROVE key \notin given /\ key \notin Kept(accel)
  <2>1. d.delivery # "Drop" /\ state = "press" => key \notin given /\ key \notin Kept(accel)
    BY <1>1, <1>2, <1>4, <1>9, KeysymArrivesOK
  <2>. QED BY <1>5, <1>8, <1>9, <2>1
<1>10. ASSUME state = "release" PROVE open[key] > 0
  BY <1>2, <1>6, <1>8, <1>10, DeliverOpen DEF StrokeInv
<1>11. ASSUME state = "repeat" PROVE open[key] > 0
  <2>1. Owners(reg, key) >= 1
    BY <1>3, <1>5, <1>8, <1>11, KeysymRepeatOwned
  <2>2. Owners(reg, key) =< open[key] /\ open[key] \in Nat /\ Owners(reg, key) \in Nat
    BY <1>3, OwnersNat DEF StrokeInv, OpenOwed
  <2>. QED BY <2>1, <2>2
<1>. QED BY <1>8, <1>9, <1>10, <1>11 DEF KeyState

LEMMA ConfirmPreeditTold ==
  ASSUME KeyInv, StrokeInv, ConfirmPreedit, NEW i \in DOMAIN out'
  PROVE  /\ out'[i].via = "recovery" /\ Len(out') = 2
         /\ ~rejected => out'[i].key \notin Kept(accel)
<1>1. focused /\ Good(reg)
  BY DEF ConfirmPreedit, KeyInv
<1>2. HeldRepeatKeys(reg) # {}
  BY DEF ConfirmPreedit, Quiet
<1>3. PICK key \in HeldRepeatKeys(reg) :
             Deliver(OnEmptyConfirm(reg, key), key, "press", "recovery")
  BY <1>2 DEF ConfirmPreedit
<1>. DEFINE f == OnEmptyConfirm(reg, key)
<1>4. key \in Keys /\ f.delivery \in {"Drop", "EmitBalancedPair"}
  BY <1>1, OnEmptyConfirmIs DEF HeldRepeatKeys, PeekKeys
<1>5. /\ out'[i].key = key /\ out'[i].via = "recovery" /\ f.delivery # "Drop"
      /\ f.delivery = "EmitBalancedPair" => Len(out') = 2
  BY <1>3, <1>4, ToldIs
<1>6. ~rejected => (f.delivery # "Drop" => key \notin Kept(accel))
  BY <1>1, RecoveryOK
<1>. QED BY <1>4, <1>5, <1>6

\* Both invariants along every behaviour.
LEMMA StrokesSound == PressesPrompt => (Spec => [](KeyInv /\ StrokeInv))
<1>. SUFFICES ASSUME PressesPrompt PROVE Spec => [](KeyInv /\ StrokeInv)
  OBVIOUS
<1>1. Init => KeyInv /\ StrokeInv
  BY KeyInit, StrokeInit
<1>2. KeyInv /\ StrokeInv /\ [Next]_vars => KeyInv' /\ StrokeInv'
  BY KeyNext, StrokeNext
<1>. QED BY <1>1, <1>2, PTL DEF Spec

\* No stuck key, where only releases lag behind the next transition of a key:
\* once a key is up at the host and both channels have delivered what they held
\* back, the registry does not hold it and the guest has no press of it, unless
\* a rejected keymap cleared the registry.  A delayed release finds its own
\* tombstone or the generation it ends (observe_physical_event,
\* take_pending_physical_release, take_pending_text_input_release).
THEOREM KeysComeUp == PressesPrompt => (Spec => []NoStuckKey)
<1>1. KeyInv /\ StrokeInv => NoStuckKey
  <2>. SUFFICES ASSUME KeyInv, StrokeInv PROVE NoStuckKey
    OBVIOUS
  <2>1. HeldMeansDown
    BY SoundIs DEF KeyInv, StrokeInv
  <2>. QED BY <2>1, NothingOwed DEF NoStuckKey
<1>. QED BY <1>1, StrokesSound, PTL

\* Where only releases lag, a keystroke is typed once: no channel presses a key
\* the guest was already given, by another channel or by IME recovery, and a
\* release or a repeat goes to the guest only for a key it holds.  A keystroke
\* given once keeps an owner, the ImeRecovery mark after its keysym release,
\* until its key is up (transition_guest_key, complete_guest_owner_if).
THEOREM KeystrokesTypedOnce == PressesPrompt => (Spec => OnePressPerKeystroke)
<1>. DEFINE Told == \A i \in DOMAIN out' :
                      IF out'[i].state = "press"
                      THEN out'[i].via # "recovery" /\ ~rejected => out'[i].key \notin given
                      ELSE Len(out') = 1 => open[out'[i].key] > 0
<1>1. KeyInv /\ StrokeInv /\ [Next]_vars => [Told]_vars
  <2>. SUFFICES ASSUME KeyInv, StrokeInv, Next PROVE Told
    OBVIOUS
  <2>1. CASE KeyArrives
    BY <2>1, KeyArrivesTold
  <2>2. CASE KeysymArrives
    BY <2>2, KeysymArrivesTold
  <2>3. CASE ConfirmPreedit
    <3>1. \A i \in DOMAIN out' : out'[i].via = "recovery" /\ Len(out') = 2
      BY <2>3, ConfirmPreeditTold
    <3>. QED BY <3>1
  <2>4. CASE ~KeyArrives /\ ~KeysymArrives /\ ~ConfirmPreedit
    <3>1. out' = <<>>
      BY <2>4, SilentSteps
    <3>. QED BY <3>1
  <2>. QED BY <2>1, <2>2, <2>3, <2>4
<1>. QED BY <1>1, StrokesSound, PTL DEF Spec, OnePressPerKeystroke

\* Where only releases lag and every chord left to the host is one the list
\* names, a keystroke taken for an accelerator reaches the guest neither as a
\* keysym nor through IME recovery, whatever the modifiers do later: its peek
\* stays ineligible, or wl_keyboard.key owns it (observe_peek_press,
\* invalidate_peek, claim_text_input_owner, held_repeat_key_for_seat).
THEOREM AcceleratorsWithheld ==
  PressesPrompt /\ ChordsReserved => (Spec => AcceleratorStaysWithHost)
<1>. DEFINE Told == \A i \in DOMAIN out' :
                      out'[i].state = "press" /\ out'[i].via # "key" /\ ~rejected
                      => out'[i].key \notin accel
<1>. SUFFICES ASSUME PressesPrompt, ChordsReserved PROVE Spec => AcceleratorStaysWithHost
  OBVIOUS
<1>1. KeyInv /\ StrokeInv /\ [Next]_vars => [Told]_vars
  <2>. SUFFICES ASSUME KeyInv, StrokeInv, Next PROVE Told
    OBVIOUS
  <2>1. Kept(accel) = accel
    BY DEF Kept
  <2>2. CASE KeyArrives
    BY <2>2, KeyArrivesTold
  <2>3. CASE KeysymArrives
    BY <2>1, <2>3, KeysymArrivesTold
  <2>4. CASE ConfirmPreedit
    BY <2>1, <2>4, ConfirmPreeditTold
  <2>5. CASE ~KeyArrives /\ ~KeysymArrives /\ ~ConfirmPreedit
    <3>1. out' = <<>>
      BY <2>5, SilentSteps
    <3>. QED BY <3>1
  <2>. QED BY <2>2, <2>3, <2>4, <2>5
<1>. QED BY <1>1, StrokesSound, PTL DEF Spec, AcceleratorStaysWithHost
=============================================================================
