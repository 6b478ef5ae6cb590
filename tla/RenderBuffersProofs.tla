------------------------ MODULE RenderBuffersProofs ------------------------
(***************************************************************************)
(* Proofs about RenderBuffers for any number of surfaces, buffers, regions *)
(* and requests in flight.                                                 *)
(***************************************************************************)
EXTENDS RenderBuffers, FiniteSetTheorems, SequenceTheorems, TLAPS

-----------------------------------------------------------------------------
(* Retirement                                                              *)

\* The buffers retire_eligible_buffers finds, the registry it leaves and the
\* destructors it sends.
Candidates(e, t) == {b \in Buffers : CanRetire(e, t, b)}
Retired(e, t) == [b \in Buffers |-> IF b \in Candidates(e, t) THEN Complete(e, b)[b]
                                    ELSE e[b]]
DestroyAll(S) == LET order == SetToSeq(S)
                 IN  [i \in DOMAIN order |-> DestroyReq(order[i])]

Entry == RenderBuffer \cup {None}
Entries == [Buffers -> Entry]
SurfaceTable == [Surfaces -> SurfaceState \cup {None}]

LEMMA RetireShape ==
  ASSUME NEW e, NEW t, NEW reqs, RetireEligible(e, t, reqs)
  PROVE  /\ toHost' = toHost \o (reqs \o DestroyAll(Candidates(e, t)))
         /\ surfaces' = t
         /\ buffers' = Retired(e, t)
BY DEF RetireEligible, Send, Candidates, Retired, DestroyAll

\* The destructors: one for each buffer of the set, in some order.
LEMMA Destructors ==
  ASSUME NEW S, S \subseteq Buffers
  PROVE  /\ DestroyAll(S) \in Seq(Request)
         /\ \A i \in 1 .. Len(DestroyAll(S)) :
              /\ DestroyAll(S)[i].op = "destroy"
              /\ DestroyAll(S)[i].buffer \in S
              /\ \A j \in 1 .. Len(DestroyAll(S)) :
                   DestroyAll(S)[i] = DestroyAll(S)[j] => i = j
<1>. DEFINE n == Cardinality(S)
            order == SetToSeq(S)
<1>1. IsFiniteSet(S)
  BY FS_Subset, TablesAssumption
<1>2. n \in Nat /\ ExistsBijection(1 .. n, S)
  BY <1>1, FS_CardinalityType
<1>3. \E f \in [1 .. n -> S] : IsInjective(f)
  BY <1>2 DEF ExistsBijection, Bijection, Injection
<1>4. order \in [1 .. n -> S] /\ IsInjective(order)
  BY <1>3 DEF SetToSeq
<1>. HIDE DEF order, n
<1>5. DestroyAll(S) = [i \in 1 .. n |-> DestroyReq(order[i])]
  BY <1>4 DEF DestroyAll, order
<1>6. \A i \in 1 .. n : DestroyReq(order[i]) \in Request
  BY <1>4 DEF DestroyReq, Request
<1>7. DestroyAll(S) \in Seq(Request) /\ Len(DestroyAll(S)) = n
  BY <1>2, <1>5, <1>6
<1>8. \A i \in 1 .. n : DestroyAll(S)[i] = [op |-> "destroy", buffer |-> order[i]]
  BY <1>5 DEF DestroyReq
<1>9. \A i, j \in 1 .. n : order[i] = order[j] => i = j
  BY <1>4 DEF IsInjective
<1>. QED
  BY <1>4, <1>7, <1>8, <1>9

-----------------------------------------------------------------------------
(* Types                                                                   *)

\* An entry the guest or the host may still use
LiveEntry == [state : {"GuestAlive", "GuestDestroyed"}, use : Use, needs_full_copy : BOOLEAN]

LEMMA ActiveEntry ==
  ASSUME NEW e \in Entries, NEW b \in Buffers, Active(e, b)
  PROVE  e[b] \in LiveEntry
BY DEF Entries, Entry, RenderBuffer, LiveEntry, Active

LEMMA LiveIsActive ==
  ASSUME NEW e \in Entries, NEW b \in Buffers, e[b] \in LiveEntry
  PROVE  Active(e, b)
<1>1. e[b] # None
  BY TablesAssumption DEF RenderBuffer, LiveEntry
<1>. QED
  BY <1>1 DEF LiveEntry, Active

LEMMA EntryUpdates ==
  ASSUME NEW e \in Entries, NEW b \in Buffers
  PROVE  /\ Complete(e, b) \in Entries
         /\ Complete(e, b)[b] \in Entry
         /\ [e EXCEPT ![b] = NewBuffer(b)] \in Entries
         /\ [e EXCEPT ![b] = None] \in Entries
         /\ Active(e, b) =>
              /\ MarkGuestDestroyed(e, b) \in Entries
              /\ [e EXCEPT ![b].use = ReleaseUse(@)] \in Entries
              /\ [e EXCEPT ![b].needs_full_copy = TRUE] \in Entries
              /\ [e EXCEPT ![b].needs_full_copy = FALSE] \in Entries
              /\ \A other \in BOOLEAN : EndLastSurfaceUse(e, b, other) \in Entries
<1>1. Complete(e, b) \in Entries /\ Complete(e, b)[b] \in Entry
  BY DEF Complete, MarkHostDestroyQueued, Entries, Entry, RenderBuffer
<1>2. [e EXCEPT ![b] = None] \in Entries
  BY DEF Entries, Entry
<1>3. NewBuffer(b) \in RenderBuffer
  BY DEF NewBuffer, RenderBuffer, Use
<1>4. [e EXCEPT ![b] = NewBuffer(b)] \in Entries
  BY <1>3 DEF Entries, Entry
<1>5. ASSUME Active(e, b)
      PROVE  /\ [e[b] EXCEPT !.state = "GuestDestroyed"] \in Entry
             /\ [e[b] EXCEPT !.use = ReleaseUse(@)] \in Entry
             /\ [e[b] EXCEPT !.use = "NeverSubmitted"] \in Entry
             /\ [e[b] EXCEPT !.needs_full_copy = TRUE] \in Entry
             /\ [e[b] EXCEPT !.needs_full_copy = FALSE] \in Entry
  <2>1. e[b] \in LiveEntry
    BY <1>5, ActiveEntry
  <2>2. ReleaseUse(e[b].use) \in Use
    BY <2>1 DEF LiveEntry, Use, ReleaseUse
  <2>. QED
    BY <2>1, <2>2 DEF LiveEntry, Entry, RenderBuffer, Use
<1>6. ASSUME Active(e, b)
      PROVE  /\ MarkGuestDestroyed(e, b) \in Entries
             /\ [e EXCEPT ![b].use = ReleaseUse(@)] \in Entries
             /\ [e EXCEPT ![b].needs_full_copy = TRUE] \in Entries
             /\ [e EXCEPT ![b].needs_full_copy = FALSE] \in Entries
             /\ \A other \in BOOLEAN : EndLastSurfaceUse(e, b, other) \in Entries
  BY <1>5, <1>6 DEF Entries, MarkGuestDestroyed, EndLastSurfaceUse
<1>. QED
  BY <1>1, <1>2, <1>4, <1>6

LEMMA FinalizeType ==
  ASSUME NEW e \in Entries, NEW previous \in Buffers \cup {None},
         NEW next \in Buffers \cup {None}, CanFinalize(e, previous, next)
  PROVE  Finalize(e, previous, next) \in Entries
<1>1. ASSUME NEW b \in Buffers, b = next
      PROVE  [e[b] EXCEPT !.use = SubmitUse(@)] \in Entry
  <2>1. e[b] \in LiveEntry
    BY <1>1, ActiveEntry, BuffersAssumption DEF CanFinalize
  <2>. QED
    BY <2>1 DEF LiveEntry, Entry, RenderBuffer, SubmitUse, Use, AwaitingUse
<1>2. ASSUME NEW b \in Buffers, b # next, b = previous
      PROVE  [e[b] EXCEPT !.use = DetachUse(@)] \in Entry
  <2>1. e[b] \in LiveEntry
    BY <1>2, ActiveEntry, BuffersAssumption DEF CanFinalize
  <2>. QED
    BY <2>1 DEF LiveEntry, Entry, RenderBuffer, DetachUse, Use, AwaitingUse
<1>3. \A b \in Buffers : e[b] \in Entry
  BY DEF Entries
<1>. QED
  BY <1>1, <1>2, <1>3 DEF Finalize, Entries

LEMMA RetiredType ==
  ASSUME NEW e \in Entries, NEW t
  PROVE  Retired(e, t) \in Entries
<1>1. \A b \in Buffers : Complete(e, b)[b] \in Entry /\ e[b] \in Entry
  BY EntryUpdates DEF Entries
<1>. QED
  BY <1>1 DEF Retired, Entries

LEMMA PushType ==
  ASSUME NEW d \in DamageRegion, NEW r \in Regions
  PROVE  Push(d, r) \in DamageRegion
<1>1. CASE d = Full \/ ~(Len(d) < MaxRects)
  <2>1. Len(d) >= MaxRects \/ d = Full
    <3>1. CASE d # Full
      <4>1. PICK n \in 0 .. MaxRects : d \in [1 .. n -> Regions]
        BY <3>1 DEF DamageRegion
      <4>2. Len(d) = n
        BY <4>1, BoundsAssumption
      <4>. QED
        BY <1>1, <3>1, <4>1, <4>2, BoundsAssumption
    <3>. QED
      BY <3>1
  <2>. QED
    BY <2>1 DEF Push, DamageRegion
<1>2. CASE d # Full /\ Len(d) < MaxRects
  <2>1. PICK n \in 0 .. MaxRects : d \in [1 .. n -> Regions]
    BY <1>2 DEF DamageRegion
  <2>2. n \in Nat /\ MaxRects \in Nat /\ d \in Seq(Regions) /\ Len(d) = n
    BY <2>1, BoundsAssumption
  <2>3. Append(d, r) \in [1 .. n + 1 -> Regions] /\ n + 1 \in 0 .. MaxRects
    <3>1. Append(d, r) \in Seq(Regions) /\ Len(Append(d, r)) = n + 1
      BY <2>2, AppendProperties
    <3>2. n + 1 \in 0 .. MaxRects
      BY <1>2, <2>2
    <3>. QED
      BY <3>1, <3>2, LenProperties
  <2>4. Push(d, r) = Append(d, r)
    BY <1>2, <2>2 DEF Push
  <2>. QED
    BY <2>3, <2>4 DEF DamageRegion
<1>. QED
  BY <1>1, <1>2

LEMMA SurfaceTypes ==
  ASSUME NEW t \in SurfaceState
  PROVE  /\ Attached(t) \in Buffers \cup {None}
         /\ PrepareCommit(t) \in SurfaceState
         /\ \A m \in Mapping : [t EXCEPT !.pending_mapping = m] \in SurfaceState
         /\ \A b \in Buffers \cup {"Detach"} : [t EXCEPT !.attachment = b] \in SurfaceState
         /\ \A r \in Regions :
              /\ [t EXCEPT !.surface_damage = Push(@, r)] \in SurfaceState
              /\ [t EXCEPT !.buffer_damage = Push(@, r)] \in SurfaceState
         /\ \A b : [ClearCurrent(t, b) EXCEPT !.attachment = IF @ = b THEN "Detach" ELSE @]
                     \in SurfaceState
<1>1. Attached(t) \in Buffers \cup {None}
  BY DEF Attached
<1>2. <<>> \in DamageRegion
  <2>1. 0 \in 0 .. MaxRects /\ <<>> \in [1 .. 0 -> Regions]
    BY BoundsAssumption
  <2>. QED
    BY <2>1 DEF DamageRegion
<1>3. PrepareCommit(t) \in SurfaceState
  BY <1>1, <1>2 DEF PrepareCommit, SurfaceState, Attachment
<1>4. \A m \in Mapping : [t EXCEPT !.pending_mapping = m] \in SurfaceState
  BY DEF SurfaceState
<1>5. \A b \in Buffers \cup {"Detach"} : [t EXCEPT !.attachment = b] \in SurfaceState
  BY DEF SurfaceState, Attachment
<1>6. ASSUME NEW r \in Regions
      PROVE  /\ [t EXCEPT !.surface_damage = Push(@, r)] \in SurfaceState
             /\ [t EXCEPT !.buffer_damage = Push(@, r)] \in SurfaceState
  <2>1. t.surface_damage \in DamageRegion /\ t.buffer_damage \in DamageRegion
    BY DEF SurfaceState
  <2>2. Push(t.surface_damage, r) \in DamageRegion /\ Push(t.buffer_damage, r) \in DamageRegion
    BY <2>1, PushType
  <2>. QED
    BY <2>2 DEF SurfaceState
<1>7. ASSUME NEW b
      PROVE  [ClearCurrent(t, b) EXCEPT !.attachment = IF @ = b THEN "Detach" ELSE @]
               \in SurfaceState
  BY DEF SurfaceState, ClearCurrent, Attachment
<1>. QED
  BY <1>1, <1>3, <1>4, <1>5, <1>6, <1>7

-----------------------------------------------------------------------------
(* The handlers that end with retire_eligible_buffers: the registry and    *)
(* the surfaces they leave and the requests they send before it            *)

AttachReq(s, b) == [op |-> "attach", surface |-> s, buffer |-> b]
CommitReq(s) == [op |-> "commit", surface |-> s, damage |-> HostDamage(surfaces[s])]
SurfaceDestroyReq(s) == [op |-> "surface_destroy", surface |-> s]

AttachedSurfaces(s, b) == [surfaces EXCEPT ![s].attachment = b]
CommittedSurfaces(s) == [surfaces EXCEPT ![s] = PrepareCommit(@)]
RemainingSurfaces(s) == [surfaces EXCEPT ![s] = None]

CopyMarked(b) == [buffers EXCEPT ![b].needs_full_copy = TRUE]
CopyDone(b) == IF b \in LocalBuffers
               THEN [buffers EXCEPT ![b].needs_full_copy = FALSE] ELSE buffers
CommittedEntries(s) ==
  IF surfaces[s].attachment # "Unchanged"
  THEN Finalize(CopyDone(Attached(surfaces[s])), surfaces[s].current, Attached(surfaces[s]))
  ELSE CopyDone(Attached(surfaces[s]))
EntriesWithout(s) ==
  IF surfaces[s].current # None /\ Active(buffers, surfaces[s].current)
  THEN EndLastSurfaceUse(buffers, surfaces[s].current,
                         surfaces[s].current \in Current(RemainingSurfaces(s)))
  ELSE buffers

Tables == surfaces \in SurfaceTable /\ buffers \in Entries

\* What a handler may send before it retires buffers
PlainReqs == {<<>>} \cup {<<r>> : r \in {q \in Request : q.op # "destroy"}}

LEMMA AttachRetires ==
  ASSUME Tables, NEW s \in Surfaces, NEW b \in Buffers \cup {"Detach"}, OnAttach(s, b)
  PROVE  /\ AttachedSurfaces(s, b) \in SurfaceTable /\ buffers \in Entries
         /\ <<AttachReq(s, b)>> \in PlainReqs
         /\ RetireEligible(buffers, AttachedSurfaces(s, b), <<AttachReq(s, b)>>)
         /\ surfaces[s] \in SurfaceState /\ ~fatal
<1>1. surfaces[s] \in SurfaceState /\ ~fatal
  BY DEF Tables, SurfaceTable, OnAttach, Live
<1>2. [surfaces[s] EXCEPT !.attachment = b] \in SurfaceState
  BY <1>1, SurfaceTypes
<1>3. AttachedSurfaces(s, b) \in SurfaceTable
  BY <1>2 DEF Tables, SurfaceTable, AttachedSurfaces
<1>4. AttachReq(s, b) \in {q \in Request : q.op # "destroy"}
  BY DEF AttachReq, Request
<1>. QED
  BY <1>1, <1>3, <1>4 DEF OnAttach, PlainReqs, AttachReq, AttachedSurfaces, Tables

LEMMA FullDamage == \A d \in DamageRegion : Rects(d) \subseteq Regions
<1>. SUFFICES ASSUME NEW d \in DamageRegion, d # Full PROVE Range(d) \subseteq Regions
  BY DEF Rects
<1>1. PICK n \in 0 .. MaxRects : d \in [1 .. n -> Regions]
  BY DEF DamageRegion
<1>. QED
  BY <1>1 DEF Range

LEMMA CommitRetires ==
  ASSUME Tables, NEW s \in Surfaces, OnCommit(s)
  PROVE  /\ CommittedSurfaces(s) \in SurfaceTable /\ CommittedEntries(s) \in Entries
         /\ CopyDone(Attached(surfaces[s])) \in Entries
         /\ <<CommitReq(s)>> \in PlainReqs
         /\ RetireEligible(CommittedEntries(s), CommittedSurfaces(s), <<CommitReq(s)>>)
         /\ surfaces[s] \in SurfaceState /\ ~fatal
         /\ surfaces[s].attachment # "Unchanged" =>
              /\ CanFinalize(buffers, surfaces[s].current, Attached(surfaces[s]))
              /\ CanFinalize(CopyDone(Attached(surfaces[s])), surfaces[s].current,
                             Attached(surfaces[s]))
<1>. DEFINE t == surfaces[s]
            b == Attached(t)
<1>1. t \in SurfaceState /\ ~fatal
  BY DEF Tables, SurfaceTable, OnCommit, GuestCommits, Live
<1>2. PrepareCommit(t) \in SurfaceState /\ b \in Buffers \cup {None}
  BY <1>1, SurfaceTypes
<1>3. CommittedSurfaces(s) \in SurfaceTable
  BY <1>2 DEF Tables, SurfaceTable, CommittedSurfaces
<1>4. t.attachment # "Unchanged" => CanFinalize(buffers, t.current, b)
  BY DEF OnCommit
<1>5. b \in LocalBuffers => t.attachment # "Unchanged" /\ b \in Buffers /\ b # None
  BY BuffersAssumption DEF Attached, Buffers
<1>6. b \in LocalBuffers => Active(buffers, b)
  BY <1>4, <1>5 DEF CanFinalize
<1>7. CopyDone(b) \in Entries
  BY <1>5, <1>6, EntryUpdates DEF CopyDone, Tables
<1>8. \A x \in Buffers : Active(buffers, x) =>
        Active(CopyDone(b), x) /\ CopyDone(b)[x].use = buffers[x].use
  <2>. SUFFICES ASSUME NEW x \in Buffers, Active(buffers, x)
                PROVE  Active(CopyDone(b), x) /\ CopyDone(b)[x].use = buffers[x].use
    OBVIOUS
  <2>1. buffers[x] \in LiveEntry
    BY ActiveEntry DEF Tables
  <2>2. CopyDone(b)[x] \in LiveEntry /\ CopyDone(b)[x].use = buffers[x].use
    BY <2>1 DEF CopyDone, LiveEntry, Tables, Entries
  <2>. QED
    BY <2>2, <1>7, LiveIsActive
<1>9. t.attachment # "Unchanged" => CanFinalize(CopyDone(b), t.current, b)
  <2>1. t.current \in Buffers \cup {None}
    BY <1>1 DEF SurfaceState
  <2>. QED
    BY <1>2, <1>4, <1>8, <2>1 DEF CanFinalize
<1>10. CommittedEntries(s) \in Entries
  <2>1. t.current \in Buffers \cup {None}
    BY <1>1 DEF SurfaceState
  <2>. QED
    BY <1>2, <1>7, <1>9, <2>1, FinalizeType DEF CommittedEntries
<1>11. <<CommitReq(s)>> \in PlainReqs
  <2>1. HostDamage(t) \in SUBSET Regions
    <3>1. t.surface_damage \in DamageRegion /\ t.buffer_damage \in DamageRegion
      BY <1>1 DEF SurfaceState
    <3>. QED
      BY <3>1, FullDamage DEF HostDamage
  <2>2. CommitReq(s) \in Request /\ CommitReq(s).op = "commit"
    BY <2>1 DEF CommitReq, Request
  <2>. QED
    BY <2>2 DEF PlainReqs
<1>12. RetireEligible(CommittedEntries(s), CommittedSurfaces(s), <<CommitReq(s)>>)
  BY DEF OnCommit, CommittedEntries, CommittedSurfaces, CommitReq, CopyDone
<1>. QED
  BY <1>1, <1>3, <1>4, <1>7, <1>9, <1>10, <1>11, <1>12

LEMMA FailedCommitRetires ==
  ASSUME Tables, NEW s \in Surfaces, CommitCopyFails(s) \/ CommitFatal(s)
  PROVE  \E e \in Entries :
           /\ RetireEligible(e, surfaces, <<>>)
           /\ \A x \in Buffers : /\ Active(e, x) <=> Active(buffers, x)
                                 /\ e[x] = None <=> buffers[x] = None
                                 /\ e[x] # None => e[x].state = buffers[x].state
                                 /\ Active(e, x) => e[x].use = buffers[x].use
           /\ surfaces[s] \in SurfaceState /\ ~fatal
<1>1. surfaces[s] \in SurfaceState /\ ~fatal
  BY DEF Tables, SurfaceTable, CommitCopyFails, CommitFatal, GuestCommits, Live
<1>2. [surfaces EXCEPT ![s] = Rollback(@)] = surfaces
  BY DEF Rollback, Tables, SurfaceTable
<1>3. CASE CommitFatal(s)
  BY <1>1, <1>2, <1>3 DEF CommitFatal, CommitFails, Tables
<1>4. CASE CommitCopyFails(s)
  <2>. DEFINE b == Attached(surfaces[s])
  <2>1. b \in Buffers /\ Active(buffers, b)
    BY <1>4 DEF CommitCopyFails, Buffers
  <2>2. CopyMarked(b) \in Entries /\ RetireEligible(CopyMarked(b), surfaces, <<>>)
    BY <1>2, <1>4, <2>1, EntryUpdates DEF CommitCopyFails, CommitFails, CopyMarked, Tables
  <2>3. ASSUME NEW x \in Buffers, x # b PROVE CopyMarked(b)[x] = buffers[x]
    BY <2>3 DEF CopyMarked, Tables, Entries
  <2>4. /\ buffers[b] \in LiveEntry /\ CopyMarked(b)[b] \in LiveEntry
        /\ CopyMarked(b)[b].use = buffers[b].use
        /\ CopyMarked(b)[b].state = buffers[b].state
    <3>1. buffers[b] \in LiveEntry
      BY <2>1, ActiveEntry DEF Tables
    <3>. QED
      BY <3>1, <2>1 DEF CopyMarked, LiveEntry, Tables, Entries
  <2>5. /\ Active(CopyMarked(b), b) /\ CopyMarked(b)[b] # None /\ buffers[b] # None
    BY <2>1, <2>2, <2>4, LiveIsActive DEF Active
  <2>. QED
    <3>. HIDE DEF b
    <3>1. ASSUME NEW x \in Buffers
          PROVE  /\ Active(CopyMarked(b), x) <=> Active(buffers, x)
                 /\ CopyMarked(b)[x] = None <=> buffers[x] = None
                 /\ CopyMarked(b)[x] # None => CopyMarked(b)[x].state = buffers[x].state
                 /\ Active(CopyMarked(b), x) => CopyMarked(b)[x].use = buffers[x].use
      <4>1. CASE x = b
        BY <4>1, <2>1, <2>4, <2>5
      <4>2. CASE x # b
        BY <4>2, <2>3 DEF Active
      <4>. QED
        BY <4>1, <4>2
    <3>. QED
      BY <1>1, <2>2, <3>1
<1>. QED
  BY <1>3, <1>4

LEMMA DestroySurfaceRetires ==
  ASSUME Tables, NEW s \in Surfaces, DestroySurface(s)
  PROVE  /\ RemainingSurfaces(s) \in SurfaceTable /\ EntriesWithout(s) \in Entries
         /\ <<SurfaceDestroyReq(s)>> \in PlainReqs
         /\ RetireEligible(EntriesWithout(s), RemainingSurfaces(s), <<SurfaceDestroyReq(s)>>)
         /\ surfaces[s] \in SurfaceState /\ ~fatal
<1>1. surfaces[s] \in SurfaceState /\ ~fatal
  BY DEF Tables, SurfaceTable, DestroySurface, Live
<1>2. RemainingSurfaces(s) \in SurfaceTable
  BY DEF Tables, SurfaceTable, RemainingSurfaces
<1>3. surfaces[s].current \in Buffers \cup {None}
  BY <1>1 DEF SurfaceState
<1>4. EntriesWithout(s) \in Entries
  <2>. DEFINE other == surfaces[s].current \in Current(RemainingSurfaces(s))
  <2>1. other \in BOOLEAN
    OBVIOUS
  <2>. HIDE DEF other
  <2>2. ASSUME surfaces[s].current # None, Active(buffers, surfaces[s].current)
        PROVE  EndLastSurfaceUse(buffers, surfaces[s].current, other) \in Entries
    BY <1>3, <2>1, <2>2, EntryUpdates DEF Tables
  <2>. QED
    BY <2>2 DEF EntriesWithout, Tables, other
<1>5. SurfaceDestroyReq(s) \in Request /\ SurfaceDestroyReq(s).op = "surface_destroy"
  BY DEF SurfaceDestroyReq, Request
<1>6. <<SurfaceDestroyReq(s)>> \in PlainReqs
  BY <1>5 DEF PlainReqs
<1>7. RetireEligible(EntriesWithout(s), RemainingSurfaces(s), <<SurfaceDestroyReq(s)>>)
  BY DEF DestroySurface, EntriesWithout, RemainingSurfaces, SurfaceDestroyReq
<1>. QED
  BY <1>1, <1>2, <1>4, <1>6, <1>7

-----------------------------------------------------------------------------
(* No stranded buffer                                                      *)

\* The other handlers, by what they do to the tables
LEMMA OtherTables ==
  ASSUME Tables
  PROVE  /\ \A b \in Buffers : GuestHas(b) => buffers[b] \in LiveEntry /\ Active(buffers, b)
         /\ \A b \in Buffers, t \in SurfaceTable : ClearReferences(t, b) \in SurfaceTable
<1>1. ASSUME NEW b \in Buffers, GuestHas(b) PROVE buffers[b] \in LiveEntry /\ Active(buffers, b)
  <2>1. Active(buffers, b)
    BY <1>1 DEF GuestHas, Active
  <2>. QED
    BY <2>1, ActiveEntry DEF Tables
<1>2. ASSUME NEW b \in Buffers, NEW t \in SurfaceTable
      PROVE  ClearReferences(t, b) \in SurfaceTable
  BY SurfaceTypes DEF SurfaceTable, ClearReferences
<1>. QED
  BY <1>1, <1>2

\* The three handlers that change only what the next commit applies
Adjust(s) == \/ \E r \in Regions : OnDamage(s, r) \/ OnDamageBuffer(s, r)
             \/ \E m \in Mapping : OnSetBufferScale(s, m) \/ OnViewport(s, m)

LEMMA AdjustShape ==
  ASSUME Tables, NEW s \in Surfaces, Adjust(s)
  PROVE  \E x \in SurfaceState :
           /\ surfaces[s] \in SurfaceState
           /\ surfaces' = [surfaces EXCEPT ![s] = x]
           /\ x.current = surfaces[s].current /\ x.attachment = surfaces[s].attachment
           /\ UNCHANGED <<buffers, fatal, storage, pixels, frame, shown, busy, reused, uses,
                          toHost, toProxy, host>>
           /\ work' \in {work, work + 1} /\ (work' # work => work < MaxWork)
           /\ owed' = owed \/ \E r \in Regions : owed' = [owed EXCEPT ![s] = @ \cup {r}]
<1>1. surfaces[s] \in SurfaceState
  BY DEF Adjust, OnDamage, OnDamageBuffer, OnSetBufferScale, OnViewport, SetMapping, Live,
         Tables, SurfaceTable
<1>2. ASSUME NEW r \in Regions, OnDamage(s, r)
      PROVE  surfaces' = [surfaces EXCEPT ![s] = [surfaces[s] EXCEPT !.surface_damage = Push(@, r)]]
  BY <1>2 DEF OnDamage, Tables, SurfaceTable
<1>3. ASSUME NEW r \in Regions, OnDamageBuffer(s, r)
      PROVE  surfaces' = [surfaces EXCEPT ![s] = [surfaces[s] EXCEPT !.buffer_damage = Push(@, r)]]
  BY <1>3 DEF OnDamageBuffer, Tables, SurfaceTable
<1>4. ASSUME NEW m \in Mapping, OnSetBufferScale(s, m) \/ OnViewport(s, m)
      PROVE  surfaces' = [surfaces EXCEPT ![s] = [surfaces[s] EXCEPT !.pending_mapping = m]]
  BY <1>4 DEF OnSetBufferScale, OnViewport, SetMapping, Tables, SurfaceTable
<1>5. CASE \E r \in Regions : OnDamage(s, r)
  <2>1. PICK r \in Regions : OnDamage(s, r)
    BY <1>5
  <2>. DEFINE x == [surfaces[s] EXCEPT !.surface_damage = Push(@, r)]
  <2>2. x \in SurfaceState
    BY <1>1, SurfaceTypes
  <2>3. x.current = surfaces[s].current /\ x.attachment = surfaces[s].attachment
    BY <1>1 DEF SurfaceState
  <2>4. surfaces' = [surfaces EXCEPT ![s] = x]
    BY <1>2, <2>1
  <2>5. UNCHANGED <<buffers, fatal, work, storage, pixels, frame, shown, busy, reused, uses,
                    toHost, toProxy, host>> /\ owed' = [owed EXCEPT ![s] = @ \cup {r}]
    BY <2>1 DEF OnDamage
  <2>. HIDE DEF x
  <2>. QED
    BY <1>1, <2>2, <2>3, <2>4, <2>5
<1>6. CASE \E r \in Regions : OnDamageBuffer(s, r)
  <2>1. PICK r \in Regions : OnDamageBuffer(s, r)
    BY <1>6
  <2>. DEFINE x == [surfaces[s] EXCEPT !.buffer_damage = Push(@, r)]
  <2>2. x \in SurfaceState
    BY <1>1, SurfaceTypes
  <2>3. x.current = surfaces[s].current /\ x.attachment = surfaces[s].attachment
    BY <1>1 DEF SurfaceState
  <2>4. surfaces' = [surfaces EXCEPT ![s] = x]
    BY <1>3, <2>1
  <2>5. UNCHANGED <<buffers, fatal, work, storage, pixels, frame, shown, busy, reused, uses,
                    toHost, toProxy, host>> /\ owed' = [owed EXCEPT ![s] = @ \cup {r}]
    BY <2>1 DEF OnDamageBuffer
  <2>. HIDE DEF x
  <2>. QED
    BY <1>1, <2>2, <2>3, <2>4, <2>5
<1>7. CASE \E m \in Mapping : OnSetBufferScale(s, m) \/ OnViewport(s, m)
  <2>1. PICK m \in Mapping : OnSetBufferScale(s, m) \/ OnViewport(s, m)
    BY <1>7
  <2>. DEFINE x == [surfaces[s] EXCEPT !.pending_mapping = m]
  <2>2. x \in SurfaceState
    BY <1>1, SurfaceTypes
  <2>3. x.current = surfaces[s].current /\ x.attachment = surfaces[s].attachment
    BY <1>1 DEF SurfaceState
  <2>4. surfaces' = [surfaces EXCEPT ![s] = x]
    BY <1>4, <2>1
  <2>5. /\ UNCHANGED <<buffers, fatal, storage, pixels, frame, shown, owed, busy, reused, uses,
                       toHost, toProxy, host>>
        /\ work < MaxWork /\ work' = work + 1
    BY <2>1 DEF OnSetBufferScale, OnViewport, SetMapping, Works, guest
  <2>. HIDE DEF x
  <2>. QED
    BY <1>1, <2>2, <2>3, <2>4, <2>5
<1>. QED
  BY <1>5, <1>6, <1>7 DEF Adjust

\* Next, grouped by what a step does to the tables
LEMMA StepKinds ==
  ASSUME [Next]_vars
  PROVE  \/ \E b \in Buffers : CreateBuffer(b)
         \/ \E b \in LocalBuffers, R \in (SUBSET Regions) \ {{}} : Draw(b, R)
         \/ \E s \in Surfaces, b \in Buffers \cup {"Detach"} : OnAttach(s, b)
         \/ \E s \in Surfaces : Adjust(s)
         \/ \E s \in Surfaces : OnCommit(s)
         \/ \E s \in Surfaces : CommitCopyFails(s) \/ CommitFatal(s)
         \/ \E s \in Surfaces : DestroySurface(s)
         \/ \E b \in Buffers : DestroyBuffer(b)
         \/ OnRelease
         \/ OnDeleteId
         \/ HostReceive
         \/ \E b \in Buffers : HostRelease(b)
         \/ UNCHANGED vars
BY DEF Next, Adjust

-----------------------------------------------------------------------------
(* Type correctness                                                        *)

HostSurface == [current : Buffers \cup {None}, pending : Attachment]
HostTable == [Surfaces -> HostSurface \cup {None}]
UseTable == [Buffers -> SUBSET (Surfaces \X {"current", "detached"})]

\* The parts of the type invariant the proofs rest on, and the rest of it
Queues == toHost \in Seq(Request) /\ toProxy \in Seq(Event)
HostTypes == /\ hostBuffers \in SUBSET Buffers
             /\ hostUses \in SUBSET (Surfaces \X Buffers)
CoreTypes == /\ Tables /\ Queues /\ HostTypes
             /\ fatal \in BOOLEAN /\ reused \in BOOLEAN
             /\ busy \in SUBSET Buffers /\ uses \in UseTable
PixelTypes ==
  /\ work \in 0 .. MaxWork
  /\ pixels \in [LocalBuffers -> Frames] /\ frame \in Frames
  /\ shown \in [Surfaces -> Frames]
  /\ storage \in [LocalBuffers -> [Regions -> 0 .. MaxFrames \cup {None}]]
  /\ owed \in [Surfaces -> SUBSET Regions]

LEMMA TypeParts == TypeOK <=> CoreTypes /\ PixelTypes /\ hostSurfaces \in HostTable
BY DEF TypeOK, CoreTypes, PixelTypes, Tables, Queues, HostTypes, SurfaceTable, Entries, Entry,
       HostTable, HostSurface, UseTable

LEMMA RequestsJoin ==
  ASSUME NEW q \in Seq(Request), NEW r \in Seq(Request)
  PROVE  q \o r \in Seq(Request)
BY ConcatProperties

LEMMA EventsJoin ==
  ASSUME NEW q \in Seq(Event), NEW r \in Seq(Event)
  PROVE  q \o r \in Seq(Event)
BY ConcatProperties

LEMMA PlainReqsType == PlainReqs \subseteq Seq(Request)
<1>1. \A r \in Request : <<r>> \in Seq(Request)
  OBVIOUS
<1>2. <<>> \in Seq(Request)
  OBVIOUS
<1>. QED
  BY <1>1, <1>2, Zenon DEF PlainReqs

LEMMA RetireTypes ==
  ASSUME Queues, NEW e \in Entries, NEW t \in SurfaceTable, NEW reqs \in PlainReqs,
         RetireEligible(e, t, reqs)
  PROVE  Tables' /\ toHost' \in Seq(Request)
<1>1. DestroyAll(Candidates(e, t)) \in Seq(Request)
  BY Destructors DEF Candidates
<1>2. reqs \o DestroyAll(Candidates(e, t)) \in Seq(Request)
  BY <1>1, PlainReqsType, RequestsJoin
<1>3. toHost \o (reqs \o DestroyAll(Candidates(e, t))) \in Seq(Request)
  BY <1>2, RequestsJoin DEF Queues
<1>4. Retired(e, t) \in Entries
  BY RetiredType
<1>. QED
  BY <1>3, <1>4, RetireShape DEF Tables

\* The destructor of one buffer, as DestroyBuffer and OnRelease send it
LEMMA SendDestroyType ==
  ASSUME Queues, NEW b \in Buffers, Send(<<DestroyReq(b)>>)
  PROVE  toHost' = toHost \o <<DestroyReq(b)>> /\ toHost' \in Seq(Request)
<1>1. <<DestroyReq(b)>> \in Seq(Request)
  <2>1. DestroyReq(b) \in Request
    BY DEF DestroyReq, Request
  <2>. QED
    BY <2>1
<1>. QED
  BY <1>1, RequestsJoin DEF Send, Queues

LEMMA NextEvent ==
  ASSUME Queues, NEW op, Take(op)
  PROVE  /\ Head(toProxy) \in Event /\ Head(toProxy).buffer \in Buffers
         /\ toProxy' \in Seq(Event) /\ ~fatal
<1>1. Head(toProxy) \in Event /\ Tail(toProxy) \in Seq(Event)
  BY HeadTailProperties DEF Queues, Take
<1>. QED
  BY <1>1 DEF Take, Event

LEMMA EventType == \A op \in {"release", "delete_id"}, b \in Buffers : EventOf(op, b) \in Event
BY DEF EventOf, Event

LEMMA EmitType ==
  ASSUME Queues, NEW op \in {"release", "delete_id"}, NEW b \in Buffers,
         Emit(<<EventOf(op, b)>>)
  PROVE  toProxy' = toProxy \o <<EventOf(op, b)>> /\ toProxy' \in Seq(Event)
<1>1. <<EventOf(op, b)>> \in Seq(Event)
  BY EventType
<1>. QED
  BY <1>1, EventsJoin DEF Emit, Queues

\* What HostReceive makes of the host's surfaces and uses
Sees(h, r) ==
  CASE r.op = "attach" -> [h EXCEPT ![r.surface].pending = r.buffer]
    [] r.op = "commit" ->
         [h EXCEPT ![r.surface] =
            [current |-> IF h[r.surface].pending = "Unchanged" THEN h[r.surface].current
                         ELSE IF h[r.surface].pending = "Detach" THEN None
                         ELSE h[r.surface].pending,
             pending |-> "Unchanged"]]
    [] r.op = "surface_destroy" -> [h EXCEPT ![r.surface] = None]
    [] r.op = "destroy" -> h

UsesThen(h, u, r) ==
  CASE r.op = "attach" -> u
    [] r.op = "commit" -> IF h[r.surface].pending \in Buffers
                          THEN u \cup {<<r.surface, h[r.surface].pending>>} ELSE u
    [] r.op = "surface_destroy" -> u \ {<<r.surface, h[r.surface].current>>}
    [] r.op = "destroy" -> {v \in u : v[2] # r.buffer}

LEMMA RequestCases ==
  ASSUME NEW r \in Request
  PROVE  /\ r.op \in {"attach", "commit", "surface_destroy", "destroy"}
         /\ r.op = "destroy" => r = DestroyReq(r.buffer) /\ r.buffer \in Buffers
         /\ r.op # "destroy" => r.surface \in Surfaces
         /\ r.op = "attach" => r.buffer \in Buffers \cup {"Detach"}
BY DEF Request, DestroyReq

\* HostReceive in these terms
LEMMA ReceiveShape ==
  ASSUME HostReceive, Queues, HostTypes
  PROVE  /\ ~fatal /\ toHost # <<>> /\ toHost' = Tail(toHost) /\ Head(toHost) \in Request
         /\ hostSurfaces' = Sees(hostSurfaces, Head(toHost))
         /\ hostUses' = UsesThen(hostSurfaces, hostUses, Head(toHost))
         /\ hostBuffers' = IF Head(toHost).op = "destroy"
                           THEN hostBuffers \ {Head(toHost).buffer} ELSE hostBuffers
         /\ UNCHANGED <<proxy, guest, uses>>
         /\ \/ UNCHANGED toProxy
            \/ /\ Head(toHost).op = "destroy" /\ Head(toHost).buffer \notin ServerBuffers
               /\ toProxy' = toProxy \o <<EventOf("delete_id", Head(toHost).buffer)>>
            \/ \E b \in Buffers :
                 /\ Head(toHost).op = "surface_destroy"
                 /\ b = hostSurfaces[Head(toHost).surface].current
                 /\ <<Head(toHost).surface, b>> \in hostUses
                 /\ \A v \in hostUses' : v[2] # b
                 /\ toProxy' = toProxy \o <<EventOf("release", b)>>
<1>. DEFINE r == Head(toHost)
<1>1. ~fatal /\ toHost # <<>> /\ toHost' = Tail(toHost) /\ r \in Request
  <2>1. ~fatal /\ toHost # <<>> /\ toHost' = Tail(toHost)
    BY DEF HostReceive
  <2>. QED
    BY <2>1, HeadTailProperties DEF Queues
<1>2. UNCHANGED <<proxy, guest, uses>>
  BY DEF HostReceive, HostKeeps
<1>3. CASE r.op = "attach"
  BY <1>1, <1>2, <1>3 DEF HostReceive, Sees, UsesThen
<1>4. CASE r.op = "commit"
  BY <1>1, <1>2, <1>4 DEF HostReceive, Sees, UsesThen
<1>5. CASE r.op = "destroy"
  BY <1>1, <1>2, <1>5 DEF HostReceive, Sees, UsesThen, Emit
<1>6. CASE r.op = "surface_destroy"
  <2>. DEFINE b == hostSurfaces[r.surface].current
  <2>1. /\ hostSurfaces' = [hostSurfaces EXCEPT ![r.surface] = None]
        /\ hostUses' = hostUses \ {<<r.surface, b>>}
        /\ hostBuffers' = hostBuffers
        /\ \/ UNCHANGED toProxy
           \/ /\ <<r.surface, b>> \in hostUses /\ ~\E v \in hostUses' : v[2] = b
              /\ toProxy' = toProxy \o <<EventOf("release", b)>>
    BY <1>6 DEF HostReceive, Emit
  <2>2. <<r.surface, b>> \in hostUses => b \in Buffers
    BY DEF HostTypes
  <2>3. hostSurfaces' = Sees(hostSurfaces, r) /\ hostUses' = UsesThen(hostSurfaces, hostUses, r)
    BY <1>6, <2>1 DEF Sees, UsesThen
  <2>. HIDE DEF b
  <2>4. \/ UNCHANGED toProxy
        \/ \E x \in Buffers :
                 /\ x = b
                 /\ <<r.surface, x>> \in hostUses
                 /\ \A v \in hostUses' : v[2] # x
                 /\ toProxy' = toProxy \o <<EventOf("release", x)>>
    BY <2>1, <2>2
  <2>. QED
    BY <1>1, <1>2, <1>6, <2>1, <2>3, <2>4 DEF b
<1>. QED
  BY <1>1, <1>3, <1>4, <1>5, <1>6, RequestCases

LEMMA SeesType ==
  ASSUME NEW h \in HostTable, NEW r \in Request, r.op # "destroy" => h[r.surface] # None
  PROVE  Sees(h, r) \in HostTable
<1>1. CASE r.op = "destroy"
  BY <1>1 DEF Sees
<1>2. CASE r.op = "surface_destroy"
  BY <1>2 DEF Sees, HostTable
<1>3. CASE r.op \in {"attach", "commit"}
  <2>1. r.surface \in Surfaces /\ h[r.surface] \in HostSurface
    BY <1>3, RequestCases DEF HostTable
  <2>2. CASE r.op = "attach"
    <3>1. r.buffer \in Attachment
      BY <2>2, RequestCases DEF Attachment
    <3>2. [h[r.surface] EXCEPT !.pending = r.buffer] \in HostSurface
      BY <2>1, <3>1 DEF HostSurface
    <3>. QED
      BY <2>2, <2>1, <3>2 DEF Sees, HostTable
  <2>3. CASE r.op = "commit"
    <3>. DEFINE p == h[r.surface].pending
                c == IF p = "Unchanged" THEN h[r.surface].current
                     ELSE IF p = "Detach" THEN None ELSE p
    <3>1. c \in Buffers \cup {None}
      BY <2>1 DEF HostSurface, Attachment
    <3>2. Sees(h, r) = [h EXCEPT ![r.surface] = [current |-> c, pending |-> "Unchanged"]]
      BY <2>3 DEF Sees
    <3>. HIDE DEF c
    <3>3. [current |-> c, pending |-> "Unchanged"] \in HostSurface
      BY <3>1 DEF HostSurface, Attachment
    <3>. QED
      BY <3>2, <3>3 DEF HostTable
  <2>. QED
    BY <1>3, <2>2, <2>3
<1>. QED
  BY <1>1, <1>2, <1>3, RequestCases

LEMMA UsesThenType ==
  ASSUME NEW h, NEW r \in Request, NEW u \in SUBSET (Surfaces \X Buffers)
  PROVE  UsesThen(h, u, r) \in SUBSET (Surfaces \X Buffers)
<1>1. CASE r.op = "commit"
  BY <1>1, RequestCases DEF UsesThen
<1>2. CASE r.op # "commit"
  BY <1>2, RequestCases DEF UsesThen
<1>. QED
  BY <1>1, <1>2

LEMMA CoreInit == Init => CoreTypes /\ PixelTypes /\ hostSurfaces \in HostTable
<1>. SUFFICES ASSUME Init PROVE CoreTypes /\ PixelTypes /\ hostSurfaces \in HostTable
  OBVIOUS
<1>1. DefaultSurface \in SurfaceState
  <2>1. 0 \in 0 .. MaxRects /\ <<>> \in [1 .. 0 -> Regions]
    BY BoundsAssumption
  <2>2. <<>> \in DamageRegion
    BY <2>1 DEF DamageRegion
  <2>. QED
    BY <2>2 DEF DefaultSurface, SurfaceState, Attachment, Mapping
<1>2. Tables
  BY <1>1 DEF Init, Tables, SurfaceTable, Entries, Entry
<1>3. Queues
  BY DEF Init, Queues
<1>4. hostSurfaces \in HostTable
  BY DEF Init, HostTable, HostSurface, Attachment
<1>5. HostTypes /\ fatal \in BOOLEAN /\ reused \in BOOLEAN /\ busy \in SUBSET Buffers
        /\ uses \in UseTable
  BY DEF Init, HostTypes, UseTable
<1>6. PixelTypes
  BY BoundsAssumption DEF Init, PixelTypes, Frames
<1>. QED
  BY <1>2, <1>3, <1>4, <1>5, <1>6 DEF CoreTypes

LEMMA CoreNext ==
  ASSUME CoreTypes, [Next]_vars
  PROVE  CoreTypes'
<1>. USE DEF CoreTypes
<1>1. ASSUME NEW b \in Buffers, CreateBuffer(b) PROVE CoreTypes'
  <2>1. buffers' \in Entries
    BY <1>1, EntryUpdates DEF CreateBuffer, Tables
  <2>. QED
    BY <1>1, <2>1 DEF CreateBuffer, Tables, Queues, HostTypes
<1>2. ASSUME NEW b, NEW R, Draw(b, R) PROVE CoreTypes'
  BY <1>2 DEF Draw, Tables, Queues, HostTypes, host
<1>3. ASSUME NEW s \in Surfaces, NEW b \in Buffers \cup {"Detach"}, OnAttach(s, b)
      PROVE  CoreTypes'
  <2>1. Tables' /\ toHost' \in Seq(Request)
    BY <1>3, AttachRetires, RetireTypes
  <2>. QED
    BY <1>3, <2>1 DEF OnAttach, Queues, HostTypes, host, guest
<1>4. ASSUME NEW s \in Surfaces, Adjust(s) PROVE CoreTypes'
  <2>1. PICK x \in SurfaceState :
           /\ surfaces' = [surfaces EXCEPT ![s] = x]
           /\ UNCHANGED <<buffers, fatal, busy, reused, uses, toHost, toProxy, host>>
    BY <1>4, AdjustShape
  <2>. QED
    BY <2>1 DEF Tables, Queues, HostTypes, host, SurfaceTable
<1>5. ASSUME NEW s \in Surfaces, OnCommit(s) PROVE CoreTypes'
  <2>1. Tables' /\ toHost' \in Seq(Request)
    BY <1>5, CommitRetires, RetireTypes
  <2>2. surfaces[s] \in SurfaceState /\ Attached(surfaces[s]) \in Buffers \cup {None}
    BY <1>5, CommitRetires, SurfaceTypes
  <2>3. busy' \in SUBSET Buffers /\ reused' \in BOOLEAN
    BY <1>5, <2>2 DEF OnCommit, GuestCommits
  <2>4. uses' \in UseTable
    <3>1. \A p, n : UsesAfter(s, p, n) \in UseTable
      BY DEF UsesAfter, UseTable
    <3>2. uses' = uses \/ \E p, n : uses' = UsesAfter(s, p, n)
      BY <1>5 DEF OnCommit
    <3>. QED
      BY <3>1, <3>2
  <2>. QED
    BY <1>5, <2>1, <2>3, <2>4 DEF OnCommit, Queues, HostTypes, host
<1>6. ASSUME NEW s \in Surfaces, CommitCopyFails(s) \/ CommitFatal(s) PROVE CoreTypes'
  <2>1. Tables' /\ toHost' \in Seq(Request)
    <3>1. PICK e \in Entries : RetireEligible(e, surfaces, <<>>)
      BY <1>6, FailedCommitRetires
    <3>2. <<>> \in PlainReqs
      BY DEF PlainReqs
    <3>. QED
      BY <3>1, <3>2, RetireTypes DEF Tables
  <2>2. surfaces[s] \in SurfaceState /\ Attached(surfaces[s]) \in Buffers \cup {None}
    BY <1>6, FailedCommitRetires, SurfaceTypes
  <2>3. busy' \in SUBSET Buffers /\ reused' \in BOOLEAN
    BY <1>6, <2>2 DEF CommitCopyFails, CommitFatal, GuestCommits
  <2>. QED
    BY <1>6, <2>1, <2>3 DEF CommitCopyFails, CommitFatal, CommitFails, Queues, HostTypes, host
<1>7. ASSUME NEW s \in Surfaces, DestroySurface(s) PROVE CoreTypes'
  <2>1. Tables' /\ toHost' \in Seq(Request)
    BY <1>7, DestroySurfaceRetires, RetireTypes
  <2>2. fatal' \in BOOLEAN /\ uses' \in UseTable
    BY <1>7 DEF DestroySurface, UseTable
  <2>. QED
    BY <1>7, <2>1, <2>2 DEF DestroySurface, Queues, HostTypes, host
<1>8. ASSUME NEW b \in Buffers, DestroyBuffer(b) PROVE CoreTypes'
  <2>1. Tables'
    BY <1>8, OtherTables, EntryUpdates DEF DestroyBuffer, Tables
  <2>2. toHost' \in Seq(Request)
    BY <1>8, SendDestroyType DEF DestroyBuffer, Queues
  <2>. QED
    BY <1>8, <2>1, <2>2 DEF DestroyBuffer, Queues, HostTypes, host, guest
<1>9. ASSUME OnRelease PROVE CoreTypes'
  <2>. DEFINE b == Head(toProxy).buffer
              e == [buffers EXCEPT ![b].use = ReleaseUse(@)]
  <2>1. b \in Buffers /\ toProxy' \in Seq(Event)
    BY <1>9, NextEvent DEF OnRelease
  <2>2. CASE ~Active(buffers, b)
    BY <1>9, <2>1, <2>2 DEF OnRelease, Tables, Queues, HostTypes, host
  <2>3. CASE Active(buffers, b)
    <3>1. e \in Entries /\ Complete(e, b) \in Entries
      BY <2>1, <2>3, EntryUpdates DEF Tables
    <3>2. /\ uses' = [uses EXCEPT ![b] = {}]
          /\ \/ buffers' = e /\ UNCHANGED <<surfaces, toHost>>
             \/ /\ buffers' = Complete(e, b) /\ surfaces' = ClearReferences(surfaces, b)
                /\ Send(<<DestroyReq(b)>>)
          /\ busy' \subseteq busy
          /\ UNCHANGED <<fatal, reused, host>>
      BY <1>9, <2>3 DEF OnRelease
    <3>. HIDE DEF b, e
    <3>3. Tables'
      BY <2>1, <3>1, <3>2, OtherTables DEF Tables
    <3>4. toHost' \in Seq(Request)
      BY <2>1, <3>2, SendDestroyType DEF Queues
    <3>5. uses' \in UseTable /\ busy' \in SUBSET Buffers
      BY <3>2 DEF UseTable
    <3>. QED
      BY <2>1, <3>2, <3>3, <3>4, <3>5 DEF Queues, HostTypes, host
  <2>. QED
    BY <2>2, <2>3
<1>10. ASSUME OnDeleteId PROVE CoreTypes'
  <2>1. Head(toProxy).buffer \in Buffers /\ toProxy' \in Seq(Event)
    BY <1>10, NextEvent DEF OnDeleteId
  <2>2. buffers' \in Entries
    BY <1>10, <2>1, EntryUpdates DEF OnDeleteId, Tables
  <2>. QED
    BY <1>10, <2>1, <2>2 DEF OnDeleteId, Tables, Queues, HostTypes, host, guest
<1>11. ASSUME HostReceive PROVE CoreTypes'
  <2>1. toHost' \in Seq(Request)
    BY <1>11, ReceiveShape, HeadTailProperties DEF Queues
  <2>2. toProxy' \in Seq(Event)
    <3>1. Head(toHost).op = "destroy" => Head(toHost).buffer \in Buffers
      BY <1>11, ReceiveShape, RequestCases
    <3>2. ASSUME NEW op \in {"release", "delete_id"}, NEW b \in Buffers,
                 toProxy' = toProxy \o <<EventOf(op, b)>>
          PROVE  toProxy' \in Seq(Event)
      <4>1. <<EventOf(op, b)>> \in Seq(Event)
        BY EventType
      <4>. QED
        BY <3>2, <4>1, EventsJoin DEF Queues
    <3>. QED
      BY <1>11, <3>1, <3>2, ReceiveShape DEF Queues
  <2>3. HostTypes'
    <3>1. hostUses' \in SUBSET (Surfaces \X Buffers)
      BY <1>11, ReceiveShape, UsesThenType DEF HostTypes
    <3>2. hostBuffers' \in SUBSET Buffers
      BY <1>11, ReceiveShape DEF HostTypes
    <3>. QED
      BY <3>1, <3>2 DEF HostTypes
  <2>4. UNCHANGED <<proxy, guest, uses>>
    BY <1>11, ReceiveShape
  <2>. QED
    BY <2>1, <2>2, <2>3, <2>4 DEF Tables, Queues, proxy, guest
<1>12. ASSUME NEW b \in Buffers, HostRelease(b) PROVE CoreTypes'
  <2>1. toProxy' \in Seq(Event)
    BY <1>12, EmitType DEF HostRelease
  <2>2. HostTypes'
    BY <1>12 DEF HostRelease, HostTypes
  <2>. QED
    BY <1>12, <2>1, <2>2 DEF HostRelease, HostKeeps, Tables, Queues, proxy, guest
<1>13. ASSUME UNCHANGED vars PROVE CoreTypes'
  BY <1>13 DEF vars, proxy, guest, host, Tables, Queues, HostTypes
<1>. QED
  <2>. HIDE DEF CoreTypes
  <2>. QED
    BY <1>1, <1>2, <1>3, <1>4, <1>5, <1>6, <1>7, <1>8, <1>9, <1>10, <1>11, <1>12, <1>13, StepKinds

\* A non-empty set of numbers below a bound has a greatest one.
LEMMA BoundedMax ==
  ASSUME NEW n \in Nat, NEW S, S \subseteq 0 .. n, S # {}
  PROVE  Max(S) \in S
<1>. DEFINE Below == {ss \in Nat \X Nat : ss[1] < ss[2]}
            T == {n - x : x \in S}
<1>1. IsWellFoundedOn(Below, Nat)
  BY NatLessThanWellFounded DEF OpToRel
<1>2. T \subseteq Nat /\ T # {}
  <2>1. \A x \in S : n - x \in Nat
    OBVIOUS
  <2>2. PICK x : x \in S
    OBVIOUS
  <2>3. n - x \in T
    BY <2>2
  <2>. QED
    BY <2>1, <2>3
<1>3. PICK y \in T : \A z \in T : ~(<<z, y>> \in Below)
  BY <1>1, <1>2, WFMin
<1>4. PICK x \in S : y = n - x
  OBVIOUS
<1>5. ASSUME NEW z \in S PROVE x >= z
  <2>1. n - z \in T /\ ~(<<n - z, y>> \in Below)
    BY <1>3
  <2>2. n - z \in Nat /\ n - x \in Nat
    OBVIOUS
  <2>. QED
    BY <1>4, <2>1, <2>2
<1>. QED
  BY <1>5 DEF Max

LEMMA PixelNext ==
  ASSUME CoreTypes, PixelTypes, [Next]_vars
  PROVE  PixelTypes'
<1>. USE DEF PixelTypes
<1>1. ASSUME NEW b \in Buffers, CreateBuffer(b) PROVE PixelTypes'
  BY <1>1 DEF CreateBuffer
<1>2. ASSUME NEW b \in LocalBuffers, NEW R \in (SUBSET Regions) \ {{}}, Draw(b, R)
      PROVE  PixelTypes'
  <2>. DEFINE f == 1 + Max({frame[r] : r \in Regions})
  <2>1. f =< MaxFrames /\ frame' = [r \in Regions |-> IF r \in R THEN f ELSE frame[r]]
    BY <1>2 DEF Draw
  <2>2. f \in 0 .. MaxFrames
    <3>1. Max({frame[r] : r \in Regions}) \in {frame[r] : r \in Regions}
      <4>. DEFINE S == {frame[r] : r \in Regions}
      <4>1. S \subseteq 0 .. MaxFrames /\ MaxFrames \in Nat
        BY BoundsAssumption DEF Frames
      <4>2. S # {}
        <5>1. PICK r : r \in R
          OBVIOUS
        <5>2. frame[r] \in S
          BY <5>1
        <5>. QED
          BY <5>2
      <4>. HIDE DEF S
      <4>3. Max(S) \in S
        BY <4>1, <4>2, BoundedMax
      <4>. QED
        BY <4>3 DEF S
    <3>. QED
      BY <2>1, <3>1, BoundsAssumption DEF Frames
  <2>. HIDE DEF f
  <2>3. frame' \in Frames
    BY <2>1, <2>2 DEF Frames
  <2>4. work' \in 0 .. MaxWork
    BY <1>2, BoundsAssumption DEF Draw, Works
  <2>. QED
    BY <1>2, <2>3, <2>4 DEF Draw
<1>3. ASSUME NEW s \in Surfaces, NEW b \in Buffers \cup {"Detach"}, OnAttach(s, b)
      PROVE  PixelTypes'
  BY <1>3, BoundsAssumption DEF OnAttach, Works, guest
<1>4. ASSUME NEW s \in Surfaces, Adjust(s) PROVE PixelTypes'
  <2>1. /\ UNCHANGED <<storage, pixels, frame, shown>>
        /\ work' \in {work, work + 1} /\ (work' # work => work < MaxWork)
        /\ owed' = owed \/ \E r \in Regions : owed' = [owed EXCEPT ![s] = @ \cup {r}]
    BY <1>4, AdjustShape DEF CoreTypes
  <2>. QED
    BY <2>1, BoundsAssumption
<1>5. ASSUME NEW s \in Surfaces, OnCommit(s) PROVE PixelTypes'
  <2>1. shown' \in [Surfaces -> Frames]
    BY <1>5 DEF OnCommit, GuestCommits
  <2>2. storage' \in [LocalBuffers -> [Regions -> 0 .. MaxFrames \cup {None}]]
    BY <1>5 DEF OnCommit, Frames
  <2>. QED
    BY <1>5, <2>1, <2>2 DEF OnCommit, GuestCommits
<1>6. ASSUME NEW s \in Surfaces, CommitCopyFails(s) \/ CommitFatal(s) PROVE PixelTypes'
  <2>1. shown' \in [Surfaces -> Frames]
    BY <1>6 DEF CommitCopyFails, CommitFatal, GuestCommits
  <2>2. work' \in 0 .. MaxWork
    BY <1>6, BoundsAssumption DEF CommitCopyFails, CommitFatal, Works
  <2>. QED
    BY <1>6, <2>1, <2>2 DEF CommitCopyFails, CommitFatal, CommitFails, GuestCommits
<1>7. ASSUME NEW s \in Surfaces, DestroySurface(s) PROVE PixelTypes'
  BY <1>7, BoundsAssumption DEF DestroySurface, Frames
<1>8. ASSUME NEW b \in Buffers, DestroyBuffer(b) PROVE PixelTypes'
  BY <1>8 DEF DestroyBuffer, guest
<1>9. ASSUME OnRelease PROVE PixelTypes'
  BY <1>9 DEF OnRelease
<1>10. ASSUME OnDeleteId PROVE PixelTypes'
  BY <1>10 DEF OnDeleteId, guest
<1>11. ASSUME HostReceive PROVE PixelTypes'
  BY <1>11 DEF HostReceive, HostKeeps, proxy, guest
<1>12. ASSUME NEW b \in Buffers, HostRelease(b) PROVE PixelTypes'
  BY <1>12 DEF HostRelease, HostKeeps, proxy, guest
<1>13. ASSUME UNCHANGED vars PROVE PixelTypes'
  BY <1>13 DEF vars, proxy, guest
<1>. QED
  <2>. HIDE DEF PixelTypes
  <2>. QED
    BY <1>1, <1>2, <1>3, <1>4, <1>5, <1>6, <1>7, <1>8, <1>9, <1>10, <1>11, <1>12, <1>13, StepKinds

-----------------------------------------------------------------------------
(* No destroyed buffer is forgotten                                        *)

LEMMA RetiredEntries ==
  ASSUME NEW e \in Entries, NEW t
  PROVE  \A b \in Buffers :
           /\ b \in Candidates(e, t) => /\ ~Active(Retired(e, t), b)
                                        /\ ~CanRetire(Retired(e, t), t, b)
           /\ b \notin Candidates(e, t) => Retired(e, t)[b] = e[b]
           /\ Active(Retired(e, t), b) <=> Active(e, b) /\ b \notin Candidates(e, t)
           /\ Submitted(e, b) => b \notin Candidates(e, t)
<1>. TAKE b \in Buffers
<1>1. CASE b \in Candidates(e, t)
  <2>1. Retired(e, t)[b] \in {None, [state |-> "HostDestroyQueued"]}
    BY <1>1 DEF Retired, Complete, MarkHostDestroyQueued, Entries
  <2>2. ~Active(Retired(e, t), b) /\ ~CanRetire(Retired(e, t), t, b)
    BY <2>1 DEF Active, CanRetire
  <2>. QED
    BY <1>1, <2>2 DEF Candidates, CanRetire
<1>2. CASE b \notin Candidates(e, t)
  BY <1>2 DEF Retired, Active
<1>. QED
  BY <1>1, <1>2

LEMMA RetireStrandsNone ==
  ASSUME NEW e \in Entries, NEW t, NEW reqs, RetireEligible(e, t, reqs)
  PROVE  NoStrandedBuffer'
<1>1. surfaces' = t /\ buffers' = Retired(e, t)
  BY RetireShape
<1>2. ASSUME NEW b \in Buffers PROVE ~CanRetire(Retired(e, t), t, b)
  <2>1. CASE b \in Candidates(e, t)
    BY <2>1, RetiredEntries
  <2>2. CASE b \notin Candidates(e, t)
    <3>1. Retired(e, t)[b] = e[b] /\ ~CanRetire(e, t, b)
      BY <2>2, RetiredEntries DEF Candidates
    <3>. QED
      BY <3>1 DEF CanRetire, Released, Submitted, Active
  <2>. QED
    BY <2>1, <2>2
<1>. QED
  BY <1>1, <1>2 DEF NoStrandedBuffer

\* Retirement looks at a buffer's own entry and at the references to it.
SameRefs(t, u, b) == /\ b \in Current(t) <=> b \in Current(u)
                     /\ b \in Pending(t) <=> b \in Pending(u)

LEMMA CanRetireLocal ==
  ASSUME NEW e, NEW f, NEW t, NEW u, NEW b, e[b] = f[b], SameRefs(t, u, b)
  PROVE  CanRetire(e, t, b) <=> CanRetire(f, u, b)
BY DEF SameRefs, CanRetire, Released, Submitted, Active

LEMMA ClearedRefs ==
  ASSUME NEW t \in SurfaceTable, NEW b \in Buffers, NEW x \in Buffers, x # b
  PROVE  SameRefs(t, ClearReferences(t, b), x)
<1>. DEFINE u == ClearReferences(t, b)
<1>1. ASSUME NEW s \in Surfaces
      PROVE  /\ u[s] = None <=> t[s] = None
             /\ t[s] # None => /\ u[s].current = x <=> t[s].current = x
                               /\ u[s].attachment = x <=> t[s].attachment = x
  <2>1. CASE t[s] = None
    BY <2>1 DEF ClearReferences
  <2>2. CASE t[s] # None
    <3>1. t[s] \in SurfaceState
      BY <2>2 DEF SurfaceTable
    <3>2. u[s] = [ClearCurrent(t[s], b) EXCEPT !.attachment = IF @ = b THEN "Detach" ELSE @]
      BY <2>2 DEF ClearReferences
    <3>3. u[s] \in SurfaceState
      BY <3>1, <3>2, SurfaceTypes
    <3>4. u[s] # None
      BY <3>3, TablesAssumption
    <3>5. /\ u[s].current = IF t[s].current = b THEN None ELSE t[s].current
          /\ u[s].attachment = IF t[s].attachment = b THEN "Detach" ELSE t[s].attachment
      BY <3>1, <3>2 DEF ClearCurrent, SurfaceState
    <3>. QED
      BY <2>2, <3>4, <3>5, BuffersAssumption
  <2>. QED
    BY <2>1, <2>2
<1>. HIDE DEF u
<1>2. SameRefs(t, u, x)
  BY <1>1 DEF SameRefs, Current, Pending
<1>. QED
  BY <1>2 DEF u

LEMMA StrandedNext ==
  ASSUME CoreTypes, NoStrandedBuffer, [Next]_vars
  PROVE  NoStrandedBuffer'
<1>. USE DEF CoreTypes
<1>1. ASSUME NEW b \in Buffers, CreateBuffer(b) PROVE NoStrandedBuffer'
  BY <1>1 DEF CreateBuffer, NewBuffer, NoStrandedBuffer, CanRetire, Released, Submitted, Active,
              Tables, Entries
<1>2. ASSUME UNCHANGED <<surfaces, buffers>> PROVE NoStrandedBuffer'
  BY <1>2 DEF NoStrandedBuffer, CanRetire, Released, Submitted, Active, Current, Pending
<1>3. ASSUME NEW s \in Surfaces, NEW b \in Buffers \cup {"Detach"}, OnAttach(s, b)
      PROVE  NoStrandedBuffer'
  BY <1>3, AttachRetires, RetireStrandsNone
<1>4. ASSUME NEW s \in Surfaces, Adjust(s) PROVE NoStrandedBuffer'
  <2>1. PICK x \in SurfaceState :
           /\ surfaces[s] \in SurfaceState
           /\ surfaces' = [surfaces EXCEPT ![s] = x]
           /\ x.current = surfaces[s].current /\ x.attachment = surfaces[s].attachment
           /\ UNCHANGED buffers
    BY <1>4, AdjustShape
  <2>2. \A y \in Surfaces :
          /\ surfaces'[y] = None <=> surfaces[y] = None
          /\ surfaces[y] # None => /\ surfaces'[y].current = surfaces[y].current
                                   /\ surfaces'[y].attachment = surfaces[y].attachment
    BY <2>1, TablesAssumption DEF Tables, SurfaceTable
  <2>3. Current(surfaces') = Current(surfaces) /\ Pending(surfaces') = Pending(surfaces)
    BY <2>2 DEF Current, Pending
  <2>. QED
    BY <2>1, <2>3 DEF NoStrandedBuffer, CanRetire, Released, Submitted, Active
<1>5. ASSUME NEW s \in Surfaces, OnCommit(s) PROVE NoStrandedBuffer'
  BY <1>5, CommitRetires, RetireStrandsNone
<1>6. ASSUME NEW s \in Surfaces, CommitCopyFails(s) \/ CommitFatal(s) PROVE NoStrandedBuffer'
  BY <1>6, FailedCommitRetires, RetireStrandsNone
<1>7. ASSUME NEW s \in Surfaces, DestroySurface(s) PROVE NoStrandedBuffer'
  BY <1>7, DestroySurfaceRetires, RetireStrandsNone
\* A handler that destroys one buffer clears the references to it alone.
<1>8. ASSUME NEW b \in Buffers, NEW e \in Entries,
             \A x \in Buffers : x # b => e[x] = buffers[x],
             surfaces' = ClearReferences(surfaces, b), buffers' = Complete(e, b)
      PROVE  NoStrandedBuffer'
  <2>1. buffers'[b] \in {None, [state |-> "HostDestroyQueued"]}
    BY <1>8 DEF Complete, MarkHostDestroyQueued, Entries
  <2>2. ~CanRetire(buffers', surfaces', b)
    BY <2>1 DEF CanRetire
  <2>3. ASSUME NEW x \in Buffers, x # b PROVE ~CanRetire(buffers', surfaces', x)
    <3>1. buffers'[x] = buffers[x]
      BY <1>8, <2>3 DEF Complete, MarkHostDestroyQueued, Entries
    <3>2. SameRefs(surfaces, surfaces', x)
      BY <1>8, <2>3, ClearedRefs DEF Tables
    <3>. QED
      BY <3>1, <3>2, CanRetireLocal DEF NoStrandedBuffer
  <2>. QED
    BY <2>2, <2>3 DEF NoStrandedBuffer
\* A handler that changes one entry must not leave that one ready.
<1>9. ASSUME NEW b \in Buffers, UNCHANGED surfaces,
             \A x \in Buffers : x # b => buffers'[x] = buffers[x],
             ~CanRetire(buffers', surfaces', b)
      PROVE  NoStrandedBuffer'
  <2>1. ASSUME NEW x \in Buffers, x # b PROVE ~CanRetire(buffers', surfaces', x)
    <3>1. SameRefs(surfaces, surfaces', x)
      BY <1>9 DEF SameRefs
    <3>. QED
      BY <1>9, <2>1, <3>1, CanRetireLocal DEF NoStrandedBuffer
  <2>. QED
    BY <1>9, <2>1 DEF NoStrandedBuffer
<1>10. ASSUME NEW b \in Buffers, DestroyBuffer(b) PROVE NoStrandedBuffer'
  <2>1. buffers[b] \in LiveEntry /\ Active(buffers, b)
    BY <1>10, OtherTables DEF DestroyBuffer
  <2>. DEFINE pending == b \in Pending(surfaces)
              referenced == Submitted(buffers, b) \/ b \in Current(surfaces) \/ pending
  <2>2. CASE referenced /\ (~Released(buffers, b) \/ pending)
    <3>1. buffers' = MarkGuestDestroyed(buffers, b) /\ UNCHANGED surfaces
      BY <1>10, <2>2 DEF DestroyBuffer
    <3>2. /\ buffers'[b].use = buffers[b].use
          /\ \A x \in Buffers : x # b => buffers'[x] = buffers[x]
      BY <2>1, <3>1 DEF MarkGuestDestroyed, Tables, Entries, LiveEntry
    <3>3. ~CanRetire(buffers', surfaces', b)
      <4>1. Submitted(buffers', b) <=> Submitted(buffers, b)
        BY <2>1, <3>1, <3>2, TablesAssumption
           DEF Submitted, Active, MarkGuestDestroyed, Tables, Entries, LiveEntry, RenderBuffer
      <4>2. Released(buffers', b) <=> Released(buffers, b)
        BY <2>1, <3>1, <3>2, TablesAssumption
           DEF Released, Active, MarkGuestDestroyed, Tables, Entries, LiveEntry, RenderBuffer
      <4>. QED
        BY <2>2, <3>1, <4>1, <4>2 DEF CanRetire
    <3>. QED
      BY <1>9, <3>1, <3>2, <3>3
  <2>3. CASE ~(referenced /\ (~Released(buffers, b) \/ pending))
    <3>1. buffers' = Complete(buffers, b) /\ surfaces' = ClearReferences(surfaces, b)
      BY <1>10, <2>3 DEF DestroyBuffer
    <3>. QED
      BY <1>8, <3>1 DEF Tables
  <2>. QED
    BY <2>2, <2>3
<1>11. ASSUME OnRelease PROVE NoStrandedBuffer'
  <2>. DEFINE b == Head(toProxy).buffer
              e == [buffers EXCEPT ![b].use = ReleaseUse(@)]
  <2>1. b \in Buffers
    BY <1>11, NextEvent DEF OnRelease
  <2>2. CASE ~Active(buffers, b)
    BY <1>2, <1>11, <2>2 DEF OnRelease
  <2>3. CASE Active(buffers, b)
    <3>1. e \in Entries /\ buffers[b] \in LiveEntry
      BY <2>1, <2>3, EntryUpdates, ActiveEntry DEF Tables
    <3>2. \A x \in Buffers : x # b => e[x] = buffers[x]
      BY DEF Tables, Entries
    <3>3. CASE buffers[b].state = "GuestAlive" \/ b \in Pending(surfaces)
      <4>1. buffers' = e /\ UNCHANGED surfaces
        BY <1>11, <2>3, <3>3 DEF OnRelease
      <4>2. e[b].state = buffers[b].state
        BY <2>1, <3>1 DEF Tables, Entries, LiveEntry
      <4>3. ~CanRetire(e, surfaces, b)
        BY <3>3, <4>2 DEF CanRetire
      <4>. HIDE DEF e, b
      <4>. QED
        BY <1>9, <2>1, <3>2, <4>1, <4>3
    <3>4. CASE ~(buffers[b].state = "GuestAlive" \/ b \in Pending(surfaces))
      <4>1. buffers' = Complete(e, b) /\ surfaces' = ClearReferences(surfaces, b)
        BY <1>11, <2>3, <3>4 DEF OnRelease
      <4>. HIDE DEF e, b
      <4>. QED
        BY <1>8, <2>1, <3>1, <3>2, <4>1
    <3>. QED
      BY <3>3, <3>4
  <2>. QED
    BY <2>2, <2>3
<1>12. ASSUME OnDeleteId PROVE NoStrandedBuffer'
  <2>. DEFINE b == Head(toProxy).buffer
  <2>1. b \in Buffers
    BY <1>12, NextEvent DEF OnDeleteId
  <2>2. buffers' = [buffers EXCEPT ![b] = None] /\ UNCHANGED surfaces
    BY <1>12 DEF OnDeleteId
  <2>. HIDE DEF b
  <2>3. buffers'[b] = None /\ \A x \in Buffers : x # b => buffers'[x] = buffers[x]
    BY <2>1, <2>2 DEF Tables, Entries
  <2>4. ~CanRetire(buffers', surfaces', b)
    BY <2>3 DEF CanRetire
  <2>. QED
    BY <1>9, <2>1, <2>2, <2>3, <2>4
<1>13. ASSUME NEW b, NEW R, Draw(b, R) PROVE NoStrandedBuffer'
  BY <1>2, <1>13 DEF Draw
<1>14. ASSUME HostReceive \/ (\E b \in Buffers : HostRelease(b)) \/ UNCHANGED vars
       PROVE  NoStrandedBuffer'
  <2>1. UNCHANGED <<surfaces, buffers>>
    BY <1>14 DEF HostReceive, HostRelease, HostKeeps, vars, proxy
  <2>. QED
    BY <1>2, <2>1
<1>. QED
  <2>. HIDE DEF CoreTypes
  <2>. QED
    BY <1>1, <1>3, <1>4, <1>5, <1>6, <1>7, <1>10, <1>11, <1>12, <1>13, <1>14, StepKinds

\* No destroyed buffer is forgotten: in no state is there a buffer the guest has
\* destroyed that nothing needs any more (retire_eligible_buffers runs at the
\* end of every handler that can end the last reason to keep one).
THEOREM DestroyedBuffersRetired == Spec => []NoStrandedBuffer
<1>1. Init => CoreTypes /\ NoStrandedBuffer
  <2>1. Init => NoStrandedBuffer
    BY DEF Init, NoStrandedBuffer, CanRetire
  <2>. QED
    BY <2>1, CoreInit
<1>2. CoreTypes /\ NoStrandedBuffer /\ [Next]_vars => (CoreTypes /\ NoStrandedBuffer)'
  BY CoreNext, StrandedNext
<1>. QED
  BY <1>1, <1>2, PTL DEF Spec

-----------------------------------------------------------------------------
(* How every handler ends: having sent reqs and left the registry e and    *)
(* the surfaces t, it destroys some idle buffers                           *)

\* d destroys buffers of S, each once.
Destroys(d, S) ==
  \A i \in 1 .. Len(d) : /\ d[i].op = "destroy" /\ d[i].buffer \in S
                         /\ \A j \in 1 .. Len(d) : d[i] = d[j] => i = j

Ends(reqs, e, t) ==
  \E S \in SUBSET Buffers, d \in Seq(Request) :
    /\ Destroys(d, S)
    /\ toHost' = (toHost \o reqs) \o d
    /\ \A b \in S : Active(e, b) /\ ~Submitted(e, b) /\ b \notin Pending(t)
    /\ \A b \in Buffers : IF b \in S THEN ~Active(buffers', b) ELSE buffers'[b] = e[b]
    /\ \A s \in Surfaces :
         /\ surfaces'[s] = None <=> t[s] = None
         /\ t[s] # None =>
              /\ surfaces'[s].attachment = t[s].attachment
              /\ \/ surfaces'[s].current = t[s].current
                 \/ surfaces'[s].current = None /\ t[s].current \in S

LEMMA RetireEnds ==
  ASSUME Queues, NEW e \in Entries, NEW t \in SurfaceTable, NEW reqs \in PlainReqs,
         RetireEligible(e, t, reqs)
  PROVE  Ends(reqs, e, t)
<1>. DEFINE S == Candidates(e, t)
            d == DestroyAll(S)
<1>1. S \in SUBSET Buffers
  BY DEF Candidates
<1>2. d \in Seq(Request) /\ Destroys(d, S)
  BY <1>1, Destructors DEF Destroys
<1>3. toHost' = (toHost \o reqs) \o d
  <2>1. toHost' = toHost \o (reqs \o d)
    BY RetireShape
  <2>2. reqs \in Seq(Request) /\ toHost \in Seq(Request)
    BY PlainReqsType DEF Queues
  <2>. QED
    BY <1>2, <2>1, <2>2, ConcatAssociative
<1>4. \A b \in S : Active(e, b) /\ ~Submitted(e, b) /\ b \notin Pending(t)
  BY DEF Candidates, CanRetire, Active
<1>5. surfaces' = t /\ buffers' = Retired(e, t)
  BY RetireShape
<1>6. \A b \in Buffers : IF b \in S THEN ~Active(buffers', b) ELSE buffers'[b] = e[b]
  BY <1>5, RetiredEntries
<1>. HIDE DEF S, d
<1>. QED
  BY <1>1, <1>2, <1>3, <1>4, <1>5, <1>6 DEF Ends

LEMMA DestroyEnds ==
  ASSUME Tables, Queues, NEW b \in Buffers, NEW e \in Entries,
         Active(e, b), ~Submitted(e, b), b \notin Pending(surfaces),
         buffers' = Complete(e, b), surfaces' = ClearReferences(surfaces, b),
         Send(<<DestroyReq(b)>>)
  PROVE  Ends(<<>>, e, surfaces)
<1>. DEFINE d == <<DestroyReq(b)>>
<1>1. d \in Seq(Request) /\ Destroys(d, {b})
  <2>1. DestroyReq(b) \in Request /\ DestroyReq(b).op = "destroy" /\ DestroyReq(b).buffer = b
    BY DEF DestroyReq, Request
  <2>. QED
    BY <2>1 DEF Destroys
<1>2. toHost' = (toHost \o <<>>) \o d
  <2>1. toHost' = toHost \o d
    BY SendDestroyType
  <2>2. toHost \o <<>> = toHost
    BY ConcatEmptySeq DEF Queues
  <2>. QED
    BY <2>1, <2>2
<1>3. ~Active(buffers', b) /\ \A x \in Buffers : x # b => buffers'[x] = e[x]
  BY DEF Complete, MarkHostDestroyQueued, Entries, Active
<1>4. ASSUME NEW s \in Surfaces
      PROVE  /\ surfaces'[s] = None <=> surfaces[s] = None
             /\ surfaces[s] # None =>
                  /\ surfaces'[s].attachment = surfaces[s].attachment
                  /\ \/ surfaces'[s].current = surfaces[s].current
                     \/ surfaces'[s].current = None /\ surfaces[s].current \in {b}
  <2>1. CASE surfaces[s] = None
    BY <2>1 DEF ClearReferences
  <2>2. CASE surfaces[s] # None
    <3>1. surfaces[s] \in SurfaceState
      BY <2>2 DEF SurfaceTable, Tables
    <3>2. surfaces'[s] = [ClearCurrent(surfaces[s], b)
                            EXCEPT !.attachment = IF @ = b THEN "Detach" ELSE @]
      BY <2>2 DEF ClearReferences
    <3>3. surfaces'[s] \in SurfaceState
      BY <3>1, <3>2, SurfaceTypes
    <3>4. surfaces'[s] # None
      BY <3>3, TablesAssumption
    <3>5. /\ surfaces'[s].current = IF surfaces[s].current = b THEN None ELSE surfaces[s].current
          /\ surfaces'[s].attachment = IF surfaces[s].attachment = b THEN "Detach"
                                       ELSE surfaces[s].attachment
      BY <3>1, <3>2 DEF ClearCurrent, SurfaceState
    <3>6. surfaces[s].attachment # b
      BY <2>2 DEF Pending
    <3>. QED
      BY <2>2, <3>4, <3>5, <3>6
  <2>. QED
    BY <2>1, <2>2
<1>. HIDE DEF d
<1>. QED
  BY <1>1, <1>2, <1>3, <1>4 DEF Ends

LEMMA QuietEnds ==
  ASSUME Queues, buffers' \in Entries, toHost' = toHost
  PROVE  Ends(<<>>, buffers', surfaces')
<1>. DEFINE d == <<>>
<1>1. d \in Seq(Request) /\ Destroys(d, {})
  BY DEF Destroys
<1>2. toHost' = (toHost \o <<>>) \o d
  BY ConcatEmptySeq DEF Queues
<1>. HIDE DEF d
<1>3. {} \in SUBSET Buffers
  OBVIOUS
<1>. QED
  BY <1>1, <1>2, <1>3 DEF Ends

-----------------------------------------------------------------------------
(* Destructors in flight                                                   *)

\* A destructor in flight is the only one of its buffer, which the host has and
\* the registry has given up; a registered buffer is alive at the host.
Gone(q, e, hb) ==
  \A i \in 1 .. Len(q) : q[i].op = "destroy" =>
    /\ q[i].buffer \in hb /\ ~Active(e, q[i].buffer)
    /\ \A j \in 1 .. Len(q) : q[j] = q[i] => j = i
Alive(e, hb) == \A b \in Buffers : Active(e, b) => b \in hb

DestroyInv ==
  /\ Gone(toHost, buffers, hostBuffers)
  /\ Alive(buffers, hostBuffers)
  /\ \A i \in 1 .. Len(toProxy) : toProxy[i].op = "delete_id" =>
       ~Active(buffers, toProxy[i].buffer)

LEMMA GoneAppend ==
  ASSUME NEW q \in Seq(Request), NEW reqs \in PlainReqs, NEW e, NEW f, NEW hb, Gone(q, e, hb),
         \A b \in Buffers : Active(f, b) => Active(e, b)
  PROVE  Gone(q \o reqs, f, hb)
<1>1. reqs \in Seq(Request)
  BY PlainReqsType
<1>. DEFINE r == q \o reqs
<1>2. /\ Len(r) = Len(q) + Len(reqs)
      /\ \A i \in 1 .. Len(r) : r[i] = IF i <= Len(q) THEN q[i] ELSE reqs[i - Len(q)]
      /\ Len(q) \in Nat /\ Len(reqs) \in Nat
  BY <1>1, ConcatProperties, LenProperties
<1>3. \A i \in 1 .. Len(reqs) : reqs[i].op # "destroy"
  <2>1. CASE reqs = <<>>
    BY <2>1
  <2>2. CASE \E x \in {y \in Request : y.op # "destroy"} : reqs = <<x>>
    BY <2>2
  <2>. QED
    BY <2>1, <2>2 DEF PlainReqs
<1>4. \A i \in 1 .. Len(q) : q[i] \in Request
  BY ElementOfSeq
<1>. HIDE DEF r
<1>5. SUFFICES ASSUME NEW i \in 1 .. Len(r), r[i].op = "destroy"
               PROVE  /\ r[i].buffer \in hb /\ ~Active(f, r[i].buffer)
                      /\ \A j \in 1 .. Len(r) : r[j] = r[i] => j = i
  BY DEF Gone, r
<1>6. i \in 1 .. Len(q) /\ r[i] = q[i]
  BY <1>2, <1>3, <1>5
<1>7. r[i].buffer \in hb /\ ~Active(f, r[i].buffer)
  BY <1>4, <1>5, <1>6, RequestCases DEF Gone
<1>8. ASSUME NEW j \in 1 .. Len(r), r[j] = r[i] PROVE j = i
  <2>1. j \in 1 .. Len(q) /\ r[j] = q[j]
    BY <1>2, <1>3, <1>5, <1>8
  <2>. QED
    BY <1>5, <1>6, <1>8, <2>1 DEF Gone
<1>. QED
  BY <1>7, <1>8

LEMMA GoneDestroy ==
  ASSUME NEW q \in Seq(Request), NEW d \in Seq(Request), NEW S \in SUBSET Buffers, NEW e, NEW f,
         NEW hb, Gone(q, e, hb), Alive(e, hb), Destroys(d, S), \A b \in S : Active(e, b),
         \A b \in Buffers : Active(f, b) => Active(e, b) /\ b \notin S
  PROVE  Gone(q \o d, f, hb)
<1>. DEFINE r == q \o d
<1>2. /\ Len(r) = Len(q) + Len(d)
      /\ \A i \in 1 .. Len(r) : r[i] = IF i <= Len(q) THEN q[i] ELSE d[i - Len(q)]
      /\ Len(q) \in Nat /\ Len(d) \in Nat
  BY ConcatProperties, LenProperties
<1>4. \A i \in 1 .. Len(q) : q[i] \in Request
  BY ElementOfSeq
<1>. HIDE DEF r
<1>5. SUFFICES ASSUME NEW i \in 1 .. Len(r), r[i].op = "destroy"
               PROVE  /\ r[i].buffer \in hb /\ ~Active(f, r[i].buffer)
                      /\ \A j \in 1 .. Len(r) : r[j] = r[i] => j = i
  BY DEF Gone, r
<1>6. \A k \in 1 .. Len(q) : q[k].op = "destroy" =>
        q[k].buffer \in Buffers /\ q[k].buffer \in hb /\ ~Active(e, q[k].buffer)
  BY <1>4, RequestCases DEF Gone
<1>7. CASE i <= Len(q)
  <2>1. i \in 1 .. Len(q) /\ r[i] = q[i] /\ q[i].op = "destroy"
    BY <1>2, <1>5, <1>7
  <2>2. ASSUME NEW j \in 1 .. Len(r), r[j] = r[i] PROVE j = i
    <3>1. CASE j <= Len(q)
      BY <1>2, <2>1, <2>2, <3>1 DEF Gone
    <3>2. CASE ~(j <= Len(q))
      <4>1. j - Len(q) \in 1 .. Len(d) /\ r[j] = d[j - Len(q)]
        BY <1>2, <3>2
      <4>2. d[j - Len(q)].buffer \in S
        BY <4>1 DEF Destroys
      <4>. QED
        BY <1>6, <2>1, <2>2, <4>1, <4>2
    <3>. QED
      BY <3>1, <3>2
  <2>. QED
    BY <1>6, <2>1, <2>2
<1>8. CASE ~(i <= Len(q))
  <2>1. i - Len(q) \in 1 .. Len(d) /\ r[i] = d[i - Len(q)]
    BY <1>2, <1>8
  <2>2. r[i].buffer \in S
    BY <2>1 DEF Destroys
  <2>3. r[i].buffer \in hb /\ ~Active(f, r[i].buffer)
    BY <2>2 DEF Alive
  <2>4. ASSUME NEW j \in 1 .. Len(r), r[j] = r[i] PROVE j = i
    <3>1. CASE j <= Len(q)
      <4>1. j \in 1 .. Len(q) /\ r[j] = q[j]
        BY <1>2, <3>1
      <4>. QED
        BY <1>5, <1>6, <2>2, <2>4, <4>1
    <3>2. CASE ~(j <= Len(q))
      <4>1. j - Len(q) \in 1 .. Len(d) /\ r[j] = d[j - Len(q)]
        BY <1>2, <3>2
      <4>2. j - Len(q) = i - Len(q)
        BY <2>1, <2>4, <4>1 DEF Destroys
      <4>. QED
        BY <4>2, <1>2
    <3>. QED
      BY <3>1, <3>2
  <2>. QED
    BY <2>3, <2>4
<1>. QED
  BY <1>7, <1>8, <1>2

-----------------------------------------------------------------------------
(* The end of each handler                                                 *)

SameActive(e) == \A x \in Buffers : Active(e, x) <=> Active(buffers, x)
SameUse(e) == SameActive(e) /\ \A x \in Buffers : Active(e, x) => e[x].use = buffers[x].use

LEMMA AttachEnds ==
  ASSUME CoreTypes, NEW s \in Surfaces, NEW b \in Buffers \cup {"Detach"}, OnAttach(s, b)
  PROVE  Ends(<<AttachReq(s, b)>>, buffers, AttachedSurfaces(s, b))
BY AttachRetires, RetireEnds DEF CoreTypes

\* What finalize_attachment and the copy leave of each entry.
LEMMA CommitEnds ==
  ASSUME CoreTypes, NEW s \in Surfaces, OnCommit(s)
  PROVE  /\ Ends(<<CommitReq(s)>>, CommittedEntries(s), CommittedSurfaces(s))
         /\ SameActive(CommittedEntries(s))
         /\ \A x \in Buffers : Active(buffers, x) =>
              CommittedEntries(s)[x].use =
                IF surfaces[s].attachment = "Unchanged" THEN buffers[x].use
                ELSE IF x = Attached(surfaces[s]) THEN SubmitUse(buffers[x].use)
                ELSE IF x = surfaces[s].current THEN DetachUse(buffers[x].use)
                ELSE buffers[x].use
         /\ Attached(surfaces[s]) \in Buffers => Active(buffers, Attached(surfaces[s]))
<1>. USE DEF CoreTypes
<1>. DEFINE t == surfaces[s]
            n == Attached(t)
            e == CommittedEntries(s)
            c == CopyDone(n)
<1>1. Ends(<<CommitReq(s)>>, e, CommittedSurfaces(s))
  BY CommitRetires, RetireEnds
<1>2. /\ e \in Entries /\ c \in Entries /\ t \in SurfaceState
      /\ t.attachment # "Unchanged" => CanFinalize(buffers, t.current, n)
                                       /\ CanFinalize(c, t.current, n)
  BY CommitRetires
<1>3. n \in Buffers \cup {None} /\ (n \in Buffers => t.attachment # "Unchanged")
  BY <1>2, SurfaceTypes, BuffersAssumption DEF Attached
<1>4. n \in Buffers => Active(buffers, n)
  BY <1>2, <1>3, BuffersAssumption DEF CanFinalize
<1>5. ASSUME NEW x \in Buffers
      PROVE  /\ Active(c, x) <=> Active(buffers, x)
             /\ Active(buffers, x) => c[x] \in LiveEntry /\ c[x].use = buffers[x].use
  <2>1. CASE x = n /\ n \in LocalBuffers
    <3>1. buffers[x] \in LiveEntry
      BY <1>4, <2>1, ActiveEntry DEF Tables
    <3>2. c[x] = [buffers[x] EXCEPT !.needs_full_copy = FALSE]
      BY <2>1 DEF CopyDone, Tables, Entries
    <3>3. c[x] \in LiveEntry /\ c[x].use = buffers[x].use
      BY <3>1, <3>2 DEF LiveEntry
    <3>. QED
      BY <1>2, <1>4, <2>1, <3>3, LiveIsActive
  <2>2. CASE ~(x = n /\ n \in LocalBuffers)
    <3>1. c[x] = buffers[x]
      BY <2>2 DEF CopyDone, Tables, Entries
    <3>. QED
      BY <3>1, ActiveEntry DEF Active, Tables
  <2>. QED
    BY <2>1, <2>2
<1>. HIDE DEF c
<1>6. e = IF t.attachment # "Unchanged" THEN Finalize(c, t.current, n) ELSE c
  BY DEF CommittedEntries, c
<1>. HIDE DEF e, n
<1>7. ASSUME NEW x \in Buffers
      PROVE  /\ Active(e, x) <=> Active(buffers, x)
             /\ Active(buffers, x) =>
                  e[x].use = IF t.attachment = "Unchanged" THEN buffers[x].use
                             ELSE IF x = n THEN SubmitUse(buffers[x].use)
                             ELSE IF x = t.current THEN DetachUse(buffers[x].use)
                             ELSE buffers[x].use
  <2>1. CASE t.attachment = "Unchanged"
    BY <1>5, <1>6, <2>1 DEF Active
  <2>2. CASE t.attachment # "Unchanged" /\ x \notin {n, t.current}
    <3>1. e[x] = c[x]
      BY <1>6, <2>2 DEF Finalize
    <3>. QED
      BY <1>5, <2>2, <3>1 DEF Active
  <2>3. CASE t.attachment # "Unchanged" /\ x \in {n, t.current}
    <3>1. Active(buffers, x)
      BY <1>2, <2>3, BuffersAssumption DEF CanFinalize
    <3>2. c[x] \in LiveEntry /\ c[x].use = buffers[x].use
      BY <1>5, <3>1
    <3>3. e[x] = IF x = n THEN [c[x] EXCEPT !.use = SubmitUse(@)]
                 ELSE [c[x] EXCEPT !.use = DetachUse(@)]
      BY <1>6, <2>3 DEF Finalize
    <3>4. /\ e[x].use = IF x = n THEN SubmitUse(buffers[x].use) ELSE DetachUse(buffers[x].use)
          /\ e[x].state = c[x].state
      BY <3>2, <3>3 DEF LiveEntry
    <3>5. e[x] \in LiveEntry
      <4>1. SubmitUse(c[x].use) \in Use /\ DetachUse(c[x].use) \in Use
        BY <3>2 DEF LiveEntry, Use, SubmitUse, DetachUse, AwaitingUse
      <4>. QED
        BY <3>2, <3>3, <4>1 DEF LiveEntry
    <3>6. Active(e, x)
      BY <1>2, <3>5, LiveIsActive
    <3>. QED
      BY <2>3, <3>1, <3>4, <3>6
  <2>. QED
    BY <2>1, <2>2, <2>3
<1>. QED
  BY <1>1, <1>4, <1>7 DEF SameActive, e, n

LEMMA FailEnds ==
  ASSUME CoreTypes, NEW s \in Surfaces, CommitCopyFails(s) \/ CommitFatal(s)
  PROVE  \E e \in Entries : Ends(<<>>, e, surfaces) /\ SameUse(e)
<1>1. PICK e \in Entries :
           /\ RetireEligible(e, surfaces, <<>>)
           /\ \A x \in Buffers : /\ Active(e, x) <=> Active(buffers, x)
                                 /\ Active(e, x) => e[x].use = buffers[x].use
  BY FailedCommitRetires DEF CoreTypes
<1>2. Ends(<<>>, e, surfaces)
  <2>1. <<>> \in PlainReqs
    BY DEF PlainReqs
  <2>. QED
    BY <1>1, <2>1, RetireEnds DEF CoreTypes, Tables
<1>. QED
  BY <1>1, <1>2 DEF SameUse, SameActive

LEMMA SurfaceEnds ==
  ASSUME CoreTypes, NEW s \in Surfaces, DestroySurface(s)
  PROVE  /\ Ends(<<SurfaceDestroyReq(s)>>, EntriesWithout(s), RemainingSurfaces(s))
         /\ SameActive(EntriesWithout(s))
         /\ \A x \in Buffers : Active(buffers, x) =>
              EntriesWithout(s)[x].use =
                IF /\ x = surfaces[s].current /\ x \notin Current(RemainingSurfaces(s))
                   /\ buffers[x].use = "Awaiting"
                THEN "NeverSubmitted" ELSE buffers[x].use
<1>. USE DEF CoreTypes
<1>. DEFINE e == EntriesWithout(s)
            b == surfaces[s].current
            other == b \in Current(RemainingSurfaces(s))
<1>1. Ends(<<SurfaceDestroyReq(s)>>, e, RemainingSurfaces(s))
  BY DestroySurfaceRetires, RetireEnds
<1>2. e \in Entries /\ surfaces[s] \in SurfaceState
  BY DestroySurfaceRetires
<1>3. b \in Buffers \cup {None}
  BY <1>2 DEF SurfaceState
<1>4. e = IF b # None /\ Active(buffers, b) /\ ~other /\ buffers[b].use = "Awaiting"
          THEN [buffers EXCEPT ![b].use = "NeverSubmitted"] ELSE buffers
  BY DEF EntriesWithout, EndLastSurfaceUse
<1>. HIDE DEF e
<1>5. ASSUME NEW x \in Buffers
      PROVE  /\ Active(e, x) <=> Active(buffers, x)
             /\ Active(buffers, x) =>
                  e[x].use = IF x = b /\ ~(x \in Current(RemainingSurfaces(s)))
                                  /\ buffers[x].use = "Awaiting"
                             THEN "NeverSubmitted" ELSE buffers[x].use
  <2>1. CASE /\ x = b /\ Active(buffers, b) /\ ~other /\ buffers[b].use = "Awaiting"
    <3>1. buffers[x] \in LiveEntry
      BY <2>1, ActiveEntry DEF Tables
    <3>2. e[x] = [buffers[x] EXCEPT !.use = "NeverSubmitted"]
      BY <1>4, <2>1, BuffersAssumption DEF Tables, Entries
    <3>3. e[x] \in LiveEntry /\ e[x].use = "NeverSubmitted"
      BY <3>1, <3>2 DEF LiveEntry, Use
    <3>. QED
      BY <1>2, <2>1, <3>3, LiveIsActive
  <2>2. CASE ~(x = b /\ Active(buffers, b) /\ ~other /\ buffers[b].use = "Awaiting")
    <3>1. e[x] = buffers[x]
      BY <1>3, <1>4, <2>2 DEF Tables, Entries
    <3>. QED
      BY <2>2, <3>1 DEF Active
  <2>. QED
    BY <2>1, <2>2
<1>. QED
  BY <1>1, <1>5 DEF SameActive, e

LEMMA BufferEnds ==
  ASSUME CoreTypes, NEW b \in Buffers, DestroyBuffer(b)
  PROVE  \E e \in Entries : Ends(<<>>, e, surfaces) /\ SameUse(e)
<1>. USE DEF CoreTypes
<1>1. buffers[b] \in LiveEntry /\ Active(buffers, b)
  BY OtherTables DEF DestroyBuffer
<1>. DEFINE pending == b \in Pending(surfaces)
            referenced == Submitted(buffers, b) \/ b \in Current(surfaces) \/ pending
<1>2. CASE referenced /\ (~Released(buffers, b) \/ pending)
  <2>1. buffers' = MarkGuestDestroyed(buffers, b) /\ UNCHANGED <<surfaces, toHost>>
    BY <1>2 DEF DestroyBuffer
  <2>2. buffers' \in Entries
    BY <1>1, <2>1, EntryUpdates DEF Tables
  <2>3. Ends(<<>>, buffers', surfaces)
    BY <2>1, <2>2, QuietEnds
  <2>4. buffers'[b] \in LiveEntry /\ buffers'[b].use = buffers[b].use
    BY <1>1, <2>1 DEF MarkGuestDestroyed, LiveEntry, Tables, Entries
  <2>5. \A x \in Buffers : x # b => buffers'[x] = buffers[x]
    BY <2>1 DEF MarkGuestDestroyed, Tables, Entries
  <2>6. Active(buffers', b)
    BY <2>2, <2>4, LiveIsActive
  <2>7. SameUse(buffers')
    BY <1>1, <2>4, <2>5, <2>6 DEF SameUse, SameActive, Active
  <2>. QED
    BY <2>2, <2>3, <2>7
<1>3. CASE ~(referenced /\ (~Released(buffers, b) \/ pending))
  <2>1. /\ buffers' = Complete(buffers, b) /\ surfaces' = ClearReferences(surfaces, b)
        /\ Send(<<DestroyReq(b)>>)
    BY <1>3 DEF DestroyBuffer
  <2>2. ~Submitted(buffers, b) /\ ~pending
    BY <1>3 DEF Submitted, Released, AwaitingUse
  <2>3. Ends(<<>>, buffers, surfaces)
    BY <1>1, <2>1, <2>2, DestroyEnds DEF Tables
  <2>. QED
    BY <2>3 DEF SameUse, SameActive, Tables
<1>. QED
  BY <1>2, <1>3

\* The buffer of the next event
EventBuffer == Head(toProxy).buffer

LEMMA ReleaseEnds ==
  ASSUME CoreTypes, OnRelease
  PROVE  /\ EventBuffer \in Buffers
         /\ ~Active(buffers, EventBuffer) =>
              UNCHANGED <<surfaces, buffers, busy, uses, toHost>>
         /\ Active(buffers, EventBuffer) =>
              /\ uses' = [uses EXCEPT ![EventBuffer] = {}]
              /\ busy' = busy \/ busy' = busy \ {EventBuffer}
              /\ \E e \in Entries :
                   /\ Ends(<<>>, e, surfaces) /\ SameActive(e)
                   /\ \A x \in Buffers : Active(e, x) /\ x # EventBuffer =>
                        e[x].use = buffers[x].use
<1>. USE DEF CoreTypes
<1>. DEFINE b == Head(toProxy).buffer
            e == [buffers EXCEPT ![b].use = ReleaseUse(@)]
<1>1. b \in Buffers
  BY NextEvent DEF OnRelease
<1>2. ~Active(buffers, b) => UNCHANGED <<surfaces, buffers, busy, uses, toHost>>
  BY DEF OnRelease
<1>3. ASSUME Active(buffers, b)
      PROVE  /\ uses' = [uses EXCEPT ![b] = {}]
             /\ busy' = busy \/ busy' = busy \ {b}
             /\ e \in Entries /\ Ends(<<>>, e, surfaces) /\ SameActive(e)
             /\ \A x \in Buffers : Active(e, x) /\ x # b => e[x].use = buffers[x].use
  <2>1. uses' = [uses EXCEPT ![b] = {}] /\ (busy' = busy \/ busy' = busy \ {b})
    BY <1>3 DEF OnRelease
  <2>2. e \in Entries /\ buffers[b] \in LiveEntry
    BY <1>1, <1>3, EntryUpdates, ActiveEntry DEF Tables
  <2>3. e[b].use = ReleaseUse(buffers[b].use) /\ e[b] \in LiveEntry
    BY <1>1, <2>2 DEF LiveEntry, Tables, Entries, ReleaseUse, Use
  <2>4. \A x \in Buffers : x # b => e[x] = buffers[x]
    BY DEF Tables, Entries
  <2>5. Active(e, b)
    BY <1>1, <2>2, <2>3, LiveIsActive
  <2>6. ~Submitted(e, b)
    BY <2>3 DEF Submitted, ReleaseUse, AwaitingUse
  <2>7. \/ buffers' = e /\ UNCHANGED <<surfaces, toHost>>
        \/ /\ b \notin Pending(surfaces) /\ buffers' = Complete(e, b)
           /\ surfaces' = ClearReferences(surfaces, b) /\ Send(<<DestroyReq(b)>>)
    BY <1>3 DEF OnRelease
  <2>. HIDE DEF e, b
  <2>8. Ends(<<>>, e, surfaces)
    BY <1>1, <2>2, <2>5, <2>6, <2>7, DestroyEnds, QuietEnds
  <2>9. SameActive(e)
    BY <1>3, <2>4, <2>5 DEF SameActive, Active
  <2>. QED
    BY <2>1, <2>2, <2>4, <2>8, <2>9
<1>. HIDE DEF e
<1>. QED
  BY <1>1, <1>2, <1>3 DEF EventBuffer

-----------------------------------------------------------------------------
(* DestroyInv is inductive                                                 *)

LEMMA QueueTail ==
  ASSUME NEW T, NEW q \in Seq(T), q # <<>>
  PROVE  /\ Tail(q) \in Seq(T) /\ Head(q) = q[1] /\ 1 \in 1 .. Len(q)
         /\ Len(Tail(q)) = Len(q) - 1 /\ Len(q) \in Nat
         /\ \A i \in 1 .. Len(Tail(q)) : i + 1 \in 1 .. Len(q) /\ Tail(q)[i] = q[i + 1]
<1>1. Len(q) \in Nat \ {0}
  BY EmptySeq
<1>. QED
  BY <1>1, HeadTailProperties

LEMMA QueueAppend ==
  ASSUME NEW T, NEW q \in Seq(T), NEW x \in T
  PROVE  /\ q \o <<x>> \in Seq(T) /\ Len(q \o <<x>>) = Len(q) + 1 /\ Len(q) \in Nat
         /\ \A i \in 1 .. Len(q) : (q \o <<x>>)[i] = q[i]
         /\ (q \o <<x>>)[Len(q) + 1] = x
<1>1. q \o <<x>> = Append(q, x)
  BY AppendIsConcat
<1>. QED
  BY <1>1, AppendProperties, LenProperties

LEMMA EventsElement ==
  ASSUME Queues
  PROVE  \A i \in 1 .. Len(toProxy) : toProxy[i] \in Event /\ toProxy[i].buffer \in Buffers
<1>1. \A i \in 1 .. Len(toProxy) : toProxy[i] \in Event
  BY ElementOfSeq DEF Queues
<1>. QED
  BY <1>1 DEF Event

\* Emitting an event keeps what holds of every event in flight.
LEMMA EmitShape ==
  ASSUME Queues, NEW op \in {"release", "delete_id"}, NEW b \in Buffers,
         toProxy' = toProxy \o <<EventOf(op, b)>>
  PROVE  /\ Len(toProxy') = Len(toProxy) + 1 /\ Len(toProxy) \in Nat
         /\ \A i \in 1 .. Len(toProxy') :
              \/ i \in 1 .. Len(toProxy) /\ toProxy'[i] = toProxy[i]
              \/ i = Len(toProxy) + 1 /\ toProxy'[i].op = op /\ toProxy'[i].buffer = b
<1>. DEFINE x == EventOf(op, b)
<1>1. x \in Event /\ x.op = op /\ x.buffer = b
  BY DEF EventOf, Event
<1>. HIDE DEF x
<1>2. /\ Len(toProxy') = Len(toProxy) + 1 /\ Len(toProxy) \in Nat
      /\ \A i \in 1 .. Len(toProxy) : toProxy'[i] = toProxy[i]
      /\ toProxy'[Len(toProxy) + 1] = x
  BY <1>1, QueueAppend DEF Queues, x
<1>. QED
  BY <1>1, <1>2

DeletedGone == \A i \in 1 .. Len(toProxy) : toProxy[i].op = "delete_id" =>
                 ~Active(buffers, toProxy[i].buffer)

LEMMA EndsActive ==
  ASSUME NEW reqs, NEW e, NEW t, Ends(reqs, e, t)
  PROVE  \A b \in Buffers : Active(buffers', b) => Active(e, b) /\ buffers'[b] = e[b]
BY DEF Ends, Active

LEMMA DestroyEndsInv ==
  ASSUME CoreTypes, DestroyInv, NEW reqs \in PlainReqs, NEW e, NEW t, Ends(reqs, e, t),
         SameActive(e), UNCHANGED hostBuffers
  PROVE  /\ Gone(toHost', buffers', hostBuffers') /\ Alive(buffers', hostBuffers')
         /\ toProxy' = toProxy \/ (toProxy # <<>> /\ toProxy' = Tail(toProxy)) => DestroyInv'
<1>. USE DEF CoreTypes
<1>1. PICK S \in SUBSET Buffers, d \in Seq(Request) :
        /\ Destroys(d, S)
        /\ toHost' = (toHost \o reqs) \o d
        /\ \A b \in S : Active(e, b)
        /\ \A b \in Buffers : IF b \in S THEN ~Active(buffers', b) ELSE buffers'[b] = e[b]
  BY DEF Ends
<1>2. \A b \in Buffers : Active(buffers', b) => Active(e, b) /\ b \notin S
  BY <1>1 DEF Active
<1>3. Gone(toHost \o reqs, e, hostBuffers)
  BY GoneAppend DEF DestroyInv, SameActive, Queues
<1>4. Alive(e, hostBuffers)
  BY DEF DestroyInv, Alive, SameActive
<1>5. toHost \o reqs \in Seq(Request)
  BY PlainReqsType, RequestsJoin DEF Queues
<1>6. Gone(toHost', buffers', hostBuffers')
  BY <1>1, <1>2, <1>3, <1>4, <1>5, GoneDestroy
<1>7. Alive(buffers', hostBuffers')
  BY <1>2, <1>4 DEF Alive
<1>8. ASSUME toProxy' = toProxy \/ (toProxy # <<>> /\ toProxy' = Tail(toProxy))
      PROVE  DeletedGone'
  <2>1. \A i \in 1 .. Len(toProxy') : \E k \in 1 .. Len(toProxy) : toProxy'[i] = toProxy[k]
    <3>1. CASE toProxy' = toProxy
      BY <3>1
    <3>2. CASE toProxy # <<>> /\ toProxy' = Tail(toProxy)
      BY <3>2, QueueTail DEF Queues
    <3>. QED
      BY <1>8, <3>1, <3>2
  <2>2. \A k \in 1 .. Len(toProxy) : toProxy[k].op = "delete_id" =>
          ~Active(buffers, toProxy[k].buffer) /\ toProxy[k].buffer \in Buffers
    BY EventsElement DEF DestroyInv
  <2>. QED
    BY <1>2, <2>1, <2>2 DEF DeletedGone, SameActive
<1>. QED
  BY <1>6, <1>7, <1>8 DEF DestroyInv, DeletedGone

LEMMA DestroyNext ==
  ASSUME CoreTypes, DestroyInv, [Next]_vars
  PROVE  DestroyInv'
<1>. USE DEF CoreTypes
<1>1. ASSUME NEW b \in Buffers, CreateBuffer(b) PROVE DestroyInv'
  <2>1. \A x \in Buffers : x # b => buffers'[x] = buffers[x]
    BY <1>1 DEF CreateBuffer, Tables, Entries
  <2>2. ASSUME NEW i \in 1 .. Len(toHost), toHost[i].op = "destroy"
        PROVE  toHost[i].buffer \in Buffers /\ toHost[i].buffer # b
    <3>1. toHost[i] \in Request
      BY ElementOfSeq DEF Queues
    <3>. QED
      BY <1>1, <2>2, <3>1, RequestCases DEF DestroyInv, Gone, CreateBuffer
  <2>3. ASSUME NEW i \in 1 .. Len(toProxy)
        PROVE  toProxy[i].buffer \in Buffers /\ toProxy[i].buffer # b
    <3>1. DOMAIN toProxy = 1 .. Len(toProxy)
      BY LenProperties DEF Queues
    <3>. QED
      BY <1>1, <3>1, EventsElement DEF CreateBuffer
  <2>4. UNCHANGED <<toHost, toProxy>> /\ hostBuffers' = hostBuffers \cup {b}
    BY <1>1 DEF CreateBuffer
  <2>5. Gone(toHost', buffers', hostBuffers')
    BY <2>1, <2>2, <2>4 DEF DestroyInv, Gone, Active
  <2>6. Alive(buffers', hostBuffers')
    BY <2>1, <2>4 DEF DestroyInv, Alive, Active
  <2>7. DeletedGone'
    BY <2>1, <2>3, <2>4 DEF DestroyInv, DeletedGone, Active
  <2>. QED
    BY <2>5, <2>6, <2>7 DEF DestroyInv, DeletedGone
<1>2. ASSUME UNCHANGED <<buffers, toHost, toProxy, hostBuffers>> PROVE DestroyInv'
  BY <1>2 DEF DestroyInv, Gone, Alive, Active
<1>3. ASSUME NEW s \in Surfaces, NEW b \in Buffers \cup {"Detach"}, OnAttach(s, b)
      PROVE  DestroyInv'
  <2>1. UNCHANGED <<toProxy, hostBuffers>>
    BY <1>3 DEF OnAttach, host
  <2>2. SameActive(buffers)
    BY DEF SameActive
  <2>. QED
    BY <1>3, <2>1, <2>2, AttachEnds, AttachRetires, DestroyEndsInv
<1>4. ASSUME NEW s \in Surfaces, Adjust(s) PROVE DestroyInv'
  <2>1. UNCHANGED <<buffers, toHost, toProxy, host>>
    BY <1>4, AdjustShape
  <2>. QED
    BY <1>2, <2>1 DEF host
<1>5. ASSUME NEW s \in Surfaces, OnCommit(s) PROVE DestroyInv'
  <2>1. UNCHANGED <<toProxy, hostBuffers>>
    BY <1>5 DEF OnCommit, host
  <2>. QED
    BY <1>5, <2>1, CommitEnds, CommitRetires, DestroyEndsInv
<1>6. <<>> \in PlainReqs
  BY DEF PlainReqs
<1>7. ASSUME NEW s \in Surfaces, CommitCopyFails(s) \/ CommitFatal(s) PROVE DestroyInv'
  <2>1. UNCHANGED <<toProxy, hostBuffers>>
    BY <1>7 DEF CommitCopyFails, CommitFatal, CommitFails, host
  <2>2. PICK e \in Entries : Ends(<<>>, e, surfaces) /\ SameActive(e)
    BY <1>7, FailEnds DEF SameUse
  <2>. QED
    BY <1>6, <2>1, <2>2, DestroyEndsInv
<1>8. ASSUME NEW s \in Surfaces, DestroySurface(s) PROVE DestroyInv'
  <2>1. UNCHANGED <<toProxy, hostBuffers>>
    BY <1>8 DEF DestroySurface, host
  <2>. QED
    BY <1>8, <2>1, SurfaceEnds, DestroySurfaceRetires, DestroyEndsInv
<1>9. ASSUME NEW b \in Buffers, DestroyBuffer(b) PROVE DestroyInv'
  <2>1. UNCHANGED <<toProxy, hostBuffers>>
    BY <1>9 DEF DestroyBuffer, host
  <2>2. PICK e \in Entries : Ends(<<>>, e, surfaces) /\ SameActive(e)
    BY <1>9, BufferEnds DEF SameUse
  <2>. QED
    BY <1>6, <2>1, <2>2, DestroyEndsInv
<1>10. ASSUME OnRelease PROVE DestroyInv'
  <2>1. UNCHANGED hostBuffers /\ toProxy # <<>> /\ toProxy' = Tail(toProxy)
    BY <1>10 DEF OnRelease, host, Take
  <2>2. \E e \in Entries : Ends(<<>>, e, surfaces) /\ SameActive(e)
    <3>1. CASE Active(buffers, EventBuffer)
      BY <1>10, <3>1, ReleaseEnds
    <3>2. CASE ~Active(buffers, EventBuffer)
      <4>1. UNCHANGED <<surfaces, buffers, toHost>>
        BY <1>10, <3>2, ReleaseEnds
      <4>2. buffers' \in Entries
        BY <4>1 DEF Tables
      <4>3. Ends(<<>>, buffers', surfaces')
        BY <4>1, <4>2, QuietEnds
      <4>. QED
        BY <4>1, <4>2, <4>3 DEF SameActive
    <3>. QED
      BY <3>1, <3>2
  <2>. QED
    BY <1>6, <2>1, <2>2, DestroyEndsInv
<1>11. ASSUME OnDeleteId PROVE DestroyInv'
  <2>. DEFINE b == Head(toProxy).buffer
  <2>1. b \in Buffers /\ toProxy # <<>>
    BY <1>11, NextEvent DEF OnDeleteId, Take
  <2>2. /\ buffers' = [buffers EXCEPT ![b] = None] /\ UNCHANGED <<toHost, hostBuffers>>
        /\ toProxy' = Tail(toProxy)
    BY <1>11 DEF OnDeleteId, Take, host
  <2>. HIDE DEF b
  <2>3. \A x \in Buffers : Active(buffers', x) => Active(buffers, x)
    BY <2>1, <2>2 DEF Tables, Entries, Active
  <2>4. Gone(toHost', buffers', hostBuffers')
    <3>1. \A i \in 1 .. Len(toHost) : toHost[i].op = "destroy" => toHost[i].buffer \in Buffers
      BY ElementOfSeq, RequestCases DEF Queues
    <3>. QED
      BY <2>2, <2>3, <3>1 DEF DestroyInv, Gone
  <2>5. \A i \in 1 .. Len(toProxy') : \E k \in 1 .. Len(toProxy) : toProxy'[i] = toProxy[k]
    BY <2>1, <2>2, QueueTail DEF Queues
  <2>6. DeletedGone'
    BY <2>3, <2>5, EventsElement DEF DestroyInv, DeletedGone
  <2>. QED
    BY <2>2, <2>3, <2>4, <2>6 DEF DestroyInv, DeletedGone, Alive
<1>12. ASSUME HostReceive PROVE DestroyInv'
  <2>. DEFINE r == Head(toHost)
  <2>1. /\ toHost # <<>> /\ toHost' = Tail(toHost) /\ r \in Request
        /\ hostBuffers' = IF r.op = "destroy" THEN hostBuffers \ {r.buffer} ELSE hostBuffers
        /\ UNCHANGED buffers
    BY <1>12, ReceiveShape DEF proxy
  <2>2. \/ UNCHANGED toProxy
        \/ r.op = "destroy" /\ toProxy' = toProxy \o <<EventOf("delete_id", r.buffer)>>
        \/ \E b \in Buffers : toProxy' = toProxy \o <<EventOf("release", b)>>
    BY <1>12, ReceiveShape
  <2>3. r = toHost[1] /\ 1 \in 1 .. Len(toHost)
    BY <2>1, QueueTail DEF Queues
  <2>4. r.op = "destroy" => r.buffer \in Buffers /\ ~Active(buffers, r.buffer)
    BY <2>1, <2>3, RequestCases DEF DestroyInv, Gone
  <2>5. Gone(toHost', buffers', hostBuffers')
    <3>1. SUFFICES ASSUME NEW i \in 1 .. Len(toHost'), toHost'[i].op = "destroy"
                   PROVE  /\ toHost'[i].buffer \in hostBuffers' /\ ~Active(buffers', toHost'[i].buffer)
                          /\ \A j \in 1 .. Len(toHost') : toHost'[j] = toHost'[i] => j = i
      BY DEF Gone
    <3>2. \A j \in 1 .. Len(toHost') : j + 1 \in 1 .. Len(toHost) /\ toHost'[j] = toHost[j + 1]
      BY <2>1, QueueTail DEF Queues
    <3>3. /\ toHost[i + 1].buffer \in hostBuffers /\ ~Active(buffers, toHost[i + 1].buffer)
          /\ \A j \in 1 .. Len(toHost) : toHost[j] = toHost[i + 1] => j = i + 1
      BY <3>1, <3>2 DEF DestroyInv, Gone
    <3>4. r # toHost[i + 1]
      BY <2>3, <3>3
    <3>5. toHost[i + 1] = DestroyReq(toHost[i + 1].buffer)
      <4>1. toHost[i + 1] \in Request
        BY <3>2, ElementOfSeq DEF Queues
      <4>. QED
        BY <3>1, <3>2, <4>1, RequestCases
    <3>6. r.op = "destroy" => r.buffer # toHost[i + 1].buffer
      BY <2>1, <3>4, <3>5, RequestCases
    <3>7. ASSUME NEW j \in 1 .. Len(toHost'), toHost'[j] = toHost'[i] PROVE j = i
      <4>1. j + 1 = i + 1
        BY <3>2, <3>3, <3>7
      <4>. QED
        BY <4>1
    <3>. QED
      BY <2>1, <3>2, <3>3, <3>6, <3>7
  <2>6. Alive(buffers', hostBuffers')
    BY <2>1, <2>4 DEF DestroyInv, Alive
  <2>7. DeletedGone'
    <3>1. CASE UNCHANGED toProxy
      BY <2>1, <3>1 DEF DestroyInv, DeletedGone
    <3>2. CASE r.op = "destroy" /\ toProxy' = toProxy \o <<EventOf("delete_id", r.buffer)>>
      <4>1. \A i \in 1 .. Len(toProxy') :
              \/ i \in 1 .. Len(toProxy) /\ toProxy'[i] = toProxy[i]
              \/ toProxy'[i].buffer = r.buffer
        BY <2>4, <3>2, EmitShape
      <4>. HIDE DEF r
      <4>. QED
        BY <2>1, <2>4, <3>2, <4>1 DEF DestroyInv, DeletedGone
    <3>3. CASE \E b \in Buffers : toProxy' = toProxy \o <<EventOf("release", b)>>
      BY <2>1, <3>3, EmitShape DEF DestroyInv, DeletedGone
    <3>. QED
      BY <2>2, <3>1, <3>2, <3>3
  <2>. QED
    BY <2>5, <2>6, <2>7 DEF DestroyInv, DeletedGone
<1>13. ASSUME NEW b \in Buffers, HostRelease(b) PROVE DestroyInv'
  <2>1. UNCHANGED <<buffers, toHost, hostBuffers>>
    BY <1>13 DEF HostRelease, HostKeeps, proxy
  <2>2. toProxy' = toProxy \o <<EventOf("release", b)>>
    BY <1>13 DEF HostRelease, Emit
  <2>3. DeletedGone'
    BY <2>1, <2>2, EmitShape DEF DestroyInv, DeletedGone
  <2>. QED
    BY <2>1, <2>3 DEF DestroyInv, DeletedGone, Gone, Alive, Active
<1>14. ASSUME (\E b, R : Draw(b, R)) \/ UNCHANGED vars PROVE DestroyInv'
  <2>1. UNCHANGED <<buffers, toHost, toProxy, hostBuffers>>
    BY <1>14 DEF Draw, vars, proxy, host
  <2>. QED
    BY <1>2, <2>1
<1>. QED
  <2>. HIDE DEF CoreTypes
  <2>. QED
    BY <1>1, <1>3, <1>4, <1>5, <1>7, <1>8, <1>9, <1>10, <1>11, <1>12, <1>13, <1>14, StepKinds

-----------------------------------------------------------------------------
(* Unreleased uses                                                         *)

\* UnreleasedUseKept, of any registry and any uses
Kept(e, us) ==
  \A b \in Buffers : us[b] # {} =>
    /\ Submitted(e, b)
    /\ (\E s \in Surfaces : <<s, "detached">> \in us[b]) => e[b].use = "AwaitingDetached"

\* The use of a surface's content is of the buffer the proxy believes current.
Shows(t, us) ==
  \A s \in Surfaces, b \in Buffers :
    <<s, "current">> \in us[b] => t[s] # None /\ t[s].current = b

UseInv == Kept(buffers, uses) /\ Shows(surfaces, uses)

LEMMA KeptMeaning == Kept(buffers, uses) <=> UnreleasedUseKept
BY DEF Kept, UnreleasedUseKept

LEMMA KeptSame ==
  ASSUME NEW e, NEW f, NEW us, Kept(e, us),
         \A b \in Buffers : Active(e, b) => Active(f, b) /\ f[b].use = e[b].use
  PROVE  Kept(f, us)
BY DEF Kept, Submitted

\* Destroying idle buffers at the end of a handler ends no use.
LEMMA EndsKeepUses ==
  ASSUME NEW reqs, NEW e \in Entries, NEW t \in SurfaceTable, Ends(reqs, e, t),
         Kept(e, uses'), Shows(t, uses')
  PROVE  UseInv'
<1>1. PICK S \in SUBSET Buffers, d \in Seq(Request) :
        /\ \A b \in S : Active(e, b) /\ ~Submitted(e, b)
        /\ \A b \in Buffers : IF b \in S THEN ~Active(buffers', b) ELSE buffers'[b] = e[b]
        /\ \A s \in Surfaces :
             /\ surfaces'[s] = None <=> t[s] = None
             /\ t[s] # None => \/ surfaces'[s].current = t[s].current
                               \/ surfaces'[s].current = None /\ t[s].current \in S
  BY DEF Ends
<1>2. \A b \in S : uses'[b] = {}
  BY <1>1 DEF Kept
<1>3. Kept(buffers', uses')
  BY <1>1, <1>2 DEF Kept, Submitted, Active
<1>4. Shows(surfaces', uses')
  BY <1>1, <1>2 DEF Shows
<1>. QED
  BY <1>3, <1>4 DEF UseInv

LEMMA UseNext ==
  ASSUME CoreTypes, DestroyInv, UseInv, [Next]_vars
  PROVE  UseInv'
<1>. USE DEF CoreTypes
<1>1. ASSUME NEW b \in Buffers, CreateBuffer(b) PROVE UseInv'
  <2>1. \A x \in Buffers : x # b => buffers'[x] = buffers[x]
    BY <1>1 DEF CreateBuffer, Tables, Entries
  <2>2. uses[b] = {}
    BY <1>1 DEF CreateBuffer, UseInv, Kept, Submitted, Active
  <2>3. UNCHANGED <<surfaces, uses>>
    BY <1>1 DEF CreateBuffer
  <2>. QED
    BY <2>1, <2>2, <2>3 DEF UseInv, Kept, Shows, Submitted, Active
<1>2. ASSUME UNCHANGED <<surfaces, buffers, uses>> PROVE UseInv'
  BY <1>2 DEF UseInv, Kept, Shows, Submitted, Active
<1>3. ASSUME NEW s \in Surfaces, NEW b \in Buffers \cup {"Detach"}, OnAttach(s, b)
      PROVE  UseInv'
  <2>1. UNCHANGED uses /\ surfaces[s] \in SurfaceState
    BY <1>3, AttachRetires DEF OnAttach
  <2>2. AttachedSurfaces(s, b) \in SurfaceTable /\ buffers \in Entries
    BY <1>3, AttachRetires
  <2>3. \A x \in Surfaces : /\ surfaces[x] # None => AttachedSurfaces(s, b)[x] # None
                            /\ AttachedSurfaces(s, b)[x].current = surfaces[x].current
    <3>1. AttachedSurfaces(s, b)[s] = [surfaces[s] EXCEPT !.attachment = b]
      BY DEF AttachedSurfaces, Tables, SurfaceTable
    <3>2. AttachedSurfaces(s, b)[s] \in SurfaceState
      BY <2>1, <3>1, SurfaceTypes
    <3>3. AttachedSurfaces(s, b)[s].current = surfaces[s].current
      BY <2>1, <3>1 DEF SurfaceState
    <3>. QED
      BY <3>2, <3>3, TablesAssumption DEF AttachedSurfaces, Tables, SurfaceTable
  <2>4. Shows(AttachedSurfaces(s, b), uses')
    BY <2>1, <2>3 DEF UseInv, Shows
  <2>5. Kept(buffers, uses')
    BY <2>1 DEF UseInv
  <2>. QED
    BY <1>3, <2>2, <2>4, <2>5, AttachEnds, EndsKeepUses
<1>4. ASSUME NEW s \in Surfaces, Adjust(s) PROVE UseInv'
  <2>1. PICK x \in SurfaceState :
           /\ surfaces' = [surfaces EXCEPT ![s] = x]
           /\ x.current = surfaces[s].current
           /\ UNCHANGED <<buffers, uses>>
    BY <1>4, AdjustShape
  <2>2. \A y \in Surfaces : /\ surfaces[y] # None => surfaces'[y] # None
                            /\ surfaces'[y].current = surfaces[y].current
    BY <2>1, TablesAssumption DEF Tables, SurfaceTable
  <2>. QED
    BY <2>1, <2>2 DEF UseInv, Kept, Shows, Submitted, Active
<1>5. ASSUME NEW s \in Surfaces, OnCommit(s) PROVE UseInv'
  <2>. DEFINE e == CommittedEntries(s)
              t == CommittedSurfaces(s)
              n == Attached(surfaces[s])
              p == surfaces[s].current
              attach == surfaces[s].attachment # "Unchanged"
  <2>1. e \in Entries /\ t \in SurfaceTable /\ surfaces[s] \in SurfaceState
    BY <1>5, CommitRetires
  <2>2. /\ SameActive(e)
        /\ \A x \in Buffers : Active(buffers, x) =>
             e[x].use = IF ~attach THEN buffers[x].use
                        ELSE IF x = n THEN SubmitUse(buffers[x].use)
                        ELSE IF x = p THEN DetachUse(buffers[x].use)
                        ELSE buffers[x].use
        /\ n \in Buffers => Active(buffers, n)
    BY <1>5, CommitEnds
  <2>3. /\ \A x \in Surfaces : x # s => t[x] = surfaces[x]
        /\ t[s] = PrepareCommit(surfaces[s])
        /\ t[s].current = IF attach THEN n ELSE p
        /\ t[s] # None /\ surfaces[s] # None
    <3>1. PrepareCommit(surfaces[s]) \in SurfaceState
      BY <2>1, SurfaceTypes
    <3>2. PrepareCommit(surfaces[s]).current = IF attach THEN n ELSE p
      BY DEF PrepareCommit
    <3>. QED
      BY <2>1, <3>1, <3>2, TablesAssumption DEF CommittedSurfaces, Tables, SurfaceTable
  <2>4. uses' = IF attach THEN UsesAfter(s, p, n) ELSE uses
    BY <1>5 DEF OnCommit
  <2>5. CASE ~attach
    <3>1. Kept(e, uses')
      BY <2>2, <2>4, <2>5, KeptSame DEF UseInv, SameActive
    <3>2. Shows(t, uses')
      BY <2>3, <2>4, <2>5 DEF UseInv, Shows
    <3>. QED
      BY <1>5, <2>1, <3>1, <3>2, CommitEnds, EndsKeepUses
  <2>6. CASE attach
    <3>. HIDE DEF e, t, n, p
    <3>1. \A b \in Buffers : uses'[b] =
             IF b = n THEN uses[b] \cup {<<s, "current">>}
             ELSE IF b = p /\ <<s, "current">> \in uses[b]
             THEN (uses[b] \ {<<s, "current">>}) \cup {<<s, "detached">>}
             ELSE uses[b]
      BY <2>4, <2>6 DEF UsesAfter
    <3>0. /\ \A x, y : <<x, "current">> # <<y, "detached">>
          /\ \A x, y : <<x, "current">> = <<y, "current">> => x = y
      OBVIOUS
    <3>2. Kept(e, uses')
      <4>1. SUFFICES ASSUME NEW b \in Buffers, uses'[b] # {}
                     PROVE  /\ Submitted(e, b)
                            /\ (\E x \in Surfaces : <<x, "detached">> \in uses'[b])
                                 => e[b].use = "AwaitingDetached"
        BY DEF Kept
      <4>2. CASE b = n
        <5>1. Active(e, b) /\ e[b].use = SubmitUse(buffers[b].use)
          BY <2>2, <2>6, <4>2 DEF SameActive
        <5>2. Submitted(e, b)
          BY <5>1 DEF Submitted, SubmitUse, AwaitingUse
        <5>3. ASSUME NEW x \in Surfaces, <<x, "detached">> \in uses'[b]
              PROVE  e[b].use = "AwaitingDetached"
          <6>1. <<x, "detached">> \in uses[b]
            BY <3>0, <3>1, <4>2, <5>3
          <6>2. buffers[b].use = "AwaitingDetached"
            BY <6>1 DEF UseInv, Kept
          <6>. QED
            BY <5>1, <6>2 DEF SubmitUse, AwaitingUse
        <5>. QED
          BY <5>2, <5>3
      <4>3. CASE b # n /\ b = p
        <5>1. uses[b] # {}
          BY <3>1, <4>1, <4>3
        <5>2. Active(buffers, b) /\ buffers[b].use \in AwaitingUse
          BY <5>1 DEF UseInv, Kept, Submitted
        <5>3. Active(e, b) /\ e[b].use = DetachUse(buffers[b].use)
          BY <2>2, <2>6, <4>3, <5>2 DEF SameActive
        <5>. QED
          BY <5>2, <5>3 DEF Submitted, DetachUse, AwaitingUse
      <4>4. CASE b # n /\ b # p
        <5>1. uses'[b] = uses[b]
          BY <3>1, <4>4
        <5>2. Active(buffers, b) => Active(e, b) /\ e[b].use = buffers[b].use
          BY <2>2, <4>4 DEF SameActive
        <5>. QED
          BY <4>1, <5>1, <5>2 DEF UseInv, Kept, Submitted
      <4>. QED
        BY <4>2, <4>3, <4>4
    <3>3. Shows(t, uses')
      <4>1. SUFFICES ASSUME NEW x \in Surfaces, NEW b \in Buffers, <<x, "current">> \in uses'[b]
                     PROVE  t[x] # None /\ t[x].current = b
        BY DEF Shows
      <4>2. CASE x = s
        <5>1. CASE b = n
          BY <2>3, <2>6, <4>2, <5>1
        <5>2. CASE b # n
          <6>1. <<s, "current">> \in uses[b]
            BY <3>0, <3>1, <4>1, <4>2, <5>2
          <6>2. b = p
            BY <6>1 DEF UseInv, Shows, p
          <6>. QED
            BY <3>0, <3>1, <4>1, <4>2, <5>2, <6>1, <6>2
        <5>. QED
          BY <5>1, <5>2
      <4>3. CASE x # s
        <5>1. <<x, "current">> \in uses[b]
          <6>1. <<x, "current">> # <<s, "current">> /\ <<x, "current">> # <<s, "detached">>
            BY <3>0, <4>3
          <6>. QED
            BY <3>1, <4>1, <6>1, Zenon
        <5>. QED
          BY <2>3, <4>3, <5>1 DEF UseInv, Shows
      <4>. QED
        BY <4>2, <4>3
    <3>. QED
      BY <1>5, <2>1, <3>2, <3>3, CommitEnds, EndsKeepUses DEF e, t
  <2>. QED
    BY <2>5, <2>6
<1>6. ASSUME NEW e \in Entries, Ends(<<>>, e, surfaces), SameUse(e), UNCHANGED uses
      PROVE  UseInv'
  <2>1. Kept(e, uses')
    BY <1>6, KeptSame DEF SameUse, SameActive, UseInv
  <2>2. Shows(surfaces, uses') /\ surfaces \in SurfaceTable
    BY <1>6 DEF UseInv, Tables
  <2>. QED
    BY <1>6, <2>1, <2>2, EndsKeepUses
<1>7. ASSUME NEW s \in Surfaces, CommitCopyFails(s) \/ CommitFatal(s) PROVE UseInv'
  <2>1. UNCHANGED uses
    BY <1>7 DEF CommitCopyFails, CommitFatal, CommitFails
  <2>. QED
    BY <1>6, <1>7, <2>1, FailEnds
<1>8. ASSUME NEW s \in Surfaces, DestroySurface(s) PROVE UseInv'
  <2>. DEFINE e == EntriesWithout(s)
              t == RemainingSurfaces(s)
  <2>1. e \in Entries /\ t \in SurfaceTable /\ surfaces[s] \in SurfaceState
    BY <1>8, DestroySurfaceRetires
  <2>2. /\ SameActive(e)
        /\ \A x \in Buffers : Active(buffers, x) =>
              e[x].use = IF /\ x = surfaces[s].current /\ x \notin Current(t)
                            /\ buffers[x].use = "Awaiting"
                         THEN "NeverSubmitted" ELSE buffers[x].use
    BY <1>8, SurfaceEnds
  <2>3. \A b \in Buffers : uses'[b] = uses[b] \ {<<s, "current">>}
    BY <1>8 DEF DestroySurface
  <2>4. \A x \in Surfaces : x # s => t[x] = surfaces[x]
    BY DEF RemainingSurfaces, Tables, SurfaceTable
  <2>5. Shows(t, uses')
    BY <2>3, <2>4 DEF UseInv, Shows
  <2>. HIDE DEF e, t
  <2>6. Kept(e, uses')
    <3>1. SUFFICES ASSUME NEW b \in Buffers, uses'[b] # {}
                   PROVE  /\ Submitted(e, b)
                          /\ (\E x \in Surfaces : <<x, "detached">> \in uses'[b])
                               => e[b].use = "AwaitingDetached"
      BY DEF Kept
    <3>2. /\ Active(buffers, b) /\ buffers[b].use \in AwaitingUse
          /\ \A x \in Surfaces : <<x, "detached">> \in uses[b]
               => buffers[b].use = "AwaitingDetached"
      BY <2>3, <3>1 DEF UseInv, Kept, Submitted
    <3>3. CASE \E x \in Surfaces : <<x, "detached">> \in uses'[b]
      <4>1. buffers[b].use = "AwaitingDetached"
        BY <2>3, <3>2, <3>3
      <4>. QED
        BY <2>2, <3>2, <4>1 DEF Submitted, SameActive, AwaitingUse
    <3>4. CASE ~\E x \in Surfaces : <<x, "detached">> \in uses'[b]
      <4>1. PICK x \in Surfaces : <<x, "current">> \in uses'[b]
        <5>1. uses[b] \in SUBSET (Surfaces \X {"current", "detached"})
          BY DEF UseTable
        <5>2. PICK u \in uses'[b] : TRUE
          BY <3>1
        <5>3. PICK x \in Surfaces, k \in {"current", "detached"} : u = <<x, k>>
          BY <2>3, <5>1, <5>2
        <5>. QED
          BY <3>4, <5>2, <5>3
      <4>2. t[x] # None /\ t[x].current = b
        BY <2>5, <4>1 DEF Shows
      <4>3. b \in Current(t)
        BY <4>2 DEF Current
      <4>. QED
        BY <2>2, <3>2, <3>4, <4>3 DEF Submitted, SameActive
    <3>. QED
      BY <3>3, <3>4
  <2>. QED
    BY <1>8, <2>1, <2>5, <2>6, SurfaceEnds, EndsKeepUses DEF e, t
<1>9. ASSUME NEW b \in Buffers, DestroyBuffer(b) PROVE UseInv'
  <2>1. UNCHANGED uses
    BY <1>9 DEF DestroyBuffer
  <2>. QED
    BY <1>6, <1>9, <2>1, BufferEnds
<1>10. ASSUME OnRelease PROVE UseInv'
  <2>1. EventBuffer \in Buffers
    BY <1>10, ReleaseEnds
  <2>2. CASE ~Active(buffers, EventBuffer)
    BY <1>2, <1>10, <2>2, ReleaseEnds
  <2>3. CASE Active(buffers, EventBuffer)
    <3>1. uses' = [uses EXCEPT ![EventBuffer] = {}]
      BY <1>10, <2>3, ReleaseEnds
    <3>2. PICK e \in Entries :
            /\ Ends(<<>>, e, surfaces) /\ SameActive(e)
            /\ \A x \in Buffers : Active(e, x) /\ x # EventBuffer => e[x].use = buffers[x].use
      BY <1>10, <2>3, ReleaseEnds
    <3>3. \A b \in Buffers : uses'[b] = IF b = EventBuffer THEN {} ELSE uses[b]
      BY <3>1 DEF UseTable
    <3>4. Kept(e, uses')
      BY <3>2, <3>3 DEF Kept, Submitted, SameActive, UseInv
    <3>5. Shows(surfaces, uses') /\ surfaces \in SurfaceTable
      BY <3>3 DEF Shows, UseInv, Tables
    <3>. QED
      BY <3>2, <3>4, <3>5, EndsKeepUses
  <2>. QED
    BY <2>2, <2>3
<1>11. ASSUME OnDeleteId PROVE UseInv'
  <2>. DEFINE b == Head(toProxy).buffer
  <2>1. b \in Buffers /\ toProxy # <<>> /\ Head(toProxy).op = "delete_id"
    BY <1>11, NextEvent DEF OnDeleteId, Take
  <2>2. buffers' = [buffers EXCEPT ![b] = None] /\ UNCHANGED <<surfaces, uses>>
    BY <1>11 DEF OnDeleteId
  <2>3. ~Active(buffers, b)
    <3>1. Head(toProxy) = toProxy[1] /\ 1 \in 1 .. Len(toProxy)
      BY <2>1, QueueTail DEF Queues
    <3>. QED
      BY <2>1, <3>1 DEF DestroyInv
  <2>. HIDE DEF b
  <2>4. \A x \in Buffers : Active(buffers, x) => Active(buffers', x) /\ buffers'[x].use = buffers[x].use
    BY <2>1, <2>2, <2>3 DEF Tables, Entries, Active
  <2>5. Kept(buffers', uses)
    BY <2>4, KeptSame DEF UseInv
  <2>. QED
    BY <2>2, <2>5 DEF UseInv
<1>12. ASSUME (\E b, R : Draw(b, R)) \/ HostReceive \/ (\E b \in Buffers : HostRelease(b))
              \/ UNCHANGED vars
       PROVE  UseInv'
  <2>1. UNCHANGED <<surfaces, buffers, uses>>
    BY <1>12 DEF Draw, HostReceive, HostRelease, HostKeeps, vars, proxy
  <2>. QED
    BY <1>2, <2>1
<1>. QED
  <2>. HIDE DEF CoreTypes
  <2>. QED
    BY <1>1, <1>3, <1>4, <1>5, <1>7, <1>8, <1>9, <1>10, <1>11, <1>12, StepKinds

-----------------------------------------------------------------------------
(* RenderBuffers and the host, which reads the requests later: what the    *)
(* host will have seen of a surface once it has read the queue is what the *)
(* proxy believes, it is told to destroy no buffer that it still needs     *)
(* then, and the damage of a commit is in the storage it is shown.         *)
(*                                                                         *)
(* The first two follow the host through the requests in flight: ts[i] are *)
(* its surfaces and tu[i] its uses after the first i of them.  The last    *)
(* follows the pixels the guest drew to the damage the surface holds for   *)
(* them and on to the buffer's storage, across failed commits.             *)

-----------------------------------------------------------------------------
(* The host's surfaces along the queue                                     *)

\* The host can read r: a destroyed buffer is pending nowhere, any other
\* request names a surface that is there.
Fits(h, r) ==
  IF r.op = "destroy" THEN \A s \in Surfaces : h[s] # None => h[s].pending # r.buffer
  ELSE h[r.surface] # None

Trace(ts, q) ==
  /\ ts \in [0 .. Len(q) -> HostTable]
  /\ \A i \in 1 .. Len(q) : Fits(ts[i - 1], q[i]) /\ ts[i] = Sees(ts[i - 1], q[i])

\* The proxy's surfaces t describe the host's surfaces h.
Agrees(h, t) ==
  \A s \in Surfaces :
    /\ t[s] = None <=> h[s] = None
    /\ t[s] # None => /\ h[s].pending = t[s].attachment
                      /\ t[s].current \in {None, h[s].current}

\* A trace of n requests with one more state, with m more states like its
\* last, without its first.
Extend(ts, n, x) == [i \in 0 .. n + 1 |-> IF i =< n THEN ts[i] ELSE x]
Hold(ts, n, m) == [i \in 0 .. n + m |-> IF i =< n THEN ts[i] ELSE ts[n]]
Rest(ts, n) == [i \in 0 .. n - 1 |-> ts[i + 1]]

LEMMA TraceAppend ==
  ASSUME NEW q \in Seq(Request), NEW r \in Request, NEW ts, Trace(ts, q), Fits(ts[Len(q)], r)
  PROVE  Trace(Extend(ts, Len(q), Sees(ts[Len(q)], r)), q \o <<r>>)
<1>. DEFINE n == Len(q)
            x == Sees(ts[n], r)
            us == Extend(ts, n, x)
            p == q \o <<r>>
<1>1. /\ Len(p) = n + 1 /\ n \in Nat /\ p[n + 1] = r
      /\ \A i \in 1 .. n : p[i] = q[i]
  BY QueueAppend
<1>2. ts \in [0 .. n -> HostTable] /\ ts[n] \in HostTable
  BY <1>1 DEF Trace
<1>3. x \in HostTable
  BY <1>2, SeesType DEF Fits
<1>. HIDE DEF n, p
<1>4. us \in [0 .. n + 1 -> HostTable]
  <2>. HIDE DEF x
  <2>. QED
    BY <1>1, <1>2, <1>3 DEF Extend
<1>5. ASSUME NEW i \in 1 .. n + 1 PROVE Fits(us[i - 1], p[i]) /\ us[i] = Sees(us[i - 1], p[i])
  <2>1. CASE i = n + 1
    <3>1. us[i - 1] = ts[n] /\ us[i] = x
      BY <1>1, <2>1 DEF Extend
    <3>. QED
      BY <1>1, <2>1, <3>1 DEF n
  <2>2. CASE i # n + 1
    <3>1. i \in 1 .. n
      BY <1>1, <2>2
    <3>2. us[i - 1] = ts[i - 1] /\ us[i] = ts[i]
      BY <1>1, <3>1 DEF Extend
    <3>. QED
      BY <1>1, <3>1, <3>2 DEF Trace, n
  <2>. QED
    BY <2>1, <2>2
<1>. QED
  BY <1>1, <1>4, <1>5 DEF Trace, n, p

LEMMA TraceDestroy ==
  ASSUME NEW q \in Seq(Request), NEW d \in Seq(Request), NEW S, NEW ts, Trace(ts, q),
         Destroys(d, S),
         \A b \in S, s \in Surfaces : ts[Len(q)][s] # None => ts[Len(q)][s].pending # b
  PROVE  Trace(Hold(ts, Len(q), Len(d)), q \o d)
<1>. DEFINE n == Len(q)
            m == Len(d)
            us == Hold(ts, n, m)
            p == q \o d
<1>1. /\ Len(p) = n + m /\ n \in Nat /\ m \in Nat
      /\ \A i \in 1 .. n + m : p[i] = IF i <= n THEN q[i] ELSE d[i - n]
  BY ConcatProperties, LenProperties
<1>2. ts \in [0 .. n -> HostTable] /\ ts[n] \in HostTable
  BY <1>1 DEF Trace
<1>. HIDE DEF n, m, p
<1>4. us \in [0 .. n + m -> HostTable]
  BY <1>1, <1>2 DEF Hold
<1>5. ASSUME NEW i \in 1 .. n + m PROVE Fits(us[i - 1], p[i]) /\ us[i] = Sees(us[i - 1], p[i])
  <2>1. CASE i > n
    <3>1. us[i - 1] = ts[n] /\ us[i] = ts[n]
      BY <1>1, <2>1 DEF Hold
    <3>2. p[i] = d[i - n] /\ i - n \in 1 .. m
      BY <1>1, <2>1
    <3>3. p[i].op = "destroy" /\ p[i].buffer \in S
      BY <3>2 DEF Destroys, m
    <3>. QED
      BY <3>1, <3>3 DEF Fits, Sees, n
  <2>2. CASE ~(i > n)
    <3>1. i \in 1 .. n
      BY <1>1, <2>2
    <3>2. us[i - 1] = ts[i - 1] /\ us[i] = ts[i]
      BY <1>1, <3>1 DEF Hold
    <3>. QED
      BY <1>1, <3>1, <3>2 DEF Trace, n
  <2>. QED
    BY <2>1, <2>2
<1>. QED
  BY <1>1, <1>4, <1>5 DEF Trace, n, m, p

LEMMA TraceTail ==
  ASSUME NEW q \in Seq(Request), q # <<>>, NEW ts, Trace(ts, q)
  PROVE  /\ Trace(Rest(ts, Len(q)), Tail(q))
         /\ Rest(ts, Len(q))[0] = Sees(ts[0], Head(q)) /\ Fits(ts[0], Head(q))
         /\ Rest(ts, Len(q))[Len(Tail(q))] = ts[Len(q)]
<1>. DEFINE n == Len(q)
            us == Rest(ts, n)
            p == Tail(q)
<1>1. /\ Len(p) = n - 1 /\ n \in Nat /\ n >= 1 /\ Head(q) = q[1]
      /\ \A i \in 1 .. n - 1 : p[i] = q[i + 1]
  BY QueueTail
<1>2. ts \in [0 .. n -> HostTable]
  BY DEF Trace
<1>3. \A i \in 1 .. n : Fits(ts[i - 1], q[i]) /\ ts[i] = Sees(ts[i - 1], q[i])
  BY DEF Trace
<1>. HIDE DEF n, p
<1>4. us \in [0 .. n - 1 -> HostTable]
  BY <1>1, <1>2 DEF Rest
<1>5. ASSUME NEW i \in 1 .. n - 1 PROVE Fits(us[i - 1], p[i]) /\ us[i] = Sees(us[i - 1], p[i])
  <2>1. us[i - 1] = ts[i] /\ us[i] = ts[i + 1]
    BY <1>1 DEF Rest
  <2>2. i + 1 \in 1 .. n /\ (i + 1) - 1 = i
    BY <1>1
  <2>3. Fits(ts[i], q[i + 1]) /\ ts[i + 1] = Sees(ts[i], q[i + 1])
    BY <1>3, <2>2
  <2>. QED
    BY <1>1, <2>1, <2>3
<1>6. us[0] = ts[1] /\ us[n - 1] = ts[n]
  BY <1>1 DEF Rest
<1>7. Fits(ts[0], q[1]) /\ ts[1] = Sees(ts[0], q[1])
  <2>1. 1 \in 1 .. n /\ 1 - 1 = 0
    BY <1>1
  <2>. QED
    BY <1>3, <2>1
<1>. QED
  BY <1>1, <1>4, <1>5, <1>6, <1>7 DEF Trace, n, p

-----------------------------------------------------------------------------
(* The host's uses along the queue                                         *)

UsePairs == SUBSET (Surfaces \X Buffers)

\* Some surface uses b; the request r starts a use of b.
Used(u, b) == \E s \in Surfaces : <<s, b>> \in u
Starts(h, r, b) == r.op = "commit" /\ h[r.surface].pending = b

\* The uses tu along a queue: a use starts only of a buffer that was not in use
\* up to then, a buffer is in use without gaps, and one that is destroyed is
\* not in use then nor later.
UseTrace(ts, tu, q) ==
  /\ tu \in [0 .. Len(q) -> UsePairs]
  /\ \A i \in 1 .. Len(q) : tu[i] = UsesThen(ts[i - 1], tu[i - 1], q[i])
  /\ \A i \in 1 .. Len(q), b \in Buffers : Starts(ts[i - 1], q[i], b) =>
       \A j \in 0 .. Len(q) : j < i => ~Used(tu[j], b)
  /\ \A b \in Buffers, i \in 0 .. Len(q), j \in 0 .. Len(q), k \in 0 .. Len(q) :
       i =< j /\ j =< k /\ Used(tu[i], b) /\ Used(tu[k], b) => Used(tu[j], b)
  /\ \A i \in 1 .. Len(q) : q[i].op = "destroy" =>
       \A j \in 0 .. Len(q) : i - 1 =< j => ~Used(tu[j], q[i].buffer)

LEMMA UseStep ==
  ASSUME NEW h, NEW r \in Request, NEW u \in UsePairs, NEW b \in Buffers
  PROVE  /\ Used(UsesThen(h, u, r), b) => Used(u, b) \/ Starts(h, r, b)
         /\ \A s \in Surfaces : <<s, b>> \in UsesThen(h, u, r) =>
              \/ <<s, b>> \in u
              \/ Starts(h, r, b) /\ s = r.surface
         /\ r.op = "destroy" /\ ~Used(u, r.buffer) => UsesThen(h, u, r) = u
<1>1. ASSUME NEW s \in Surfaces, <<s, b>> \in UsesThen(h, u, r)
      PROVE  \/ <<s, b>> \in u
             \/ Starts(h, r, b) /\ s = r.surface
  <2>1. CASE r.op = "commit"
    <3>1. <<s, b>> \in u \cup {<<r.surface, h[r.surface].pending>>}
      BY <1>1, <2>1 DEF UsesThen
    <3>. QED
      BY <2>1, <3>1 DEF Starts
  <2>2. CASE r.op # "commit"
    BY <1>1, <2>2, RequestCases DEF UsesThen
  <2>. QED
    BY <2>1, <2>2
<1>2. ASSUME r.op = "destroy", ~Used(u, r.buffer) PROVE UsesThen(h, u, r) = u
  <2>1. \A v \in u : v[2] # r.buffer
    <3>1. SUFFICES ASSUME NEW v \in u, v[2] = r.buffer PROVE FALSE
      OBVIOUS
    <3>2. v = <<v[1], v[2]>> /\ v[1] \in Surfaces
      BY DEF UsePairs
    <3>. QED
      BY <1>2, <3>1, <3>2 DEF Used
  <2>. QED
    BY <1>2, <2>1 DEF UsesThen
<1>. QED
  BY <1>1, <1>2 DEF Used

LEMMA UseAppend ==
  ASSUME NEW q \in Seq(Request), NEW r \in Request, r.op # "destroy", NEW ts, NEW tu,
         ts \in [0 .. Len(q) -> HostTable], UseTrace(ts, tu, q),
         \A b \in Buffers : Starts(ts[Len(q)], r, b) =>
           /\ \A j \in 0 .. Len(q) : ~Used(tu[j], b)
           /\ \A i \in 1 .. Len(q) : q[i].op = "destroy" => q[i].buffer # b,
         NEW x
  PROVE  UseTrace(Extend(ts, Len(q), x),
                  Extend(tu, Len(q), UsesThen(ts[Len(q)], tu[Len(q)], r)), q \o <<r>>)
<1>. DEFINE n == Len(q)
            y == UsesThen(ts[n], tu[n], r)
            us == Extend(ts, n, x)
            uu == Extend(tu, n, y)
            p == q \o <<r>>
<1>1. /\ Len(p) = n + 1 /\ n \in Nat /\ p[n + 1] = r
      /\ \A i \in 1 .. n : p[i] = q[i]
  BY QueueAppend
<1>2. tu \in [0 .. n -> UsePairs] /\ tu[n] \in UsePairs
  BY <1>1 DEF UseTrace
<1>3. y \in UsePairs
  BY <1>2, UsesThenType DEF UsePairs
<1>4. ASSUME NEW b \in Buffers, Used(y, b) PROVE Used(tu[n], b) \/ Starts(ts[n], r, b)
  BY <1>2, <1>4, UseStep
<1>5. /\ \A i \in 0 .. n : us[i] = ts[i] /\ uu[i] = tu[i]
      /\ uu[n + 1] = y
  <2>. HIDE DEF n, y
  <2>. QED
    BY <1>1 DEF Extend
<1>5a. /\ \A i \in 1 .. n : tu[i] = UsesThen(ts[i - 1], tu[i - 1], q[i])
       /\ \A i \in 1 .. n, b \in Buffers : Starts(ts[i - 1], q[i], b) =>
            \A j \in 0 .. n : j < i => ~Used(tu[j], b)
       /\ \A b \in Buffers, i \in 0 .. n, j \in 0 .. n, k \in 0 .. n :
            i =< j /\ j =< k /\ Used(tu[i], b) /\ Used(tu[k], b) => Used(tu[j], b)
       /\ \A i \in 1 .. n : q[i].op = "destroy" =>
            \A j \in 0 .. n : i - 1 =< j => ~Used(tu[j], q[i].buffer)
  BY DEF UseTrace
<1>5b. \A b \in Buffers : Starts(ts[n], r, b) =>
           /\ \A j \in 0 .. n : ~Used(tu[j], b)
           /\ \A i \in 1 .. n : q[i].op = "destroy" => q[i].buffer # b
  OBVIOUS
<1>5c. y = UsesThen(ts[n], tu[n], r)
  OBVIOUS
<1>5d. \A i \in 1 .. n : q[i].op = "destroy" => q[i].buffer \in Buffers
  BY ElementOfSeq, RequestCases
<1>5e. uu = [i \in 0 .. n + 1 |-> IF i =< n THEN tu[i] ELSE y]
  BY DEF Extend
<1>. HIDE DEF n, p, y, us, uu
<1>6. uu \in [0 .. n + 1 -> UsePairs]
  BY <1>1, <1>2, <1>3, <1>5e
<1>7. ASSUME NEW i \in 1 .. n + 1 PROVE uu[i] = UsesThen(us[i - 1], uu[i - 1], p[i])
  <2>1. CASE i = n + 1
    <3>1. i - 1 = n /\ n \in 0 .. n
      BY <1>1, <2>1
    <3>. QED
      BY <1>1, <1>5, <1>5c, <2>1, <3>1
  <2>2. CASE i # n + 1
    <3>1. i \in 1 .. n /\ i \in 0 .. n /\ i - 1 \in 0 .. n
      BY <1>1, <2>2
    <3>. QED
      BY <1>1, <1>5, <1>5a, <3>1
  <2>. QED
    BY <2>1, <2>2
<1>8. ASSUME NEW i \in 1 .. n + 1, NEW b \in Buffers, Starts(us[i - 1], p[i], b),
             NEW j \in 0 .. n + 1, j < i
      PROVE  ~Used(uu[j], b)
  <2>0. j \in 0 .. n /\ uu[j] = tu[j]
    BY <1>1, <1>5, <1>8
  <2>1. CASE i = n + 1
    <3>1. i - 1 = n /\ n \in 0 .. n
      BY <1>1, <2>1
    <3>. QED
      BY <1>1, <1>5, <1>5b, <1>8, <2>0, <2>1, <3>1
  <2>2. CASE i # n + 1
    <3>1. i \in 1 .. n /\ i - 1 \in 0 .. n
      BY <1>1, <2>2
    <3>. QED
      BY <1>1, <1>5, <1>5a, <1>8, <2>0, <3>1
  <2>. QED
    BY <2>1, <2>2
<1>9. ASSUME NEW b \in Buffers, NEW i \in 0 .. n + 1, NEW j \in 0 .. n + 1, NEW k \in 0 .. n + 1,
             i =< j, j =< k, Used(uu[i], b), Used(uu[k], b)
      PROVE  Used(uu[j], b)
  <2>1. CASE k =< n
    <3>1. i \in 0 .. n /\ j \in 0 .. n /\ k \in 0 .. n
      BY <1>1, <1>9, <2>1
    <3>. QED
      BY <1>5, <1>5a, <1>9, <3>1
  <2>2. CASE j = k \/ i = j
    BY <1>9, <2>2
  <2>3. CASE k = n + 1 /\ i # j /\ j # k
    <3>1. i \in 0 .. n /\ j \in 0 .. n /\ n \in 0 .. n /\ j =< n
      BY <1>1, <1>9, <2>3
    <3>2. Used(y, b) /\ Used(tu[i], b)
      BY <1>5, <1>9, <2>3, <3>1
    <3>3. Used(tu[n], b)
      BY <1>4, <1>5b, <3>1, <3>2
    <3>. QED
      BY <1>5, <1>5a, <1>9, <3>1, <3>2, <3>3
  <2>. QED
    BY <1>1, <2>1, <2>2, <2>3
<1>10. ASSUME NEW i \in 1 .. n + 1, p[i].op = "destroy", NEW j \in 0 .. n + 1, i - 1 =< j
       PROVE  ~Used(uu[j], p[i].buffer)
  <2>1. i \in 1 .. n /\ p[i] = q[i]
    BY <1>1, <1>10
  <2>2. CASE j \in 0 .. n
    BY <1>5, <1>5a, <1>10, <2>1, <2>2
  <2>3. CASE j = n + 1
    <3>1. n \in 0 .. n /\ i - 1 =< n /\ q[i].buffer \in Buffers
      BY <1>1, <1>5d, <1>10, <2>1
    <3>2. ~Used(tu[n], q[i].buffer) /\ ~Starts(ts[n], r, q[i].buffer)
      BY <1>5a, <1>5b, <1>10, <2>1, <3>1
    <3>. QED
      BY <1>4, <1>5, <2>1, <2>3, <3>1, <3>2
  <2>. QED
    BY <1>1, <2>2, <2>3
<1>. QED
  BY <1>1, <1>6, <1>7, <1>8, <1>9, <1>10 DEF UseTrace, n, p, us, uu, y

LEMMA UseDestroy ==
  ASSUME NEW q \in Seq(Request), NEW d \in Seq(Request), NEW S \in SUBSET Buffers,
         NEW ts, NEW tu, UseTrace(ts, tu, q), Destroys(d, S),
         \A b \in S : ~Used(tu[Len(q)], b)
  PROVE  UseTrace(Hold(ts, Len(q), Len(d)), Hold(tu, Len(q), Len(d)), q \o d)
<1>. DEFINE n == Len(q)
            m == Len(d)
            us == Hold(ts, n, m)
            uu == Hold(tu, n, m)
            p == q \o d
            w(i) == IF i =< n THEN i ELSE n
<1>1. /\ Len(p) = n + m /\ n \in Nat /\ m \in Nat
      /\ \A i \in 1 .. n + m : p[i] = IF i <= n THEN q[i] ELSE d[i - n]
  BY ConcatProperties, LenProperties
<1>2. tu \in [0 .. n -> UsePairs] /\ tu[n] \in UsePairs
  BY <1>1 DEF UseTrace
<1>3. /\ \A i \in 1 .. n : tu[i] = UsesThen(ts[i - 1], tu[i - 1], q[i])
      /\ \A i \in 1 .. n, b \in Buffers : Starts(ts[i - 1], q[i], b) =>
           \A j \in 0 .. n : j < i => ~Used(tu[j], b)
      /\ \A b \in Buffers, i \in 0 .. n, j \in 0 .. n, k \in 0 .. n :
           i =< j /\ j =< k /\ Used(tu[i], b) /\ Used(tu[k], b) => Used(tu[j], b)
      /\ \A i \in 1 .. n : q[i].op = "destroy" =>
           \A j \in 0 .. n : i - 1 =< j => ~Used(tu[j], q[i].buffer)
  BY DEF UseTrace
<1>4. \A i \in 1 .. m : /\ d[i].op = "destroy" /\ d[i].buffer \in S /\ d[i].buffer \in Buffers
                        /\ d[i] \in Request /\ ~Used(tu[n], d[i].buffer)
  BY ElementOfSeq DEF Destroys
<1>5. us = [i \in 0 .. n + m |-> IF i =< n THEN ts[i] ELSE ts[n]]
      /\ uu = [i \in 0 .. n + m |-> IF i =< n THEN tu[i] ELSE tu[n]]
  BY DEF Hold
<1>. HIDE DEF n, m, p, us, uu
<1>6. \A i \in 0 .. n + m : w(i) \in 0 .. n /\ us[i] = ts[w(i)] /\ uu[i] = tu[w(i)]
  BY <1>1, <1>5
<1>7. uu \in [0 .. n + m -> UsePairs]
  BY <1>1, <1>2, <1>5
<1>8. ASSUME NEW i \in 1 .. n + m
      PROVE  \/ /\ i \in 1 .. n /\ p[i] = q[i]
                /\ w(i) = i /\ w(i - 1) = i - 1 /\ i - 1 \in 0 .. n + m /\ i - 1 \in 0 .. n
             \/ /\ i > n /\ i - n \in 1 .. m /\ p[i] = d[i - n]
                /\ w(i) = n /\ w(i - 1) = n /\ i - 1 \in 0 .. n + m /\ n \in 0 .. n
  <2>1. CASE i =< n
    BY <1>1, <2>1
  <2>2. CASE i > n
    BY <1>1, <2>2
  <2>. QED
    BY <1>1, <2>1, <2>2
<1>8a. \A i \in 0 .. n + m, j \in 0 .. n + m : i =< j => w(i) =< w(j)
  BY <1>1
<1>8b. \A i \in 1 .. n, j \in 0 .. n + m : (j < i => w(j) < i) /\ (i - 1 =< j => i - 1 =< w(j))
  BY <1>1
<1>8c. \A i \in 1 .. n + m, j \in 0 .. n + m : i > n /\ i - 1 =< j => w(j) = n
  BY <1>1
<1>. HIDE DEF w
<1>9. ASSUME NEW i \in 1 .. n + m PROVE uu[i] = UsesThen(us[i - 1], uu[i - 1], p[i])
  <2>0. uu[i] = tu[w(i)] /\ us[i - 1] = ts[w(i - 1)] /\ uu[i - 1] = tu[w(i - 1)]
    BY <1>1, <1>6, <1>8
  <2>1. CASE i \in 1 .. n /\ p[i] = q[i] /\ w(i) = i /\ w(i - 1) = i - 1
    BY <1>3, <2>0, <2>1
  <2>2. CASE i - n \in 1 .. m /\ p[i] = d[i - n] /\ w(i) = n /\ w(i - 1) = n
    <3>1. UsesThen(ts[n], tu[n], d[i - n]) = tu[n]
      BY <1>2, <1>4, <2>2, UseStep
    <3>. QED
      BY <2>0, <2>2, <3>1
  <2>. QED
    BY <1>8, <2>1, <2>2
<1>10. ASSUME NEW i \in 1 .. n + m, NEW b \in Buffers, Starts(us[i - 1], p[i], b),
              NEW j \in 0 .. n + m, j < i
       PROVE  ~Used(uu[j], b)
  <2>1. i \in 1 .. n /\ p[i] = q[i] /\ w(i - 1) = i - 1 /\ i - 1 \in 0 .. n + m
    BY <1>4, <1>8, <1>10 DEF Starts
  <2>2. Starts(ts[i - 1], q[i], b)
    BY <1>6, <1>10, <2>1
  <2>. QED
    BY <1>3, <1>6, <1>8b, <1>10, <2>1, <2>2
<1>11. ASSUME NEW b \in Buffers, NEW i \in 0 .. n + m, NEW j \in 0 .. n + m, NEW k \in 0 .. n + m,
              i =< j, j =< k, Used(uu[i], b), Used(uu[k], b)
       PROVE  Used(uu[j], b)
  BY <1>3, <1>6, <1>8a, <1>11
<1>12. ASSUME NEW i \in 1 .. n + m, p[i].op = "destroy", NEW j \in 0 .. n + m, i - 1 =< j
       PROVE  ~Used(uu[j], p[i].buffer)
  <2>1. CASE i \in 1 .. n /\ p[i] = q[i]
    BY <1>3, <1>6, <1>8b, <1>12, <2>1
  <2>2. CASE i > n /\ i - n \in 1 .. m /\ p[i] = d[i - n]
    BY <1>4, <1>6, <1>8c, <1>12, <2>2
  <2>. QED
    BY <1>8, <2>1, <2>2
<1>. QED
  BY <1>1, <1>7, <1>9, <1>10, <1>11, <1>12 DEF UseTrace, n, m, p, us, uu

LEMMA UseTail ==
  ASSUME NEW q \in Seq(Request), q # <<>>, NEW ts, NEW tu, UseTrace(ts, tu, q)
  PROVE  /\ UseTrace(Rest(ts, Len(q)), Rest(tu, Len(q)), Tail(q))
         /\ Rest(tu, Len(q))[0] = UsesThen(ts[0], tu[0], Head(q))
         /\ \A j \in 0 .. Len(Tail(q)) : /\ j + 1 \in 0 .. Len(q)
                                         /\ Rest(tu, Len(q))[j] = tu[j + 1]
         /\ Rest(tu, Len(q))[Len(Tail(q))] = tu[Len(q)]
<1>. DEFINE n == Len(q)
            us == Rest(ts, n)
            uu == Rest(tu, n)
            p == Tail(q)
<1>1. /\ Len(p) = n - 1 /\ n \in Nat /\ n >= 1 /\ Head(q) = q[1]
      /\ \A i \in 1 .. n - 1 : p[i] = q[i + 1]
  BY QueueTail
<1>2. tu \in [0 .. n -> UsePairs]
  BY DEF UseTrace
<1>3. /\ \A i \in 1 .. n : tu[i] = UsesThen(ts[i - 1], tu[i - 1], q[i])
      /\ \A i \in 1 .. n, b \in Buffers : Starts(ts[i - 1], q[i], b) =>
           \A j \in 0 .. n : j < i => ~Used(tu[j], b)
      /\ \A b \in Buffers, i \in 0 .. n, j \in 0 .. n, k \in 0 .. n :
           i =< j /\ j =< k /\ Used(tu[i], b) /\ Used(tu[k], b) => Used(tu[j], b)
      /\ \A i \in 1 .. n : q[i].op = "destroy" =>
           \A j \in 0 .. n : i - 1 =< j => ~Used(tu[j], q[i].buffer)
  BY DEF UseTrace
<1>4. us = [i \in 0 .. n - 1 |-> ts[i + 1]] /\ uu = [i \in 0 .. n - 1 |-> tu[i + 1]]
  BY DEF Rest
<1>. HIDE DEF n, p, us, uu
<1>5. uu \in [0 .. n - 1 -> UsePairs]
  BY <1>1, <1>2, <1>4
<1>6. \A i \in 0 .. n - 1 : i + 1 \in 0 .. n /\ us[i] = ts[i + 1] /\ uu[i] = tu[i + 1]
  BY <1>1, <1>4
<1>7. \A i \in 1 .. n - 1 : i + 1 \in 1 .. n /\ (i + 1) - 1 = i /\ i - 1 \in 0 .. n - 1
                            /\ i \in 0 .. n - 1 /\ (i - 1) + 1 = i
  BY <1>1
<1>8. ASSUME NEW i \in 1 .. n - 1
      PROVE  /\ uu[i] = tu[i + 1] /\ us[i - 1] = ts[i] /\ uu[i - 1] = tu[i] /\ p[i] = q[i + 1]
             /\ tu[i + 1] = UsesThen(ts[i], tu[i], q[i + 1])
             /\ \A b \in Buffers : Starts(ts[i], q[i + 1], b) =>
                  \A j \in 0 .. n : j < i + 1 => ~Used(tu[j], b)
             /\ q[i + 1].op = "destroy" =>
                  \A j \in 0 .. n : i =< j => ~Used(tu[j], q[i + 1].buffer)
  <2>1. uu[i] = tu[i + 1] /\ us[i - 1] = ts[i] /\ uu[i - 1] = tu[i] /\ p[i] = q[i + 1]
    <3>1. us[i - 1] = ts[(i - 1) + 1] /\ uu[i - 1] = tu[(i - 1) + 1]
      BY <1>6, <1>7
    <3>. QED
      BY <1>1, <1>6, <1>7, <3>1
  <2>2. tu[i + 1] = UsesThen(ts[(i + 1) - 1], tu[(i + 1) - 1], q[i + 1])
    BY <1>3, <1>7
  <2>3. \A b \in Buffers : Starts(ts[(i + 1) - 1], q[i + 1], b) =>
                  \A j \in 0 .. n : j < i + 1 => ~Used(tu[j], b)
    BY <1>3, <1>7
  <2>4. q[i + 1].op = "destroy" =>
          \A j \in 0 .. n : (i + 1) - 1 =< j => ~Used(tu[j], q[i + 1].buffer)
    BY <1>3, <1>7
  <2>. QED
    BY <1>7, <2>1, <2>2, <2>3, <2>4
<1>9. ASSUME NEW i \in 1 .. n - 1, NEW b \in Buffers, Starts(us[i - 1], p[i], b),
             NEW j \in 0 .. n - 1, j < i
      PROVE  ~Used(uu[j], b)
  <2>1. j + 1 \in 0 .. n /\ j + 1 < i + 1 /\ uu[j] = tu[j + 1]
    BY <1>1, <1>6, <1>9
  <2>. QED
    BY <1>8, <1>9, <2>1
<1>10. ASSUME NEW b \in Buffers, NEW i \in 0 .. n - 1, NEW j \in 0 .. n - 1, NEW k \in 0 .. n - 1,
              i =< j, j =< k, Used(uu[i], b), Used(uu[k], b)
       PROVE  Used(uu[j], b)
  <2>1. i + 1 =< j + 1 /\ j + 1 =< k + 1
    BY <1>1, <1>10
  <2>. QED
    BY <1>3, <1>6, <1>10, <2>1
<1>11. ASSUME NEW i \in 1 .. n - 1, p[i].op = "destroy", NEW j \in 0 .. n - 1, i - 1 =< j
       PROVE  ~Used(uu[j], p[i].buffer)
  <2>1. j + 1 \in 0 .. n /\ i =< j + 1 /\ uu[j] = tu[j + 1]
    BY <1>1, <1>6, <1>11
  <2>. QED
    BY <1>8, <1>11, <2>1
<1>12. uu[0] = tu[1] /\ uu[n - 1] = tu[n] /\ tu[1] = UsesThen(ts[0], tu[0], q[1])
  <2>1. 1 \in 1 .. n /\ 1 - 1 = 0 /\ 0 \in 0 .. n - 1 /\ n - 1 \in 0 .. n - 1 /\ (n - 1) + 1 = n
    BY <1>1
  <2>2. tu[1] = UsesThen(ts[1 - 1], tu[1 - 1], q[1])
    BY <1>3, <2>1
  <2>3. uu[0] = tu[0 + 1] /\ uu[n - 1] = tu[(n - 1) + 1]
    BY <1>6, <2>1
  <2>. QED
    BY <2>1, <2>2, <2>3
<1>13. UseTrace(us, uu, p)
  BY <1>1, <1>5, <1>8, <1>9, <1>10, <1>11 DEF UseTrace
<1>. QED
  BY <1>1, <1>6, <1>12, <1>13 DEF n, p, us, uu

\* The uses of a trace of n requests without those of b
Without(u, b) == {v \in u : v[2] # b}
Drop(tu, n, b) == [i \in 0 .. n |-> Without(tu[i], b)]

LEMMA WithoutUse ==
  ASSUME NEW u \in UsePairs, NEW b \in Buffers
  PROVE  /\ Without(u, b) \in UsePairs
         /\ \A x \in Buffers : Used(Without(u, b), x) <=> Used(u, x) /\ x # b
         /\ \A s \in Surfaces, x \in Buffers : <<s, x>> \in Without(u, b) <=> <<s, x>> \in u /\ x # b
<1>1. Without(u, b) \in UsePairs
  BY DEF Without, UsePairs
<1>2. ASSUME NEW s \in Surfaces, NEW x \in Buffers
      PROVE  <<s, x>> \in Without(u, b) <=> <<s, x>> \in u /\ x # b
  BY DEF Without
<1>. QED
  BY <1>1, <1>2 DEF Used

\* A release of b and a request that starts no use of it commute.
LEMMA WithoutThen ==
  ASSUME NEW h, NEW r \in Request, NEW u \in UsePairs, NEW b \in Buffers, ~Starts(h, r, b)
  PROVE  UsesThen(h, Without(u, b), r) = Without(UsesThen(h, u, r), b)
<1>1. CASE r.op = "attach"
  BY <1>1 DEF UsesThen
<1>2. CASE r.op = "commit"
  <2>. DEFINE v == <<r.surface, h[r.surface].pending>>
  <2>1. v[2] # b
    BY <1>2 DEF Starts
  <2>. HIDE DEF v
  <2>2. Without(u \cup {v}, b) = Without(u, b) \cup {v}
    BY <2>1 DEF Without
  <2>. QED
    BY <1>2, <2>2 DEF UsesThen, v
<1>3. CASE r.op = "surface_destroy"
  BY <1>3 DEF UsesThen, Without
<1>4. CASE r.op = "destroy"
  BY <1>4 DEF UsesThen, Without
<1>. QED
  BY <1>1, <1>2, <1>3, <1>4, RequestCases

LEMMA UseRelease ==
  ASSUME NEW q \in Seq(Request), NEW ts, NEW tu, UseTrace(ts, tu, q), NEW b \in Buffers,
         Used(tu[0], b)
  PROVE  UseTrace(ts, Drop(tu, Len(q), b), q)
<1>. DEFINE n == Len(q)
            uu == Drop(tu, n, b)
<1>1. n \in Nat /\ tu \in [0 .. n -> UsePairs]
  BY LenProperties DEF UseTrace
<1>2. /\ \A i \in 1 .. n : tu[i] = UsesThen(ts[i - 1], tu[i - 1], q[i])
      /\ \A i \in 1 .. n, x \in Buffers : Starts(ts[i - 1], q[i], x) =>
           \A j \in 0 .. n : j < i => ~Used(tu[j], x)
      /\ \A x \in Buffers, i \in 0 .. n, j \in 0 .. n, k \in 0 .. n :
           i =< j /\ j =< k /\ Used(tu[i], x) /\ Used(tu[k], x) => Used(tu[j], x)
      /\ \A i \in 1 .. n : q[i].op = "destroy" =>
           \A j \in 0 .. n : i - 1 =< j => ~Used(tu[j], q[i].buffer)
  BY DEF UseTrace
<1>3. \A i \in 1 .. n : q[i] \in Request /\ (q[i].op = "destroy" => q[i].buffer \in Buffers)
  BY ElementOfSeq, RequestCases
<1>4. uu = [i \in 0 .. n |-> Without(tu[i], b)]
  BY DEF Drop
<1>. HIDE DEF n, uu
<1>5. uu \in [0 .. n -> UsePairs]
  BY <1>1, <1>4, WithoutUse
<1>6. \A i \in 0 .. n, x \in Buffers : Used(uu[i], x) <=> Used(tu[i], x) /\ x # b
  BY <1>1, <1>4, WithoutUse
<1>7. ASSUME NEW i \in 1 .. n PROVE uu[i] = UsesThen(ts[i - 1], uu[i - 1], q[i])
  <2>1. i \in 0 .. n /\ i - 1 \in 0 .. n /\ 0 \in 0 .. n /\ 0 < i
    BY <1>1
  <2>2. ~Starts(ts[i - 1], q[i], b)
    BY <1>2, <2>1
  <2>3. tu[i - 1] \in UsePairs
    BY <1>1, <2>1
  <2>4. UsesThen(ts[i - 1], Without(tu[i - 1], b), q[i])
          = Without(UsesThen(ts[i - 1], tu[i - 1], q[i]), b)
    BY <1>3, <2>2, <2>3, WithoutThen
  <2>. QED
    BY <1>2, <1>4, <2>1, <2>4
<1>8. ASSUME NEW i \in 1 .. n, q[i].op = "destroy", NEW j \in 0 .. n, i - 1 =< j
      PROVE  ~Used(uu[j], q[i].buffer)
  BY <1>2, <1>3, <1>6, <1>8
<1>. QED
  BY <1>2, <1>5, <1>6, <1>7, <1>8 DEF UseTrace, n, uu

-----------------------------------------------------------------------------
(* The uses and the rest of the state                                      *)

\* Along the queue only buffers are in use that the host has and the guest
\* waits for; a release in flight is the only one of its buffer, which is in use
\* no more; at the end of the queue the proxy knows of every use.
Tracked(tu, q, us, bz, hb, ev) ==
  /\ \A j \in 0 .. Len(q), b \in Buffers : Used(tu[j], b) => b \in hb /\ b \in bz
  /\ \A k \in 1 .. Len(ev) : ev[k].op = "release" =>
       /\ ev[k].buffer \in bz
       /\ \A j \in 0 .. Len(q) : ~Used(tu[j], ev[k].buffer)
       /\ \A l \in 1 .. Len(ev) : ev[l] = ev[k] => l = k
  /\ \A s \in Surfaces, b \in Buffers : <<s, b>> \in tu[Len(q)] =>
       <<s, "current">> \in us[b] \/ <<s, "detached">> \in us[b]

LEMMA TrackedAppend ==
  ASSUME NEW q \in Seq(Request), NEW r \in Request, NEW ts, NEW tu, UseTrace(ts, tu, q),
         NEW us, NEW vs, NEW bz, NEW cz, NEW hb, NEW ev \in Seq(Event),
         Tracked(tu, q, us, bz, hb, ev), bz \subseteq cz,
         \A b \in Buffers : Starts(ts[Len(q)], r, b) => b \in hb /\ b \in cz /\ b \notin bz,
         \A s \in Surfaces, b \in Buffers :
           <<s, b>> \in UsesThen(ts[Len(q)], tu[Len(q)], r) =>
             <<s, "current">> \in vs[b] \/ <<s, "detached">> \in vs[b]
  PROVE  Tracked(Extend(tu, Len(q), UsesThen(ts[Len(q)], tu[Len(q)], r)), q \o <<r>>,
                 vs, cz, hb, ev)
<1>. DEFINE n == Len(q)
            y == UsesThen(ts[n], tu[n], r)
            uu == Extend(tu, n, y)
            p == q \o <<r>>
<1>1. Len(p) = n + 1 /\ n \in Nat /\ n \in 0 .. n
  BY QueueAppend
<1>2. tu[n] \in UsePairs
  BY <1>1 DEF UseTrace
<1>3. \A b \in Buffers : Used(y, b) => Used(tu[n], b) \/ Starts(ts[n], r, b)
  BY <1>2, UseStep
<1>4. \A b \in Buffers : Starts(ts[n], r, b) => b \in hb /\ b \in cz /\ b \notin bz
  OBVIOUS
<1>5. \A s \in Surfaces, b \in Buffers :
           <<s, b>> \in y => <<s, "current">> \in vs[b] \/ <<s, "detached">> \in vs[b]
  OBVIOUS
<1>6. /\ \A j \in 0 .. n, b \in Buffers : Used(tu[j], b) => b \in hb /\ b \in bz
      /\ \A k \in 1 .. Len(ev) : ev[k].op = "release" =>
           /\ ev[k].buffer \in bz
           /\ \A j \in 0 .. n : ~Used(tu[j], ev[k].buffer)
           /\ \A l \in 1 .. Len(ev) : ev[l] = ev[k] => l = k
  BY DEF Tracked
<1>7. uu = [i \in 0 .. n + 1 |-> IF i =< n THEN tu[i] ELSE y]
  BY DEF Extend
<1>8. \A k \in 1 .. Len(ev) : ev[k].buffer \in Buffers
  <2>1. \A k \in 1 .. Len(ev) : ev[k] \in Event
    BY ElementOfSeq
  <2>. QED
    BY <2>1 DEF Event
<1>. HIDE DEF n, p, y, uu
<1>9. \A j \in 0 .. n + 1 : (j \in 0 .. n /\ uu[j] = tu[j]) \/ uu[j] = y
  BY <1>1, <1>7
<1>10. uu[n + 1] = y
  BY <1>1, <1>7
<1>11. \A j \in 0 .. n + 1, b \in Buffers : Used(uu[j], b) => b \in hb /\ b \in cz
  BY <1>1, <1>3, <1>4, <1>6, <1>9
<1>12. ASSUME NEW k \in 1 .. Len(ev), ev[k].op = "release", NEW j \in 0 .. n + 1
       PROVE  ~Used(uu[j], ev[k].buffer)
  BY <1>1, <1>3, <1>4, <1>6, <1>8, <1>9, <1>12
<1>. QED
  BY <1>1, <1>5, <1>6, <1>10, <1>11, <1>12 DEF Tracked, n, p, y, uu

LEMMA TrackedDestroy ==
  ASSUME NEW q \in Seq(Request), NEW d \in Seq(Request), NEW tu,
         NEW us, NEW bz, NEW hb, NEW ev, Tracked(tu, q, us, bz, hb, ev)
  PROVE  Tracked(Hold(tu, Len(q), Len(d)), q \o d, us, bz, hb, ev)
<1>. DEFINE n == Len(q)
            m == Len(d)
            uu == Hold(tu, n, m)
            p == q \o d
<1>1. Len(p) = n + m /\ n \in Nat /\ m \in Nat
  BY ConcatProperties, LenProperties
<1>2. /\ \A j \in 0 .. n, b \in Buffers : Used(tu[j], b) => b \in hb /\ b \in bz
      /\ \A k \in 1 .. Len(ev) : ev[k].op = "release" =>
           /\ ev[k].buffer \in bz
           /\ \A j \in 0 .. n : ~Used(tu[j], ev[k].buffer)
           /\ \A l \in 1 .. Len(ev) : ev[l] = ev[k] => l = k
      /\ \A s \in Surfaces, b \in Buffers : <<s, b>> \in tu[n] =>
           <<s, "current">> \in us[b] \/ <<s, "detached">> \in us[b]
  BY DEF Tracked
<1>3. uu = [i \in 0 .. n + m |-> IF i =< n THEN tu[i] ELSE tu[n]]
  BY DEF Hold
<1>. HIDE DEF n, m, p, uu
<1>4. \A j \in 0 .. n + m : \E i \in 0 .. n : uu[j] = tu[i]
  <2>1. SUFFICES ASSUME NEW j \in 0 .. n + m PROVE \E i \in 0 .. n : uu[j] = tu[i]
    OBVIOUS
  <2>2. CASE j =< n
    <3>1. j \in 0 .. n /\ uu[j] = tu[j]
      BY <1>1, <1>3, <2>2
    <3>. QED
      BY <3>1
  <2>3. CASE ~(j =< n)
    <3>1. n \in 0 .. n /\ uu[j] = tu[n]
      BY <1>1, <1>3, <2>3
    <3>. QED
      BY <3>1
  <2>. QED
    BY <2>2, <2>3
<1>5. uu[n + m] = tu[n]
  BY <1>1, <1>3
<1>. QED
  BY <1>1, <1>2, <1>4, <1>5 DEF Tracked, n, m, p, uu

-----------------------------------------------------------------------------
(* The invariant, and how a handler of the proxy keeps it                  *)

Follows(ts, q, h, t) == Trace(ts, q) /\ ts[0] = h /\ Agrees(ts[Len(q)], t)
Accounts(ts, tu, q, u) == UseTrace(ts, tu, q) /\ tu[0] = u

\* Reading the queue, the host comes to the surfaces the proxy believes in; as
\* long as the guest reuses no buffer it waits for, its uses are accounted for.
HostInv ==
  \E ts, tu :
    /\ Follows(ts, toHost, hostSurfaces, surfaces)
    /\ ~reused => /\ Accounts(ts, tu, toHost, hostUses)
                  /\ Tracked(tu, toHost, uses, busy, hostBuffers, toProxy)

\* The destructors at the end of a handler
LEMMA HandlerDestroys ==
  ASSUME CoreTypes, NEW reqs \in PlainReqs, NEW e \in Entries, NEW t \in SurfaceTable,
         Ends(reqs, e, t), UseInv', UNCHANGED host,
         NEW ts, NEW tu, Follows(ts, toHost \o reqs, hostSurfaces, t),
         ~reused' => /\ Accounts(ts, tu, toHost \o reqs, hostUses)
                     /\ Tracked(tu, toHost \o reqs, uses', busy', hostBuffers, toProxy')
  PROVE  HostInv'
<1>. DEFINE q == toHost \o reqs
<1>1. q \in Seq(Request)
  BY PlainReqsType, RequestsJoin DEF CoreTypes, Queues
<1>2. PICK S \in SUBSET Buffers, d \in Seq(Request) :
        /\ Destroys(d, S)
        /\ toHost' = q \o d
        /\ \A b \in S : ~Submitted(e, b) /\ b \notin Pending(t)
        /\ \A s \in Surfaces :
             /\ surfaces'[s] = None <=> t[s] = None
             /\ t[s] # None =>
                  /\ surfaces'[s].attachment = t[s].attachment
                  /\ surfaces'[s].current \in {t[s].current, None}
  BY DEF Ends
<1>. HIDE DEF q
<1>. DEFINE n == Len(q)
            m == Len(d)
<1>3. n \in Nat /\ m \in Nat /\ Len(q \o d) = n + m
  BY <1>1, LenProperties, ConcatProperties
<1>4. Trace(ts, q) /\ ts[0] = hostSurfaces /\ Agrees(ts[n], t)
  BY DEF Follows, q
<1>5. \A b \in S, s \in Surfaces : ts[n][s] # None => ts[n][s].pending # b
  BY <1>2, <1>4 DEF Agrees, Pending
<1>6. Trace(Hold(ts, n, m), toHost')
  BY <1>1, <1>2, <1>4, <1>5, TraceDestroy
<1>7. \A f : Hold(f, n, m)[0] = f[0] /\ Hold(f, n, m)[n + m] = f[n]
  <2>. HIDE DEF n, m
  <2>. QED
    BY <1>3 DEF Hold
<1>8. Agrees(ts[n], surfaces')
  BY <1>2, <1>4 DEF Agrees
<1>9. Follows(Hold(ts, n, m), toHost', hostSurfaces', surfaces')
  <2>1. hostSurfaces' = hostSurfaces /\ Len(toHost') = n + m
    BY <1>2, <1>3 DEF host
  <2>. QED
    BY <1>4, <1>6, <1>7, <1>8, <2>1 DEF Follows
<1>10. ASSUME ~reused'
       PROVE  /\ Accounts(Hold(ts, n, m), Hold(tu, n, m), toHost', hostUses')
              /\ Tracked(Hold(tu, n, m), toHost', uses', busy', hostBuffers', toProxy')
  <2>1. /\ UseTrace(ts, tu, q) /\ tu[0] = hostUses
        /\ Tracked(tu, q, uses', busy', hostBuffers, toProxy')
    BY <1>10 DEF Accounts, q
  <2>2. \A b \in S : ~Used(tu[n], b)
    <3>0. Kept(e, uses')
      BY EndsActive DEF UseInv, Kept, Submitted
    <3>1. \A b \in S : uses'[b] = {}
      BY <1>2, <3>0 DEF Kept
    <3>2. \A s \in Surfaces, b \in Buffers : <<s, b>> \in tu[n] => uses'[b] # {}
      BY <2>1 DEF Tracked
    <3>. QED
      BY <3>1, <3>2 DEF Used
  <2>3. UseTrace(Hold(ts, n, m), Hold(tu, n, m), toHost')
    BY <1>1, <1>2, <2>1, <2>2, UseDestroy
  <2>4. Tracked(Hold(tu, n, m), toHost', uses', busy', hostBuffers, toProxy')
    BY <1>1, <1>2, <2>1, TrackedDestroy
  <2>5. hostUses' = hostUses /\ hostBuffers' = hostBuffers
    BY DEF host
  <2>. QED
    BY <1>7, <2>1, <2>3, <2>4, <2>5 DEF Accounts
<1>. QED
  BY <1>9, <1>10 DEF HostInv

\* The request a handler sends first
LEMMA HandlerSends ==
  ASSUME CoreTypes, NEW r \in Request, r.op # "destroy", NEW t,
         NEW ts, NEW tu, Follows(ts, toHost, hostSurfaces, surfaces),
         Fits(ts[Len(toHost)], r), Agrees(Sees(ts[Len(toHost)], r), t)
  PROVE  \E us, uu :
           /\ Follows(us, toHost \o <<r>>, hostSurfaces, t)
           /\ /\ Accounts(ts, tu, toHost, hostUses)
              /\ Tracked(tu, toHost, uses, busy, hostBuffers, toProxy)
              /\ busy \subseteq busy'
              /\ \A b \in Buffers : Starts(ts[Len(toHost)], r, b) =>
                   /\ b \in hostBuffers /\ b \in busy' /\ b \notin busy
                   /\ \A i \in 1 .. Len(toHost) : toHost[i].op = "destroy" => toHost[i].buffer # b
              /\ \A s \in Surfaces, b \in Buffers :
                   <<s, b>> \in UsesThen(ts[Len(toHost)], tu[Len(toHost)], r) =>
                     <<s, "current">> \in uses'[b] \/ <<s, "detached">> \in uses'[b]
              => /\ Accounts(us, uu, toHost \o <<r>>, hostUses)
                 /\ Tracked(uu, toHost \o <<r>>, uses', busy', hostBuffers, toProxy)
<1>. DEFINE q == toHost
            n == Len(q)
            h == ts[n]
            us == Extend(ts, n, Sees(h, r))
            uu == Extend(tu, n, UsesThen(h, tu[n], r))
<1>1. q \in Seq(Request) /\ n \in Nat /\ Len(q \o <<r>>) = n + 1 /\ toProxy \in Seq(Event)
  <2>1. q \in Seq(Request) /\ toProxy \in Seq(Event)
    BY DEF CoreTypes, Queues
  <2>. QED
    BY <2>1, QueueAppend
<1>2. Trace(ts, q) /\ ts \in [0 .. n -> HostTable]
  BY DEF Follows, Trace
<1>3. Trace(us, q \o <<r>>)
  BY <1>1, <1>2, TraceAppend
<1>4. \A f, x : Extend(f, n, x)[0] = f[0] /\ Extend(f, n, x)[n + 1] = x
  <2>. HIDE DEF n
  <2>. QED
    BY <1>1 DEF Extend
<1>5. Follows(us, q \o <<r>>, hostSurfaces, t)
  BY <1>1, <1>3, <1>4 DEF Follows
<1>6. ASSUME Accounts(ts, tu, q, hostUses),
             Tracked(tu, q, uses, busy, hostBuffers, toProxy),
             busy \subseteq busy',
             \A b \in Buffers : Starts(h, r, b) =>
                   /\ b \in hostBuffers /\ b \in busy' /\ b \notin busy
                   /\ \A i \in 1 .. n : q[i].op = "destroy" => q[i].buffer # b,
             \A s \in Surfaces, b \in Buffers :
                   <<s, b>> \in UsesThen(h, tu[n], r) =>
                     <<s, "current">> \in uses'[b] \/ <<s, "detached">> \in uses'[b]
      PROVE  /\ Accounts(us, uu, q \o <<r>>, hostUses)
             /\ Tracked(uu, q \o <<r>>, uses', busy', hostBuffers, toProxy)
  <2>1. UseTrace(ts, tu, q) /\ tu[0] = hostUses
    BY <1>6 DEF Accounts
  <2>2. \A b \in Buffers : Starts(h, r, b) => \A j \in 0 .. n : ~Used(tu[j], b)
    BY <1>6 DEF Tracked
  <2>3. \A b \in Buffers : Starts(h, r, b) =>
          /\ \A j \in 0 .. n : ~Used(tu[j], b)
          /\ \A i \in 1 .. n : q[i].op = "destroy" => q[i].buffer # b
    BY <1>6, <2>2
  <2>4. UseTrace(us, uu, q \o <<r>>)
    BY <1>1, <1>2, <2>1, <2>3, UseAppend
  <2>5. uu[0] = hostUses
    BY <1>4, <2>1
  <2>6. \A b \in Buffers : Starts(h, r, b) => b \in hostBuffers /\ b \in busy' /\ b \notin busy
    BY <1>6
  <2>7. Tracked(uu, q \o <<r>>, uses', busy', hostBuffers, toProxy)
    BY <1>1, <1>6, <2>1, <2>6, TrackedAppend
  <2>. QED
    BY <2>4, <2>5, <2>7 DEF Accounts
<1>. QED
  BY <1>5, <1>6

\* Taking an event keeps the account; after a release its buffer is in use no
\* more, so that its uses and the guest's wait for it may end.
LEMMA TrackedTake ==
  ASSUME NEW q, NEW tu, NEW us, NEW vs, NEW bz, NEW cz, NEW hb, NEW ev \in Seq(Event), ev # <<>>,
         Tracked(tu, q, us, bz, hb, ev), Len(q) \in Nat,
         \/ us = vs /\ bz = cz
         \/ /\ Head(ev).op = "release" /\ cz \in {bz, bz \ {Head(ev).buffer}}
            /\ \A b \in Buffers : b # Head(ev).buffer => vs[b] = us[b]
  PROVE  Tracked(tu, q, vs, cz, hb, Tail(ev))
<1>. DEFINE n == Len(q)
            g == Tail(ev)
            x == Head(ev)
<1>1. /\ Len(g) = Len(ev) - 1 /\ Len(ev) \in Nat /\ x = ev[1] /\ 1 \in 1 .. Len(ev)
      /\ \A i \in 1 .. Len(g) : i + 1 \in 1 .. Len(ev) /\ g[i] = ev[i + 1]
  BY QueueTail
<1>2. /\ \A j \in 0 .. n, b \in Buffers : Used(tu[j], b) => b \in hb /\ b \in bz
      /\ \A k \in 1 .. Len(ev) : ev[k].op = "release" =>
           /\ ev[k].buffer \in bz
           /\ \A j \in 0 .. n : ~Used(tu[j], ev[k].buffer)
           /\ \A l \in 1 .. Len(ev) : ev[l] = ev[k] => l = k
      /\ \A s \in Surfaces, b \in Buffers : <<s, b>> \in tu[n] =>
           <<s, "current">> \in us[b] \/ <<s, "detached">> \in us[b]
  BY DEF Tracked
<1>3. n \in 0 .. n
  OBVIOUS
<1>4. ASSUME NEW i \in 1 .. Len(g), NEW l \in 1 .. Len(g), g[i].op = "release", g[l] = g[i]
      PROVE  l = i
  <2>1. l + 1 = i + 1
    BY <1>1, <1>2, <1>4
  <2>. QED
    BY <2>1
<1>5. CASE us = vs /\ bz = cz
  <2>. HIDE DEF g, n
  <2>. QED
    BY <1>1, <1>2, <1>4, <1>5 DEF Tracked, g, n
<1>6. CASE /\ x.op = "release" /\ cz \in {bz, bz \ {x.buffer}}
           /\ \A b \in Buffers : b # x.buffer => vs[b] = us[b]
  <2>1. \A j \in 0 .. n : ~Used(tu[j], x.buffer)
    BY <1>1, <1>2, <1>6
  <2>2. \A j \in 0 .. n, b \in Buffers : Used(tu[j], b) => b \in hb /\ b \in cz
    BY <1>2, <1>6, <2>1
  <2>3. \A s \in Surfaces, b \in Buffers : <<s, b>> \in tu[n] =>
           <<s, "current">> \in vs[b] \/ <<s, "detached">> \in vs[b]
    BY <1>2, <1>3, <1>6, <2>1 DEF Used
  <2>4. ASSUME NEW i \in 1 .. Len(g), g[i].op = "release"
        PROVE  g[i].buffer \in cz /\ \A j \in 0 .. n : ~Used(tu[j], g[i].buffer)
    <3>1. /\ g[i] = ev[i + 1] /\ ev[i + 1].buffer \in bz
          /\ \A j \in 0 .. n : ~Used(tu[j], ev[i + 1].buffer)
      BY <1>1, <1>2, <2>4
    <3>2. x # ev[i + 1]
      <4>1. 1 # i + 1
        OBVIOUS
      <4>. QED
        BY <1>1, <1>2, <1>6, <4>1
    <3>3. x \in Event /\ ev[i + 1] \in Event
      BY <1>1, ElementOfSeq
    <3>4. x.buffer # ev[i + 1].buffer
      BY <1>6, <2>4, <3>1, <3>2, <3>3 DEF Event
    <3>. QED
      BY <1>6, <3>1, <3>4
  <2>. HIDE DEF g, n
  <2>. QED
    BY <1>4, <2>2, <2>3, <2>4 DEF Tracked, g, n
<1>. QED
  BY <1>5, <1>6

\* Emitting a release of a buffer that was in use and is no more, or a
\* delete_id, keeps the account.
LEMMA TrackedEmit ==
  ASSUME Queues, NEW q, NEW tu, NEW us, NEW bz, NEW hb, Tracked(tu, q, us, bz, hb, toProxy),
         NEW op \in {"release", "delete_id"}, NEW b \in Buffers,
         toProxy' = toProxy \o <<EventOf(op, b)>>,
         op = "release" =>
           /\ b \in bz /\ \A j \in 0 .. Len(q) : ~Used(tu[j], b)
           /\ \A k \in 1 .. Len(toProxy) : toProxy[k].op = "release" => toProxy[k].buffer # b
  PROVE  Tracked(tu, q, us, bz, hb, toProxy')
<1>1. /\ Len(toProxy') = Len(toProxy) + 1 /\ Len(toProxy) \in Nat
      /\ \A i \in 1 .. Len(toProxy') :
           \/ i \in 1 .. Len(toProxy) /\ toProxy'[i] = toProxy[i]
           \/ i = Len(toProxy) + 1 /\ toProxy'[i].op = op /\ toProxy'[i].buffer = b
  BY EmitShape
<1>2. \A k \in 1 .. Len(toProxy) : toProxy[k].op = "release" =>
           /\ toProxy[k].buffer \in bz
           /\ \A j \in 0 .. Len(q) : ~Used(tu[j], toProxy[k].buffer)
           /\ \A l \in 1 .. Len(toProxy) : toProxy[l] = toProxy[k] => l = k
  BY DEF Tracked
<1>3. ASSUME NEW k \in 1 .. Len(toProxy'), toProxy'[k].op = "release"
      PROVE  /\ toProxy'[k].buffer \in bz
             /\ \A j \in 0 .. Len(q) : ~Used(tu[j], toProxy'[k].buffer)
  BY <1>1, <1>2, <1>3
<1>4. ASSUME NEW k \in 1 .. Len(toProxy'), toProxy'[k].op = "release",
             NEW l \in 1 .. Len(toProxy'), toProxy'[l] = toProxy'[k]
      PROVE  l = k
  BY <1>1, <1>2, <1>4
<1>. QED
  BY <1>3, <1>4 DEF Tracked

-----------------------------------------------------------------------------
(* HostInv is inductive                                                    *)

HostFacts == CoreTypes /\ DestroyInv /\ UseInv /\ HostInv

\* A step of the proxy or the guest that the host will not notice
LEMMA HostUnaware ==
  ASSUME HostFacts, UNCHANGED <<toHost, toProxy, host, uses, busy, reused>>,
         \A s \in Surfaces :
           /\ surfaces'[s] = None <=> surfaces[s] = None
           /\ surfaces[s] # None => /\ surfaces'[s].attachment = surfaces[s].attachment
                                    /\ surfaces'[s].current = surfaces[s].current
  PROVE  HostInv'
<1>1. \A h : Agrees(h, surfaces) => Agrees(h, surfaces')
  BY DEF Agrees
<1>2. \A ts : Follows(ts, toHost, hostSurfaces, surfaces)
                => Follows(ts, toHost', hostSurfaces', surfaces')
  BY <1>1 DEF Follows, host
<1>. QED
  BY <1>2 DEF HostFacts, HostInv, host

LEMMA HostAttach ==
  ASSUME HostFacts, NEW s \in Surfaces, NEW b \in Buffers \cup {"Detach"}, OnAttach(s, b), UseInv'
  PROVE  HostInv'
<1>. USE DEF HostFacts
<1>. DEFINE r == AttachReq(s, b)
            t == AttachedSurfaces(s, b)
            n == Len(toHost)
<1>1. PICK ts, tu :
        /\ Follows(ts, toHost, hostSurfaces, surfaces)
        /\ ~reused => /\ Accounts(ts, tu, toHost, hostUses)
                      /\ Tracked(tu, toHost, uses, busy, hostBuffers, toProxy)
  BY DEF HostInv
<1>2. /\ t \in SurfaceTable /\ buffers \in Entries /\ surfaces[s] \in SurfaceState
      /\ surfaces \in SurfaceTable /\ <<r>> \in PlainReqs
  BY AttachRetires DEF CoreTypes, Tables
<1>3. r \in Request /\ r.op = "attach" /\ r.surface = s /\ r.buffer = b
  BY DEF AttachReq, Request
<1>4. UNCHANGED <<uses, busy, reused, toProxy, host>>
  BY DEF OnAttach, guest
<1>5. n \in Nat /\ Agrees(ts[n], surfaces) /\ ts[n] \in HostTable
  <2>1. n \in Nat
    BY LenProperties DEF CoreTypes, Queues
  <2>. QED
    BY <1>1, <2>1 DEF Follows, Trace
<1>6. ts[n][s] # None /\ ts[n][s] \in HostSurface
  BY <1>2, <1>5, TablesAssumption DEF Agrees, HostTable
<1>7. Fits(ts[n], r)
  BY <1>3, <1>6 DEF Fits
<1>8. Agrees(Sees(ts[n], r), t)
  <2>1. Sees(ts[n], r) = [ts[n] EXCEPT ![s].pending = b]
    BY <1>3 DEF Sees
  <2>2. /\ \A x \in Surfaces : x # s => t[x] = surfaces[x]
        /\ t[s] = [surfaces[s] EXCEPT !.attachment = b]
    BY <1>2 DEF AttachedSurfaces, SurfaceTable
  <2>3. t[s] # None /\ t[s].attachment = b /\ t[s].current = surfaces[s].current
    <3>1. t[s] \in SurfaceState
      BY <1>2, <2>2, SurfaceTypes
    <3>. QED
      BY <1>2, <2>2, <3>1, TablesAssumption DEF SurfaceState
  <2>. DEFINE g == [ts[n] EXCEPT ![s].pending = b]
  <2>4. /\ \A x \in Surfaces : x # s => g[x] = ts[n][x]
        /\ g[s] = [ts[n][s] EXCEPT !.pending = b]
    BY <1>5 DEF HostTable
  <2>5. g[s] # None /\ g[s].pending = b /\ g[s].current = ts[n][s].current
    <3>1. b \in Attachment
      BY DEF Attachment
    <3>2. g[s] \in HostSurface
      BY <1>6, <2>4, <3>1 DEF HostSurface
    <3>. QED
      BY <1>6, <2>4, <3>2, TablesAssumption DEF HostSurface
  <2>. HIDE DEF g, t
  <2>6. surfaces[s] # None
    BY <1>2, TablesAssumption
  <2>7. Agrees(g, t)
    BY <1>5, <2>2, <2>3, <2>4, <2>5, <2>6 DEF Agrees
  <2>. QED
    BY <2>1, <2>7 DEF g
<1>9. \A x \in Buffers : ~Starts(ts[n], r, x)
  BY <1>3 DEF Starts
<1>10. \A u : UsesThen(ts[n], u, r) = u
  BY <1>3 DEF UsesThen
<1>. HIDE DEF r, t
<1>11. Tracked(tu, toHost, uses, busy, hostBuffers, toProxy) =>
         \A x \in Surfaces, y \in Buffers : <<x, y>> \in UsesThen(ts[n], tu[n], r) =>
           <<x, "current">> \in uses'[y] \/ <<x, "detached">> \in uses'[y]
  BY <1>4, <1>10 DEF Tracked
<1>12. PICK us, uu :
         /\ Follows(us, toHost \o <<r>>, hostSurfaces, t)
         /\ ~reused => /\ Accounts(us, uu, toHost \o <<r>>, hostUses)
                       /\ Tracked(uu, toHost \o <<r>>, uses', busy', hostBuffers, toProxy)
  BY <1>1, <1>3, <1>4, <1>7, <1>8, <1>9, <1>11, HandlerSends
<1>13. Ends(<<r>>, buffers, t)
  BY AttachEnds DEF r, t
<1>. QED
  BY <1>2, <1>4, <1>12, <1>13, HandlerDestroys

LEMMA HostCommit ==
  ASSUME HostFacts, NEW s \in Surfaces, OnCommit(s), UseInv'
  PROVE  HostInv'
<1>. USE DEF HostFacts
<1>. DEFINE r == CommitReq(s)
            t == CommittedSurfaces(s)
            e == CommittedEntries(s)
            n == Len(toHost)
            b == Attached(surfaces[s])
            a == surfaces[s].attachment
<1>1. PICK ts, tu :
        /\ Follows(ts, toHost, hostSurfaces, surfaces)
        /\ ~reused => /\ Accounts(ts, tu, toHost, hostUses)
                      /\ Tracked(tu, toHost, uses, busy, hostBuffers, toProxy)
  BY DEF HostInv
<1>2. /\ t \in SurfaceTable /\ e \in Entries /\ surfaces[s] \in SurfaceState
      /\ surfaces \in SurfaceTable /\ <<r>> \in PlainReqs
  BY CommitRetires DEF CoreTypes, Tables
<1>3. r \in Request /\ r.op = "commit" /\ r.surface = s
  <2>1. <<r>> \in PlainReqs /\ r.op = "commit" /\ r.surface = s
    BY <1>2 DEF CommitReq
  <2>2. PICK x \in Request : <<r>> = <<x>>
    BY <2>1 DEF PlainReqs
  <2>. QED
    BY <2>1, <2>2
<1>. HIDE DEF r
<1>4. UNCHANGED <<toProxy, host>>
  BY DEF OnCommit
<1>5. /\ busy' = IF b = None THEN busy ELSE busy \cup {b}
      /\ reused' = (reused \/ b \in busy)
  BY DEF OnCommit, GuestCommits
<1>6. n \in Nat /\ Agrees(ts[n], surfaces) /\ ts[n] \in HostTable
  <2>1. n \in Nat
    BY LenProperties DEF CoreTypes, Queues
  <2>. QED
    BY <1>1, <2>1 DEF Follows, Trace
<1>. DEFINE h == ts[n]
<1>7. surfaces[s] # None /\ h[s] # None /\ h[s] \in HostSurface
  BY <1>2, <1>6, TablesAssumption DEF Agrees, HostTable
<1>8. a \in Attachment /\ h[s].pending = a /\ surfaces[s].current \in {None, h[s].current}
  BY <1>2, <1>6, <1>7 DEF Agrees, SurfaceState
<1>9. Fits(h, r)
  BY <1>3, <1>7 DEF Fits
<1>10. /\ \A x \in Surfaces : x # s => t[x] = surfaces[x]
       /\ t[s] # None /\ t[s].attachment = "Unchanged"
       /\ t[s].current = IF a = "Unchanged" THEN surfaces[s].current ELSE b
  <2>1. PrepareCommit(surfaces[s]) \in SurfaceState
    BY <1>2, SurfaceTypes
  <2>2. t[s] = PrepareCommit(surfaces[s]) /\ \A x \in Surfaces : x # s => t[x] = surfaces[x]
    BY <1>2 DEF CommittedSurfaces, SurfaceTable
  <2>. QED
    BY <2>1, <2>2, TablesAssumption DEF PrepareCommit
<1>. DEFINE c == IF h[s].pending = "Unchanged" THEN h[s].current
                 ELSE IF h[s].pending = "Detach" THEN None ELSE h[s].pending
            g == [h EXCEPT ![s] = [current |-> c, pending |-> "Unchanged"]]
<1>11. Sees(h, r) = g
  BY <1>3 DEF Sees
<1>12. Agrees(g, t)
  <2>1. /\ \A x \in Surfaces : x # s => g[x] = h[x]
        /\ g[s] = [current |-> c, pending |-> "Unchanged"]
    BY <1>6 DEF HostTable
  <2>2. c \in Buffers \cup {None}
    BY <1>7 DEF HostSurface, Attachment
  <2>3. t[s].current \in {None, c}
    BY <1>8, <1>10, BuffersAssumption DEF Attached, Attachment
  <2>. HIDE DEF c
  <2>4. g[s].pending = "Unchanged" /\ g[s].current = c /\ g[s] \in HostSurface
    BY <2>1, <2>2 DEF HostSurface, Attachment
  <2>5. g[s] # None
    BY <2>4, TablesAssumption DEF HostSurface
  <2>. HIDE DEF g, t
  <2>. QED
    BY <1>6, <1>10, <2>1, <2>3, <2>4, <2>5 DEF Agrees
<1>. HIDE DEF t, e, g, c
\* The request starts a use of the attached buffer, if there is one.
<1>13. \A x \in Buffers : Starts(h, r, x) <=> x = b
  BY <1>3, <1>8, BuffersAssumption DEF Starts, Attached
<1>14. b \in Buffers => Active(buffers, b)
  BY CommitEnds
<1>15. ASSUME NEW x \in Buffers, Starts(h, r, x), ~reused'
       PROVE  /\ x \in hostBuffers /\ x \in busy' /\ x \notin busy
              /\ \A i \in 1 .. n : toHost[i].op = "destroy" => toHost[i].buffer # x
  <2>1. x = b /\ Active(buffers, x)
    BY <1>13, <1>14, <1>15
  <2>2. x \in hostBuffers
    BY <2>1 DEF DestroyInv, Alive
  <2>3. x \in busy' /\ x \notin busy
    BY <1>5, <1>15, <2>1, BuffersAssumption
  <2>. QED
    BY <2>1, <2>2, <2>3 DEF DestroyInv, Gone
<1>16. ASSUME Tracked(tu, toHost, uses, busy, hostBuffers, toProxy), tu[n] \in UsePairs,
              NEW x \in Surfaces, NEW y \in Buffers, <<x, y>> \in UsesThen(h, tu[n], r)
       PROVE  <<x, "current">> \in uses'[y] \/ <<x, "detached">> \in uses'[y]
  <2>1. \/ <<x, y>> \in tu[n]
        \/ y = b /\ x = s
    BY <1>3, <1>13, <1>16, UseStep
  <2>2. uses' = IF a = "Unchanged" THEN uses ELSE UsesAfter(s, surfaces[s].current, b)
    BY DEF OnCommit
  <2>3. CASE a = "Unchanged"
    <3>1. b = None
      BY <2>3, BuffersAssumption DEF Attached
    <3>. QED
      BY <1>16, <2>1, <2>2, <2>3, <3>1, BuffersAssumption DEF Tracked
  <2>4. CASE a # "Unchanged"
    <3>1. uses'[y] = IF y = b THEN uses[y] \cup {<<s, "current">>}
             ELSE IF y = surfaces[s].current /\ <<s, "current">> \in uses[y]
             THEN (uses[y] \ {<<s, "current">>}) \cup {<<s, "detached">>}
             ELSE uses[y]
      BY <2>2, <2>4 DEF UsesAfter
    <3>2. CASE <<x, y>> \in tu[n]
      <4>1. <<x, "current">> \in uses[y] \/ <<x, "detached">> \in uses[y]
        BY <1>16, <3>2 DEF Tracked
      <4>2. <<x, "current">> = <<s, "current">> => <<x, "detached">> = <<s, "detached">>
        OBVIOUS
      <4>3. <<x, "detached">> # <<s, "current">>
        OBVIOUS
      <4>. QED
        BY <3>1, <4>1, <4>2, <4>3, Zenon
    <3>3. CASE y = b /\ x = s
      BY <3>1, <3>3
    <3>. QED
      BY <2>1, <3>2, <3>3
  <2>. QED
    BY <2>3, <2>4
<1>17. ~reused' => ~reused /\ busy \subseteq busy'
  BY <1>5
<1>18. Accounts(ts, tu, toHost, hostUses) => tu[n] \in UsePairs
  BY <1>6 DEF Accounts, UseTrace
<1>19. PICK us, uu :
         /\ Follows(us, toHost \o <<r>>, hostSurfaces, t)
         /\ ~reused' => /\ Accounts(us, uu, toHost \o <<r>>, hostUses)
                        /\ Tracked(uu, toHost \o <<r>>, uses', busy', hostBuffers, toProxy)
  <2>. HIDE DEF h
  <2>1. Agrees(Sees(h, r), t)
    BY <1>11, <1>12
  <2>2. PICK us, uu :
          /\ Follows(us, toHost \o <<r>>, hostSurfaces, t)
          /\ /\ Accounts(ts, tu, toHost, hostUses)
             /\ Tracked(tu, toHost, uses, busy, hostBuffers, toProxy)
             /\ busy \subseteq busy'
             /\ \A y \in Buffers : Starts(h, r, y) =>
                  /\ y \in hostBuffers /\ y \in busy' /\ y \notin busy
                  /\ \A i \in 1 .. n : toHost[i].op = "destroy" => toHost[i].buffer # y
             /\ \A x \in Surfaces, y \in Buffers :
                  <<x, y>> \in UsesThen(h, tu[n], r) =>
                    <<x, "current">> \in uses'[y] \/ <<x, "detached">> \in uses'[y]
             => /\ Accounts(us, uu, toHost \o <<r>>, hostUses)
                /\ Tracked(uu, toHost \o <<r>>, uses', busy', hostBuffers, toProxy)
    BY <1>1, <1>3, <1>9, <2>1, HandlerSends DEF h
  <2>3. ASSUME ~reused'
        PROVE  /\ Accounts(us, uu, toHost \o <<r>>, hostUses)
               /\ Tracked(uu, toHost \o <<r>>, uses', busy', hostBuffers, toProxy)
    <3>1. /\ Accounts(ts, tu, toHost, hostUses) /\ busy \subseteq busy'
          /\ Tracked(tu, toHost, uses, busy, hostBuffers, toProxy)
      BY <1>1, <1>17, <2>3
    <3>. QED
      BY <1>15, <1>16, <1>18, <2>2, <2>3, <3>1
  <2>. QED
    BY <2>2, <2>3
<1>20. Ends(<<r>>, e, t)
  BY CommitEnds DEF r, e, t
<1>. QED
  BY <1>2, <1>4, <1>19, <1>20, HandlerDestroys

LEMMA HostDestroySurface ==
  ASSUME HostFacts, NEW s \in Surfaces, DestroySurface(s), UseInv'
  PROVE  HostInv'
<1>. USE DEF HostFacts
<1>. DEFINE r == SurfaceDestroyReq(s)
            t == RemainingSurfaces(s)
            e == EntriesWithout(s)
            n == Len(toHost)
<1>1. PICK ts, tu :
        /\ Follows(ts, toHost, hostSurfaces, surfaces)
        /\ ~reused => /\ Accounts(ts, tu, toHost, hostUses)
                      /\ Tracked(tu, toHost, uses, busy, hostBuffers, toProxy)
  BY DEF HostInv
<1>2. /\ t \in SurfaceTable /\ e \in Entries /\ surfaces[s] \in SurfaceState
      /\ surfaces \in SurfaceTable /\ <<r>> \in PlainReqs
  BY DestroySurfaceRetires DEF CoreTypes, Tables
<1>3. r \in Request /\ r.op = "surface_destroy" /\ r.surface = s
  BY DEF SurfaceDestroyReq, Request
<1>4. UNCHANGED <<busy, reused, toProxy, host>>
  BY DEF DestroySurface
<1>5. n \in Nat /\ Agrees(ts[n], surfaces) /\ ts[n] \in HostTable
  <2>1. n \in Nat
    BY LenProperties DEF CoreTypes, Queues
  <2>. QED
    BY <1>1, <2>1 DEF Follows, Trace
<1>. DEFINE h == ts[n]
<1>6. surfaces[s] # None /\ h[s] # None
  BY <1>2, <1>5, TablesAssumption DEF Agrees
<1>7. Fits(h, r)
  BY <1>3, <1>6 DEF Fits
<1>8. Agrees(Sees(h, r), t)
  <2>1. Sees(h, r) = [h EXCEPT ![s] = None]
    BY <1>3 DEF Sees
  <2>2. /\ \A x \in Surfaces : x # s => t[x] = surfaces[x]
        /\ t[s] = None
    BY <1>2 DEF RemainingSurfaces, SurfaceTable
  <2>. DEFINE g == [h EXCEPT ![s] = None]
  <2>3. /\ \A x \in Surfaces : x # s => g[x] = h[x]
        /\ g[s] = None
    BY <1>5 DEF HostTable
  <2>. HIDE DEF g, t
  <2>4. Agrees(g, t)
    BY <1>5, <2>2, <2>3 DEF Agrees
  <2>. QED
    BY <2>1, <2>4 DEF g
<1>9. \A x \in Buffers : ~Starts(h, r, x)
  BY <1>3 DEF Starts
<1>10. \A u : UsesThen(h, u, r) = u \ {<<s, h[s].current>>}
  BY <1>3 DEF UsesThen
<1>. HIDE DEF r, t, e
<1>11. ASSUME Tracked(tu, toHost, uses, busy, hostBuffers, toProxy),
              NEW x \in Surfaces, NEW y \in Buffers, <<x, y>> \in UsesThen(h, tu[n], r)
       PROVE  <<x, "current">> \in uses'[y] \/ <<x, "detached">> \in uses'[y]
  <2>1. <<x, y>> \in tu[n] /\ <<x, y>> # <<s, h[s].current>>
    BY <1>10, <1>11
  <2>2. <<x, "current">> \in uses[y] \/ <<x, "detached">> \in uses[y]
    BY <1>11, <2>1 DEF Tracked
  <2>3. uses'[y] = uses[y] \ {<<s, "current">>}
    BY DEF DestroySurface
  <2>4. CASE x = s /\ <<x, "current">> \in uses[y]
    <3>1. surfaces[s] # None /\ surfaces[s].current = y
      BY <2>4 DEF UseInv, Shows
    <3>2. h[s].current = y
      BY <1>5, <3>1, BuffersAssumption DEF Agrees
    <3>. QED
      BY <2>1, <2>4, <3>2
  <2>5. CASE x # s /\ <<x, "current">> \in uses[y]
    <3>1. <<x, "current">> # <<s, "current">>
      BY <2>5
    <3>. QED
      BY <2>3, <2>5, <3>1
  <2>6. CASE <<x, "detached">> \in uses[y]
    <3>1. <<x, "detached">> # <<s, "current">>
      OBVIOUS
    <3>. QED
      BY <2>3, <2>6, <3>1
  <2>. QED
    BY <2>2, <2>4, <2>5, <2>6
<1>12. PICK us, uu :
         /\ Follows(us, toHost \o <<r>>, hostSurfaces, t)
         /\ ~reused => /\ Accounts(us, uu, toHost \o <<r>>, hostUses)
                       /\ Tracked(uu, toHost \o <<r>>, uses', busy', hostBuffers, toProxy)
  BY <1>1, <1>3, <1>4, <1>7, <1>8, <1>9, <1>11, HandlerSends
<1>13. Ends(<<r>>, e, t)
  BY SurfaceEnds DEF r, e, t
<1>. QED
  BY <1>2, <1>4, <1>12, <1>13, HandlerDestroys

\* The handlers that send nothing but destructors: a failed commit and
\* wl_buffer.destroy
LEMMA HostQuiet ==
  ASSUME HostFacts, NEW e \in Entries, Ends(<<>>, e, surfaces), UseInv',
         UNCHANGED <<uses, toProxy, host>>, ~reused' => ~reused,
         busy \subseteq busy'
  PROVE  HostInv'
<1>. USE DEF HostFacts
<1>1. PICK ts, tu :
        /\ Follows(ts, toHost, hostSurfaces, surfaces)
        /\ ~reused => /\ Accounts(ts, tu, toHost, hostUses)
                      /\ Tracked(tu, toHost, uses, busy, hostBuffers, toProxy)
  BY DEF HostInv
<1>2. toHost \o <<>> = toHost /\ <<>> \in PlainReqs /\ surfaces \in SurfaceTable
  BY ConcatEmptySeq DEF CoreTypes, Queues, Tables, PlainReqs
<1>3. ~reused' => Tracked(tu, toHost, uses', busy', hostBuffers, toProxy')
  BY <1>1 DEF Tracked
<1>. DEFINE z == <<>>
<1>4. Ends(z, e, surfaces) /\ toHost \o z = toHost /\ z \in PlainReqs
  BY <1>2
<1>. HIDE DEF z
<1>. QED
  BY <1>1, <1>2, <1>3, <1>4, HandlerDestroys

LEMMA HostOnRelease ==
  ASSUME HostFacts, OnRelease, UseInv'
  PROVE  HostInv'
<1>. USE DEF HostFacts
<1>1. PICK ts, tu :
        /\ Follows(ts, toHost, hostSurfaces, surfaces)
        /\ ~reused => /\ Accounts(ts, tu, toHost, hostUses)
                      /\ Tracked(tu, toHost, uses, busy, hostBuffers, toProxy)
  BY DEF HostInv
<1>2. /\ toProxy # <<>> /\ Head(toProxy).op = "release" /\ toProxy' = Tail(toProxy)
      /\ UNCHANGED <<reused, host>>
  BY DEF OnRelease, Take
<1>3. toProxy \in Seq(Event) /\ Len(toHost) \in Nat /\ toHost \o <<>> = toHost
      /\ surfaces \in SurfaceTable
  BY LenProperties, ConcatEmptySeq DEF CoreTypes, Queues, Tables
<1>4. CASE ~Active(buffers, EventBuffer)
  <2>1. UNCHANGED <<surfaces, busy, uses, toHost>>
    BY <1>4, ReleaseEnds
  <2>2. ~reused => Tracked(tu, toHost, uses, busy, hostBuffers, toProxy')
    BY <1>1, <1>2, <1>3, TrackedTake
  <2>. QED
    BY <1>1, <1>2, <2>1, <2>2 DEF HostInv, host
<1>5. CASE Active(buffers, EventBuffer)
  <2>1. /\ uses' = [uses EXCEPT ![EventBuffer] = {}]
        /\ busy' = busy \/ busy' = busy \ {EventBuffer}
    BY <1>5, ReleaseEnds
  <2>2. PICK e \in Entries : Ends(<<>>, e, surfaces)
    BY <1>5, ReleaseEnds
  <2>3. \A b \in Buffers : b # Head(toProxy).buffer => uses'[b] = uses[b]
    BY <2>1 DEF CoreTypes, UseTable, EventBuffer
  <2>4. busy' \in {busy, busy \ {Head(toProxy).buffer}}
    BY <2>1 DEF EventBuffer
  <2>5. ~reused => Tracked(tu, toHost, uses', busy', hostBuffers, toProxy')
    BY <1>1, <1>2, <1>3, <2>3, <2>4, TrackedTake
  <2>. DEFINE z == <<>>
  <2>6. Ends(z, e, surfaces) /\ toHost \o z = toHost /\ z \in PlainReqs
    BY <1>3, <2>2 DEF PlainReqs
  <2>. HIDE DEF z
  <2>. QED
    BY <1>1, <1>2, <1>3, <2>5, <2>6, HandlerDestroys
<1>. QED
  BY <1>4, <1>5

LEMMA HostReceives ==
  ASSUME HostFacts, HostReceive
  PROVE  HostInv'
<1>. USE DEF HostFacts
<1>. DEFINE r == Head(toHost)
            n == Len(toHost)
<1>1. PICK ts, tu :
        /\ Follows(ts, toHost, hostSurfaces, surfaces)
        /\ ~reused => /\ Accounts(ts, tu, toHost, hostUses)
                      /\ Tracked(tu, toHost, uses, busy, hostBuffers, toProxy)
  BY DEF HostInv
<1>2. /\ toHost # <<>> /\ toHost' = Tail(toHost) /\ r \in Request
      /\ hostSurfaces' = Sees(hostSurfaces, r)
      /\ hostUses' = UsesThen(hostSurfaces, hostUses, r)
      /\ hostBuffers' = IF r.op = "destroy" THEN hostBuffers \ {r.buffer} ELSE hostBuffers
      /\ UNCHANGED <<proxy, guest, uses>>
  BY ReceiveShape DEF CoreTypes
<1>3. \/ UNCHANGED toProxy
      \/ r.op = "destroy" /\ toProxy' = toProxy \o <<EventOf("delete_id", r.buffer)>>
      \/ \E b \in Buffers :
           /\ <<r.surface, b>> \in hostUses /\ r.op = "surface_destroy"
           /\ \A v \in hostUses' : v[2] # b
           /\ toProxy' = toProxy \o <<EventOf("release", b)>>
  BY ReceiveShape DEF CoreTypes
<1>4. UNCHANGED <<surfaces, busy, reused, uses>>
  BY <1>2 DEF proxy, guest
<1>5. /\ toHost \in Seq(Request) /\ n \in Nat /\ Len(toHost') = n - 1 /\ n >= 1
      /\ r = toHost[1] /\ 1 \in 1 .. n
  <2>1. toHost \in Seq(Request)
    BY DEF CoreTypes, Queues
  <2>2. n \in Nat /\ Len(Tail(toHost)) = n - 1 /\ r = toHost[1] /\ 1 \in 1 .. n
    BY <1>2, <2>1, QueueTail
  <2>. QED
    BY <1>2, <2>1, <2>2
<1>6. /\ Trace(Rest(ts, n), toHost')
      /\ Rest(ts, n)[0] = Sees(ts[0], r)
      /\ Rest(ts, n)[Len(toHost')] = ts[n]
  BY <1>1, <1>2, <1>5, TraceTail DEF Follows
<1>7. Follows(Rest(ts, n), toHost', hostSurfaces', surfaces')
  BY <1>1, <1>2, <1>4, <1>6 DEF Follows
<1>8. ASSUME ~reused
      PROVE  /\ Accounts(Rest(ts, n), Rest(tu, n), toHost', hostUses')
             /\ Tracked(Rest(tu, n), toHost', uses', busy', hostBuffers', toProxy')
  <2>. DEFINE uu == Rest(tu, n)
  <2>1. /\ UseTrace(ts, tu, toHost) /\ tu[0] = hostUses /\ ts[0] = hostSurfaces
        /\ Tracked(tu, toHost, uses, busy, hostBuffers, toProxy)
    BY <1>1, <1>8 DEF Accounts, Follows
  <2>2. /\ UseTrace(Rest(ts, n), uu, toHost')
        /\ uu[0] = UsesThen(ts[0], tu[0], r)
        /\ \A j \in 0 .. Len(toHost') : j + 1 \in 0 .. n /\ uu[j] = tu[j + 1]
        /\ uu[Len(toHost')] = tu[n]
    BY <1>2, <1>5, <2>1, UseTail
  <2>3. Accounts(Rest(ts, n), uu, toHost', hostUses')
    BY <1>2, <2>1, <2>2 DEF Accounts
  <2>. HIDE DEF uu, n
  <2>4. \A j \in 0 .. Len(toHost'), b \in Buffers :
          Used(uu[j], b) => b \in hostBuffers' /\ b \in busy
    <3>1. SUFFICES ASSUME NEW j \in 0 .. Len(toHost'), NEW b \in Buffers, Used(uu[j], b)
                   PROVE  b \in hostBuffers' /\ b \in busy
      OBVIOUS
    <3>2. j + 1 \in 0 .. n /\ uu[j] = tu[j + 1]
      BY <2>2
    <3>3. b \in hostBuffers /\ b \in busy
      BY <2>1, <3>1, <3>2 DEF Tracked, n
    <3>4. r.op = "destroy" => r.buffer # b
      <4>1. 1 - 1 =< j + 1
        BY <1>5
      <4>2. toHost[1].op = "destroy" => ~Used(tu[j + 1], toHost[1].buffer)
        BY <1>5, <2>1, <3>2, <4>1 DEF UseTrace, n
      <4>. QED
        BY <1>5, <3>1, <3>2, <4>2
    <3>. QED
      BY <1>2, <3>3, <3>4
  <2>5. Tracked(uu, toHost', uses, busy, hostBuffers', toProxy)
    <3>1. \A k \in 1 .. Len(toProxy) : toProxy[k].op = "release" =>
            /\ toProxy[k].buffer \in busy
            /\ \A j \in 0 .. n : ~Used(tu[j], toProxy[k].buffer)
            /\ \A l \in 1 .. Len(toProxy) : toProxy[l] = toProxy[k] => l = k
      BY <2>1 DEF Tracked, n
    <3>2. \A k \in 1 .. Len(toProxy) : toProxy[k].op = "release" =>
            \A j \in 0 .. Len(toHost') : ~Used(uu[j], toProxy[k].buffer)
      BY <2>2, <3>1
    <3>3. \A x \in Surfaces, b \in Buffers : <<x, b>> \in uu[Len(toHost')] =>
            <<x, "current">> \in uses[b] \/ <<x, "detached">> \in uses[b]
      BY <2>1, <2>2 DEF Tracked, n
    <3>. QED
      BY <2>4, <3>1, <3>2, <3>3 DEF Tracked
  <2>6. Tracked(uu, toHost', uses, busy, hostBuffers', toProxy')
    <3>0. Queues
      BY DEF CoreTypes
    <3>1. CASE UNCHANGED toProxy
      BY <2>5, <3>1
    <3>2. CASE r.op = "destroy" /\ toProxy' = toProxy \o <<EventOf("delete_id", r.buffer)>>
      <4>1. r.buffer \in Buffers
        BY <1>2, <3>2, RequestCases
      <4>. QED
        BY <2>5, <3>0, <3>2, <4>1, TrackedEmit
    <3>3. CASE \E b \in Buffers :
                 /\ <<r.surface, b>> \in hostUses /\ r.op = "surface_destroy"
                 /\ \A v \in hostUses' : v[2] # b
                 /\ toProxy' = toProxy \o <<EventOf("release", b)>>
      <4>1. PICK b \in Buffers :
                 /\ <<r.surface, b>> \in hostUses /\ r.op = "surface_destroy"
                 /\ \A v \in hostUses' : v[2] # b
                 /\ toProxy' = toProxy \o <<EventOf("release", b)>>
        BY <3>3
      <4>2. Used(tu[0], b) /\ 0 \in 0 .. n /\ 1 \in 0 .. n
        <5>1. r.surface \in Surfaces
          BY <1>2, <4>1, RequestCases
        <5>2. Used(tu[0], b)
          BY <2>1, <4>1, <5>1, Zenon DEF Used
        <5>3. 0 \in 0 .. n /\ 1 \in 0 .. n
          BY <1>5
        <5>. QED
          BY <5>2, <5>3
      <4>3. b \in busy
        BY <2>1, <4>2 DEF Tracked, n
      <4>4. ~Used(uu[0], b)
        <5>1. uu[0] = hostUses'
          BY <1>2, <2>1, <2>2
        <5>. QED
          BY <4>1, <5>1 DEF Used
      <4>5. 0 \in 0 .. Len(toHost') /\ uu[0] = tu[1]
        <5>1. 0 \in 0 .. Len(toHost') /\ 0 + 1 = 1
          BY <1>5 DEF n
        <5>. QED
          BY <2>2, <5>1
      <4>6. ASSUME NEW j \in 0 .. Len(toHost'), Used(uu[j], b) PROVE FALSE
        <5>1. j + 1 \in 0 .. n /\ Used(tu[j + 1], b) /\ 0 =< 1 /\ 1 =< j + 1
          BY <2>2, <4>6
        <5>2. Used(tu[1], b)
          BY <2>1, <4>2, <5>1 DEF UseTrace, n
        <5>. QED
          BY <4>4, <4>5, <5>2
      <4>7. \A k \in 1 .. Len(toProxy) : toProxy[k].op = "release" => toProxy[k].buffer # b
        BY <2>1, <4>2 DEF Tracked, n
      <4>. QED
        BY <2>5, <3>0, <4>1, <4>3, <4>6, <4>7, TrackedEmit
    <3>. QED
      BY <1>3, <3>1, <3>2, <3>3
  <2>. QED
    BY <1>4, <2>3, <2>6 DEF uu, n
<1>. QED
  BY <1>4, <1>7, <1>8 DEF HostInv

LEMMA HostReleases ==
  ASSUME HostFacts, NEW b \in Buffers, HostRelease(b)
  PROVE  HostInv'
<1>. USE DEF HostFacts
<1>. DEFINE n == Len(toHost)
<1>1. PICK ts, tu :
        /\ Follows(ts, toHost, hostSurfaces, surfaces)
        /\ ~reused => /\ Accounts(ts, tu, toHost, hostUses)
                      /\ Tracked(tu, toHost, uses, busy, hostBuffers, toProxy)
  BY DEF HostInv
<1>2. /\ UNCHANGED <<surfaces, busy, reused, uses, toHost, hostSurfaces, hostBuffers>>
      /\ hostUses' = Without(hostUses, b)
      /\ toProxy' = toProxy \o <<EventOf("release", b)>>
      /\ \E u \in hostUses : u[2] = b
  BY DEF HostRelease, HostKeeps, Emit, proxy, guest, Without
<1>3. Follows(ts, toHost', hostSurfaces', surfaces')
  BY <1>1, <1>2
<1>4. Used(hostUses, b)
  <2>1. PICK u \in hostUses : u[2] = b
    BY <1>2
  <2>2. u = <<u[1], b>> /\ u[1] \in Surfaces
    BY <2>1 DEF CoreTypes, HostTypes
  <2>. QED
    BY <2>2 DEF Used
<1>5. toHost \in Seq(Request) /\ n \in Nat /\ 0 \in 0 .. n /\ n \in 0 .. n
  <2>1. toHost \in Seq(Request)
    BY DEF CoreTypes, Queues
  <2>2. n \in Nat
    BY <2>1, LenProperties
  <2>. QED
    BY <2>1, <2>2
<1>6. ASSUME ~reused
      PROVE  /\ Accounts(ts, Drop(tu, n, b), toHost', hostUses')
             /\ Tracked(Drop(tu, n, b), toHost', uses', busy', hostBuffers', toProxy')
  <2>. DEFINE uu == Drop(tu, n, b)
  <2>1. /\ UseTrace(ts, tu, toHost) /\ tu[0] = hostUses
        /\ Tracked(tu, toHost, uses, busy, hostBuffers, toProxy)
    BY <1>1, <1>6 DEF Accounts
  <2>2. UseTrace(ts, uu, toHost)
    BY <1>4, <1>5, <2>1, UseRelease
  <2>3. tu \in [0 .. n -> UsePairs]
    BY <2>1 DEF UseTrace
  <2>4. uu = [i \in 0 .. n |-> Without(tu[i], b)]
    BY DEF Drop
  <2>. HIDE DEF uu
  <2>5. \A j \in 0 .. n, x \in Buffers : Used(uu[j], x) <=> Used(tu[j], x) /\ x # b
    BY <2>3, <2>4, WithoutUse
  <2>6. \A s \in Surfaces, x \in Buffers : <<s, x>> \in uu[n] => <<s, x>> \in tu[n]
    BY <1>5, <2>3, <2>4, WithoutUse
  <2>7. uu[0] = hostUses'
    BY <1>2, <1>5, <2>1, <2>4
  <2>8. b \in busy /\ \A k \in 1 .. Len(toProxy) : toProxy[k].op = "release" => toProxy[k].buffer # b
    BY <1>4, <1>5, <2>1 DEF Tracked
  <2>9. Tracked(uu, toHost, uses, busy, hostBuffers, toProxy)
    <3>1. \A k \in 1 .. Len(toProxy) : toProxy[k].buffer \in Buffers
      BY EventsElement DEF CoreTypes
    <3>. QED
      BY <2>1, <2>5, <2>6, <3>1 DEF Tracked
  <2>10. Tracked(uu, toHost, uses, busy, hostBuffers, toProxy')
    <3>1. Queues
      BY DEF CoreTypes
    <3>. QED
      BY <1>2, <2>5, <2>8, <2>9, <3>1, TrackedEmit
  <2>. QED
    BY <1>2, <2>2, <2>7, <2>10 DEF Accounts, uu
<1>. QED
  BY <1>2, <1>3, <1>6 DEF HostInv

LEMMA HostCreate ==
  ASSUME HostFacts, NEW b \in Buffers, CreateBuffer(b)
  PROVE  HostInv'
<1>. USE DEF HostFacts
<1>1. PICK ts, tu :
        /\ Follows(ts, toHost, hostSurfaces, surfaces)
        /\ ~reused => /\ Accounts(ts, tu, toHost, hostUses)
                      /\ Tracked(tu, toHost, uses, busy, hostBuffers, toProxy)
  BY DEF HostInv
<1>2. /\ UNCHANGED <<surfaces, reused, uses, toHost, toProxy, hostSurfaces, hostUses>>
      /\ hostBuffers' = hostBuffers \cup {b} /\ busy' = busy \ {b} /\ b \notin hostBuffers
  BY DEF CreateBuffer
<1>3. \A k \in 1 .. Len(toProxy) : toProxy[k].buffer # b
  <2>1. DOMAIN toProxy = 1 .. Len(toProxy)
    BY LenProperties DEF CoreTypes, Queues
  <2>. QED
    BY <2>1 DEF CreateBuffer
<1>4. ~reused => Tracked(tu, toHost, uses, busy', hostBuffers', toProxy)
  BY <1>1, <1>2, <1>3 DEF Tracked
<1>. QED
  BY <1>1, <1>2, <1>4 DEF HostInv

LEMMA HostNext ==
  ASSUME HostFacts, [Next]_vars, UseInv'
  PROVE  HostInv'
<1>1. ASSUME NEW b \in Buffers, CreateBuffer(b) PROVE HostInv'
  BY <1>1, HostCreate
<1>2. ASSUME (\E b, R : Draw(b, R)) \/ UNCHANGED vars PROVE HostInv'
  <2>1. UNCHANGED <<surfaces, toHost, toProxy, host, uses, busy, reused>>
    BY <1>2 DEF Draw, vars, proxy, guest
  <2>. QED
    BY <2>1, HostUnaware
<1>3. ASSUME NEW s \in Surfaces, NEW b \in Buffers \cup {"Detach"}, OnAttach(s, b) PROVE HostInv'
  BY <1>3, HostAttach
<1>4. ASSUME NEW s \in Surfaces, Adjust(s) PROVE HostInv'
  <2>0. Tables
    BY DEF HostFacts, CoreTypes
  <2>1. PICK x \in SurfaceState :
           /\ surfaces[s] \in SurfaceState
           /\ surfaces' = [surfaces EXCEPT ![s] = x]
           /\ x.current = surfaces[s].current /\ x.attachment = surfaces[s].attachment
           /\ UNCHANGED <<busy, reused, uses, toHost, toProxy, host>>
    BY <1>4, <2>0, AdjustShape
  <2>2. \A y \in Surfaces :
           /\ surfaces'[y] = None <=> surfaces[y] = None
           /\ surfaces[y] # None => /\ surfaces'[y].attachment = surfaces[y].attachment
                                    /\ surfaces'[y].current = surfaces[y].current
    BY <2>0, <2>1, TablesAssumption DEF Tables, SurfaceTable
  <2>. QED
    BY <2>1, <2>2, HostUnaware
<1>5. ASSUME NEW s \in Surfaces, OnCommit(s) PROVE HostInv'
  BY <1>5, HostCommit
<1>6. ASSUME NEW s \in Surfaces, CommitCopyFails(s) \/ CommitFatal(s) PROVE HostInv'
  <2>1. UNCHANGED <<uses, toProxy, host>> /\ (~reused' => ~reused) /\ busy \subseteq busy'
    BY <1>6 DEF CommitCopyFails, CommitFatal, CommitFails, GuestCommits
  <2>2. PICK e \in Entries : Ends(<<>>, e, surfaces)
    BY <1>6, FailEnds DEF HostFacts
  <2>. QED
    BY <2>1, <2>2, HostQuiet
<1>7. ASSUME NEW s \in Surfaces, DestroySurface(s) PROVE HostInv'
  BY <1>7, HostDestroySurface
<1>8. ASSUME NEW b \in Buffers, DestroyBuffer(b) PROVE HostInv'
  <2>1. UNCHANGED <<uses, toProxy, host, reused, busy>>
    BY <1>8 DEF DestroyBuffer, guest
  <2>2. PICK e \in Entries : Ends(<<>>, e, surfaces)
    BY <1>8, BufferEnds DEF HostFacts
  <2>. QED
    BY <2>1, <2>2, HostQuiet
<1>9. ASSUME OnRelease PROVE HostInv'
  BY <1>9, HostOnRelease
<1>10. ASSUME OnDeleteId PROVE HostInv'
  <2>1. /\ toProxy # <<>> /\ toProxy' = Tail(toProxy)
        /\ UNCHANGED <<surfaces, toHost, uses, busy, reused, hostSurfaces, hostBuffers, hostUses>>
    BY <1>10 DEF OnDeleteId, Take, guest, host
  <2>2. toProxy \in Seq(Event) /\ Len(toHost) \in Nat
    BY LenProperties DEF HostFacts, CoreTypes, Queues
  <2>3. \A tu : Tracked(tu, toHost, uses, busy, hostBuffers, toProxy)
                  => Tracked(tu, toHost, uses, busy, hostBuffers, toProxy')
    BY <2>1, <2>2, TrackedTake
  <2>. QED
    BY <2>1, <2>3 DEF HostFacts, HostInv
<1>11. ASSUME HostReceive PROVE HostInv'
  BY <1>11, HostReceives
<1>12. ASSUME NEW b \in Buffers, HostRelease(b) PROVE HostInv'
  BY <1>12, HostReleases
<1>. QED
  BY <1>1, <1>2, <1>3, <1>4, <1>5, <1>6, <1>7, <1>8, <1>9, <1>10, <1>11, <1>12, StepKinds

-----------------------------------------------------------------------------
(* The theorems                                                            *)

LEMMA HostInit == Init => DestroyInv /\ UseInv /\ HostInv
<1>. SUFFICES ASSUME Init PROVE DestroyInv /\ UseInv /\ HostInv
  OBVIOUS
<1>. DEFINE z == <<>>
<1>1. Len(z) = 0 /\ toHost = z /\ toProxy = z /\ z \in Seq(Request)
  BY DEF Init
<1>2. hostSurfaces \in HostTable /\ hostUses \in UsePairs
  BY CoreInit DEF CoreTypes, HostTypes, UsePairs
<1>3. \A b \in Buffers : buffers[b] = None /\ uses[b] = {}
  BY DEF Init
<1>. HIDE DEF z
<1>4. DestroyInv
  BY <1>1, <1>3 DEF DestroyInv, Gone, Alive, Active
<1>5. UseInv
  BY <1>3 DEF UseInv, Kept, Shows
<1>6. Agrees(hostSurfaces, surfaces)
  <2>1. \A s \in Surfaces : /\ surfaces[s] = DefaultSurface
                            /\ hostSurfaces[s] = [current |-> None, pending |-> "Unchanged"]
    BY DEF Init
  <2>2. DefaultSurface # None /\ DefaultSurface.current = None
        /\ DefaultSurface.attachment = "Unchanged"
    <3>1. DefaultSurface \in SurfaceState
      <4>1. <<>> \in [1 .. 0 -> Regions] /\ 0 \in 0 .. MaxRects
        BY BoundsAssumption
      <4>2. <<>> \in DamageRegion
        BY <4>1 DEF DamageRegion
      <4>. QED
        BY <4>2 DEF DefaultSurface, SurfaceState, Attachment, Mapping
    <3>. QED
      BY <3>1, TablesAssumption DEF DefaultSurface
  <2>3. [current |-> None, pending |-> "Unchanged"] # None
    BY TablesAssumption DEF Attachment
  <2>. QED
    BY <2>1, <2>2, <2>3 DEF Agrees
<1>. DEFINE ts == [i \in 0 .. 0 |-> hostSurfaces]
            tu == [i \in 0 .. 0 |-> hostUses]
<1>7. ts[0] = hostSurfaces /\ tu[0] = hostUses /\ ts \in [0 .. 0 -> HostTable]
      /\ tu \in [0 .. 0 -> UsePairs] /\ hostUses = {}
  BY <1>2 DEF Init
<1>. HIDE DEF ts, tu
<1>8. Follows(ts, toHost, hostSurfaces, surfaces)
  BY <1>1, <1>6, <1>7 DEF Follows, Trace
<1>9. \A b \in Buffers, i \in 0 .. 0 : ~Used(tu[i], b)
  <2>1. \A b \in Buffers : ~Used(tu[0], b)
    BY <1>7 DEF Used
  <2>2. \A i \in 0 .. 0 : i = 0
    OBVIOUS
  <2>. QED
    BY <2>1, <2>2
<1>10. Accounts(ts, tu, toHost, hostUses)
  BY <1>1, <1>7, <1>9 DEF Accounts, UseTrace
<1>11. Tracked(tu, toHost, uses, busy, hostBuffers, toProxy)
  BY <1>1, <1>7, <1>9 DEF Tracked
<1>. QED
  BY <1>4, <1>5, <1>8, <1>10, <1>11 DEF HostInv

\* The inductive invariant: types, the destructors in flight, the uses, and the
\* host's future surfaces and uses.
RenderInv == HostFacts /\ PixelTypes

\* RenderInv holds in every reachable state, whatever the guest sends and however
\* late the host reads.
THEOREM RenderInvariant == Spec => []RenderInv
<1>1. Init => RenderInv
  BY CoreInit, HostInit DEF RenderInv, HostFacts
<1>2. RenderInv /\ [Next]_vars => RenderInv'
  <2>. SUFFICES ASSUME RenderInv, [Next]_vars PROVE RenderInv'
    OBVIOUS
  <2>1. CoreTypes /\ DestroyInv /\ UseInv /\ PixelTypes /\ HostFacts
    BY DEF RenderInv, HostFacts
  <2>2. CoreTypes'
    BY <2>1, CoreNext
  <2>3. DestroyInv'
    BY <2>1, DestroyNext
  <2>4. UseInv'
    BY <2>1, UseNext
  <2>5. PixelTypes'
    BY <2>1, PixelNext
  <2>6. HostInv'
    BY <2>1, <2>4, HostNext
  <2>. QED
    BY <2>2, <2>3, <2>4, <2>5, <2>6 DEF RenderInv, HostFacts
<1>. QED
  BY <1>1, <1>2, PTL DEF Spec

\* ViewsAgree: every variable has its type, and whenever the host has read all
\* that was sent, the proxy's attachments and current buffers are the host's, also
\* after failed commits were rolled back.
THEOREM ViewsAlwaysAgree == Spec => []ViewsAgree
<1>1. RenderInv => ViewsAgree
  <2>. SUFFICES ASSUME RenderInv PROVE ViewsAgree
    OBVIOUS
  <2>1. PICK ts : Follows(ts, toHost, hostSurfaces, surfaces)
    BY DEF RenderInv, HostFacts, HostInv
  <2>2. Len(toHost) \in Nat
    BY LenProperties DEF RenderInv, HostFacts, CoreTypes, Queues
  <2>3. hostSurfaces \in HostTable
    BY <2>1, <2>2 DEF Follows, Trace
  <2>4. TypeOK
    BY <2>3, TypeParts DEF RenderInv, HostFacts
  <2>5. ASSUME toHost = <<>> PROVE Agrees(hostSurfaces, surfaces)
    <3>1. Len(toHost) = 0
      BY <2>5
    <3>. QED
      BY <2>1, <3>1 DEF Follows
  <2>. QED
    BY <2>4, <2>5 DEF ViewsAgree, Agrees
<1>. QED
  BY <1>1, RenderInvariant, PTL

\* BufferOutlivesItsUses: the host is never told to destroy a buffer that is
\* attached for a coming commit, or, if the guest keeps to the protocol, one it
\* still reads; a use nobody ended keeps its buffer registered as awaiting release.
THEOREM BuffersOutliveTheirUses == Spec => []BufferOutlivesItsUses
<1>1. RenderInv => BufferOutlivesItsUses
  <2>. SUFFICES ASSUME RenderInv PROVE BufferOutlivesItsUses
    OBVIOUS
  <2>1. UnreleasedUseKept
    BY KeptMeaning DEF RenderInv, HostFacts, UseInv
  <2>2. PICK ts, tu :
        /\ Follows(ts, toHost, hostSurfaces, surfaces)
        /\ ~reused => /\ Accounts(ts, tu, toHost, hostUses)
                      /\ Tracked(tu, toHost, uses, busy, hostBuffers, toProxy)
    BY DEF RenderInv, HostFacts, HostInv
  <2>3. toHost \in Seq(Request) /\ hostUses \in UsePairs
    BY DEF RenderInv, HostFacts, CoreTypes, Queues, HostTypes, UsePairs
  <2>4. ASSUME toHost # <<>>, Head(toHost).op = "destroy"
        PROVE  /\ \A s \in Surfaces : hostSurfaces[s] # None =>
                    hostSurfaces[s].pending # Head(toHost).buffer
               /\ ~reused => \A u \in hostUses : u[2] # Head(toHost).buffer
    <3>1. Head(toHost) = toHost[1] /\ 1 \in 1 .. Len(toHost) /\ Len(toHost) \in Nat
      BY <2>3, <2>4, QueueTail
    <3>2. Fits(hostSurfaces, Head(toHost))
      BY <2>2, <2>3, <2>4, TraceTail DEF Follows
    <3>3. ASSUME ~reused, NEW u \in hostUses PROVE u[2] # Head(toHost).buffer
      <4>1. UseTrace(ts, tu, toHost) /\ tu[0] = hostUses
        BY <2>2, <3>3 DEF Accounts
      <4>2. 0 \in 0 .. Len(toHost) /\ 1 - 1 =< 0
        BY <3>1
      <4>3. ~Used(tu[0], toHost[1].buffer)
        BY <2>4, <3>1, <4>1, <4>2 DEF UseTrace
      <4>4. u = <<u[1], u[2]>> /\ u[1] \in Surfaces
        BY <2>3 DEF UsePairs
      <4>. QED
        BY <3>1, <4>1, <4>3, <4>4 DEF Used
    <3>. QED
      BY <2>4, <3>2, <3>3 DEF Fits
  <2>5. DestroyedOnlyWhenIdle
    BY <2>4 DEF DestroyedOnlyWhenIdle
  <2>. QED
    BY <2>1, <2>5 DEF BufferOutlivesItsUses
<1>. QED
  BY <1>1, RenderInvariant, PTL

-----------------------------------------------------------------------------
(* The pixels a commit brings                                              *)

\* The damage kept for the next commit of x includes R.
Reports(x, R) ==
  HasFullDamage(x) \/ R \subseteq Rects(x.surface_damage) \cup Rects(x.buffer_damage)

\* What the guest damaged is kept for the next commit; host storage that needs no
\* full copy is initialised.
DamageKept(t, o) == \A s \in Surfaces : t[s] # None => Reports(t[s], o[s])
NeedsNoCopy(e, b) == Active(e, b) /\ ~e[b].needs_full_copy
StorageFilled(e, st) ==
  \A b \in LocalBuffers : NeedsNoCopy(e, b) => \A r \in Regions : st[b][r] # None
CopyInv == DamageKept(surfaces, owed) /\ StorageFilled(buffers, storage)

LEMMA PushKeeps ==
  ASSUME NEW d \in DamageRegion, NEW r \in Regions, Push(d, r) # Full
  PROVE  d # Full /\ Rects(Push(d, r)) = Rects(d) \cup {r}
<1>1. d # Full /\ ~(Len(d) >= MaxRects) /\ Push(d, r) = Append(d, r)
  BY DEF Push
<1>2. PICK n \in 0 .. MaxRects : d \in [1 .. n -> Regions]
  BY <1>1 DEF DamageRegion
<1>3. n \in Nat /\ d \in Seq(Regions) /\ Len(d) = n
  BY <1>2, BoundsAssumption
<1>4. /\ DOMAIN Append(d, r) = 1 .. n + 1
      /\ \A i \in 1 .. n : Append(d, r)[i] = d[i]
      /\ Append(d, r)[n + 1] = r
  <2>1. Append(d, r) \in Seq(Regions) /\ Len(Append(d, r)) = n + 1
    BY <1>3, AppendProperties
  <2>. QED
    BY <1>3, <2>1, AppendProperties, LenProperties
<1>5. Rects(d) = {d[i] : i \in 1 .. n}
  BY <1>1, <1>2 DEF Rects, Range
<1>. DEFINE p == Append(d, r)
<1>6. Rects(p) = {p[i] : i \in 1 .. n + 1}
  BY <1>1, <1>4 DEF Rects, Range
<1>. HIDE DEF p
<1>7. {p[i] : i \in 1 .. n + 1} = {d[i] : i \in 1 .. n} \cup {r}
  <2>1. \A i \in 1 .. n + 1 : i \in 1 .. n \/ i = n + 1
    BY <1>3
  <2>2. n + 1 \in 1 .. n + 1 /\ \A i \in 1 .. n : i \in 1 .. n + 1
    BY <1>3
  <2>3. p[n + 1] = r /\ \A i \in 1 .. n : p[i] = d[i]
    BY <1>4 DEF p
  <2>. QED
    BY <2>1, <2>2, <2>3
<1>. QED
  BY <1>1, <1>5, <1>6, <1>7 DEF p

\* Damage joins what is kept.
LEMMA DamageReported ==
  ASSUME NEW x \in SurfaceState, NEW r \in Regions, NEW R, Reports(x, R)
  PROVE  /\ Reports([x EXCEPT !.surface_damage = Push(@, r)], R \cup {r})
         /\ Reports([x EXCEPT !.buffer_damage = Push(@, r)], R \cup {r})
<1>. DEFINE f == x.surface_damage
            g == x.buffer_damage
            y == [x EXCEPT !.surface_damage = Push(@, r)]
            z == [x EXCEPT !.buffer_damage = Push(@, r)]
<1>1. f \in DamageRegion /\ g \in DamageRegion
  BY DEF SurfaceState
<1>2. /\ y.surface_damage = Push(f, r) /\ y.buffer_damage = g
      /\ z.surface_damage = f /\ z.buffer_damage = Push(g, r)
  BY DEF SurfaceState
<1>3. Full \in {f, g} \/ R \subseteq Rects(f) \cup Rects(g)
  BY DEF Reports, HasFullDamage
<1>. HIDE DEF f, g, y, z
<1>4. Reports(y, R \cup {r})
  <2>1. Push(f, r) # Full => f # Full /\ Rects(Push(f, r)) = Rects(f) \cup {r}
    BY <1>1, PushKeeps
  <2>. QED
    BY <1>2, <1>3, <2>1 DEF Reports, HasFullDamage
<1>5. Reports(z, R \cup {r})
  <2>1. Push(g, r) # Full => g # Full /\ Rects(Push(g, r)) = Rects(g) \cup {r}
    BY <1>1, PushKeeps
  <2>. QED
    BY <1>2, <1>3, <2>1 DEF Reports, HasFullDamage
<1>. QED
  BY <1>4, <1>5 DEF y, z

\* The damage of a surface does not depend on its other fields.
LEMMA ReportsSame ==
  ASSUME NEW x, NEW y, NEW R, Reports(x, R),
         y.surface_damage = x.surface_damage, y.buffer_damage = x.buffer_damage
  PROVE  Reports(y, R)
BY DEF Reports, HasFullDamage

LEMMA DamageKeptNext ==
  ASSUME CoreTypes, PixelTypes, DamageKept(surfaces, owed), [Next]_vars
  PROVE  DamageKept(surfaces', owed')
<1>. USE DEF CoreTypes
<1>0. surfaces \in SurfaceTable /\ owed \in [Surfaces -> SUBSET Regions]
  BY DEF Tables, PixelTypes
<1>1. ASSUME UNCHANGED <<surfaces, owed>> PROVE DamageKept(surfaces', owed')
  BY <1>1
<1>2. ASSUME NEW s \in Surfaces, NEW x, surfaces[s] \in SurfaceState,
             surfaces' = [surfaces EXCEPT ![s] = x],
             x.surface_damage = surfaces[s].surface_damage,
             x.buffer_damage = surfaces[s].buffer_damage, UNCHANGED owed
      PROVE  DamageKept(surfaces', owed')
  <2>1. \A y \in Surfaces : surfaces'[y] = IF y = s THEN x ELSE surfaces[y]
    BY <1>0, <1>2 DEF SurfaceTable
  <2>2. Reports(x, owed[s])
    <3>1. Reports(surfaces[s], owed[s])
      BY <1>2, TablesAssumption DEF DamageKept
    <3>. QED
      BY <1>2, <3>1, ReportsSame
  <2>. QED
    BY <1>2, <2>1, <2>2 DEF DamageKept
<1>3. ASSUME NEW s \in Surfaces, NEW x, NEW R, surfaces' = [surfaces EXCEPT ![s] = x],
             owed' = [owed EXCEPT ![s] = R], Reports(x, R) \/ x = None
      PROVE  DamageKept(surfaces', owed')
  <2>1. \A y \in Surfaces : /\ surfaces'[y] = IF y = s THEN x ELSE surfaces[y]
                            /\ owed'[y] = IF y = s THEN R ELSE owed[y]
    BY <1>0, <1>3 DEF SurfaceTable
  <2>. QED
    BY <1>3, <2>1 DEF DamageKept
<1>4. ASSUME NEW s \in Surfaces, NEW b \in Buffers \cup {"Detach"}, OnAttach(s, b)
      PROVE  DamageKept(surfaces', owed')
  <2>1. surfaces' = AttachedSurfaces(s, b) /\ surfaces[s] \in SurfaceState /\ UNCHANGED owed
    BY <1>4, AttachRetires, RetireShape DEF OnAttach, guest
  <2>. DEFINE x == [surfaces[s] EXCEPT !.attachment = b]
  <2>2. surfaces' = [surfaces EXCEPT ![s] = x]
    BY <1>0, <2>1 DEF AttachedSurfaces, SurfaceTable
  <2>3. /\ x.surface_damage = surfaces[s].surface_damage
        /\ x.buffer_damage = surfaces[s].buffer_damage
    BY <2>1 DEF SurfaceState
  <2>. HIDE DEF x
  <2>. QED
    BY <1>2, <2>1, <2>2, <2>3
<1>5. ASSUME NEW s \in Surfaces, NEW r \in Regions, OnDamage(s, r) \/ OnDamageBuffer(s, r)
      PROVE  DamageKept(surfaces', owed')
  <2>1. surfaces[s] # None /\ surfaces[s] \in SurfaceState
    BY <1>0, <1>5 DEF OnDamage, OnDamageBuffer, Live, SurfaceTable
  <2>2. Reports(surfaces[s], owed[s])
    BY <2>1 DEF DamageKept
  <2>3. owed' = [owed EXCEPT ![s] = owed[s] \cup {r}]
    BY <1>0, <1>5 DEF OnDamage, OnDamageBuffer
  <2>. DEFINE x == [surfaces[s] EXCEPT !.surface_damage = Push(@, r)]
              y == [surfaces[s] EXCEPT !.buffer_damage = Push(@, r)]
  <2>4. surfaces' = [surfaces EXCEPT ![s] = x] \/ surfaces' = [surfaces EXCEPT ![s] = y]
    BY <1>0, <1>5 DEF OnDamage, OnDamageBuffer, SurfaceTable
  <2>5. Reports(x, owed[s] \cup {r}) /\ Reports(y, owed[s] \cup {r})
    BY <2>1, <2>2, DamageReported
  <2>. HIDE DEF x, y
  <2>. QED
    BY <1>3, <2>3, <2>4, <2>5
<1>6. ASSUME NEW s \in Surfaces, NEW m, OnSetBufferScale(s, m) \/ OnViewport(s, m)
      PROVE  DamageKept(surfaces', owed')
  <2>1. /\ surfaces[s] # None /\ surfaces[s] \in SurfaceState /\ UNCHANGED owed
        /\ surfaces' = [surfaces EXCEPT ![s].pending_mapping = m]
    BY <1>0, <1>6 DEF OnSetBufferScale, OnViewport, SetMapping, Live, SurfaceTable, guest
  <2>. DEFINE x == [surfaces[s] EXCEPT !.pending_mapping = m]
  <2>2. surfaces' = [surfaces EXCEPT ![s] = x]
    BY <1>0, <2>1 DEF SurfaceTable
  <2>3. /\ x.surface_damage = surfaces[s].surface_damage
        /\ x.buffer_damage = surfaces[s].buffer_damage
    BY <2>1 DEF SurfaceState
  <2>. HIDE DEF x
  <2>. QED
    BY <1>2, <2>1, <2>2, <2>3
<1>7. ASSUME NEW s \in Surfaces, OnCommit(s) PROVE DamageKept(surfaces', owed')
  <2>1. surfaces' = [surfaces EXCEPT ![s] = PrepareCommit(surfaces[s])]
    BY <1>7, CommitRetires, RetireShape DEF CommittedSurfaces
  <2>2. owed' = [owed EXCEPT ![s] = {}]
    BY <1>7 DEF OnCommit
  <2>3. Reports(PrepareCommit(surfaces[s]), {})
    BY DEF Reports
  <2>. QED
    BY <1>3, <2>1, <2>2, <2>3
<1>8. ASSUME NEW s \in Surfaces, CommitCopyFails(s) \/ CommitFatal(s)
      PROVE  DamageKept(surfaces', owed')
  <2>1. surfaces' = surfaces
    BY <1>8, FailedCommitRetires, RetireShape
  <2>2. UNCHANGED owed
    BY <1>8 DEF CommitCopyFails, CommitFatal, CommitFails
  <2>. QED
    BY <1>1, <2>1, <2>2
<1>9. ASSUME NEW s \in Surfaces, DestroySurface(s) PROVE DamageKept(surfaces', owed')
  <2>1. surfaces' = [surfaces EXCEPT ![s] = None]
    BY <1>9, DestroySurfaceRetires, RetireShape DEF RemainingSurfaces
  <2>2. owed' = [owed EXCEPT ![s] = {}]
    BY <1>9 DEF DestroySurface
  <2>. QED
    BY <1>3, <2>1, <2>2
<1>10. ASSUME NEW b, surfaces' = ClearReferences(surfaces, b), UNCHANGED owed
       PROVE  DamageKept(surfaces', owed')
  <2>1. SUFFICES ASSUME NEW s \in Surfaces, surfaces'[s] # None
                 PROVE  Reports(surfaces'[s], owed[s])
    BY <1>10 DEF DamageKept
  <2>2. /\ surfaces[s] # None /\ surfaces[s] \in SurfaceState
        /\ surfaces'[s] = [ClearCurrent(surfaces[s], b) EXCEPT
                             !.attachment = IF @ = b THEN "Detach" ELSE @]
    BY <1>0, <1>10, <2>1 DEF ClearReferences, SurfaceTable
  <2>3. /\ surfaces'[s].surface_damage = surfaces[s].surface_damage
        /\ surfaces'[s].buffer_damage = surfaces[s].buffer_damage
    BY <2>2 DEF ClearCurrent, SurfaceState
  <2>4. Reports(surfaces[s], owed[s])
    BY <2>2 DEF DamageKept
  <2>. QED
    BY <2>3, <2>4, ReportsSame
<1>11. ASSUME (\E b \in Buffers : DestroyBuffer(b)) \/ OnRelease
       PROVE  DamageKept(surfaces', owed')
  <2>1. UNCHANGED owed
    BY <1>11 DEF DestroyBuffer, OnRelease, guest
  <2>2. surfaces' = surfaces \/ \E b : surfaces' = ClearReferences(surfaces, b)
    BY <1>11 DEF DestroyBuffer, OnRelease
  <2>. QED
    BY <1>1, <1>10, <2>1, <2>2
<1>12. ASSUME \/ \E b \in Buffers : CreateBuffer(b) \/ HostRelease(b)
              \/ \E b \in LocalBuffers, R \in (SUBSET Regions) \ {{}} : Draw(b, R)
              \/ OnDeleteId \/ HostReceive \/ UNCHANGED vars
       PROVE  DamageKept(surfaces', owed')
  <2>1. UNCHANGED <<surfaces, owed>>
    BY <1>12 DEF CreateBuffer, HostRelease, Draw, OnDeleteId, HostReceive, HostKeeps, vars, proxy,
                 guest
  <2>. QED
    BY <1>1, <2>1
<1>. QED
  BY <1>4, <1>5, <1>6, <1>7, <1>8, <1>9, <1>11, <1>12 DEF Next

\* Host storage stays filled when no entry comes to need no copy.
LEMMA StorageKept ==
  ASSUME StorageFilled(buffers, storage), UNCHANGED storage,
         \A x \in Buffers : NeedsNoCopy(buffers', x) => NeedsNoCopy(buffers, x)
  PROVE  StorageFilled(buffers', storage')
BY DEF StorageFilled, Buffers

LEMMA RetiredCopies ==
  ASSUME NEW e \in Entries, NEW t, NEW reqs, RetireEligible(e, t, reqs)
  PROVE  \A x \in Buffers : NeedsNoCopy(buffers', x) => NeedsNoCopy(e, x)
<1>1. buffers' = Retired(e, t)
  BY RetireShape
<1>2. \A x \in Buffers : Active(Retired(e, t), x) => Active(e, x) /\ Retired(e, t)[x] = e[x]
  BY RetiredEntries
<1>. QED
  BY <1>1, <1>2 DEF NeedsNoCopy

\* Every other update of an entry keeps needs_full_copy.
LEMMA EntryCopies ==
  ASSUME Tables, NEW b \in Buffers, Active(buffers, b), NEW u \in Use, NEW x \in Buffers
  PROVE  /\ NeedsNoCopy(MarkGuestDestroyed(buffers, b), x) => NeedsNoCopy(buffers, x)
         /\ NeedsNoCopy([buffers EXCEPT ![b].use = u], x) => NeedsNoCopy(buffers, x)
<1>1. CASE x # b
  BY <1>1 DEF NeedsNoCopy, Active, MarkGuestDestroyed, Tables, Entries
<1>2. CASE x = b
  <2>1. buffers[b] \in LiveEntry
    BY ActiveEntry DEF Tables
  <2>2. /\ MarkGuestDestroyed(buffers, b)[b].needs_full_copy = buffers[b].needs_full_copy
        /\ [buffers EXCEPT ![b].use = u][b].needs_full_copy = buffers[b].needs_full_copy
    BY <2>1 DEF MarkGuestDestroyed, LiveEntry, Tables, Entries
  <2>. QED
    BY <1>2, <2>2 DEF NeedsNoCopy
<1>. QED
  BY <1>1, <1>2

LEMMA CompleteCopies ==
  ASSUME NEW e \in Entries, NEW b \in Buffers, NEW x \in Buffers, NeedsNoCopy(Complete(e, b), x)
  PROVE  NeedsNoCopy(e, x)
<1>1. CASE x # b
  BY <1>1 DEF NeedsNoCopy, Active, Complete, MarkHostDestroyQueued, Entries
<1>2. CASE x = b
  BY <1>2 DEF NeedsNoCopy, Active, Complete, MarkHostDestroyQueued, Entries
<1>. QED
  BY <1>1, <1>2

\* What a commit leaves in the storage of the attached buffer.
LEMMA CommitStorage ==
  ASSUME CoreTypes, PixelTypes, CopyInv, NEW s \in Surfaces, OnCommit(s),
         Attached(surfaces[s]) \in LocalBuffers
  PROVE  LET b == Attached(surfaces[s])
         IN  /\ \A r \in owed[s] : storage'[b][r] = pixels[b][r]
             /\ \A r \in Regions : storage'[b][r] # None
             /\ DOMAIN storage'[b] = Regions
<1>. DEFINE t == surfaces[s]
            b == Attached(t)
<1>1. t \in SurfaceState /\ t # None
  BY CommitRetires, TablesAssumption DEF CoreTypes
<1>2. b \in Buffers /\ Active(buffers, b)
  BY CommitEnds DEF Buffers
<1>3. /\ storage'[b] = [r \in Regions |-> IF r \in Copied(t, b) THEN pixels[b][r] ELSE storage[b][r]]
      /\ DOMAIN storage'[b] = Regions
  BY DEF OnCommit, PixelTypes
<1>4. owed[s] \subseteq Regions /\ \A r \in Regions : pixels[b][r] # None
  BY BuffersAssumption DEF PixelTypes, Frames
<1>5. Reports(t, owed[s])
  BY <1>1 DEF CopyInv, DamageKept
<1>6. owed[s] \subseteq Copied(t, b)
  BY <1>4, <1>5 DEF Reports, Copied
<1>7. buffers[b].needs_full_copy => Copied(t, b) = Regions
  BY DEF Copied
<1>8. ~buffers[b].needs_full_copy => \A r \in Regions : storage[b][r] # None
  BY <1>2 DEF CopyInv, StorageFilled, NeedsNoCopy
<1>. HIDE DEF b, t
<1>9. \A r \in owed[s] : storage'[b][r] = pixels[b][r]
  BY <1>3, <1>4, <1>6
<1>10. \A r \in Regions : storage'[b][r] # None
  BY <1>3, <1>4, <1>7, <1>8
<1>. QED
  BY <1>3, <1>9, <1>10 DEF b, t

LEMMA StorageNext ==
  ASSUME CoreTypes, PixelTypes, CopyInv, [Next]_vars
  PROVE  StorageFilled(buffers', storage')
<1>. USE DEF CoreTypes
<1>0. buffers \in Entries /\ StorageFilled(buffers, storage) /\ Tables
  BY DEF Tables, CopyInv
<1>1. ASSUME UNCHANGED <<buffers, storage>> PROVE StorageFilled(buffers', storage')
  BY <1>0, <1>1
<1>2. ASSUME NEW b \in Buffers, CreateBuffer(b) PROVE StorageFilled(buffers', storage')
  <2>1. /\ buffers' = [buffers EXCEPT ![b] = NewBuffer(b)]
        /\ storage' = IF b \in LocalBuffers
                THEN [storage EXCEPT ![b] = [r \in Regions |-> None]] ELSE storage
    BY <1>2 DEF CreateBuffer
  <2>2. \A x \in Buffers : buffers'[x] = IF x = b THEN NewBuffer(b) ELSE buffers[x]
    BY <1>0, <2>1 DEF Entries
  <2>3. b \in LocalBuffers => ~NeedsNoCopy(buffers', b)
    <3>1. buffers'[b].needs_full_copy = (b \in LocalBuffers)
      BY <2>2 DEF NewBuffer
    <3>. QED
      BY <3>1, Zenon DEF NeedsNoCopy
  <2>4. \A x \in LocalBuffers : x # b => storage'[x] = storage[x]
    BY <2>1 DEF PixelTypes
  <2>5. \A x \in LocalBuffers : NeedsNoCopy(buffers', x) => x # b /\ NeedsNoCopy(buffers, x)
    BY <2>2, <2>3 DEF NeedsNoCopy, Active, Buffers
  <2>. QED
    BY <1>0, <2>4, <2>5 DEF StorageFilled
<1>3. ASSUME NEW s \in Surfaces, NEW b \in Buffers \cup {"Detach"}, OnAttach(s, b)
      PROVE  StorageFilled(buffers', storage')
  <2>1. UNCHANGED storage
    BY <1>3 DEF OnAttach
  <2>2. \A x \in Buffers : NeedsNoCopy(buffers', x) => NeedsNoCopy(buffers, x)
    BY <1>3, AttachRetires, RetiredCopies
  <2>. QED
    BY <1>0, <2>1, <2>2, StorageKept
<1>4. ASSUME NEW s \in Surfaces, OnCommit(s) PROVE StorageFilled(buffers', storage')
  <2>. DEFINE b == Attached(surfaces[s])
              e == CommittedEntries(s)
              c == CopyDone(b)
  <2>1. /\ e \in Entries /\ c \in Entries /\ surfaces[s] \in SurfaceState
        /\ \A x \in Buffers : NeedsNoCopy(buffers', x) => NeedsNoCopy(e, x)
    BY <1>4, CommitRetires, RetiredCopies
  <2>2. \A x \in LocalBuffers : x # b => storage'[x] = storage[x]
    BY <1>4 DEF OnCommit, PixelTypes
  <2>3. ASSUME NEW x \in Buffers, x # b, NeedsNoCopy(e, x) PROVE NeedsNoCopy(buffers, x)
    <3>1. c[x] = buffers[x]
      BY <1>0, <2>3 DEF CopyDone, Entries
    <3>2. Active(buffers, x)
      BY <1>4, <2>3, CommitEnds DEF NeedsNoCopy, SameActive
    <3>3. buffers[x] \in LiveEntry
      BY <1>0, <3>2, ActiveEntry
    <3>4. e[x] \in {c[x], [c[x] EXCEPT !.use = SubmitUse(@)], [c[x] EXCEPT !.use = DetachUse(@)]}
      BY DEF CommittedEntries, Finalize
    <3>5. e[x].needs_full_copy = buffers[x].needs_full_copy
      BY <3>1, <3>3, <3>4 DEF LiveEntry
    <3>. QED
      BY <2>3, <3>2, <3>5 DEF NeedsNoCopy
  <2>4. b \in LocalBuffers => \A r \in Regions : storage'[b][r] # None
    BY <1>4, CommitStorage
  <2>. HIDE DEF b, e, c
  <2>. QED
    BY <1>0, <2>1, <2>2, <2>3, <2>4 DEF StorageFilled, Buffers
<1>5. ASSUME NEW s \in Surfaces, CommitCopyFails(s) PROVE StorageFilled(buffers', storage')
  <2>. DEFINE b == Attached(surfaces[s])
  <2>1. b \in Buffers /\ Active(buffers, b) /\ UNCHANGED storage
    BY <1>5 DEF CommitCopyFails, CommitFails, Buffers
  <2>2. \E t : RetireEligible(CopyMarked(b), t, <<>>)
    BY <1>5 DEF CommitCopyFails, CommitFails, CopyMarked
  <2>3. CopyMarked(b) \in Entries
    BY <1>0, <2>1, EntryUpdates DEF CopyMarked
  <2>4. \A x \in Buffers : NeedsNoCopy(CopyMarked(b), x) => NeedsNoCopy(buffers, x)
    <3>1. CopyMarked(b)[b].needs_full_copy = TRUE
      <4>1. buffers[b] \in LiveEntry
        BY <1>0, <2>1, ActiveEntry
      <4>. QED
        BY <1>0, <2>1, <4>1 DEF CopyMarked, LiveEntry, Entries
    <3>2. \A x \in Buffers : x # b => CopyMarked(b)[x] = buffers[x]
      BY <1>0 DEF CopyMarked, Entries
    <3>. QED
      BY <3>1, <3>2 DEF NeedsNoCopy, Active
  <2>. HIDE DEF b
  <2>. QED
    BY <1>0, <2>1, <2>2, <2>3, <2>4, RetiredCopies, StorageKept
<1>6. ASSUME NEW s \in Surfaces, CommitFatal(s) PROVE StorageFilled(buffers', storage')
  <2>1. UNCHANGED storage /\ \E t : RetireEligible(buffers, t, <<>>)
    BY <1>6 DEF CommitFatal, CommitFails
  <2>. QED
    BY <1>0, <2>1, RetiredCopies, StorageKept
<1>7. ASSUME NEW s \in Surfaces, DestroySurface(s) PROVE StorageFilled(buffers', storage')
  <2>. DEFINE b == surfaces[s].current
              e == EntriesWithout(s)
  <2>1. /\ e \in Entries /\ surfaces[s] \in SurfaceState
        /\ \A x \in Buffers : NeedsNoCopy(buffers', x) => NeedsNoCopy(e, x)
    BY <1>7, DestroySurfaceRetires, RetiredCopies
  <2>2. \/ e = buffers
        \/ b \in Buffers /\ Active(buffers, b) /\ e = [buffers EXCEPT ![b].use = "NeverSubmitted"]
    BY <2>1 DEF EntriesWithout, EndLastSurfaceUse, SurfaceState
  <2>3. "NeverSubmitted" \in Use
    BY DEF Use
  <2>4. \A x \in Buffers : NeedsNoCopy(e, x) => NeedsNoCopy(buffers, x)
    BY <1>0, <2>2, <2>3, EntryCopies
  <2>5. UNCHANGED storage
    BY <1>7 DEF DestroySurface
  <2>. QED
    BY <1>0, <2>1, <2>4, <2>5, StorageKept
<1>8. ASSUME NEW b \in Buffers, DestroyBuffer(b) PROVE StorageFilled(buffers', storage')
  <2>1. Active(buffers, b) /\ UNCHANGED storage
    BY <1>0, <1>8, OtherTables DEF DestroyBuffer
  <2>2. buffers' = MarkGuestDestroyed(buffers, b) \/ buffers' = Complete(buffers, b)
    BY <1>8 DEF DestroyBuffer
  <2>3. PICK u : u \in Use
    BY DEF Use
  <2>4. \A x \in Buffers : NeedsNoCopy(buffers', x) => NeedsNoCopy(buffers, x)
    <3>1. CASE buffers' = MarkGuestDestroyed(buffers, b)
      BY <1>0, <2>1, <2>3, <3>1, EntryCopies
    <3>2. CASE buffers' = Complete(buffers, b)
      BY <1>0, <3>2, CompleteCopies
    <3>. QED
      BY <2>2, <3>1, <3>2
  <2>. QED
    BY <1>0, <2>1, <2>4, StorageKept
<1>9. ASSUME OnRelease PROVE StorageFilled(buffers', storage')
  <2>. DEFINE b == Head(toProxy).buffer
              e == [buffers EXCEPT ![b].use = ReleaseUse(@)]
  <2>1. b \in Buffers /\ UNCHANGED storage
    BY <1>9, NextEvent DEF OnRelease
  <2>2. CASE ~Active(buffers, b)
    <3>1. UNCHANGED buffers
      BY <1>9, <2>2 DEF OnRelease
    <3>. QED
      BY <1>1, <2>1, <3>1
  <2>3. CASE Active(buffers, b)
    <3>1. buffers' = e \/ buffers' = Complete(e, b)
      BY <1>9, <2>3 DEF OnRelease
    <3>2. e = [buffers EXCEPT ![b].use = ReleaseUse(buffers[b].use)] /\ e \in Entries
      BY <1>0, <2>1, <2>3, EntryUpdates DEF Entries
    <3>3. ReleaseUse(buffers[b].use) \in Use
      <4>1. buffers[b] \in LiveEntry
        BY <1>0, <2>1, <2>3, ActiveEntry
      <4>. QED
        BY <4>1 DEF LiveEntry, ReleaseUse, Use
    <3>4. \A x \in Buffers : NeedsNoCopy(e, x) => NeedsNoCopy(buffers, x)
      BY <1>0, <2>1, <2>3, <3>2, <3>3, EntryCopies
    <3>5. \A x \in Buffers : NeedsNoCopy(Complete(e, b), x) => NeedsNoCopy(e, x)
      BY <2>1, <3>2, CompleteCopies
    <3>. HIDE DEF e, b
    <3>. QED
      BY <1>0, <2>1, <3>1, <3>4, <3>5, StorageKept
  <2>. QED
    BY <2>2, <2>3
<1>10. ASSUME OnDeleteId PROVE StorageFilled(buffers', storage')
  <2>. DEFINE b == Head(toProxy).buffer
  <2>1. buffers' = [buffers EXCEPT ![b] = None] /\ UNCHANGED storage
    BY <1>10 DEF OnDeleteId
  <2>. HIDE DEF b
  <2>2. \A x \in Buffers : NeedsNoCopy(buffers', x) => NeedsNoCopy(buffers, x)
    BY <1>0, <2>1 DEF NeedsNoCopy, Active, Entries
  <2>. QED
    BY <1>0, <2>1, <2>2, StorageKept
<1>11. ASSUME \/ \E s \in Surfaces : Adjust(s)
              \/ \E b \in LocalBuffers, R \in (SUBSET Regions) \ {{}} : Draw(b, R)
              \/ HostReceive \/ \E b \in Buffers : HostRelease(b)
              \/ UNCHANGED vars
       PROVE  StorageFilled(buffers', storage')
  <2>1. CASE \E s \in Surfaces : Adjust(s)
    BY <1>0, <1>1, <2>1, AdjustShape
  <2>2. CASE ~\E s \in Surfaces : Adjust(s)
    <3>1. UNCHANGED <<buffers, storage>>
      BY <1>11, <2>2 DEF HostReceive, HostRelease, HostKeeps, Draw, vars, proxy
    <3>. QED
      BY <1>1, <3>1
  <2>. QED
    BY <2>1, <2>2
<1>. QED
  <2>. HIDE DEF CoreTypes
  <2>. QED
    BY <1>2, <1>3, <1>4, <1>5, <1>6, <1>7, <1>8, <1>9, <1>10, <1>11, StepKinds

LEMMA CopyInit == Init => CopyInv
<1>. SUFFICES ASSUME Init PROVE CopyInv
  OBVIOUS
<1>1. \A b \in LocalBuffers : ~Active(buffers, b)
  BY DEF Init, Active, Buffers
<1>2. \A s \in Surfaces : owed[s] = {}
  BY DEF Init
<1>3. DamageKept(surfaces, owed)
  BY <1>2 DEF DamageKept, Reports
<1>. QED
  BY <1>1, <1>3 DEF CopyInv, StorageFilled, NeedsNoCopy

\* The first request of a handler is the one it sends before it destroys buffers.
LEMMA FirstRequest ==
  ASSUME CoreTypes, NEW reqs \in PlainReqs, NEW e, NEW t, Ends(reqs, e, t), Commits
  PROVE  \E r \in Request : reqs = <<r>> /\ NextRequest = r
<1>1. toHost \in Seq(Request)
  BY DEF CoreTypes, Queues
<1>2. PICK S \in SUBSET Buffers, d \in Seq(Request) :
        Destroys(d, S) /\ toHost' = (toHost \o reqs) \o d
  BY DEF Ends
<1>3. Len(toHost) \in Nat /\ Len(d) \in Nat
  BY <1>1, LenProperties
<1>4. CASE reqs = <<>>
  <2>1. toHost' = toHost \o d
    BY <1>1, <1>2, <1>4, ConcatEmptySeq
  <2>2. /\ Len(toHost') = Len(toHost) + Len(d)
        /\ \A i \in 1 .. Len(toHost) + Len(d) :
             toHost'[i] = IF i <= Len(toHost) THEN toHost[i] ELSE d[i - Len(toHost)]
    BY <1>1, <2>1, ConcatProperties
  <2>. DEFINE n == Len(toHost)
  <2>. HIDE DEF n
  <2>3. n + 1 \in 1 .. n + Len(d) /\ ~(n + 1 <= n) /\ (n + 1) - n = 1 /\ 1 \in 1 .. Len(d)
    BY <1>3, <2>2 DEF Commits, n
  <2>4. NextRequest = d[1]
    BY <2>2, <2>3 DEF NextRequest, n
  <2>. QED
    BY <1>2, <2>3, <2>4 DEF Destroys, Commits
<1>5. CASE reqs # <<>>
  <2>1. PICK r \in Request : reqs = <<r>>
    BY <1>5 DEF PlainReqs
  <2>. DEFINE q == toHost \o <<r>>
  <2>2. /\ q \in Seq(Request) /\ Len(q) = Len(toHost) + 1 /\ q[Len(toHost) + 1] = r
    BY <1>1, QueueAppend
  <2>. HIDE DEF q
  <2>3. \A i \in 1 .. Len(q) + Len(d) : (q \o d)[i] = IF i <= Len(q) THEN q[i] ELSE d[i - Len(q)]
    BY <2>2, ConcatProperties
  <2>4. Len(q) \in 1 .. Len(q) + Len(d) /\ Len(q) <= Len(q)
    BY <1>3, <2>2
  <2>5. NextRequest = r
    BY <1>2, <2>1, <2>2, <2>3, <2>4 DEF NextRequest, q
  <2>. QED
    BY <2>1, <2>5
<1>. QED
  BY <1>4, <1>5

\* Only wl_surface.commit sends a commit.
LEMMA CommitStep ==
  ASSUME CoreTypes, [Next]_vars, Commits
  PROVE  \E s \in Surfaces : OnCommit(s) /\ NextRequest = CommitReq(s)
<1>0. /\ toHost \in Seq(Request) /\ Len(toHost) \in Nat /\ toHost' # toHost
      /\ NextRequest.op = "commit"
  BY LenProperties DEF CoreTypes, Queues, Commits
<1>1. \A r, q : <<r>> = <<q>> => r = q
  OBVIOUS
<1>2. ASSUME NEW s \in Surfaces, NEW b \in Buffers \cup {"Detach"}, OnAttach(s, b) PROVE FALSE
  <2>1. \E r \in Request : <<AttachReq(s, b)>> = <<r>> /\ NextRequest = r
    BY <1>2, AttachEnds, AttachRetires, FirstRequest DEF CoreTypes
  <2>. QED
    BY <1>0, <1>1, <2>1 DEF AttachReq
<1>3. ASSUME NEW s \in Surfaces, DestroySurface(s) PROVE FALSE
  <2>1. \E r \in Request : <<SurfaceDestroyReq(s)>> = <<r>> /\ NextRequest = r
    BY <1>3, SurfaceEnds, DestroySurfaceRetires, FirstRequest DEF CoreTypes
  <2>. QED
    BY <1>0, <1>1, <2>1 DEF SurfaceDestroyReq
<1>4. ASSUME NEW e, NEW t, Ends(<<>>, e, t) PROVE FALSE
  <2>1. <<>> \in PlainReqs /\ \A r : <<>> # <<r>>
    BY DEF PlainReqs
  <2>. QED
    BY <1>4, <2>1, FirstRequest
<1>5. ASSUME NEW s \in Surfaces, CommitCopyFails(s) \/ CommitFatal(s) PROVE FALSE
  BY <1>4, <1>5, FailEnds
<1>6. ASSUME NEW b \in Buffers, DestroyBuffer(b) PROVE FALSE
  BY <1>4, <1>6, BufferEnds
<1>7. ASSUME OnRelease PROVE FALSE
  <2>1. CASE Active(buffers, EventBuffer)
    BY <1>4, <1>7, <2>1, ReleaseEnds
  <2>2. CASE ~Active(buffers, EventBuffer)
    BY <1>0, <1>7, <2>2, ReleaseEnds
  <2>. QED
    BY <2>1, <2>2
<1>8. ASSUME HostReceive PROVE FALSE
  <2>1. toHost # <<>> /\ toHost' = Tail(toHost)
    BY <1>8 DEF HostReceive
  <2>2. Len(toHost') = Len(toHost) - 1
    BY <1>0, <2>1, QueueTail
  <2>. QED
    BY <1>0, <2>2 DEF Commits
<1>9. ASSUME NEW s \in Surfaces, OnCommit(s) PROVE NextRequest = CommitReq(s)
  <2>1. \E r \in Request : <<CommitReq(s)>> = <<r>> /\ NextRequest = r
    BY <1>9, CommitEnds, CommitRetires, FirstRequest DEF CoreTypes
  <2>. QED
    BY <1>1, <2>1
<1>10. ASSUME NEW s \in Surfaces, Adjust(s) PROVE FALSE
  BY <1>0, <1>10, AdjustShape DEF CoreTypes
<1>11. ASSUME \/ \E b \in Buffers : CreateBuffer(b) \/ HostRelease(b)
              \/ \E b \in LocalBuffers, R \in (SUBSET Regions) \ {{}} : Draw(b, R)
              \/ OnDeleteId \/ UNCHANGED vars
       PROVE  FALSE
  BY <1>0, <1>11 DEF CreateBuffer, HostRelease, Draw, OnDeleteId, vars
<1>. QED
  BY <1>2, <1>3, <1>5, <1>6, <1>7, <1>8, <1>9, <1>10, <1>11, StepKinds

PixelsArrive ==
  Commits =>
    LET s == NextRequest.surface
        b == Attached(surfaces[s])
    IN  /\ owed[s] \subseteq NextRequest.damage
        /\ b \in LocalBuffers =>
             /\ \A r \in owed[s] : storage'[b][r] = pixels[b][r]
             /\ None \notin Range(storage'[b])

LEMMA CommitBringsPixels ==
  ASSUME CoreTypes, PixelTypes, CopyInv, [Next]_vars
  PROVE  PixelsArrive
<1>. SUFFICES ASSUME Commits
              PROVE  /\ owed[NextRequest.surface] \subseteq NextRequest.damage
                     /\ Attached(surfaces[NextRequest.surface]) \in LocalBuffers =>
                          /\ \A r \in owed[NextRequest.surface] :
                               storage'[Attached(surfaces[NextRequest.surface])][r]
                                 = pixels[Attached(surfaces[NextRequest.surface])][r]
                          /\ None \notin Range(storage'[Attached(surfaces[NextRequest.surface])])
  BY DEF PixelsArrive
<1>1. PICK s \in Surfaces : OnCommit(s) /\ NextRequest = CommitReq(s)
  BY CommitStep
<1>2. NextRequest.surface = s /\ NextRequest.damage = HostDamage(surfaces[s])
  BY <1>1 DEF CommitReq
<1>3. owed[s] \subseteq HostDamage(surfaces[s])
  <2>1. surfaces[s] # None
    BY <1>1 DEF OnCommit, GuestCommits, Live
  <2>2. Reports(surfaces[s], owed[s]) /\ owed[s] \subseteq Regions
    BY <2>1 DEF CopyInv, DamageKept, PixelTypes
  <2>. QED
    BY <2>2 DEF Reports, HostDamage
<1>4. ASSUME Attached(surfaces[s]) \in LocalBuffers
      PROVE  /\ \A r \in owed[s] :
                  storage'[Attached(surfaces[s])][r] = pixels[Attached(surfaces[s])][r]
             /\ None \notin Range(storage'[Attached(surfaces[s])])
  BY <1>1, <1>4, CommitStorage DEF Range
<1>. QED
  BY <1>2, <1>3, <1>4

\* DamagedPixelsReachHost: when a commit goes out, everything the guest damaged
\* since the last commit the host was sent is in the host's storage and damage, and
\* none of that storage is uninitialised, also after dropped commits and at the cap
\* on rectangles.
THEOREM DamagedPixelsAlwaysReachHost == Spec => DamagedPixelsReachHost
<1>. DEFINE I == CoreTypes /\ PixelTypes /\ CopyInv
<1>1. Init => I
  BY CoreInit, CopyInit
<1>2. I /\ [Next]_vars => I'
  BY CoreNext, PixelNext, DamageKeptNext, StorageNext DEF CopyInv
<1>3. I /\ [Next]_vars => [PixelsArrive]_vars
  BY CommitBringsPixels
<1>4. Spec => [][PixelsArrive]_vars
  BY <1>1, <1>2, <1>3, PTL DEF Spec
<1>. QED
  BY <1>4 DEF DamagedPixelsReachHost, PixelsArrive
=============================================================================
