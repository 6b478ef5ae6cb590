----------------------------- MODULE PixelCopies -----------------------------
(***************************************************************************)
(* What one wl_surface.commit does with pixels (handler/shm.rs,             *)
(* handler/compositor.rs, DamageRegion of state/render.rs).  A guest buffer *)
(* is accepted by arithmetic on its layout and given a destination whose    *)
(* layout the host allocator chooses; damage accumulates in surface and in  *)
(* buffer coordinates; the commit merges it, copies the damaged bytes plane *)
(* by plane and sends the host damage in surface coordinates.               *)
(*                                                                         *)
(* f64 arithmetic is exact rational arithmetic here: the values compared    *)
(* are quotients of small integers, and rounding never moves an enclosing   *)
(* edge inwards across an integer.                                          *)
(***************************************************************************)
EXTENDS Integers, Sequences, FiniteSets, SequencesExt

CONSTANTS
  Requests,      \* create_buffer arguments: [format, offset, width, height, stride, pool]
  Metadata,      \* host allocator answers: [strides, offsets, file]
  Mappings,      \* [scale, transform, source, destination], <<>> where unset
  Rects,         \* damage rectangles [x, y, w, h] the guest sends
  MaxI32,        \* i32::MAX
  PageSize,      \* sysconf(_SC_PAGESIZE)
  MaxPending     \* MAX_PENDING_DAMAGE_RECTS

\* Rectangles of i32; negative sizes are left out, Push drops them like empty ones.
ConstantsInRange ==
  /\ {MaxI32, PageSize, MaxPending} \subseteq Nat \ {0}
  /\ \A r \in Rects : /\ r.x >= -MaxI32 - 1 /\ r.y >= -MaxI32 - 1
                      /\ {r.w, r.h} \subseteq 0..MaxI32

VARIABLES
  req,      \* the accepted create_buffer request, or None
  dest,     \* where it is copied to: [stride, offset1, stride1, size]
  mapping,  \* scale, transform and viewport of the surface
  surface, buffer,   \* pending_surface_damage, pending_buffer_damage
  fresh,    \* needs_full_copy
  out       \* what the last commit did, or None

vars == <<req, dest, mapping, surface, buffer, fresh, out>>

None == [none |-> TRUE]
Full == <<None>>

Init ==
  /\ req = None /\ dest = None /\ out = None
  /\ mapping \in Mappings
  /\ surface = <<>> /\ buffer = <<>> /\ fresh = TRUE

-----------------------------------------------------------------------------
(* Layouts.                                                                *)

Planar(format) == format = "nv12"
Even(n) == n % 2 = 0
EvenDown(n) == 2 * (n \div 2)

format_bytes_per_pixel(format) ==
  CASE format = "nv12" -> 1 [] format = "rgb565" -> 2 [] OTHER -> 4

valid_shm_stride(format, width, stride) ==
  /\ stride >= width * format_bytes_per_pixel(format)
  /\ Planar(format) => Even(width) /\ Even(stride)

BufferBytes(r) ==
  r.stride * r.height + (IF Planar(r.format) THEN r.stride * (r.height \div 2) ELSE 0)

valid_buffer_layout(r) ==
  /\ r.offset >= 0 /\ r.width > 0 /\ r.height > 0 /\ r.stride > 0
  /\ Planar(r.format) => Even(r.width) /\ Even(r.height)
  /\ r.offset + BufferBytes(r) <= r.pool
  /\ BufferBytes(r) <= MaxI32

\* validate_dmabuf_layout: the span to map for the metadata an allocator returned.
PlaneEnd0(r, m) == m.offsets[1] + m.strides[1] * r.height
PlaneEnd1(r, m) == m.offsets[2] + m.strides[2] * (r.height \div 2)

Span(r, m) ==
  IF Planar(r.format) /\ PlaneEnd1(r, m) > PlaneEnd0(r, m) THEN PlaneEnd1(r, m)
  ELSE PlaneEnd0(r, m)

validate_dmabuf_layout(r, m) ==
  /\ r.width # 0 /\ r.height # 0 /\ m.strides[1] # 0
  /\ Planar(r.format) => Even(r.width) /\ Even(r.height)
  /\ m.strides[1] >= r.width * format_bytes_per_pixel(r.format)
  /\ Planar(r.format) =>
       /\ m.strides[2] >= r.width /\ Even(m.strides[2])
       /\ m.offsets[2] >= PlaneEnd0(r, m)

\* map_dmabuf: the offset is a page's, and a file with a size holds the span;
\* file is 0 for providers without one.
map_dmabuf(r, m) ==
  /\ Span(r, m) > m.offsets[1]
  /\ m.offsets[1] % PageSize = 0
  /\ m.file > 0 => m.file >= Span(r, m)

\* Storage of the guest's own layout, from VirtWL shared memory.
ShmDest(r) ==
  [stride |-> r.stride, size |-> BufferBytes(r),
   offset1 |-> IF Planar(r.format) THEN r.height * r.stride ELSE 0,
   stride1 |-> IF Planar(r.format) THEN r.stride ELSE 0]

DmabufDest(r, m) ==
  [stride |-> m.strides[1], size |-> Span(r, m) - m.offsets[1],
   offset1 |-> IF Planar(r.format) THEN m.offsets[2] - m.offsets[1] ELSE 0,
   stride1 |-> IF Planar(r.format) THEN m.strides[2] ELSE 0]

OnCreateBuffer(r) ==
  /\ req = None
  /\ valid_shm_stride(r.format, r.width, r.stride) /\ valid_buffer_layout(r)
  /\ req' = r
  /\ \/ dest' = ShmDest(r)
     \/ \E m \in Metadata :
          /\ validate_dmabuf_layout(r, m) /\ map_dmabuf(r, m)
          /\ dest' = DmabufDest(r, m)
  /\ UNCHANGED <<mapping, surface, buffer, fresh, out>>

-----------------------------------------------------------------------------
(* Damage.                                                                 *)

\* DamageRegion::push: empty rectangles are dropped, the cap means everything.
Push(region, r) ==
  IF region = Full \/ r.w <= 0 \/ r.h <= 0 THEN region
  ELSE IF Len(region) >= MaxPending THEN Full ELSE Append(region, r)

OnDamage(r) ==
  /\ req # None
  /\ surface' = Push(surface, r) /\ out' = None
  /\ UNCHANGED <<req, dest, mapping, buffer, fresh>>

OnDamageBuffer(r) ==
  /\ req # None
  /\ buffer' = Push(buffer, r) /\ out' = None
  /\ UNCHANGED <<req, dest, mapping, surface, fresh>>

RectsOf(region) == IF region = Full THEN <<>> ELSE region

\* A rectangle by its edges: damage_edges, damage_from_edges.
Edges(r) == [x0 |-> r.x, y0 |-> r.y, x1 |-> r.x + r.w, y1 |-> r.y + r.h]
FromEdges(e) == [x |-> e.x0, y |-> e.y0, w |-> e.x1 - e.x0, h |-> e.y1 - e.y0]

Lesser(a, b) == IF a < b THEN a ELSE b
Greater(a, b) == IF a > b THEN a ELSE b

damage_edges_fit_i32(e) ==
  /\ {e.x0, e.y0} \subseteq (-MaxI32 - 1)..MaxI32
  /\ e.x1 <= MaxI32 /\ e.y1 <= MaxI32
  /\ e.x1 - e.x0 <= MaxI32 /\ e.y1 - e.y0 <= MaxI32

damage_rects_touch_or_overlap(a, b) ==
  a.x0 <= b.x1 /\ b.x0 <= a.x1 /\ a.y0 <= b.y1 /\ b.y0 <= a.y1

damage_area(e) == (e.x1 - e.x0) * (e.y1 - e.y0)

damage_union_is_compact(a, b, union) ==
  2 * damage_area(union) <= 3 * (damage_area(a) + damage_area(b))

Expanded(a, b) ==
  [x0 |-> Lesser(a.x0, b.x0), y0 |-> Lesser(a.y0, b.y0),
   x1 |-> Greater(a.x1, b.x1), y1 |-> Greater(a.y1, b.y1)]

Mergeable(a, b) ==
  /\ damage_rects_touch_or_overlap(a, b)
  /\ damage_edges_fit_i32(Expanded(a, b))
  /\ damage_union_is_compact(a, b, Expanded(a, b))

\* Vec::swap_remove.
SwapRemove(s, i) == Front([s EXCEPT ![i] = s[Len(s)]])

\* One turn of the inner loop: the first rectangle that merges is absorbed.
Absorb(acc) ==
  LET found == {i \in DOMAIN acc.merged : Mergeable(acc.cand, Edges(acc.merged[i]))}
      i == CHOOSE j \in found : \A k \in found : j <= k
  IN IF found = {} THEN acc
     ELSE [cand |-> Expanded(acc.cand, Edges(acc.merged[i])),
           merged |-> SwapRemove(acc.merged, i)]

\* The loop ends once nothing merges: each turn removes a rectangle.
InsertRect(merged, r) ==
  IF r.w <= 0 \/ r.h <= 0 THEN merged
  ELSE LET end == FoldLeft(LAMBDA acc, i : Absorb(acc),
                           [cand |-> Edges(r), merged |-> merged], merged)
       IN Append(end.merged,
                 IF damage_edges_fit_i32(end.cand) THEN FromEdges(end.cand) ELSE r)

coalesce_damage_rects(damage) == FoldLeft(InsertRect, <<>>, damage)

-----------------------------------------------------------------------------
(* The copy.                                                               *)

\* clipped_damage: the part of a rectangle inside the image.
Clipped(r) ==
  [x0 |-> Greater(r.x, 0), y0 |-> Greater(r.y, 0),
   x1 |-> Lesser(r.x + r.w, req.width), y1 |-> Lesser(r.y + r.h, req.height)]

Inside(e) == e.x0 < e.x1 /\ e.y0 < e.y1

\* Mutant: an odd lower edge loses its chroma row.
ChromaEdgesShort(e) ==
  [x0 |-> EvenDown(e.x0), y0 |-> e.y0 \div 2,
   x1 |-> e.x1, y1 |-> Greater(e.y1 \div 2, e.y0 \div 2 + 1)]

\* Complete chroma samples: two pixels wide in bytes, two lines high.
ChromaEdges(e) ==
  LET x0 == EvenDown(e.x0)
      end == Lesser(e.x1 + 1, req.width)
      x1 == EvenDown(end)
  IN [x0 |-> x0, y0 |-> e.y0 \div 2,
      x1 |-> IF x1 <= x0 THEN Lesser(x0 + 2, req.width) ELSE x1,
      y1 |-> (e.y1 + 1) \div 2]

PlaneCopy(e, bpp, src, dst, dstStride) ==
  [src |-> src + e.y0 * req.stride + e.x0 * bpp, srcStride |-> req.stride,
   dst |-> dst + e.y0 * dstStride + e.x0 * bpp, dstStride |-> dstStride,
   rows |-> e.y1 - e.y0, bytes |-> (e.x1 - e.x0) * bpp]

PlaneCopies(e) ==
  <<PlaneCopy(e, format_bytes_per_pixel(req.format), req.offset, 0, dest.stride)>>
    \o (IF Planar(req.format)
        THEN <<PlaneCopy(ChromaEdges(e), 1, req.offset + req.height * req.stride,
                         IF dest.stride1 = 0 THEN req.height * dest.stride ELSE dest.offset1,
                         IF dest.stride1 = 0 THEN dest.stride ELSE dest.stride1)>>
        ELSE <<>>)

valid_plane_copy(p) ==
  /\ p.rows # 0 /\ p.bytes # 0 /\ p.bytes <= p.srcStride /\ p.bytes <= p.dstStride
  /\ p.src + (p.rows - 1) * p.srcStride + p.bytes <= req.pool
  /\ p.dst + (p.rows - 1) * p.dstStride + p.bytes <= dest.size

\* copy_shm_damage: the planes of every merged rectangle, checked before any of
\* them is copied.
Spans(damage) ==
  LET inside == SelectSeq(coalesce_damage_rects(damage), LAMBDA r : Inside(Clipped(r)))
  IN FlattenSeq([i \in DOMAIN inside |-> PlaneCopies(Clipped(inside[i]))])

uses_full_mapping ==
  \/ mapping.scale # 1 \/ mapping.transform # 0
  \/ mapping.source # <<>> \/ mapping.destination # <<>>

WholeImage == <<[x |-> 0, y |-> 0, w |-> req.width, h |-> req.height]>>

\* copy_damage_to_ptr.
CopiedDamage ==
  IF fresh \/ surface = Full \/ buffer = Full \/ (uses_full_mapping /\ surface # <<>>)
  THEN WholeImage ELSE surface \o buffer

-----------------------------------------------------------------------------
(* Damage for the host, in surface coordinates.                            *)

DamageMin == -((MaxI32 + 1) \div 10)
DamageMax == MaxI32 \div 10
clamp_damage_edge(v) == Greater(DamageMin, Lesser(v, DamageMax))

Ceil(n, d) == -((-n) \div d)
Trunc(n, d) == IF n >= 0 THEN n \div d ELSE -((-n) \div d)

Swapped == mapping.transform % 2 = 1
Width == IF Swapped THEN req.height ELSE req.width
Height == IF Swapped THEN req.width ELSE req.height

\* full_surface_damage, and the answer for transformed surfaces; source
\* rectangles are <<x, y, w, h>> in 256ths.
full_surface_damage ==
  LET whole(w, h) == [x |-> 0, y |-> 0, w |-> w, h |-> h]
  IN IF mapping.destination # <<>>
     THEN whole(mapping.destination[1], mapping.destination[2])
     ELSE IF mapping.source # <<>>
     THEN whole(Greater(mapping.source[3] \div 256, 1), Greater(mapping.source[4] \div 256, 1))
     ELSE whole(Ceil(Width, mapping.scale), Ceil(Height, mapping.scale))

map_surface_damage(r) ==
  LET left == clamp_damage_edge(r.x - 1)
      top == clamp_damage_edge(r.y - 1)
  IN [x |-> left, y |-> top,
      w |-> Greater(clamp_damage_edge(r.x + r.w + 1) - left, 1),
      h |-> Greater(clamp_damage_edge(r.y + r.h + 1) - top, 1)]

\* One axis of map_buffer_damage: axis 1 or 2, extent of the buffer; scale is
\* the fraction ScaleNum / ScaleDen, the source offset is truncated.
ScaleNum(axis, extent) ==
  IF mapping.destination = <<>> THEN mapping.scale
  ELSE mapping.scale * (IF mapping.source = <<>> THEN extent * 256 ELSE mapping.source[axis + 2])

ScaleDen(axis) == IF mapping.destination = <<>> THEN 1 ELSE 256 * mapping.destination[axis]

SourceOffset(axis) == IF mapping.source = <<>> THEN 0 ELSE mapping.source[axis] \div 256

MapAxis(axis, extent, from, length) ==
  LET start == (clamp_damage_edge(from - 1) - SourceOffset(axis)) * ScaleDen(axis)
      end == (clamp_damage_edge(from + length + 1) - SourceOffset(axis)) * ScaleDen(axis)
      left == Greater(Trunc(start, ScaleNum(axis, extent)), DamageMin)
      right == Lesser(Ceil(end, ScaleNum(axis, extent)), DamageMax)
  IN [from |-> left, length |-> Greater(right - left, 1)]

map_buffer_damage(r) ==
  IF mapping.transform # 0 THEN full_surface_damage
  ELSE LET x == MapAxis(1, req.width, r.x, r.w)
           y == MapAxis(2, req.height, r.y, r.h)
       IN [x |-> x.from, y |-> y.from, w |-> x.length, h |-> y.length]

force_full_damage ==
  \/ fresh \/ surface = Full \/ buffer = Full
  \/ uses_full_mapping /\ surface = <<>> /\ buffer = <<>>

\* build_surface_commit_messages.
HostDamage ==
  LET surf == RectsOf(surface) buf == RectsOf(buffer)
      mapped == (IF force_full_damage THEN <<full_surface_damage>> ELSE <<>>)
                  \o [i \in DOMAIN surf |-> map_surface_damage(surf[i])]
                  \o [i \in DOMAIN buf |-> map_buffer_damage(buf[i])]
  IN SelectSeq(coalesce_damage_rects(mapped), LAMBDA r : r.w > 0 /\ r.h > 0)

\* A commit that attaches the buffer.
OnCommit ==
  /\ req # None
  /\ LET spans == Spans(CopiedDamage)
         ok == \A i \in DOMAIN spans : valid_plane_copy(spans[i])
     IN /\ out' = [ok |-> ok, spans |-> spans, host |-> HostDamage,
                   surface |-> surface, buffer |-> buffer]
        /\ fresh' = ~ok
        /\ IF ok THEN surface' = <<>> /\ buffer' = <<>> ELSE UNCHANGED <<surface, buffer>>
  /\ UNCHANGED <<req, dest, mapping>>

Next ==
  \/ \E r \in Requests : OnCreateBuffer(r)
  \/ \E r \in Rects : OnDamage(r) \/ OnDamageBuffer(r)
  \/ OnCommit

Spec == Init /\ [][Next]_vars

-----------------------------------------------------------------------------
(* Properties.                                                             *)

Committed == out # None

Rows(p) == 0..(p.rows - 1)
Bytes(p) == 0..(p.bytes - 1)

\* Whatever create_buffer accepted can be copied at every later commit, and the
\* copy stays inside the guest's buffer and inside the storage the host
\* allocated, whichever planes and rectangles are merged.
AcceptedBufferCopies ==
  Committed =>
    /\ out.ok
    /\ \A i \in DOMAIN out.spans : LET p == out.spans[i]
       IN \A y \in Rows(p) :
            /\ p.src + y * p.srcStride >= req.offset
            /\ p.src + y * p.srcStride + p.bytes <= req.offset + BufferBytes(req)
            /\ p.dst + y * p.dstStride + p.bytes <= dest.size

\* The pixels of the image a region touches, in buffer coordinates.
Pixels == (0..(req.width - 1)) \X (0..(req.height - 1))
Touches(r, px) == /\ r.x <= px[1] /\ px[1] < r.x + r.w
                  /\ r.y <= px[2] /\ px[2] < r.y + r.h
Damaged(region, px) == region = Full \/ \E i \in DOMAIN region : Touches(region[i], px)

\* The first byte of a pixel in plane 0 and its chroma pair in plane 1, as
\* source and destination.
LumaAt(px) ==
  LET bpp == format_bytes_per_pixel(req.format)
  IN <<req.offset + px[2] * req.stride + px[1] * bpp, px[2] * dest.stride + px[1] * bpp, bpp>>

ChromaAt(px) ==
  LET x == EvenDown(px[1]) y == px[2] \div 2
  IN <<req.offset + (req.height + y) * req.stride + x, dest.offset1 + y * dest.stride1 + x, 2>>

\* Every byte from at[1] on goes to at[2].
CopiedAt(at) ==
  \A b \in 0..(at[3] - 1) :
    \E i \in DOMAIN out.spans : LET p == out.spans[i]
    IN \E y \in Rows(p) : \E x \in Bytes(p) :
         /\ p.src + y * p.srcStride + x = at[1] + b
         /\ p.dst + y * p.dstStride + x = at[2] + b

\* No damaged pixel is lost between the guest's requests and the host's
\* storage: its colour and, for two-plane formats, its chroma sample are copied
\* to the place the host reads them from.
DamageIsCopied ==
  Committed =>
    \A px \in Pixels :
      (\/ Damaged(out.buffer, px)
       \/ out.surface # <<>> /\ (uses_full_mapping \/ Damaged(out.surface, px)))
      => CopiedAt(LumaAt(px)) /\ (Planar(req.format) => CopiedAt(ChromaAt(px)))

\* The surface pixels that show a buffer pixel along one axis: the viewport
\* protocol crops in units of the scaled buffer, then stretches.
SourceFrom(axis) == IF mapping.source = <<>> THEN 0 ELSE mapping.source[axis]
SourceSize(axis, extent) ==
  IF mapping.source = <<>> THEN (256 * extent) \div mapping.scale ELSE mapping.source[axis + 2]
SurfaceSize(axis) == IF axis = 1 THEN full_surface_damage.w ELSE full_surface_damage.h

Shows(axis, extent, p, b) ==
  LET unit == mapping.scale * SourceSize(axis, extent)
      edge(v) == (256 * v - mapping.scale * SourceFrom(axis)) * SurfaceSize(axis)
  IN p * unit < edge(b + 1) /\ edge(b) < (p + 1) * unit

SurfacePixels == (0..(SurfaceSize(1) - 1)) \X (0..(SurfaceSize(2) - 1))
ToldHost(p) == \E i \in DOMAIN out.host : Touches(out.host[i], p)

\* The host is told of every visible surface pixel whose content may have
\* changed: enclosing, merging and clamping never drop damage.
HostDamageCovers ==
  Committed =>
    \A p \in SurfacePixels :
      (\/ Damaged(out.surface, p)
       \/ out.buffer = Full
       \/ out.buffer # <<>> /\ mapping.transform # 0
       \/ mapping.transform = 0 /\ \E px \in Pixels :
            /\ Damaged(out.buffer, px)
            /\ Shows(1, req.width, p[1], px[1]) /\ Shows(2, req.height, p[2], px[2]))
      => ToldHost(p)

\* Frames are copied exactly: in bounds, nothing damaged is left out, and the
\* host is told of the part of the surface that shows it.
CopyIsExact == AcceptedBufferCopies /\ DamageIsCopied /\ HostDamageCovers
=============================================================================
