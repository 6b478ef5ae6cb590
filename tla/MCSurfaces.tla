----------------------------- MODULE MCSurfaces -----------------------------
(***************************************************************************)
(* The two halves of what compositor.rs keeps for a surface: its roles and *)
(* names (SurfaceRoles) and the geometry of its copies (PixelCopies).  No  *)
(* handler reads or writes both, so a behaviour moves one half and leaves  *)
(* the other in its initial state.                                         *)
(***************************************************************************)
EXTENDS SurfaceRoles

CONSTANTS s1, s2

VARIABLES half, req, dest, mapping, surfaceDamage, bufferDamage, fresh, out

pixelVars == <<req, dest, mapping, surfaceDamage, bufferDamage, fresh, out>>

MCSymmetry == Permutations({s1, s2})

-----------------------------------------------------------------------------
(* Strings that are empty, fit exactly, are one byte too long, hold a NUL,  *)
(* lack theirs or are followed by more data                                *)

MCPrefix == <<9, 9>>
Fits == <<1, 2, 1, 2, 1>>
MCPayloads ==
  { write_string(<<>>), write_string(Fits), write_string(Append(Fits, 2)),
    write_string(<<2, 0, 1>>), <<3, 0, 0, 0, 1, 2, 1, 2>>, write_u32(0),
    write_string(<<1>>) \o write_u32(7) }
MCStartupIds == { write_string(<<3>>), write_u32(0) }

-----------------------------------------------------------------------------
(* Small images of every kind of format, padded layouts, viewports, and    *)
(* rectangles inside, across and far outside the image                     *)

Request(f, o, w, h, s, p) ==
  [format |-> f, offset |-> o, width |-> w, height |-> h, stride |-> s, pool |-> p]

MCRequests ==
  {Request("nv12", 2, 4, 4, 6, p) : p \in {37, 38, 26}}
    \cup {Request("rgb565", 0, 4, 4, 8, 32), Request("nv12", 0, 3, 2, 4, 12)}

MCMetadata ==
  {[strides |-> <<s, t>>, offsets |-> <<o, q>>, file |-> f] :
     s \in {8}, t \in {6}, o \in {0, 2, 4}, q \in {32, 36}, f \in {0, 47}}

Mapping(s, t, src, dst) ==
  [scale |-> s, transform |-> t, source |-> src, destination |-> dst]

\* A buffer scale and a viewport destination are not combined: see README.
MCMappings ==
  {Mapping(1, 0, <<>>, <<>>), Mapping(2, 0, <<>>, <<>>), Mapping(2, 1, <<>>, <<>>),
   Mapping(1, 0, <<>>, <<3, 6>>), Mapping(1, 0, <<256, 0, 512, 768>>, <<>>),
   Mapping(1, 0, <<384, 128, 512, 640>>, <<5, 2>>)}

MCMaxI32 == 200
Rect(x, y, w, h) == [x |-> x, y |-> y, w |-> w, h |-> h]

MCRects ==
  {Rect(1, 0, 2, 1), Rect(2, 1, 5, 2),
   Rect(-2, -1, 4, 3), Rect(0, 0, MCMaxI32, MCMaxI32),
   Rect(-MCMaxI32 - 1, 0, MCMaxI32, 2), Rect(2, 2, 0, 1)}

Pixels == INSTANCE PixelCopies
            WITH Requests <- MCRequests, Metadata <- MCMetadata,
                 Mappings <- MCMappings, Rects <- MCRects, MaxI32 <- MCMaxI32,
                 PageSize <- 4, MaxPending <- 2,
                 surface <- surfaceDamage, buffer <- bufferDamage

ASSUME PixelsAssumption == Pixels!ConstantsInRange

-----------------------------------------------------------------------------
MCInit ==
  /\ half \in {"roles", "pixels"} /\ Init /\ Pixels!Init
  /\ half = "roles" => mapping = Mapping(1, 0, <<>>, <<>>)

RoleStep  == half = "roles" /\ Next /\ UNCHANGED <<half, pixelVars>>
PixelStep == half = "pixels" /\ Pixels!Next /\ UNCHANGED <<half, vars>>

MCSpec == MCInit /\ [][RoleStep \/ PixelStep]_<<half, vars, pixelVars>>

\* Frames are copied in bounds, damaged pixels with their chroma, and the host
\* is told of everything that changed (PixelCopies).
CopyIsExact == Pixels!CopyIsExact
=============================================================================
