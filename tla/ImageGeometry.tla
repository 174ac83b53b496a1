---------------------------- MODULE ImageGeometry ----------------------------
(***************************************************************************)
(* What becomes of the shape of a picture: an upload is decoded, turned    *)
(* according to the orientation its camera noted, reduced to the largest   *)
(* size that is stored, and may be rotated in quarter turns later on.  The  *)
(* size of what is stored is recorded in its row, which a rotation updates *)
(* only after it has rewritten the file.  Rotations of one photo come one  *)
(* after the other here; PhotoLibrary has those that overlap.              *)
(*                                                                         *)
(* Of the pixels only the corners are kept: an arrangement says for each   *)
(* corner of the raster which corner of the photographed scene is there.   *)
(* The flips and turns are the library's; it turns counter-clockwise, as   *)
(* rotate.go says.                                                         *)
(***************************************************************************)
EXTENDS Integers

CONSTANTS
  MaxDimension,         \* largest width or height of an upload (10000)
  MaxPipelineDimension, \* largest width or height that is stored (1920)
  MaxSide               \* bound: width or height of what a user may send

ASSUME GeometryConstants ==
  /\ MaxDimension \in Nat \ {0}
  /\ MaxPipelineDimension \in Nat \ {0}
  /\ MaxSide \in Nat

VARIABLES
  stage,    \* what has been done with the picture so far
  tag,      \* the orientation its camera noted; 0 if there is none
  legible,  \* whether the server can read what was noted
  original, \* the size of what was decoded
  size,     \* the size of the picture as it is
  picture,  \* its arrangement
  row,      \* the size its row records, once it is stored
  stale     \* history: the last rewritten file did not get its size recorded

vars == <<stage, tag, legible, original, size, picture, row, stale>>

Side == 1..MaxSide
Size == [w : Nat \ {0}, h : Nat \ {0}]

\* Tags 1 to 8 have a meaning; a file may hold another number, or none.
Tags == 0..9

Corners == {"topLeft", "topRight", "bottomRight", "bottomLeft"}
Arrangement == [Corners -> Corners]

At(tl, tr, br, bl) ==
  [c \in Corners |-> CASE c = "topLeft" -> tl [] c = "topRight" -> tr
                       [] c = "bottomRight" -> br [] c = "bottomLeft" -> bl]

Upright == At("topLeft", "topRight", "bottomRight", "bottomLeft")

\* How a camera stores an upright scene, by the tag it notes (the standard
\* names the sides of the scene that the first row and column show).
Stored(o) ==
  CASE o = 2 -> At("topRight", "topLeft", "bottomLeft", "bottomRight")
    [] o = 3 -> At("bottomRight", "bottomLeft", "topLeft", "topRight")
    [] o = 4 -> At("bottomLeft", "bottomRight", "topRight", "topLeft")
    [] o = 5 -> At("topLeft", "bottomLeft", "bottomRight", "topRight")
    [] o = 6 -> At("topRight", "bottomRight", "bottomLeft", "topLeft")
    [] o = 7 -> At("bottomRight", "topRight", "topLeft", "bottomLeft")
    [] o = 8 -> At("bottomLeft", "topLeft", "topRight", "bottomRight")
    [] OTHER -> Upright

---------------------------------------------------------------------------
(* The library.                                                            *)

FlipH(p) ==
  At(p["topRight"], p["topLeft"], p["bottomLeft"], p["bottomRight"])
FlipV(p) ==
  At(p["bottomLeft"], p["bottomRight"], p["topRight"], p["topLeft"])
Rotate90(p) ==
  At(p["topRight"], p["bottomRight"], p["bottomLeft"], p["topLeft"])
Rotate180(p) ==
  At(p["bottomRight"], p["bottomLeft"], p["topLeft"], p["topRight"])
Rotate270(p) ==
  At(p["bottomLeft"], p["topLeft"], p["topRight"], p["bottomRight"])

Swapped(s) == [w |-> s.h, h |-> s.w]

---------------------------------------------------------------------------
(* The pipeline.                                                           *)

orientationTransform(p, o) ==
  CASE o = 2 -> FlipH(p)
    [] o = 3 -> Rotate180(p)
    [] o = 4 -> FlipV(p)
    [] o = 5 -> Rotate270(FlipH(p))
    [] o = 6 -> Rotate90(p)
    [] o = 7 -> Rotate90(FlipH(p))
    [] o = 8 -> Rotate270(p)
    [] OTHER -> p

\* The tags whose transform is a quarter turn.
OrientedSize(s, o) == IF o \in 5..8 THEN Swapped(s) ELSE s

AtLeastOne(n) == IF n < 1 THEN 1 ELSE n

\* Mutant: a thin picture is reduced to nothing.
MutCalculateDimensionsThin(w, h, maxDim) ==
  IF w <= maxDim /\ h <= maxDim THEN [w |-> w, h |-> h]
  ELSE IF w > h THEN [w |-> maxDim, h |-> (h * maxDim) \div w]
  ELSE [w |-> (w * maxDim) \div h, h |-> maxDim]

\* Mutant: the width decides, whichever side is longer.
MutCalculateDimensionsByWidth(w, h, maxDim) ==
  IF w <= maxDim /\ h <= maxDim THEN [w |-> w, h |-> h]
  ELSE [w |-> maxDim, h |-> AtLeastOne((h * maxDim) \div w)]

\* Mutant: divided before it is multiplied.
MutCalculateDimensionsCoarse(w, h, maxDim) ==
  IF w <= maxDim /\ h <= maxDim THEN [w |-> w, h |-> h]
  ELSE IF w > h THEN [w |-> maxDim, h |-> AtLeastOne(maxDim \div (w \div h))]
  ELSE [w |-> AtLeastOne(maxDim \div (h \div w)), h |-> maxDim]

calculateDimensions(w, h, maxDim) ==
  IF w <= maxDim /\ h <= maxDim THEN [w |-> w, h |-> h]
  ELSE IF w > h THEN [w |-> maxDim, h |-> AtLeastOne((h * maxDim) \div w)]
  ELSE [w |-> AtLeastOne((w * maxDim) \div h), h |-> maxDim]

\* Nothing is there; sizes are then of no account.
Nothing == [w |-> 1, h |-> 1]

Init ==
  /\ stage = "none"
  /\ tag = 0
  /\ legible = TRUE
  /\ original = Nothing
  /\ size = Nothing
  /\ picture = Upright
  /\ row = Nothing
  /\ stale = FALSE

\* ValidateAndDecode: a picture that is too large is refused.
Decode(w, h, o, l) ==
  /\ stage = "none"
  /\ w <= MaxDimension
  /\ h <= MaxDimension
  /\ stage' = "decoded"
  /\ tag' = o
  /\ legible' = l
  /\ original' = [w |-> w, h |-> h]
  /\ size' = [w |-> w, h |-> h]
  /\ picture' = Stored(o)
  /\ UNCHANGED <<row, stale>>

\* ApplyEXIFOrientation: what cannot be read leaves the picture as it is, and
\* that is no error.
Orient ==
  /\ stage = "decoded"
  /\ stage' = "oriented"
  /\ IF legible
       THEN /\ size' = OrientedSize(size, tag)
            /\ picture' = orientationTransform(picture, tag)
       ELSE UNCHANGED <<size, picture>>
  /\ UNCHANGED <<tag, legible, original, row, stale>>

\* Resize; the picture is encoded, stored and recorded.
Store ==
  /\ stage = "oriented"
  /\ stage' = "stored"
  /\ size' = calculateDimensions(size.w, size.h, MaxPipelineDimension)
  /\ row' = size'
  /\ UNCHANGED <<tag, legible, original, picture, stale>>

\* Mutant: a turn by 270 degrees keeps the size.
MutRotateForgets270(angle) ==
  /\ stage = "stored"
  /\ stage' = "rotated"
  /\ \/ angle = 90 /\ picture' = Rotate90(picture)
     \/ angle = 180 /\ picture' = Rotate180(picture)
     \/ angle \in {-90, 270} /\ picture' = Rotate270(picture)
  /\ size' = IF angle \in {90, -90} THEN Swapped(size) ELSE size
  /\ UNCHANGED <<tag, legible, original, row, stale>>

\* Rotate, by the angles AdminRotatePhoto lets through: the file is rewritten.
Rotate(angle) ==
  /\ stage = "stored"
  /\ stage' = "rotated"
  /\ \/ angle = 90 /\ picture' = Rotate90(picture)
     \/ angle = 180 /\ picture' = Rotate180(picture)
     \/ angle \in {-90, 270} /\ picture' = Rotate270(picture)
  /\ size' = IF angle = 180 THEN size ELSE Swapped(size)
  /\ UNCHANGED <<tag, legible, original, row, stale>>

\* Rotate fails, or the process ends, when the file has been emptied and is not
\* complete: it can no longer be decoded, and no rotation gets past that.  The
\* variables keep what was there.
RotateBreaks ==
  /\ stage = "stored"
  /\ stage' = "broken"
  /\ UNCHANGED <<tag, legible, original, size, picture, row, stale>>

\* UpdatePhotoDimensions: the new size is recorded.
UpdatePhotoDimensions ==
  /\ stage = "rotated"
  /\ stage' = "stored"
  /\ row' = size
  /\ stale' = FALSE
  /\ UNCHANGED <<tag, legible, original, size, picture>>

\* It is not: the new file cannot be examined, the statement fails, or the
\* process ends before it.
UpdateFails ==
  /\ stage = "rotated"
  /\ stage' = "stored"
  /\ stale' = TRUE
  /\ UNCHANGED <<tag, legible, original, size, picture, row>>

\* The photo is deleted, be it while it is rotated.
Delete ==
  /\ stage \in {"stored", "rotated", "broken"}
  /\ stage' = "none"
  /\ tag' = 0
  /\ legible' = TRUE
  /\ original' = Nothing
  /\ size' = Nothing
  /\ picture' = Upright
  /\ row' = Nothing
  /\ stale' = FALSE

Next ==
  \/ \E w \in Side, h \in Side, o \in Tags, l \in BOOLEAN : Decode(w, h, o, l)
  \/ Orient
  \/ Store
  \/ \E angle \in {90, -90, 180, 270} : Rotate(angle)
  \/ RotateBreaks
  \/ UpdatePhotoDimensions
  \/ UpdateFails
  \/ Delete

Spec == Init /\ [][Next]_vars

TypeOK ==
  /\ stage \in {"none", "decoded", "oriented", "stored", "rotated", "broken"}
  /\ tag \in Tags
  /\ legible \in BOOLEAN
  /\ original \in Size
  /\ size \in Size
  /\ picture \in Arrangement
  /\ row \in Size
  /\ stale \in BOOLEAN

=============================================================================
