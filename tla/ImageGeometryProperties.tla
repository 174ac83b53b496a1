------------------------ MODULE ImageGeometryProperties ------------------------
(* What should hold of the shape of pictures.                                *)
EXTENDS ImageGeometry

\* The photo has a row and a file.
Kept == stage \in {"stored", "rotated", "broken"}

\* What is stored fits the limit, before and after any rotations, and is no
\* larger than what was sent; what is recorded of it is its size or, after a
\* rotation that was not recorded, that size on its side.
FitsStorage ==
  Kept =>
    /\ size.w <= MaxPipelineDimension
    /\ size.h <= MaxPipelineDimension
    /\ \/ size.w <= original.w /\ size.h <= original.h
       \/ size.w <= original.h /\ size.h <= original.w
    /\ row \in {size, Swapped(size)}

\* A size has the shape of another one: no side is off by a whole pixel, or it
\* could not be less than one.
SameShape(s, t) ==
  \/ s = t
  \/ /\ s.w >= s.h
     /\ s.h * t.w <= t.h * s.w \/ s.h = 1
     /\ t.h * s.w < (s.h + 1) * t.w
  \/ /\ s.h >= s.w
     /\ s.w * t.h <= t.w * s.h \/ s.w = 1
     /\ t.w * s.h < (s.w + 1) * t.h

\* Reducing keeps the shape and does not reduce more than it has to.
ReducedToTheLimit ==
  [][Store => /\ SameShape(size', size)
              /\ size' # size => \/ size'.w = MaxPipelineDimension
                                 \/ size'.h = MaxPipelineDimension]_vars

\* Going round the picture one meets the corners of the scene in their order.
Clockwise == At("topRight", "bottomRight", "bottomLeft", "topLeft")
Unmirrored(p) == \A c \in Corners : p[Clockwise[c]] = Clockwise[p[c]]

\* The tags of the scenes that a camera stores mirrored.
MirroredTags == {2, 4, 5, 7}

\* A picture is shown mirrored exactly if its camera stored it so and the server
\* could not read the tag that says it, however the picture is rotated.
MirroredIfUnread ==
  stage \in {"oriented", "stored", "rotated"} =>
    (Unmirrored(picture) <=> (legible \/ tag \notin MirroredTags))

\* The top of the picture shows the left or the right side of the scene.
OnItsSide(p) ==
  {p["topLeft"], p["topRight"]} \in {{"topLeft", "bottomLeft"},
                                    {"topRight", "bottomRight"}}

\* The size of the scene, from what its camera stored.
Scene == IF tag \in 5..8 THEN Swapped(original) ELSE original

\* The shape of the picture as it lies.
Lying == IF OnItsSide(picture) THEN Swapped(Scene) ELSE Scene

\* The picture has the shape of the scene as it lies: through orientation,
\* whether or not the tag could be read, reduction and any number of rotations.
\* The recorded size is that of the picture too, unless the file was rewritten
\* and the update of the row has yet to come or has failed: a later rotation
\* whose update succeeds makes up for all that failed before it.
SizeFitsPicture ==
  /\ stage # "none" => SameShape(size, Lying)
  /\ stage \in {"stored", "broken"} /\ ~stale => row = size

\* The pictures that are not mirrored, the scene upright or turned, and those
\* that are.
Turned == {Upright, Rotate90(Upright), Rotate180(Upright), Rotate270(Upright)}
Flipped == {Stored(o) : o \in MirroredTags}

\* What the proofs carry along: until it is reduced a picture has the size of
\* what was sent, as it was stored and as it lies.
IInv ==
  /\ TypeOK
  /\ stage = "decoded" => size = original /\ picture = Stored(tag)
  /\ stage = "oriented" => size = Lying
  /\ stage \notin {"none", "decoded"} =>
       picture \in IF legible \/ tag \notin MirroredTags THEN Turned ELSE Flipped
  /\ FitsStorage
  /\ SizeFitsPicture

\* The picture is turned the way the comments of orientationTransform say: tag
\* 6 clockwise and tag 8 counter-clockwise, so that it comes out upright if its
\* tag can be read.
ShownUpright == stage = "oriented" /\ legible => picture = Upright

\* How far it is from that.  If the tag is read, a picture whose camera noted a
\* quarter turn, tags 5 to 8, comes out upside down and every other one upright;
\* if it is not, the picture stays as the camera stored it.
UpsideDownForQuarterTurns ==
  stage = "oriented" =>
    picture = IF ~legible THEN Stored(tag)
              ELSE IF tag \in 5..8 THEN Rotate180(Upright) ELSE Upright

\* The size of the scene as it is stored.
Reduced == calculateDimensions(Scene.w, Scene.h, MaxPipelineDimension)

\* Rotations lose nothing of the size: after any number of them, recorded or not,
\* the picture has exactly the size its scene was reduced to, or that size on its
\* side.
RotationsKeepSize ==
  Kept => size = IF OnItsSide(picture) THEN Swapped(Reduced) ELSE Reduced

=============================================================================
