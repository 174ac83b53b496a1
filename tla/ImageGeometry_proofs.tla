------------------------- MODULE ImageGeometry_proofs -------------------------
(***************************************************************************)
(* Proofs about ImageGeometry, for every limit on what is sent and every   *)
(* limit on what is stored.                                                *)
(*                                                                         *)
(* The argument has an arithmetical half, what calculateDimensions returns *)
(* (ReducedSize), and a geometrical one, which of the eight arrangements a *)
(* picture can have (StoredOriented, TurnedAgain, FlippedAgain).  The      *)
(* invariant IInv joins them: the sides of the picture are swapped exactly *)
(* when it lies on its side, and the row has them unless it is stale.      *)
(***************************************************************************)
EXTENDS ImageGeometryProperties, TLAPS

(* Division, in the form the proofs use it. *)
LEMMA Quotient ==
  ASSUME NEW a \in Nat, NEW b \in Nat \ {0}
  PROVE  /\ a \div b \in Nat
         /\ (a \div b) * b <= a
         /\ a < (a \div b + 1) * b
  BY SMT

(* The longer side of a picture that is too large is reduced to the limit, *)
(* the shorter one in proportion.                                          *)
LEMMA ShorterSide ==
  ASSUME NEW long \in Nat \ {0}, NEW short \in Nat \ {0},
         NEW limit \in Nat \ {0},
         short <= long, limit < long
  PROVE  LET r == AtLeastOne((short * limit) \div long)
         IN  /\ r \in Nat \ {0}
             /\ r <= limit
             /\ r <= short
             /\ r * long <= short * limit \/ r = 1
             /\ short * limit < (r + 1) * long
<1> DEFINE q == (short * limit) \div long
<1>1. short * limit \in Nat
  BY SMT
<1>2. /\ q \in Nat
      /\ q * long <= short * limit
      /\ short * limit < (q + 1) * long
  BY <1>1, Quotient
<1>3. q <= limit
  <2>1. short * limit <= long * limit
    BY SMT
  <2>2. q * long <= limit * long
    BY <1>1, <1>2, <2>1, SMT
  <2> QED
    BY <1>2, <2>2, SMT
<1>4. q <= short
  <2>1. short * limit <= short * long
    BY SMT
  <2>2. q * long <= short * long
    BY <1>1, <1>2, <2>1, SMT
  <2> QED
    BY <1>2, <2>2, SMT
<1>5. CASE q >= 1
  <2>1. AtLeastOne(q) = q
    BY <1>2, <1>5 DEF AtLeastOne
  <2> QED
    BY <1>2, <1>3, <1>4, <1>5, <2>1
<1>6. CASE q = 0
  <2>1. AtLeastOne(q) = 1
    BY <1>6 DEF AtLeastOne
  <2>2. short * limit < (1 + 1) * long
    BY <1>1, <1>2, <1>6, SMT
  <2> QED
    BY <2>1, <2>2
<1> QED
  BY <1>2, <1>5, <1>6

(* What calculateDimensions returns: a size within the limit, no larger    *)
(* than the one it was given, of its shape, and no smaller than necessary. *)
LEMMA ReducedSize ==
  ASSUME NEW s \in Size, NEW m \in Nat \ {0}
  PROVE  LET d == calculateDimensions(s.w, s.h, m)
         IN  /\ d \in Size
             /\ d.w <= m /\ d.h <= m
             /\ d.w <= s.w /\ d.h <= s.h
             /\ SameShape(d, s)
             /\ d # s => d.w = m \/ d.h = m
<1> DEFINE d == calculateDimensions(s.w, s.h, m)
<1>0. s.w \in Nat \ {0} /\ s.h \in Nat \ {0} /\ s = [w |-> s.w, h |-> s.h]
  BY DEF Size
<1>1. CASE s.w <= m /\ s.h <= m
  <2>1. d = s
    BY <1>0, <1>1 DEF calculateDimensions
  <2>2. SameShape(s, s)
    BY DEF SameShape
  <2> QED
    BY <1>0, <1>1, <2>1, <2>2
<1>2. CASE ~(s.w <= m /\ s.h <= m) /\ s.w > s.h
  <2> DEFINE r == AtLeastOne((s.h * m) \div s.w)
  <2>1. d = [w |-> m, h |-> r]
    BY <1>0, <1>2 DEF calculateDimensions
  <2>2. m < s.w
    BY <1>0, <1>2
  <2>3. /\ r \in Nat \ {0} /\ r <= m /\ r <= s.h
        /\ r * s.w <= s.h * m \/ r = 1
        /\ s.h * m < (r + 1) * s.w
    BY <1>0, <1>2, <2>2, ShorterSide
  <2>4. d.w = m /\ d.h = r /\ d \in Size
    BY <2>1, <2>3 DEF Size
  <2>5. SameShape(d, s)
    BY <2>3, <2>4 DEF SameShape
  <2> QED
    BY <1>0, <2>2, <2>3, <2>4, <2>5
<1>3. CASE ~(s.w <= m /\ s.h <= m) /\ ~(s.w > s.h)
  <2> DEFINE r == AtLeastOne((s.w * m) \div s.h)
  <2>1. d = [w |-> r, h |-> m]
    BY <1>0, <1>3 DEF calculateDimensions
  <2>2. m < s.h /\ s.w <= s.h
    BY <1>0, <1>3
  <2>3. /\ r \in Nat \ {0} /\ r <= m /\ r <= s.w
        /\ r * s.h <= s.w * m \/ r = 1
        /\ s.w * m < (r + 1) * s.h
    BY <1>0, <2>2, ShorterSide
  <2>4. d.w = r /\ d.h = m /\ d \in Size
    BY <2>1, <2>3 DEF Size
  <2>5. SameShape(d, s)
    BY <2>3, <2>4 DEF SameShape
  <2> QED
    BY <1>0, <2>2, <2>3, <2>4, <2>5
<1> QED
  BY <1>1, <1>2, <1>3

(* Swapping the sides of a size. *)
LEMMA SwappedSize ==
  ASSUME NEW s \in Size
  PROVE  /\ Swapped(s) \in Size
         /\ Swapped(s).w = s.h
         /\ Swapped(s).h = s.w
         /\ Swapped(Swapped(s)) = s
  BY DEF Swapped, Size

(* Two sizes of the same shape keep it when both are swapped. *)
LEMMA SwappedShape ==
  ASSUME NEW s \in Size, NEW t \in Size, SameShape(s, t)
  PROVE  SameShape(Swapped(s), Swapped(t))
<1>1. CASE s = t
  BY <1>1 DEF SameShape
<1>2. CASE s # t
  BY <1>2, SwappedSize DEF SameShape
<1> QED
  BY <1>1, <1>2

---------------------------------------------------------------------------
(* The four corners of an arrangement. *)
LEMMA AtCorner ==
  ASSUME NEW a \in Corners, NEW b \in Corners,
         NEW c \in Corners, NEW d \in Corners
  PROVE  /\ At(a, b, c, d) \in Arrangement
         /\ At(a, b, c, d)["topLeft"] = a
         /\ At(a, b, c, d)["topRight"] = b
         /\ At(a, b, c, d)["bottomRight"] = c
         /\ At(a, b, c, d)["bottomLeft"] = d
  BY DEF At, Arrangement, Corners

(* The turned pictures, written out. *)
LEMMA TurnedCorners ==
  /\ Upright = At("topLeft", "topRight", "bottomRight", "bottomLeft")
  /\ Rotate90(Upright) = At("topRight", "bottomRight", "bottomLeft", "topLeft")
  /\ Rotate180(Upright) =
       At("bottomRight", "bottomLeft", "topLeft", "topRight")
  /\ Rotate270(Upright) =
       At("bottomLeft", "topLeft", "topRight", "bottomRight")
<1> /\ "topLeft" \in Corners /\ "topRight" \in Corners
    /\ "bottomRight" \in Corners /\ "bottomLeft" \in Corners
  BY DEF Corners
<1>1. Upright = At("topLeft", "topRight", "bottomRight", "bottomLeft")
  BY DEF Upright
<1> QED
  BY <1>1, AtCorner DEF Rotate90, Rotate180, Rotate270

(* The top or the bottom of the scene is not one of its sides. *)
LEMMA TopIsNoSide ==
  ASSUME NEW p,
         \/ p["topLeft"] = "topLeft" /\ p["topRight"] = "topRight"
         \/ p["topLeft"] = "topRight" /\ p["topRight"] = "topLeft"
         \/ p["topLeft"] = "bottomLeft" /\ p["topRight"] = "bottomRight"
         \/ p["topLeft"] = "bottomRight" /\ p["topRight"] = "bottomLeft"
  PROVE  ~OnItsSide(p)
<1>1. p["topLeft"] \in {p["topLeft"], p["topRight"]}
  OBVIOUS
<1>2. p["topRight"] \in {p["topLeft"], p["topRight"]}
  OBVIOUS
<1>3. {p["topLeft"], p["topRight"]} # {"topLeft", "bottomLeft"}
  BY <1>1, <1>2
<1>4. {p["topLeft"], p["topRight"]} # {"topRight", "bottomRight"}
  BY <1>1, <1>2
<1> QED
  BY <1>3, <1>4 DEF OnItsSide

(* A turned picture is an arrangement, unmirrored, and lies on its side     *)
(* after an odd number of quarter turns.                                   *)
LEMMA TurnedShape ==
  /\ Turned \subseteq Arrangement
  /\ ~OnItsSide(Upright) /\ OnItsSide(Rotate90(Upright))
  /\ ~OnItsSide(Rotate180(Upright)) /\ OnItsSide(Rotate270(Upright))
<1> /\ "topLeft" \in Corners /\ "topRight" \in Corners
    /\ "bottomRight" \in Corners /\ "bottomLeft" \in Corners
  BY DEF Corners
<1>1. Turned \subseteq Arrangement
  BY TurnedCorners, AtCorner DEF Turned
<1>2. ~OnItsSide(Upright)
  BY TurnedCorners, AtCorner, TopIsNoSide
<1>3. OnItsSide(Rotate90(Upright))
  BY TurnedCorners, AtCorner DEF OnItsSide
<1>4. ~OnItsSide(Rotate180(Upright))
  BY TurnedCorners, AtCorner, TopIsNoSide
<1>5. OnItsSide(Rotate270(Upright))
  BY TurnedCorners, AtCorner DEF OnItsSide
<1> QED
  BY <1>1, <1>2, <1>3, <1>4, <1>5

\* A turned picture is not mirrored.
LEMMA TurnedUnmirrored ==
  ASSUME NEW p \in Turned
  PROVE  Unmirrored(p)
<1> /\ "topLeft" \in Corners /\ "topRight" \in Corners
    /\ "bottomRight" \in Corners /\ "bottomLeft" \in Corners
  BY DEF Corners
<1>1. /\ Clockwise["topLeft"] = "topRight"
      /\ Clockwise["topRight"] = "bottomRight"
      /\ Clockwise["bottomRight"] = "bottomLeft"
      /\ Clockwise["bottomLeft"] = "topLeft"
  BY AtCorner DEF Clockwise
<1>2. SUFFICES \A c \in Corners : p[Clockwise[c]] = Clockwise[p[c]]
  BY DEF Unmirrored
<1>3. CASE p = Upright
  <2>1. /\ p["topLeft"] = "topLeft" /\ p["topRight"] = "topRight"
        /\ p["bottomRight"] = "bottomRight" /\ p["bottomLeft"] = "bottomLeft"
    BY <1>3, TurnedCorners, AtCorner
  <2> QED
    BY <1>1, <2>1 DEF Corners
<1>4. CASE p = Rotate90(Upright)
  <2>1. /\ p["topLeft"] = "topRight" /\ p["topRight"] = "bottomRight"
        /\ p["bottomRight"] = "bottomLeft" /\ p["bottomLeft"] = "topLeft"
    BY <1>4, TurnedCorners, AtCorner
  <2> QED
    BY <1>1, <2>1 DEF Corners
<1>5. CASE p = Rotate180(Upright)
  <2>1. /\ p["topLeft"] = "bottomRight" /\ p["topRight"] = "bottomLeft"
        /\ p["bottomRight"] = "topLeft" /\ p["bottomLeft"] = "topRight"
    BY <1>5, TurnedCorners, AtCorner
  <2> QED
    BY <1>1, <2>1 DEF Corners
<1>6. CASE p = Rotate270(Upright)
  <2>1. /\ p["topLeft"] = "bottomLeft" /\ p["topRight"] = "topLeft"
        /\ p["bottomRight"] = "topRight" /\ p["bottomLeft"] = "bottomRight"
    BY <1>6, TurnedCorners, AtCorner
  <2> QED
    BY <1>1, <2>1 DEF Corners
<1> QED
  BY <1>3, <1>4, <1>5, <1>6 DEF Turned

(* Turning a turned picture: the four of them are closed under the turns,   *)
(* and a quarter turn puts a picture on its side or takes it off.          *)
LEMMA TurnedAgain ==
  ASSUME NEW p \in Turned
  PROVE  /\ Rotate90(p) \in Turned /\ (OnItsSide(Rotate90(p)) <=> ~OnItsSide(p))
         /\ Rotate180(p) \in Turned /\ (OnItsSide(Rotate180(p)) <=> OnItsSide(p))
         /\ Rotate270(p) \in Turned /\ (OnItsSide(Rotate270(p)) <=> ~OnItsSide(p))
<1> /\ "topLeft" \in Corners /\ "topRight" \in Corners
    /\ "bottomRight" \in Corners /\ "bottomLeft" \in Corners
  BY DEF Corners
<1> DEFINE q0 == Upright
           q1 == Rotate90(Upright)
           q2 == Rotate180(Upright)
           q3 == Rotate270(Upright)
<1>1. Rotate90(q0) = q1 /\ Rotate90(q1) = q2 /\ Rotate90(q2) = q3 /\ Rotate90(q3) = q0
  BY TurnedCorners, AtCorner DEF Rotate90
<1>2. Rotate180(q0) = q2 /\ Rotate180(q1) = q3 /\ Rotate180(q2) = q0 /\ Rotate180(q3) = q1
  BY TurnedCorners, AtCorner DEF Rotate180
<1>3. Rotate270(q0) = q3 /\ Rotate270(q1) = q0 /\ Rotate270(q2) = q1 /\ Rotate270(q3) = q2
  BY TurnedCorners, AtCorner DEF Rotate270
<1>4. p \in {q0, q1, q2, q3} /\ Turned = {q0, q1, q2, q3}
  BY DEF Turned
<1>5. ~OnItsSide(q0) /\ OnItsSide(q1) /\ ~OnItsSide(q2) /\ OnItsSide(q3)
  BY TurnedShape
<1> HIDE DEF q0, q1, q2, q3
<1>6. Rotate90(p) \in Turned /\ (OnItsSide(Rotate90(p)) <=> ~OnItsSide(p))
  BY <1>1, <1>4, <1>5, Zenon
<1>7. Rotate180(p) \in Turned /\ (OnItsSide(Rotate180(p)) <=> OnItsSide(p))
  BY <1>2, <1>4, <1>5, Zenon
<1>8. Rotate270(p) \in Turned /\ (OnItsSide(Rotate270(p)) <=> ~OnItsSide(p))
  BY <1>3, <1>4, <1>5, Zenon
<1> QED
  BY <1>6, <1>7, <1>8

(* The mirrored pictures, written out.                                     *)
LEMMA FlippedCorners ==
  /\ Stored(2) = At("topRight", "topLeft", "bottomLeft", "bottomRight")
  /\ Stored(4) = At("bottomLeft", "bottomRight", "topRight", "topLeft")
  /\ Stored(5) = At("topLeft", "bottomLeft", "bottomRight", "topRight")
  /\ Stored(7) = At("bottomRight", "topRight", "topLeft", "bottomLeft")
  /\ Flipped = {Stored(2), Stored(4), Stored(5), Stored(7)}
<1>1. Flipped = {Stored(2), Stored(4), Stored(5), Stored(7)}
  BY DEF Flipped, MirroredTags
<1> QED
  BY <1>1 DEF Stored

(* A mirrored picture is an arrangement and lies on its side after a       *)
(* transposition.                                                          *)
LEMMA FlippedShape ==
  /\ Flipped \subseteq Arrangement
  /\ ~OnItsSide(Stored(2)) /\ ~OnItsSide(Stored(4))
  /\ OnItsSide(Stored(5)) /\ OnItsSide(Stored(7))
<1> /\ "topLeft" \in Corners /\ "topRight" \in Corners
    /\ "bottomRight" \in Corners /\ "bottomLeft" \in Corners
  BY DEF Corners
<1>1. Flipped \subseteq Arrangement
  BY FlippedCorners, AtCorner
<1>2. ~OnItsSide(Stored(2))
  BY FlippedCorners, AtCorner, TopIsNoSide
<1>3. ~OnItsSide(Stored(4))
  BY FlippedCorners, AtCorner, TopIsNoSide
<1>4. OnItsSide(Stored(5))
  BY FlippedCorners, AtCorner DEF OnItsSide
<1>5. OnItsSide(Stored(7))
  BY FlippedCorners, AtCorner DEF OnItsSide
<1> QED
  BY <1>1, <1>2, <1>3, <1>4, <1>5

\* A mirrored picture is mirrored: its top row runs against the scene.
LEMMA FlippedMirrored ==
  ASSUME NEW p \in Flipped
  PROVE  ~Unmirrored(p)
<1> /\ "topLeft" \in Corners /\ "topRight" \in Corners
    /\ "bottomRight" \in Corners /\ "bottomLeft" \in Corners
  BY DEF Corners
<1>1. /\ Clockwise["topLeft"] = "topRight"
      /\ Clockwise["topRight"] = "bottomRight"
      /\ Clockwise["bottomRight"] = "bottomLeft"
      /\ Clockwise["bottomLeft"] = "topLeft"
  BY AtCorner DEF Clockwise
<1>2. SUFFICES p["topRight"] # Clockwise[p["topLeft"]]
  BY <1>1 DEF Unmirrored
<1>3. CASE p = Stored(2)
  BY <1>1, <1>3, FlippedCorners, AtCorner
<1>4. CASE p = Stored(4)
  BY <1>1, <1>4, FlippedCorners, AtCorner
<1>5. CASE p = Stored(5)
  BY <1>1, <1>5, FlippedCorners, AtCorner
<1>6. CASE p = Stored(7)
  BY <1>1, <1>6, FlippedCorners, AtCorner
<1> QED
  BY <1>3, <1>4, <1>5, <1>6, FlippedCorners

(* Turning a mirrored picture: it stays mirrored, and a quarter turn puts   *)
(* it on its side or takes it off.                                         *)
LEMMA FlippedAgain ==
  ASSUME NEW p \in Flipped
  PROVE  /\ Rotate90(p) \in Flipped /\ (OnItsSide(Rotate90(p)) <=> ~OnItsSide(p))
         /\ Rotate180(p) \in Flipped /\ (OnItsSide(Rotate180(p)) <=> OnItsSide(p))
         /\ Rotate270(p) \in Flipped /\ (OnItsSide(Rotate270(p)) <=> ~OnItsSide(p))
<1> /\ "topLeft" \in Corners /\ "topRight" \in Corners
    /\ "bottomRight" \in Corners /\ "bottomLeft" \in Corners
  BY DEF Corners
<1> DEFINE q0 == Stored(2)
           q1 == Stored(5)
           q2 == Stored(4)
           q3 == Stored(7)
<1>1. Rotate90(q0) = q1 /\ Rotate90(q1) = q2 /\ Rotate90(q2) = q3 /\ Rotate90(q3) = q0
  BY FlippedCorners, AtCorner DEF Rotate90
<1>2. Rotate180(q0) = q2 /\ Rotate180(q1) = q3 /\ Rotate180(q2) = q0 /\ Rotate180(q3) = q1
  BY FlippedCorners, AtCorner DEF Rotate180
<1>3. Rotate270(q0) = q3 /\ Rotate270(q1) = q0 /\ Rotate270(q2) = q1 /\ Rotate270(q3) = q2
  BY FlippedCorners, AtCorner DEF Rotate270
<1>4. p \in {q0, q1, q2, q3} /\ Flipped = {q0, q1, q2, q3}
  BY FlippedCorners
<1>5. ~OnItsSide(q0) /\ OnItsSide(q1) /\ ~OnItsSide(q2) /\ OnItsSide(q3)
  BY FlippedShape
<1> HIDE DEF q0, q1, q2, q3
<1>6. Rotate90(p) \in Flipped /\ (OnItsSide(Rotate90(p)) <=> ~OnItsSide(p))
  BY <1>1, <1>4, <1>5, Zenon
<1>7. Rotate180(p) \in Flipped /\ (OnItsSide(Rotate180(p)) <=> OnItsSide(p))
  BY <1>2, <1>4, <1>5, Zenon
<1>8. Rotate270(p) \in Flipped /\ (OnItsSide(Rotate270(p)) <=> ~OnItsSide(p))
  BY <1>3, <1>4, <1>5, Zenon
<1> QED
  BY <1>6, <1>7, <1>8

(* What a camera stores is turned or mirrored, as its tag says.            *)
LEMMA StoredKind ==
  ASSUME NEW o \in Tags
  PROVE  Stored(o) \in IF o \notin MirroredTags THEN Turned ELSE Flipped
<1> /\ "topLeft" \in Corners /\ "topRight" \in Corners
    /\ "bottomRight" \in Corners /\ "bottomLeft" \in Corners
  BY DEF Corners
<1>1. CASE o \in MirroredTags
  BY <1>1 DEF Flipped
<1>2. CASE o \in {0, 1, 9}
  BY <1>2 DEF Stored, Turned, MirroredTags
<1>3. CASE o \in {3, 6, 8}
  BY <1>3, TurnedCorners DEF Stored, Turned, MirroredTags
<1> QED
  BY <1>1, <1>2, <1>3 DEF Tags, MirroredTags

(* What a camera stores lies on its side exactly for the tags 5 to 8.      *)
LEMMA StoredShape ==
  ASSUME NEW o \in Tags
  PROVE  /\ Stored(o) \in Arrangement
         /\ OnItsSide(Stored(o)) <=> o \in 5..8
<1> /\ "topLeft" \in Corners /\ "topRight" \in Corners
    /\ "bottomRight" \in Corners /\ "bottomLeft" \in Corners
  BY DEF Corners
<1>1. CASE o \in {2, 3, 4}
  BY <1>1, AtCorner, TopIsNoSide DEF Stored
<1>2. CASE o \in {5, 6, 7, 8}
  BY <1>2, AtCorner DEF Stored, OnItsSide
<1>3. CASE o \in {0, 1, 9}
  BY <1>3, TurnedShape DEF Stored, Turned
<1> QED
  BY <1>1, <1>2, <1>3 DEF Tags

(* Whatever the tag, orientationTransform leaves a turned picture that does *)
(* not lie on its side: upside down for the tags 5 to 8, or upright.       *)
LEMMA StoredOriented ==
  ASSUME NEW o \in Tags
  PROVE  orientationTransform(Stored(o), o) =
           IF o \in 5..8 THEN Rotate180(Upright) ELSE Upright
<1> /\ "topLeft" \in Corners /\ "topRight" \in Corners
    /\ "bottomRight" \in Corners /\ "bottomLeft" \in Corners
  BY DEF Corners
<1> DEFINE t == orientationTransform(Stored(o), o)
<1>1. CASE o = 2
  BY <1>1, TurnedCorners, AtCorner DEF orientationTransform, Stored, FlipH
<1>2. CASE o = 3
  BY <1>2, TurnedCorners, AtCorner DEF orientationTransform, Stored, Rotate180
<1>3. CASE o = 4
  BY <1>3, TurnedCorners, AtCorner DEF orientationTransform, Stored, FlipV
<1>4. CASE o = 5
  <2>1. FlipH(Stored(o)) = At("bottomLeft", "topLeft", "topRight", "bottomRight")
    BY <1>4, AtCorner DEF Stored, FlipH
  <2>2. t = Rotate270(FlipH(Stored(o)))
    BY <1>4 DEF orientationTransform
  <2> QED
    BY <1>4, <2>1, <2>2, TurnedCorners, AtCorner DEF Rotate270
<1>5. CASE o = 6
  BY <1>5, TurnedCorners, AtCorner DEF orientationTransform, Stored, Rotate90
<1>6. CASE o = 7
  <2>1. FlipH(Stored(o)) = At("topRight", "bottomRight", "bottomLeft", "topLeft")
    BY <1>6, AtCorner DEF Stored, FlipH
  <2>2. t = Rotate90(FlipH(Stored(o)))
    BY <1>6 DEF orientationTransform
  <2> QED
    BY <1>6, <2>1, <2>2, TurnedCorners, AtCorner DEF Rotate90
<1>7. CASE o = 8
  BY <1>7, TurnedCorners, AtCorner DEF orientationTransform, Stored, Rotate270
<1>8. CASE o \in {0, 1, 9}
  BY <1>8 DEF orientationTransform, Stored
<1> QED
  BY <1>1, <1>2, <1>3, <1>4, <1>5, <1>6, <1>7, <1>8 DEF Tags

---------------------------------------------------------------------------
(* IInv holds initially and is kept by every step.                         *)

\* IInv holds at the start.
LEMMA InitInv == Init => IInv
<1> SUFFICES ASSUME Init PROVE IInv
  OBVIOUS
<1>1. /\ stage = "none" /\ tag = 0 /\ legible = TRUE /\ picture = Upright
      /\ original = Nothing /\ size = Nothing /\ row = Nothing /\ stale = FALSE
  BY DEF Init
<1>2. Nothing \in Size
  BY DEF Nothing, Size
<1>3. Upright \in Arrangement
  BY TurnedShape DEF Turned
<1>4. TypeOK
  <2>1. legible \in BOOLEAN /\ stale \in BOOLEAN
    BY <1>1, Zenon
  <2>2. stage = "none" /\ tag \in Tags
    BY <1>1 DEF Tags
  <2>3. original \in Size /\ size \in Size /\ row \in Size /\ picture \in Arrangement
    BY <1>1, <1>2, <1>3
  <2> QED
    BY <2>1, <2>2, <2>3 DEF TypeOK
<1> QED
  BY <1>1, <1>4 DEF IInv, FitsStorage, SizeFitsPicture, Kept

(* The pictures of an upload: turned, or mirrored if that was not read.    *)
LEMMA KindArrangement ==
  ASSUME NEW p \in IF legible \/ tag \notin MirroredTags THEN Turned ELSE Flipped
  PROVE  p \in Arrangement
BY TurnedShape, FlippedShape

(* A turn of either kind of picture.                                       *)
LEMMA KindAgain ==
  ASSUME NEW K \in {Turned, Flipped}, NEW p \in K
  PROVE  /\ Rotate90(p) \in K /\ (OnItsSide(Rotate90(p)) <=> ~OnItsSide(p))
         /\ Rotate180(p) \in K /\ (OnItsSide(Rotate180(p)) <=> OnItsSide(p))
         /\ Rotate270(p) \in K /\ (OnItsSide(Rotate270(p)) <=> ~OnItsSide(p))
BY TurnedAgain, FlippedAgain

(* The sizes of the scene, upright and as it lies.                         *)
LEMMA SceneSize ==
  ASSUME TypeOK
  PROVE  Scene \in Size /\ Lying \in Size
<1>1. Scene \in Size
  BY SwappedSize DEF TypeOK, Scene
<1> QED
  BY <1>1, SwappedSize DEF Lying

(* A picture as its camera stored it has the size that was sent.           *)
LEMMA StoredLying ==
  ASSUME original \in Size, tag \in Tags, picture = Stored(tag)
  PROVE  Lying = original
BY StoredShape, SwappedSize DEF Lying, Scene

(* A turn of a stored picture; its size stays or is swapped with it.       *)
LEMMA RotateInv ==
  ASSUME IInv, NEW angle \in {90, -90, 180, 270}, Rotate(angle)
  PROVE  IInv'
<1> DEFINE K == IF legible \/ tag \notin MirroredTags THEN Turned ELSE Flipped
<1>1. /\ stage = "stored" /\ stage' = "rotated" /\ tag' = tag /\ legible' = legible
      /\ original' = original /\ row' = row /\ stale' = stale
      /\ size \in Size /\ row \in Size
      /\ picture \in K /\ K \in {Turned, Flipped}
  BY DEF IInv, TypeOK, Rotate
<1>2. Scene' = Scene /\ Scene \in Size /\ Lying \in Size
  BY <1>1, SceneSize DEF IInv, Scene
<1>3. SameShape(size, Lying)
  BY <1>1 DEF IInv, SizeFitsPicture
<1>4. /\ picture' \in K
      /\ size' \in Size
      /\ SameShape(size', Lying')
      /\ size' = size \/ size' = Swapped(size)
  <2>1. CASE angle = 180
    <3>1. size' = size /\ picture' = Rotate180(picture)
      BY <2>1 DEF Rotate
    <3>2. picture' \in K /\ (OnItsSide(picture') <=> OnItsSide(picture))
      BY <1>1, <3>1, KindAgain
    <3>3. Lying' = Lying
      BY <1>2, <3>2 DEF Lying
    <3> QED
      BY <1>1, <1>3, <3>1, <3>2, <3>3
  <2>2. CASE angle # 180
    <3>1. size' = Swapped(size)
      BY <2>2 DEF Rotate
    <3>2. picture' = Rotate90(picture) \/ picture' = Rotate270(picture)
      BY <2>2 DEF Rotate
    <3>3. picture' \in K /\ (OnItsSide(picture') <=> ~OnItsSide(picture))
      BY <1>1, <3>2, KindAgain
    <3>4. SameShape(Swapped(size), Swapped(Lying))
      BY <1>1, <1>2, <1>3, SwappedShape
    <3>5. Lying' = Swapped(Lying)
      BY <1>2, <3>3, SwappedSize DEF Lying
    <3> QED
      BY <1>1, <3>1, <3>3, <3>4, <3>5, SwappedSize
  <2> QED
    BY <2>1, <2>2
<1>5. TypeOK'
  BY <1>1, <1>4, KindArrangement DEF IInv, TypeOK
<1>6. FitsStorage'
  BY <1>1, <1>4, SwappedSize DEF IInv, FitsStorage, Kept
<1>7. SizeFitsPicture'
  BY <1>1, <1>4 DEF SizeFitsPicture
<1> QED
  BY <1>1, <1>4, <1>5, <1>6, <1>7 DEF IInv

(* The steps of a stored photo that leave its picture as it is.            *)
LEMMA KeptInv ==
  ASSUME IInv, RotateBreaks \/ UpdatePhotoDimensions \/ UpdateFails
  PROVE  IInv'
<1>1. /\ stage \in {"stored", "rotated"} /\ stage' \in {"stored", "broken"}
      /\ tag' = tag /\ legible' = legible /\ original' = original
      /\ size' = size /\ picture' = picture
      /\ row' = row \/ row' = size
      /\ stale' \in BOOLEAN
  BY DEF IInv, TypeOK, RotateBreaks, UpdatePhotoDimensions, UpdateFails
<1>2. Lying' = Lying
  BY <1>1 DEF Lying, Scene
<1>3. TypeOK'
  BY <1>1 DEF IInv, TypeOK
<1>4. FitsStorage'
  BY <1>1 DEF IInv, FitsStorage, Kept
<1>5. ~stale' => row' = size'
  BY DEF IInv, SizeFitsPicture, RotateBreaks, UpdatePhotoDimensions, UpdateFails
<1>6. SizeFitsPicture'
  BY <1>1, <1>2, <1>5 DEF IInv, SizeFitsPicture
<1> QED
  BY <1>1, <1>3, <1>4, <1>6 DEF IInv

\* Every step keeps IInv.
LEMMA StepInv == IInv /\ [Next]_vars => IInv'
<1> SUFFICES ASSUME IInv, [Next]_vars PROVE IInv'
  OBVIOUS
<1> USE GeometryConstants
<1>1. ASSUME NEW w \in Side, NEW h \in Side, NEW o \in Tags, NEW l \in BOOLEAN,
             Decode(w, h, o, l)
      PROVE  IInv'
  <2>1. /\ stage' = "decoded" /\ tag' = o /\ legible' = l /\ size' = original'
        /\ original' = [w |-> w, h |-> h] /\ picture' = Stored(o)
        /\ row' = row /\ stale' = stale
    BY <1>1 DEF Decode
  <2>2. original' \in Size
    BY <2>1 DEF Size, Side
  <2>3. TypeOK'
    BY <2>1, <2>2, StoredShape DEF IInv, TypeOK
  <2>4. Scene' = IF o \in 5..8 THEN Swapped(original') ELSE original'
    BY <2>1 DEF Scene
  <2>5. Lying' = original'
    BY <2>1, <2>2, <2>4, StoredShape, SwappedSize DEF Lying
  <2>6. SizeFitsPicture'
    BY <2>1, <2>5 DEF SizeFitsPicture, SameShape
  <2> QED
    BY <2>1, <2>3, <2>6 DEF IInv, FitsStorage, Kept
<1>2. CASE Orient
  <2>1. /\ stage = "decoded" /\ stage' = "oriented" /\ tag' = tag
        /\ legible' = legible /\ original' = original /\ row' = row /\ stale' = stale
        /\ tag \in Tags /\ original \in Size
        /\ size = original /\ picture = Stored(tag)
    BY <1>2 DEF IInv, TypeOK, Orient
  <2>2. Scene' = Scene /\ Scene \in Size
    BY <2>1, SwappedSize DEF Scene
  <2>3. /\ size' = Lying' /\ size' \in Size
        /\ picture' \in IF legible \/ tag \notin MirroredTags THEN Turned ELSE Flipped
    <3>1. CASE legible
      <4>1. /\ size' = OrientedSize(original, tag)
            /\ picture' = orientationTransform(Stored(tag), tag)
        BY <1>2, <2>1, <3>1 DEF Orient
      <4>2. size' = Scene
        BY <4>1 DEF OrientedSize, Scene
      <4>3. picture' \in {Upright, Rotate180(Upright)}
        BY <2>1, <4>1, StoredOriented
      <4>4. picture' \in Turned /\ ~OnItsSide(picture')
        BY <4>3, TurnedShape DEF Turned
      <4> QED
        BY <2>2, <3>1, <4>2, <4>4 DEF Lying
    <3>2. CASE ~legible
      <4>1. size' = original /\ picture' = Stored(tag)
        BY <1>2, <2>1, <3>2 DEF Orient
      <4>2. Lying' = Lying
        BY <2>1, <2>2, <4>1 DEF Lying
      <4>3. Lying = original
        BY <2>1, StoredLying
      <4> QED
        BY <2>1, <3>2, <4>1, <4>2, <4>3, StoredKind
    <3> QED
      BY <3>1, <3>2
  <2>4. TypeOK'
    BY <2>1, <2>3, KindArrangement DEF IInv, TypeOK
  <2>5. SizeFitsPicture'
    BY <2>1, <2>3 DEF SizeFitsPicture, SameShape
  <2> QED
    BY <2>1, <2>3, <2>4, <2>5 DEF IInv, FitsStorage, Kept
<1>3. CASE Store
  <2>1. /\ stage = "oriented" /\ stage' = "stored" /\ tag' = tag
        /\ legible' = legible /\ original' = original /\ picture' = picture
        /\ stale' = stale /\ row' = size' /\ size = Lying
        /\ original \in Size /\ size \in Size
    BY <1>3 DEF IInv, TypeOK, Store
  <2>2. size' = calculateDimensions(size.w, size.h, MaxPipelineDimension)
    BY <1>3 DEF Store
  <2>3. /\ size' \in Size
        /\ size'.w <= MaxPipelineDimension /\ size'.h <= MaxPipelineDimension
        /\ size'.w <= size.w /\ size'.h <= size.h
        /\ SameShape(size', size)
    BY <2>1, <2>2, ReducedSize
  <2>4. TypeOK'
    BY <2>1, <2>3 DEF IInv, TypeOK
  <2>5. size = original \/ size = Swapped(original)
    BY <2>1, SwappedSize DEF Lying, Scene
  <2>6. FitsStorage'
    BY <2>1, <2>3, <2>5, SwappedSize DEF FitsStorage, Kept
  <2>7. Lying' = Lying
    BY <2>1 DEF Lying, Scene
  <2>8. SizeFitsPicture'
    BY <2>1, <2>3, <2>7 DEF SizeFitsPicture
  <2> QED
    BY <2>1, <2>4, <2>6, <2>8 DEF IInv
<1>4. ASSUME NEW angle \in {90, -90, 180, 270}, Rotate(angle) PROVE IInv'
  BY <1>4, RotateInv
<1>5. CASE RotateBreaks \/ UpdatePhotoDimensions \/ UpdateFails
  BY <1>5, KeptInv
<1>6. CASE Delete
  <2>1. /\ stage' = "none" /\ tag' = 0 /\ legible' = TRUE /\ picture' = Upright
        /\ original' = Nothing /\ size' = Nothing /\ row' = Nothing /\ stale' = FALSE
    BY <1>6 DEF Delete
  <2>2. Nothing' = Nothing /\ Nothing \in Size
    BY DEF Nothing, Size
  <2>3. Upright \in Arrangement
    BY TurnedShape DEF Turned
  <2>4. TypeOK'
    <3>1. legible' \in BOOLEAN /\ stale' \in BOOLEAN
      BY <2>1, Zenon
    <3>2. stage' = "none" /\ tag' \in Tags
      BY <2>1 DEF Tags
    <3>3. /\ original' \in Size /\ size' \in Size /\ row' \in Size
          /\ picture' \in Arrangement
      BY <2>1, <2>2, <2>3
    <3> QED
      BY <3>1, <3>2, <3>3 DEF TypeOK
  <2> QED
    BY <2>1, <2>4 DEF IInv, FitsStorage, SizeFitsPicture, Kept
<1>7. CASE UNCHANGED vars
  <2>1. /\ stage' = stage /\ tag' = tag /\ legible' = legible /\ original' = original
        /\ size' = size /\ picture' = picture /\ row' = row /\ stale' = stale
    BY <1>7 DEF vars
  <2> QED
    BY <2>1 DEF IInv, TypeOK, FitsStorage, SizeFitsPicture, Lying, Scene, Kept
<1> QED
  BY <1>1, <1>2, <1>3, <1>4, <1>5, <1>6, <1>7 DEF Next

(* IInv is an invariant. *)
THEOREM GeometryInvariant == Spec => []IInv
  BY InitInv, StepInv, PTL DEF Spec

(* Type correctness: no picture is ever reduced to nothing, and what is    *)
(* shown is an arrangement of the scene's own corners.                     *)
THEOREM TypeCorrect == Spec => []TypeOK
<1>1. IInv => TypeOK
  BY DEF IInv
<1> QED
  BY <1>1, GeometryInvariant, PTL

(* What is stored fits the limit of resize.go after any number of          *)
(* rotations, and is no larger than what was sent.                         *)
THEOREM StorageFits == Spec => []FitsStorage
<1>1. IInv => FitsStorage
  BY DEF IInv
<1> QED
  BY <1>1, GeometryInvariant, PTL

(* MirroredIfUnread: orientationTransform and Rotate mirror nothing that   *)
(* is not, and leave a mirrored picture only if ApplyEXIFOrientation could *)
(* not read its tag.                                                       *)
THEOREM MirroredOnlyIfUnread == Spec => []MirroredIfUnread
<1>1. IInv => MirroredIfUnread
  <2> SUFFICES ASSUME IInv, stage \in {"oriented", "stored", "rotated"}
               PROVE  Unmirrored(picture) <=> (legible \/ tag \notin MirroredTags)
    BY DEF MirroredIfUnread
  <2>1. CASE legible \/ tag \notin MirroredTags
    BY <2>1, TurnedUnmirrored DEF IInv
  <2>2. CASE ~(legible \/ tag \notin MirroredTags)
    BY <2>2, FlippedMirrored DEF IInv
  <2> QED
    BY <2>1, <2>2
<1> QED
  BY <1>1, GeometryInvariant, PTL

(* SizeFitsPicture: the file has the shape of the picture as it lies, and  *)
(* so has the row, unless the last rotation of AdminRotatePhoto did not    *)
(* get to its update.                                                      *)
THEOREM SizesFitPictures == Spec => []SizeFitsPicture
<1>1. IInv => SizeFitsPicture
  BY DEF IInv
<1> QED
  BY <1>1, GeometryInvariant, PTL

(* Resize keeps the shape and reduces no further than the limit.           *)
THEOREM NoNeedlessReduction == Spec => ReducedToTheLimit
<1>1. ASSUME IInv, Store
      PROVE  /\ SameShape(size', size)
             /\ size' # size => \/ size'.w = MaxPipelineDimension
                                \/ size'.h = MaxPipelineDimension
  <2>1. size \in Size
    BY <1>1 DEF IInv, TypeOK
  <2>2. size' = calculateDimensions(size.w, size.h, MaxPipelineDimension)
    BY <1>1 DEF Store
  <2> QED
    BY <2>1, <2>2, ReducedSize, GeometryConstants
<1> QED
  BY <1>1, GeometryInvariant, PTL DEF ReducedToTheLimit

---------------------------------------------------------------------------
(* What reduction, orientation and rotations do to each other.             *)

\* Swapping twice gives the size back.
LEMMA SwappedTwice == ASSUME NEW s \in Size PROVE Swapped(Swapped(s)) = s
BY DEF Size, Swapped

\* A size that lies on its side is reduced to what it would be reduced to upright.
LEMMA ReducedSwapped ==
  ASSUME NEW s \in Size, NEW m \in Nat \ {0}
  PROVE  calculateDimensions(s.h, s.w, m) = Swapped(calculateDimensions(s.w, s.h, m))
<1>1. s.w \in Nat \ {0} /\ s.h \in Nat \ {0}
  BY DEF Size
<1>2. CASE s.w <= m /\ s.h <= m
  BY <1>1, <1>2 DEF calculateDimensions, Swapped
<1>3. CASE ~(s.w <= m /\ s.h <= m) /\ s.w > s.h
  BY <1>1, <1>3 DEF calculateDimensions, Swapped
<1>4. CASE ~(s.w <= m /\ s.h <= m) /\ s.h > s.w
  BY <1>1, <1>4 DEF calculateDimensions, Swapped
<1>5. CASE ~(s.w <= m /\ s.h <= m) /\ s.h = s.w
  <2> DEFINE r == AtLeastOne((s.w * m) \div s.w)
  <2>1. (s.w * m) \div s.w = m
    <3>1. (s.w * m) \div s.w \in Int /\ s.w * m \in Nat
      BY <1>1
    <3>2. \A q \in Int : s.w * q <= s.w * m /\ s.w * m < s.w * q + s.w => q = m
      <4> TAKE q \in Int
      <4> HAVE s.w * q <= s.w * m /\ s.w * m < s.w * q + s.w
      <4>1. CASE q > m
        <5>1. s.w * q >= s.w * (m + 1) /\ s.w * (m + 1) = s.w * m + s.w
          BY <1>1, <4>1
        <5> QED
          BY <1>1, <5>1
      <4>2. CASE q < m
        <5>1. s.w * m >= s.w * (q + 1) /\ s.w * (q + 1) = s.w * q + s.w
          BY <1>1, <4>2
        <5> QED
          BY <1>1, <5>1
      <4> QED
        BY <4>1, <4>2
    <3>3. LET q == (s.w * m) \div s.w IN s.w * q <= s.w * m /\ s.w * m < s.w * q + s.w
      BY <1>1
    <3> QED
      BY <3>1, <3>2, <3>3
  <2>2. r = m
    BY <2>1 DEF AtLeastOne
  <2>3. calculateDimensions(s.w, s.h, m) = [w |-> r, h |-> m]
    BY <1>1, <1>5 DEF calculateDimensions
  <2>4. calculateDimensions(s.h, s.w, m) = [w |-> r, h |-> m]
    BY <1>1, <1>5 DEF calculateDimensions
  <2> QED
    BY <2>2, <2>3, <2>4 DEF Swapped
<1> QED
  BY <1>1, <1>2, <1>3, <1>4, <1>5

\* Turning a picture upright before it is reduced, as the pipeline does, or after
\* gives the same size, and what has been reduced is not reduced again, for every
\* size, tag and limit (calculateDimensions, orientationTransform).
THEOREM ReductionKeepsOrientation ==
  ASSUME NEW s \in Size, NEW o \in Tags, NEW m \in Nat \ {0}
  PROVE  LET reduce(d) == calculateDimensions(d.w, d.h, m)
         IN  /\ reduce(OrientedSize(s, o)) = OrientedSize(reduce(s), o)
             /\ reduce(reduce(s)) = reduce(s)
<1> DEFINE reduce(d) == calculateDimensions(d.w, d.h, m)
<1>1. reduce(OrientedSize(s, o)) = OrientedSize(reduce(s), o)
  <2>1. CASE o \in 5..8
    <3>1. OrientedSize(s, o) = Swapped(s) /\ OrientedSize(reduce(s), o) = Swapped(reduce(s))
      BY <2>1 DEF OrientedSize
    <3> QED
      BY <3>1, SwappedSize, ReducedSwapped
  <2>2. CASE o \notin 5..8
    BY <2>2 DEF OrientedSize
  <2> QED
    BY <2>1, <2>2
<1>2. reduce(reduce(s)) = reduce(s)
  <2>1. reduce(s) \in Size /\ reduce(s).w <= m /\ reduce(s).h <= m
    BY ReducedSize
  <2>2. \A d \in Size : d.w <= m /\ d.h <= m => calculateDimensions(d.w, d.h, m) = d
    BY DEF Size, calculateDimensions
  <2> HIDE DEF reduce
  <2>3. calculateDimensions(reduce(s).w, reduce(s).h, m) = reduce(s)
    BY <2>1, <2>2
  <2> QED
    BY <2>3 DEF reduce
<1> QED
  BY <1>1, <1>2

\* UpsideDownForQuarterTurns: of the pictures whose orientation the server reads,
\* exactly those whose camera noted a quarter turn come out upside down, and the
\* others stay as they were stored (ApplyEXIFOrientation), for any limits.
THEOREM QuarterTurnsUpsideDown == Spec => []UpsideDownForQuarterTurns
<1>1. Init => UpsideDownForQuarterTurns
  BY DEF Init, UpsideDownForQuarterTurns
<1>2. IInv /\ UpsideDownForQuarterTurns /\ [Next]_vars => UpsideDownForQuarterTurns'
  <2> SUFFICES ASSUME IInv, UpsideDownForQuarterTurns, [Next]_vars
               PROVE  UpsideDownForQuarterTurns'
    OBVIOUS
  <2>1. CASE Orient
    <3>1. /\ tag \in Tags /\ tag' = tag /\ legible' = legible
          /\ picture' = IF legible THEN orientationTransform(Stored(tag), tag)
                        ELSE Stored(tag)
      BY <2>1 DEF Orient, IInv, TypeOK
    <3> QED
      BY <3>1, StoredOriented DEF UpsideDownForQuarterTurns
  <2>2. CASE ~Orient
    <3>1. stage' = "oriented" => stage = "oriented" /\ UNCHANGED <<tag, legible, picture>>
      BY <2>2 DEF Next, Decode, Store, Rotate, RotateBreaks,
                  UpdatePhotoDimensions, UpdateFails, Delete, vars
    <3> QED
      BY <3>1 DEF UpsideDownForQuarterTurns
  <2> QED
    BY <2>1, <2>2
<1> QED
  BY <1>1, <1>2, GeometryInvariant, PTL DEF Spec

\* A rotation turns the size with the picture.
LEMMA RotateKeepsSize ==
  ASSUME IInv, RotationsKeepSize, NEW angle \in {90, -90, 180, 270}, Rotate(angle)
  PROVE  RotationsKeepSize'
<1>1. /\ stage = "stored" /\ original \in Size /\ UNCHANGED <<tag, original>>
      /\ picture \in Turned \/ picture \in Flipped
  BY DEF IInv, TypeOK, Rotate
<1>2. Scene \in Size
  BY <1>1, SwappedSize DEF Scene
<1>3. Reduced' = Reduced /\ Reduced \in Size
  BY <1>1, <1>2, GeometryConstants, ReducedSize DEF Reduced, Scene
<1>4. size = IF OnItsSide(picture) THEN Swapped(Reduced) ELSE Reduced
  BY <1>1 DEF RotationsKeepSize, Kept
<1>5. CASE angle = 180
  <2>1. size' = size /\ picture' = Rotate180(picture)
    BY <1>5 DEF Rotate
  <2>2. OnItsSide(picture') <=> OnItsSide(picture)
    BY <1>1, <2>1, KindAgain
  <2> QED
    BY <1>3, <1>4, <2>1, <2>2 DEF RotationsKeepSize
<1>6. CASE angle # 180
  <2>1. size' = Swapped(size) /\ (picture' = Rotate90(picture) \/ picture' = Rotate270(picture))
    BY <1>6 DEF Rotate
  <2>2. OnItsSide(picture') <=> ~OnItsSide(picture)
    BY <1>1, <2>1, KindAgain
  <2> QED
    BY <1>3, <1>4, <2>1, <2>2, SwappedTwice DEF RotationsKeepSize
<1> QED
  BY <1>5, <1>6

\* What is stored is the scene reduced, or that on its side.
LEMMA StoreKeepsSize ==
  ASSUME IInv, Store
  PROVE  RotationsKeepSize'
<1>1. /\ UNCHANGED <<tag, original, picture>> /\ size = Lying
      /\ size' = calculateDimensions(size.w, size.h, MaxPipelineDimension)
  BY DEF Store, IInv
<1>2. Scene \in Size
  BY SceneSize DEF IInv
<1>3. Reduced' = Reduced /\ (OnItsSide(picture') <=> OnItsSide(picture))
  BY <1>1 DEF Reduced, Scene
<1>4. CASE OnItsSide(picture)
  <2>1. size = Swapped(Scene)
    BY <1>1, <1>4 DEF Lying
  <2>2. size' = calculateDimensions(Scene.h, Scene.w, MaxPipelineDimension)
    BY <1>1, <1>2, <2>1, SwappedSize
  <2>3. size' = Swapped(Reduced)
    BY <1>2, <2>2, ReducedSwapped, GeometryConstants DEF Reduced
  <2> QED
    BY <1>3, <1>4, <2>3 DEF RotationsKeepSize
<1>5. CASE ~OnItsSide(picture)
  <2>1. size' = Reduced
    BY <1>1, <1>5 DEF Lying, Reduced
  <2> QED
    BY <1>3, <1>5, <2>1 DEF RotationsKeepSize
<1> QED
  BY <1>4, <1>5

\* RotationsKeepSize, for any limits and any number of rotations (Rotate), of
\* which any may fail to be recorded (AdminRotatePhoto).
THEOREM RotationsLoseNothing == Spec => []RotationsKeepSize
<1>1. Init => RotationsKeepSize
  BY DEF Init, RotationsKeepSize, Kept
<1>2. IInv /\ RotationsKeepSize /\ [Next]_vars => RotationsKeepSize'
  <2> SUFFICES ASSUME IInv, RotationsKeepSize, [Next]_vars
               PROVE  RotationsKeepSize'
    OBVIOUS
  <2>1. ASSUME NEW angle \in {90, -90, 180, 270}, Rotate(angle)
        PROVE  RotationsKeepSize'
    BY <2>1, RotateKeepsSize
  <2>2. CASE Store
    BY <2>2, StoreKeepsSize
  <2>3. CASE \/ \E w \in Side, h \in Side, o \in Tags, l \in BOOLEAN : Decode(w, h, o, l)
             \/ Orient
             \/ Delete
    BY <2>3 DEF Decode, Orient, Delete, RotationsKeepSize, Kept
  <2>4. CASE RotateBreaks \/ UpdatePhotoDimensions \/ UpdateFails
    <3>1. /\ stage \in {"stored", "rotated"} /\ size' = size /\ picture' = picture
          /\ original' = original /\ tag' = tag
      BY <2>4 DEF RotateBreaks, UpdatePhotoDimensions, UpdateFails
    <3> QED
      BY <3>1 DEF RotationsKeepSize, Kept, Reduced, Scene
  <2>5. CASE UNCHANGED vars
    BY <2>5 DEF vars, RotationsKeepSize, Kept, Reduced, Scene
  <2> QED
    BY <2>1, <2>2, <2>3, <2>4, <2>5 DEF Next
<1> QED
  BY <1>1, <1>2, GeometryInvariant, PTL DEF Spec

=============================================================================
