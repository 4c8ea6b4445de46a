--------------------------- MODULE PictureComparison ---------------------------
(* How the picture of the screen is compared with the reference (image.rs in  *)
(* crates/core; gray_thumbnail, reference_data_from_frame,                    *)
(* reference_data_from_rgba and persist_frame_atomic in                       *)
(* crates/app/src/runtime.rs).                                                *)
(*                                                                            *)
(* Both become gray pictures of one small size.  A reference that was just    *)
(* captured and a frame take the same way there; one that was imported or     *)
(* loaded from its file takes another, by way of a file with red and blue the *)
(* other way round.                                                           *)
(*                                                                            *)
(* The code's floating point numbers are exact here; a value halfway between  *)
(* two levels is rounded up.  A similarity is known by its sums, and by       *)
(* whether it is one, which no threshold is above.                            *)
EXTENDS Integers

CONSTANTS
    Colours,        \* <<blue, green, red>>
    FrameSize,      \* of the pictures of the screen
    ImportSizes,    \* of the pictures of the user
    Analysis,       \* the size compared: 160 by 90 in the code
    BorderColumns,  \* a column on each side is left out for every 80
    BorderRows,     \* and a row for every 45
    NoPicture       \* no reference, no file, no frame compared

Size == [width : Nat \ {0}, height : Nat \ {0}]
Points(size) == (0 .. size.width - 1) \X (0 .. size.height - 1)
Pictures(size) == [size : {size}, at : [Points(size) -> Colours]]

Levels == 0 .. 255
Colour == Levels \X Levels \X Levels
PictureOf(size) == [size : {size}, at : [Points(size) -> Colour]]

\* The sums of a comparison
Sums == [error : Nat, left : Nat, right : Nat, squares : Nat, products : Nat]

ComparisonAssumption ==
    /\ \A c \in Colours : c \in Colour
    /\ FrameSize \in Size /\ ImportSizes \subseteq Size /\ Analysis \in Size
    /\ BorderColumns \in Nat \ {0, 1, 2} /\ BorderRows \in Nat \ {0, 1, 2}
    /\ \A size \in ImportSizes \cup {FrameSize} : NoPicture \notin PictureOf(size)
    /\ NoPicture \notin Sums

----------------------------------------------------------------------------
\* The gray value of a pixel, rounded.
Luma(c) == (722 * c[1] + 7152 * c[2] + 2126 * c[3] + 5000) \div 10000

(* The middle of a pixel is taken for its corner.                             *)
BugPlace(x, source, target) == 2 * x * source

\* The two pixels of the source that pixel x of the target lies between, and
\* where; the place is a fraction of 2 * target.
Place(x, source, target) == (2 * x + 1) * source - target
First(x, source, target) ==
    LET pixel == Place(x, source, target) \div (2 * target)
    IN  IF pixel < 0 THEN 0 ELSE pixel
Second(x, source, target) ==
    IF First(x, source, target) = source - 1 THEN source - 1
    ELSE First(x, source, target) + 1
Fraction(x, source, target) == Place(x, source, target) % (2 * target)

Mixed(left, right, fraction, whole) == left * (whole - fraction) + right * fraction

Bilinear(level(_), source, target) ==
    [size |-> target,
     at |-> [point \in Points(target) |->
        LET x0 == First(point[1], source.width, target.width)
            x1 == Second(point[1], source.width, target.width)
            y0 == First(point[2], source.height, target.height)
            y1 == Second(point[2], source.height, target.height)
            fx == Fraction(point[1], source.width, target.width)
            fy == Fraction(point[2], source.height, target.height)
            w == 2 * target.width
            h == 2 * target.height
            top == Mixed(level(<<x0, y0>>), level(<<x1, y0>>), fx, w)
            bottom == Mixed(level(<<x0, y1>>), level(<<x1, y1>>), fx, w)
        IN  (2 * Mixed(top, bottom, fy, h) + w * h) \div (2 * w * h)]]

\* bgra_to_gray and resize_bilinear, and both at once
BgraToGray(bgra) ==
    [size |-> bgra.size, at |-> [p \in Points(bgra.size) |-> Luma(bgra.at[p])]]
ResizeBilinear(gray, target) ==
    Bilinear(LAMBDA p : gray.at[p], gray.size, target)
ResizeBgraToGray(bgra, target) ==
    Bilinear(LAMBDA p : Luma(bgra.at[p]), bgra.size, target)

\* pixel.swap(0, 2), in either direction
Swapped(picture) ==
    [picture EXCEPT !.at = [p \in DOMAIN @ |-> <<@[p][3], @[p][2], @[p][1]>>]]

Thumbnail(frame) == ResizeBgraToGray(frame, Analysis)

(* The file is taken for BGRA.                                                *)
BugFromRgba(rgba) == ResizeBilinear(BgraToGray(rgba), Analysis)

FromRgba(rgba) == ResizeBilinear(BgraToGray(Swapped(rgba)), Analysis)

----------------------------------------------------------------------------
(* The border on the right and below is one too narrow.                       *)
BugInside(length, unit) == [first |-> length \div unit, last |-> length - 1]

\* The rows or columns between the borders
Inside(length, unit) ==
    [first |-> length \div unit, last |-> length - (length \div unit) - 1]

Range(span) == span.first .. span.last

Summed(span, value) ==
    LET count == span.last - span.first + 1
        sum[n \in 0 .. count] ==
            IF n = 0 THEN 0 ELSE sum[n - 1] + value[span.first + n - 1]
    IN  sum[count]

\* The two loops of image_similarity, row by row
Total(value) ==
    LET columns == Inside(Analysis.width, BorderColumns)
        rows == Inside(Analysis.height, BorderRows)
    IN  Summed(rows, [y \in Range(rows) |->
            Summed(columns, [x \in Range(columns) |-> value[<<x, y>>]])])

Difference(l, r) == IF l < r THEN r - l ELSE l - r

\* image_similarity
Compared(left, right) ==
    LET l == left.at
        r == right.at
    IN  [error |-> Total([p \in Points(Analysis) |-> Difference(l[p], r[p])]),
         left |-> Total(l), right |-> Total(r),
         squares |-> Total([p \in Points(Analysis) |-> l[p] * l[p] + r[p] * r[p]]),
         products |-> Total([p \in Points(Analysis) |-> l[p] * r[p]])]

(* Where the error is none, both factors of the structural part are one: the  *)
(* means are equal, and the variances add up to twice the covariance.         *)
IsPerfect(sums) ==
    /\ sums.error = 0 /\ sums.left = sums.right
    /\ sums.squares = 2 * sums.products

VARIABLES
    stored,     \* the file of the reference, in RGBA
    reference,  \* the detector's gray picture of it
    frame,      \* the frame compared last
    similarity  \* what came out

vars == <<stored, reference, frame, similarity>>

Init ==
    /\ stored = NoPicture /\ reference = NoPicture
    /\ frame = NoPicture /\ similarity = NoPicture

\* reference_data_from_frame and persist_frame_atomic; the frames of the screen
\* have no padding, which the file would keep.
Capture ==
    /\ stored = NoPicture
    /\ \E shot \in Pictures(FrameSize) :
          reference' = Thumbnail(shot) /\ stored' = Swapped(shot)
    /\ UNCHANGED <<frame, similarity>>

\* A picture that was decoded becomes the reference and the file.
Import ==
    /\ stored = NoPicture
    /\ \E size \in ImportSizes : stored' \in Pictures(size)
    /\ reference' = FromRgba(stored')
    /\ UNCHANGED <<frame, similarity>>

Exit ==
    /\ reference # NoPicture /\ frame = NoPicture /\ reference' = NoPicture
    /\ UNCHANGED <<stored, frame, similarity>>

Load ==
    /\ stored # NoPicture /\ reference = NoPicture
    /\ reference' = FromRgba(stored)
    /\ UNCHANGED <<stored, frame, similarity>>

\* detect, and the comparison of a monitor scan
Detect ==
    /\ reference # NoPicture /\ frame = NoPicture
    /\ frame' \in Pictures(FrameSize)
    /\ similarity' = Compared(reference, Thumbnail(frame'))
    /\ UNCHANGED <<stored, reference>>

\* Bound: a frame is compared on its own, and a reference replaced by none.
Forget ==
    /\ frame # NoPicture
    /\ stored' = NoPicture /\ reference' = NoPicture
    /\ frame' = NoPicture /\ similarity' = NoPicture

Next == Capture \/ Import \/ Exit \/ Load \/ Detect \/ Forget

Spec == Init /\ [][Next]_vars

----------------------------------------------------------------------------
TypeOK ==
    /\ reference # NoPicture => reference.at \in [Points(Analysis) -> Levels]
    /\ (frame = NoPicture) = (similarity = NoPicture)

(* Detection goes on with the same picture after a restart: what a capture    *)
(* left in use is what its file gives when it is loaded                       *)
(* (reference_data_from_frame, persist_frame_atomic, decode_reference).       *)
ReloadAgrees == reference # NoPicture => reference = FromRgba(stored)

InBorder(i, length, unit) ==
    unit * (i + 1) <= length \/ unit * (length - i) <= length

(* The frame a reference was made of matches it at every threshold, and one   *)
(* that does so differs from it in the border at most (image_similarity).     *)
MatchIsExact ==
    frame # NoPicture =>
        /\ stored = Swapped(frame) => IsPerfect(similarity)
        /\ IsPerfect(similarity) =
              \A p \in Points(Analysis) :
                 \/ InBorder(p[1], Analysis.width, BorderColumns)
                 \/ InBorder(p[2], Analysis.height, BorderRows)
                 \/ reference.at[p] = Thumbnail(frame).at[p]

Mirrored(picture) ==
    [picture EXCEPT !.at = [p \in DOMAIN @ |->
        @[<<picture.size.width - 1 - p[1], picture.size.height - 1 - p[2]>>]]]

(* A picture that is made smaller is not moved: its mirror image becomes the  *)
(* mirror image, so what is compared at one place lies at one place whatever  *)
(* the sizes of screen and reference (resize_bgra_to_gray).                   *)
StaysInPlace ==
    /\ frame # NoPicture
    /\ Analysis.width <= FrameSize.width /\ Analysis.height <= FrameSize.height
    => Thumbnail(Mirrored(frame)) = Mirrored(Thumbnail(frame))
================================================================================
