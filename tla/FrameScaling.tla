----------------------------- MODULE FrameScaling -----------------------------
(* Where the pixels of a scaled picture come from (aspect_fit_bgra_into,      *)
(* aspect_fill_bgra_into, ScalePlan and the blending of FrameCompositor in    *)
(* crates/core/src/frame.rs).                                                 *)
(*                                                                            *)
(* The captures fit a picture into the output by walking along both axes and  *)
(* adding a whole step and a remainder for each pixel; the compositor works   *)
(* the same positions out by division, in advance.  Width and height are      *)
(* walked alike, so the state is the walk along one axis.  Sizes that the     *)
(* code rounds as floating point numbers are rounded exactly.                 *)
EXTENDS Integers

CONSTANT MaxSize    \* bound: pixels of a width or a height

SizeAssumption == MaxSize \in Nat \ {0}

Sizes == [width : 1 .. MaxSize, height : 1 .. MaxSize]

\* round, for a quotient of positive numbers
Rounded(a, b) == (2 * a + b) \div (2 * b)
AtLeastOne(n) == IF n < 1 THEN 1 ELSE n

(* The size of the fitted picture: the scale is the smaller of the two.       *)
Fitted(source, output) ==
    IF output.width * source.height <= output.height * source.width
    THEN [width |-> output.width,
          height |-> AtLeastOne(Rounded(source.height * output.width,
                                        source.width))]
    ELSE [width |-> AtLeastOne(Rounded(source.width * output.height,
                                       source.height)),
          height |-> output.height]

Clamped(n, high) == IF n < 1 THEN 1 ELSE IF n > high THEN high ELSE n

(* The part of the source a filled output shows, for a display aspect ratio   *)
(* of aspect.width to aspect.height.                                          *)
Cropped(source, aspect, output) ==
    IF aspect.width * output.height > output.width * aspect.height
    THEN [width |-> Clamped(Rounded(
             source.width * output.width * aspect.height,
             output.height * aspect.width), source.width),
          height |-> source.height]
    ELSE [width |-> source.width,
          height |-> Clamped(Rounded(
             source.height * aspect.width * output.height,
             aspect.height * output.width), source.height)]

\* A bug: a picture with an odd border is moved by the whole border.
BugOffset(outer, inner) == outer - inner

\* Half of what is left over, where the picture begins
Offset(outer, inner) == (outer - inner) \div 2

\* A bug: the weights of the two pictures do not add up to a whole.
BugSum(left, right, weight) == left * (255 - weight) + right * weight + 128

(* One channel of a blend; the weight is of 256, and the sum kept in 16 bits. *)
Sum(left, right, weight) == left * (256 - weight) + right * weight + 128
Blended(left, right, weight) == (Sum(left, right, weight) % 65536) \div 256

VARIABLES
    source,     \* pixels of the axis in the source
    length,     \* pixels of the axis in the fitted picture
    border,     \* where the fitted picture begins in the output, and its size
    crop,       \* the same of the part a filled output shows, in the source
    x,          \* the pixel of the fitted picture the walk is at
    position,   \* source_x
    remainder,  \* source_x_remainder
    mix         \* the weight of the screen, of 256

vars == <<source, length, border, crop, x, position, remainder, mix>>

Weights == {0, 1, 2, 128, 255, 256}

Init ==
    \E from, output, aspect \in Sizes, axis \in {"width", "height"} :
        /\ source = from[axis]
        /\ length = Fitted(from, output)[axis]
        /\ border = [start |-> Offset(output[axis], Fitted(from, output)[axis]),
                     size |-> output[axis]]
        /\ crop = [start |-> Offset(from[axis],
                                    Cropped(from, aspect, output)[axis]),
                   size |-> Cropped(from, aspect, output)[axis]]
        /\ x = 0 /\ position = 0 /\ remainder = 0
        /\ mix \in Weights

\* A bug: the carry comes one remainder too late.
BugCarries(sum) == sum > length

Carries(sum) == sum >= length

(* One turn of the loop.                                                      *)
Step ==
    /\ x < length
    /\ x' = x + 1
    /\ LET sum == remainder + (source % length)
       IN IF Carries(sum)
          THEN /\ position' = position + (source \div length) + 1
               /\ remainder' = sum - length
          ELSE /\ position' = position + (source \div length)
               /\ remainder' = sum
    /\ UNCHANGED <<source, length, border, crop, mix>>

Next == Step

Spec == Init /\ [][Next]_vars

----------------------------------------------------------------------------
\* ScalePlan::new
Planned(i) == (i * source) \div length

\* aspect_fill_bgra_into, along one axis
Filled(i) == crop.start + (i * crop.size) \div border.size

TypeOK ==
    /\ source \in Nat \ {0} /\ length \in Nat \ {0}
    /\ border \in [start : Int, size : Nat \ {0}]
    /\ crop \in [start : Int, size : Nat \ {0}]
    /\ x \in 0 .. length
    /\ position \in Nat /\ remainder \in 0 .. length - 1
    /\ mix \in Weights

(* The captures and the compositor scale alike: the sum of steps and carries  *)
(* is the quotient at every pixel, and every pixel read is one of the source  *)
(* (the loop of aspect_fit_bgra_into, ScalePlan::new).                        *)
WalkIsPlan ==
    /\ position = Planned(x)
    /\ x < length => position < source

(* A fitted picture lies inside the output, with borders that differ by one   *)
(* pixel at most, and a filled output reads inside the source, whatever the   *)
(* rounding does to the odd pixel: both index raw memory.                     *)
StaysInside ==
    /\ border.start >= 0 /\ border.start + length <= border.size
    /\ border.size - length - 2 * border.start \in {0, 1}
    /\ crop.start >= 0 /\ crop.start + crop.size <= source
    /\ \A i \in 0 .. border.size - 1 : Filled(i) \in 0 .. source - 1

Levels == {0, 1, 2, 127, 128, 254, 255}

Between(left, right, weight) ==
    LET result == Blended(left, right, weight)
    IN /\ left <= right => result \in left .. right
       /\ right <= left => result \in right .. left
       /\ weight = 0 => result = left
       /\ weight = 256 => result = right

(* A blend lies between what it blends and is either of them at the ends, so  *)
(* a cross-fade begins and ends without a jump, and a constant picture stays  *)
(* what it is; the sum does not wrap around (the blend of compose_with_pip,   *)
(* blend_bgra_pixel).                                                         *)
BlendIsBetween == \A left, right \in Levels : Between(left, right, mix)

(* The arithmetic of a picture is right: its rows and columns follow the plan *)
(* of the copy, stay inside both pictures and blend to values between.        *)
PicturesFit == WalkIsPlan /\ StaysInside /\ BlendIsBetween
=============================================================================
