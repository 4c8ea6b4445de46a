----------------------------- MODULE WebcamFormats -----------------------------
(* Which of its formats a webcam is opened with, and how the rows of a sample *)
(* are found in the driver's buffer (sort_webcam_formats,                     *)
(* negotiate_rgb32_output, resolve_negotiated_layout, update_current_format   *)
(* and copy_bgra_rows in crates/windows/src/video_input.rs).                  *)
(*                                                                            *)
(* The driver lists its formats in any order; the capture asks for the        *)
(* pipeline's own format first and then for the others by rank, until the     *)
(* reader takes one.  What the reader then describes is an RGB32 picture with *)
(* a stride and the size of a sample, either of which may be missing.         *)
(*                                                                            *)
(* Sizes are 32-bit words in the code; here the largest word is MaxWord, so   *)
(* that the checks against overflow can fail.                                 *)
EXTENDS Integers, Sequences, Functions

CONSTANTS
    Formats,    \* [width, height, numerator, denominator, rank]; rank 0 is RGB32
    Exact,      \* the pipeline's size and rate, in RGB32
    MaxWord,
    Absent,     \* an attribute that is missing; no layout; no format
    Strides, SampleSizes,   \* attributes a driver may set
    Lengths, Offsets, Pitches,  \* of the buffers it may hand over
    Scale,      \* a common multiple of their denominators, to measure rates with
    Listed,     \* bound: formats of a webcam
    Changes     \* bound: changes of the media type

FormatsAssumption ==
    /\ Exact \in Formats
    /\ \A f \in Formats :
          f \in [width : Nat \ {0}, height : Nat \ {0}, numerator : Nat \ {0},
                 denominator : Nat \ {0}, rank : 0 .. 3]
    /\ Scale \in Nat \ {0}
    /\ \A f \in Formats : Scale % f.denominator = 0
    /\ MaxWord \in Nat /\ Strides \subseteq 0 .. MaxWord
    /\ SampleSizes \subseteq 0 .. MaxWord
    /\ Lengths \subseteq Nat /\ Offsets \subseteq Nat /\ Pitches \subseteq Int
    /\ Absent \notin Formats
    /\ Listed \in Nat /\ Changes \in Nat

VARIABLES
    phase,      \* "negotiating", "open" or "failed"
    listed,     \* what the driver lists, each format once
    left,       \* which of them are still to be asked for
    asked,      \* the format asked for, or Absent before the first
    refused,    \* formats asked for in vain
    layout,     \* [width, height, stride] in use
    declared,   \* the size of a sample, as the driver has it
    rows,       \* of the last sample: where each row was read; <<>> for none
    buffer,     \* of the last sample: its length, or Absent when it is a 2D one
    changes

vars == <<phase, listed, left, asked, refused, layout, declared, rows, buffer,
          changes>>

Init ==
    /\ phase = "negotiating"
    /\ listed \in UNION {Injection(1 .. n, Formats) : n \in 0 .. Listed}
    /\ left = DOMAIN listed
    /\ asked = Absent /\ refused = {}
    /\ layout = Absent /\ declared = 0
    /\ rows = <<>> /\ buffer = Absent /\ changes = 0

----------------------------------------------------------------------------
\* sort_webcam_formats

Distance(a, b) == IF a < b THEN b - a ELSE a - b

\* Smaller is better, the first difference decides.
FixedRank(f) ==
    << IF f.rank = 0 /\ f.width = Exact.width /\ f.height = Exact.height
          /\ f.numerator = 30 * f.denominator THEN 0 ELSE 1,
       IF f.rank = 0 THEN 0 ELSE 1,
       Distance(f.width * 9, f.height * 16),
       Distance(f.width * f.height, Exact.width * Exact.height) >>

RateError(f) == Distance(f.numerator, 30 * f.denominator)

(* The errors are compared as they are, in units of different size.           *)
BugNearerRate(f, g) == RateError(f) < RateError(g)

NearerRate(f, g) ==
    RateError(f) * g.denominator < RateError(g) * f.denominator

Better(f, g) ==
    LET a == FixedRank(f)
        b == FixedRank(g)
    IN  \/ \E i \in 1 .. 4 : a[i] < b[i] /\ \A j \in 1 .. i - 1 : a[j] = b[j]
        \/ a = b /\ NearerRate(f, g)
        \/ a = b /\ ~NearerRate(f, g) /\ ~NearerRate(g, f) /\ f.rank < g.rank

\* A stable sort, taken one by one; the exact format was asked for before.
IsNext(i) ==
    /\ i \in left /\ listed[i] # Exact
    /\ \A j \in left : listed[j] # Exact =>
          ~Better(listed[j], listed[i])
            /\ (j < i => Better(listed[i], listed[j]))

----------------------------------------------------------------------------
\* resolve_negotiated_layout

\* checked_mul
Fits(n) == n <= MaxWord
MaxInt == MaxWord \div 2
Signed(word) == IF word > MaxInt THEN word - (MaxWord + 1) ELSE word
Magnitude(n) == IF n < 0 THEN -n ELSE n

RowBytes(width) == width * 4

StrideOf(width, attribute) ==
    IF attribute = Absent THEN RowBytes(width) ELSE Signed(attribute)

(* Padding between the rows is forgotten.                                     *)
BugRequiredBytes(width, height, attribute) == RowBytes(width) * height

RequiredBytes(width, height, attribute) ==
    Magnitude(StrideOf(width, attribute)) * height

IsLayout(width, height, stride, size) ==
    LET required == RequiredBytes(width, height, stride)
    IN  /\ RowBytes(width) <= MaxInt
        /\ StrideOf(width, stride) # 0
        /\ Magnitude(StrideOf(width, stride)) >= RowBytes(width)
        /\ Fits(required)
        /\ size # Absent => size >= required

Layout(width, height, stride) ==
    [width |-> width, height |-> height, stride |-> StrideOf(width, stride)]

\* What the reader says, or what it means when it says nothing.
Declared(width, height, stride, size) ==
    IF size = Absent THEN RequiredBytes(width, height, stride) ELSE size

----------------------------------------------------------------------------
\* negotiate_rgb32_output

Candidate ==
    IF asked = Absent THEN {[format |-> Exact, left |-> left]}
    ELSE {[format |-> listed[i], left |-> left \ {i}] : i \in {j \in left : IsNext(j)}}

Overflows(f) ==
    ~Fits(RowBytes(f.width)) \/ ~Fits(RowBytes(f.width) * f.height)

\* The reader refuses the format, or the size of it overflows.
Refuses ==
    /\ phase = "negotiating"
    /\ \E next \in Candidate :
          /\ asked' = next.format /\ left' = next.left
          /\ refused' = refused \cup {next.format}
    /\ UNCHANGED <<phase, listed, layout, declared, rows, buffer, changes>>

\* It takes the format and describes it; a description that makes no sense is
\* a refusal, and one that cannot be had ends the negotiation.
Takes ==
    /\ phase = "negotiating"
    /\ \E next \in Candidate, stride \in Strides \cup {Absent},
          size \in SampleSizes \cup {Absent} :
          LET f == next.format
          IN  /\ ~Overflows(f) /\ asked' = f /\ left' = next.left
              /\ \/ /\ IsLayout(f.width, f.height, stride, size)
                    /\ phase' = "open"
                    /\ layout' = Layout(f.width, f.height, stride)
                    /\ declared' = Declared(f.width, f.height, stride, size)
                    /\ UNCHANGED refused
                 \/ /\ ~IsLayout(f.width, f.height, stride, size)
                    /\ refused' = refused \cup {f}
                    /\ UNCHANGED <<phase, layout, declared>>
                 \/ phase' = "failed" /\ UNCHANGED <<refused, layout, declared>>
    /\ UNCHANGED <<listed, rows, buffer, changes>>

NothingTaken ==
    /\ phase = "negotiating" /\ Candidate = {} /\ phase' = "failed"
    /\ UNCHANGED <<listed, left, asked, refused, layout, declared, rows, buffer,
                   changes>>

----------------------------------------------------------------------------
\* OnReadSample

\* update_current_format: another type of the same reader, or the end, be it
\* that the type cannot be had or is not one the capture takes.
TypeChanges ==
    /\ phase = "open" /\ changes < Changes /\ changes' = changes + 1
    /\ \E f \in Formats, stride \in Strides \cup {Absent},
          size \in SampleSizes \cup {Absent} :
          \/ /\ IsLayout(f.width, f.height, stride, size)
             /\ layout' = Layout(f.width, f.height, stride)
             /\ declared' = Declared(f.width, f.height, stride, size)
             /\ UNCHANGED phase
          \/ phase' = "failed" /\ UNCHANGED <<layout, declared>>
    /\ rows' = <<>> /\ buffer' = Absent
    /\ UNCHANGED <<listed, left, asked, refused>>

(* The last row is thought to need its padding.                               *)
BugRowsIn(length, offset, pitch) ==
    IF /\ Magnitude(pitch) >= RowBytes(layout.width)
       /\ offset + layout.height * pitch <= length
    THEN [row \in 1 .. layout.height |-> offset + (row - 1) * pitch]
    ELSE <<>>

\* copy_bgra_rows: where the rows begin, counted from zero, or <<>> when one is
\* not inside the buffer.
RowsIn(length, offset, pitch) ==
    LET begins == [row \in 1 .. layout.height |-> offset + (row - 1) * pitch]
    IN  IF /\ Magnitude(pitch) >= RowBytes(layout.width)
           /\ \A row \in DOMAIN begins :
                 begins[row] >= 0 /\ begins[row] + RowBytes(layout.width) <= length
        THEN begins
        ELSE <<>>

\* Lock2DSize gives offset and pitch, Lock only the length.
Sample ==
    /\ phase = "open"
    /\ \E length \in Lengths :
          \/ \E offset \in Offsets, pitch \in Pitches :
                rows' = RowsIn(length, offset, pitch) /\ buffer' = Absent
          \/ /\ buffer' = length
             /\ rows' = IF layout.stride < 0 THEN <<>>
                        ELSE RowsIn(length, 0, layout.stride)
    /\ UNCHANGED <<phase, listed, left, asked, refused, layout, declared, changes>>

Next == Refuses \/ Takes \/ NothingTaken \/ TypeChanges \/ Sample

Spec == Init /\ [][Next]_vars

----------------------------------------------------------------------------
TypeOK ==
    /\ phase \in {"negotiating", "open", "failed"}
    /\ left \subseteq DOMAIN listed
    /\ asked \in Formats \cup {Absent} /\ refused \subseteq Formats
    /\ layout # Absent => /\ layout.width \in Nat /\ layout.height \in Nat
                          /\ layout.stride \in Int
    /\ declared \in Nat /\ changes \in 0 .. Changes
    /\ buffer \in Lengths \cup {Absent}

\* How far a rate is from thirty, on a scale all rates share.
RateDistance(f) == Distance(f.numerator * (Scale \div f.denominator), 30 * Scale)

(* A webcam that is open was refused all it lists that is better: a format of *)
(* RGB32 before one that must be converted, and of two of one size the one    *)
(* whose rate is nearer to thirty, 29.97 before 29 (the test                  *)
(* contract_rational_frame_rate_ranking_prefers_2997_over_29).                *)
BestIsTaken ==
    phase = "open" /\ changes = 0 /\ asked # Exact =>
        /\ Exact \in refused
        /\ \A i \in DOMAIN listed :
              \/ listed[i] \in refused
              \/ asked.rank = 0 /\ listed[i].rank # 0
              \/ /\ [listed[i] EXCEPT !.numerator = 1, !.denominator = 1]
                       = [asked EXCEPT !.numerator = 1, !.denominator = 1]
                    => RateDistance(asked) <= RateDistance(listed[i])
                 /\ asked.rank # 0 => listed[i].rank # 0

(* Of a format that was accepted every sample of the declared size is copied, *)
(* with padded rows too and after a change of the type, so the size checked   *)
(* when the format is accepted and the bytes looked for when it is copied     *)
(* agree; and the rows of a picture lie apart and inside its buffer.          *)
SampleIsWhole ==
    /\ phase = "open" /\ buffer # Absent /\ buffer >= declared /\ layout.stride > 0
          => rows # <<>>
    /\ rows # <<>> =>
          /\ Len(rows) = layout.height
          /\ \A i, j \in DOMAIN rows :
                i # j => Distance(rows[i], rows[j]) >= RowBytes(layout.width)
          /\ \A i \in DOMAIN rows :
                /\ rows[i] >= 0
                /\ buffer # Absent => rows[i] + RowBytes(layout.width) <= buffer
================================================================================
