--------------------------- MODULE InterfaceProofs ---------------------------
(***************************************************************************)
(* Proofs about the components that MCInterface composes: the activity     *)
(* log, the notices, the handoff to the device worker and the shell.       *)
(* Every component has an inductive invariant of its own; in a behaviour   *)
(* of MCInterface one of them moves and the others rest.                   *)
(***************************************************************************)
EXTENDS MCInterface, TLAPS, SequenceTheorems, FiniteSetTheorems,
        WellFoundedInduction

----------------------------------------------------------------------------
(***************************************************************************)
(* The activity log (ActivityLog), for a ring of any size and any number   *)
(* of entries.                                                             *)
(***************************************************************************)

\* Everything an entry of the log may be.
Item == [from : {"device", "skipped", "gap", "runtime", "cleared"}, id : Nat]

\* Three parts of a log in a row, and four.
AssocAt(a, b, c) == (a \o b) \o c = a \o (b \o c)

RegroupAt(a, b, c, d) == a \o (b \o c) \o d = a \o b \o (c \o d)

\* Concatenation is associative.
LEMMA Assoc == \A a, b, c \in Seq(Item) : AssocAt(a, b, c)
<1> TAKE a, b, c \in Seq(Item)
<1> QED
  BY ConcatAssociative DEF AssocAt

\* So the middle parts of four may change sides.
LEMMA Regroup == \A a, b, c, d \in Seq(Item) : RegroupAt(a, b, c, d)
<1> TAKE a, b, c, d \in Seq(Item)
<1> DEFINE ab == a \o b
<1>1. ab \in Seq(Item)
  BY ConcatProperties
<1>2. ab \o c = a \o (b \o c)
  BY Assoc DEF AssocAt
<1> HIDE DEF ab
<1>3. AssocAt(ab, c, d)
  BY <1>1, Assoc
<1> QED
  BY <1>2, <1>3 DEF AssocAt, RegroupAt, ab

\* Marks, and what a log tells; the log may have lost entries when lossy.
IsMark(item) == item.from \in {"skipped", "gap"}
IsDevice(item) == item.from = "device"

\* Entries of the worker go up, and what lies between two of them is there, unless
\* a mark is there or the log may have lost entries.
Tells(seq, lossy) ==
  \A i, j \in 1 .. Len(seq) :
     (i < j /\ IsDevice(seq[i]) /\ IsDevice(seq[j])) =>
        /\ seq[i].id < seq[j].id
        /\ \/ lossy
           \/ \E k \in i + 1 .. j - 1 : IsMark(seq[k])
           \/ \A n \in seq[i].id + 1 .. seq[j].id - 1 :
                 \E k \in i + 1 .. j - 1 : seq[k] = Activity!Device(n)

\* The property LossIsLogged, in the terms used here.
LEMMA TellsIsLossIsLogged ==
  ASSUME log \in Seq(Item), failed \in BOOLEAN
  PROVE  Activity!LossIsLogged <=> Tells(log, failed)
BY DEF Activity!LossIsLogged, Tells, Activity!DeviceAt, Activity!MarkBetween, IsDevice, IsMark

\* The entries of new are those of old at g, in order, with all between them that
\* counts, or a mark.
Embeds(old, new, g, less) ==
  /\ \A i \in 1 .. Len(new) : IsDevice(new[i]) =>
       g[i] \in 1 .. Len(old) /\ old[g[i]] = new[i]
  /\ \A i, j \in 1 .. Len(new) :
       (i < j /\ IsDevice(new[i]) /\ IsDevice(new[j])) =>
          /\ g[i] < g[j]
          /\ \/ less
             \/ \E k \in i + 1 .. j - 1 : IsMark(new[k])
             \/ \A k \in g[i] + 1 .. g[j] - 1 :
                   IsDevice(old[k]) \/ IsMark(old[k]) =>
                      \E m \in i + 1 .. j - 1 : new[m] = old[k]

\* A log keeps what it tells when something is put into it, or taken out of it
\* and a mark left there: the entries that stay are the images of entries of the
\* old one, and between two of them are the images of those between, or a mark.
LEMMA TellsStill ==
  ASSUME NEW old \in Seq(Item), NEW new \in Seq(Item), NEW lossy \in BOOLEAN,
         NEW less \in BOOLEAN, lossy => less,
         Tells(old, lossy), NEW g, Embeds(old, new, g, less)
  PROVE  Tells(new, less)
<1> SUFFICES ASSUME NEW i \in 1 .. Len(new), NEW j \in 1 .. Len(new),
                    i < j, IsDevice(new[i]), IsDevice(new[j])
             PROVE  /\ new[i].id < new[j].id
                    /\ \/ less
                       \/ \E k \in i + 1 .. j - 1 : IsMark(new[k])
                       \/ \A n \in new[i].id + 1 .. new[j].id - 1 :
                             \E k \in i + 1 .. j - 1 : new[k] = Activity!Device(n)
  BY DEF Tells
<1>1. PICK u \in 1 .. Len(old), v \in 1 .. Len(old) :
        u = g[i] /\ v = g[j] /\ u < v /\ old[u] = new[i] /\ old[v] = new[j]
  BY DEF Embeds
<1>2. IsDevice(old[u]) /\ IsDevice(old[v])
  BY <1>1
<1>3. /\ old[u].id < old[v].id
      /\ \/ lossy
         \/ \E k \in u + 1 .. v - 1 : IsMark(old[k])
         \/ \A n \in old[u].id + 1 .. old[v].id - 1 :
               \E k \in u + 1 .. v - 1 : old[k] = Activity!Device(n)
  BY <1>1, <1>2 DEF Tells
<1>4. \/ less
      \/ \E k \in i + 1 .. j - 1 : IsMark(new[k])
      \/ \A k \in u + 1 .. v - 1 :
            IsDevice(old[k]) \/ IsMark(old[k]) => \E m \in i + 1 .. j - 1 : new[m] = old[k]
  BY <1>1 DEF Embeds
<1>5. CASE less \/ \E k \in i + 1 .. j - 1 : IsMark(new[k])
  BY <1>1, <1>3, <1>5
<1>6. CASE \A k \in u + 1 .. v - 1 :
            IsDevice(old[k]) \/ IsMark(old[k]) => \E m \in i + 1 .. j - 1 : new[m] = old[k]
  <2>1. CASE lossy
    BY <1>1, <1>3, <2>1
  <2>2. CASE \E k \in u + 1 .. v - 1 : IsMark(old[k])
    BY <1>1, <1>3, <1>6, <2>2
  <2>3. CASE \A n \in old[u].id + 1 .. old[v].id - 1 :
               \E k \in u + 1 .. v - 1 : old[k] = Activity!Device(n)
    <3>1. \A n : IsDevice(Activity!Device(n))
      BY DEF Activity!Device, IsDevice
    <3>2. ASSUME NEW n \in new[i].id + 1 .. new[j].id - 1
          PROVE  \E k \in i + 1 .. j - 1 : new[k] = Activity!Device(n)
      <4>1. PICK k \in u + 1 .. v - 1 : old[k] = Activity!Device(n)
        BY <1>1, <2>3, <3>2
      <4>2. IsDevice(old[k])
        BY <3>1, <4>1
      <4> QED
        BY <1>6, <4>1, <4>2
    <3> QED
      BY <1>1, <1>3, <3>2
  <2> QED
    BY <1>3, <2>1, <2>2, <2>3
<1> QED
  BY <1>4, <1>5, <1>6

\* Which of the entries are marks, and which are the worker's.
LEMMA ItemsAreItems ==
  /\ Activity!Items \subseteq Item
  /\ Activity!Gap \in Item /\ Activity!Skipped \in Item
  /\ Activity!Own \in Item /\ Activity!Cleared \in Item
  /\ \A n \in Nat : Activity!Device(n) \in Item /\ Activity!Device(n).id = n
                    /\ IsDevice(Activity!Device(n)) /\ ~IsMark(Activity!Device(n))
  /\ IsMark(Activity!Gap) /\ IsMark(Activity!Skipped)
  /\ ~IsDevice(Activity!Gap) /\ ~IsDevice(Activity!Skipped)
  /\ ~IsDevice(Activity!Own) /\ ~IsDevice(Activity!Cleared)
  /\ ~IsMark(Activity!Own) /\ ~IsMark(Activity!Cleared)
<1>1. /\ Activity!Gap \in Item /\ Activity!Skipped \in Item
      /\ Activity!Own \in Item /\ Activity!Cleared \in Item
  BY DEF Item, Activity!Gap, Activity!Skipped, Activity!Own, Activity!Cleared
<1>2. \A n \in Nat : Activity!Device(n) \in Item /\ Activity!Device(n).id = n
                    /\ IsDevice(Activity!Device(n)) /\ ~IsMark(Activity!Device(n))
  BY DEF Item, Activity!Device, IsDevice, IsMark
<1>3. Activity!Items \subseteq Item
  BY <1>1, <1>2 DEF Activity!Items
<1> QED
  BY <1>1, <1>2, <1>3 DEF Activity!Gap, Activity!Skipped, Activity!Own, Activity!Cleared,
       IsDevice, IsMark

\* Parts without entries of the worker, without those and marks, and with a mark.
Plain(seq) == \A i \in 1 .. Len(seq) : ~IsDevice(seq[i])
Silent(seq) == \A i \in 1 .. Len(seq) : ~IsDevice(seq[i]) /\ ~IsMark(seq[i])
HasMark(seq) == \E i \in 1 .. Len(seq) : IsMark(seq[i])

\* A part is exchanged for one without entries of the worker.
LEMMA TellsSpliced ==
  ASSUME NEW X \in Seq(Item), NEW Y \in Seq(Item), NEW Z \in Seq(Item), NEW M \in Seq(Item),
         NEW lossy \in BOOLEAN, NEW less \in BOOLEAN, lossy => less,
         Plain(M), less \/ X = <<>> \/ Z = <<>> \/ HasMark(M) \/ Silent(Y),
         Tells(X \o Y \o Z, lossy)
  PROVE  Tells(X \o M \o Z, less)
<1> DEFINE old == X \o Y \o Z
<1> DEFINE new == X \o M \o Z
<1> DEFINE a == Len(X)
<1> DEFINE b == Len(Y)
<1> DEFINE c == Len(Z)
<1> DEFINE d == Len(M)
<1> DEFINE g == [i \in 1 .. a + d + c |-> IF i <= a THEN i ELSE i + b - d]
<1>1. a \in Nat /\ b \in Nat /\ c \in Nat /\ d \in Nat
  BY LenProperties
<1>2. /\ old \in Seq(Item) /\ Len(old) = a + b + c
      /\ \A i \in 1 .. a : old[i] = X[i]
      /\ \A i \in a + 1 .. a + b : old[i] = Y[i - a]
      /\ \A i \in a + b + 1 .. a + b + c : old[i] = Z[i - a - b]
  OBVIOUS
<1>3. /\ new \in Seq(Item) /\ Len(new) = a + d + c
      /\ \A i \in 1 .. a : new[i] = X[i]
      /\ \A i \in a + 1 .. a + d : new[i] = M[i - a]
      /\ \A i \in a + d + 1 .. a + d + c : new[i] = Z[i - a - d]
  OBVIOUS
<1>4. /\ \A i \in 1 .. d : ~IsDevice(M[i])
      /\ HasMark(M) => \E i \in 1 .. d : IsMark(M[i])
      /\ Silent(Y) => \A i \in 1 .. b : ~IsDevice(Y[i]) /\ ~IsMark(Y[i])
      /\ X = <<>> => a = 0
      /\ Z = <<>> => c = 0
  BY DEF Plain, HasMark, Silent
<1>5. /\ \A i \in 1 .. a : g[i] = i
      /\ \A i \in a + d + 1 .. a + d + c : g[i] = i + b - d
  BY <1>1
<1>6. Tells(old, lossy)
  OBVIOUS
<1> HIDE DEF old, new, a, b, c, d, g
<1>7. ASSUME NEW i \in 1 .. a PROVE i \in 1 .. Len(old) /\ old[i] = new[i] /\ i \in 1 .. Len(new)
  BY <1>1, <1>2, <1>3
<1>8. ASSUME NEW i \in a + d + 1 .. a + d + c
      PROVE  i + b - d \in a + b + 1 .. Len(old) /\ old[i + b - d] = new[i]
  <2>1. i + b - d \in a + b + 1 .. a + b + c /\ (i + b - d) - a - b = i - a - d
    BY <1>1
  <2>2. old[i + b - d] = Z[(i + b - d) - a - b]
    BY <1>2, <2>1
  <2> QED
    BY <1>2, <1>3, <2>1, <2>2
<1>9. ASSUME NEW i \in 1 .. Len(new), IsDevice(new[i])
      PROVE  i \in 1 .. a \/ i \in a + d + 1 .. a + d + c
  <2>1. i \in 1 .. a \/ i \in a + 1 .. a + d \/ i \in a + d + 1 .. a + d + c
    BY <1>1, <1>3
  <2>2. ASSUME i \in a + 1 .. a + d PROVE FALSE
    <3>1. i - a \in 1 .. d /\ new[i] = M[i - a]
      BY <1>1, <1>3, <2>2
    <3> QED
      BY <1>4, <1>9, <3>1
  <2> QED
    BY <2>1, <2>2
<1>10. ASSUME NEW i \in 1 .. Len(new), IsDevice(new[i])
       PROVE  g[i] \in 1 .. Len(old) /\ old[g[i]] = new[i]
  <2>1. CASE i \in 1 .. a
    BY <1>5, <1>7, <2>1
  <2>2. CASE i \in a + d + 1 .. a + d + c
    <3>1. g[i] = i + b - d
      BY <1>5, <2>2
    <3>2. i + b - d \in 1 .. Len(old)
      BY <1>1, <1>8, <2>2
    <3> QED
      BY <1>8, <2>2, <3>1, <3>2
  <2> QED
    BY <1>9, <1>10, <2>1, <2>2
<1>11. ASSUME NEW i \in 1 .. Len(new), NEW j \in 1 .. Len(new), i < j,
             IsDevice(new[i]), IsDevice(new[j])
      PROVE  /\ g[i] < g[j]
             /\ \/ less
                \/ \E k \in i + 1 .. j - 1 : IsMark(new[k])
                \/ \A k \in g[i] + 1 .. g[j] - 1 :
                        IsDevice(old[k]) \/ IsMark(old[k]) =>
                           \E m \in i + 1 .. j - 1 : new[m] = old[k]
  <2>0. \/ i \in 1 .. a /\ j \in 1 .. a
        \/ i \in 1 .. a /\ j \in a + d + 1 .. a + d + c
        \/ i \in a + d + 1 .. a + d + c /\ j \in a + d + 1 .. a + d + c
    <3>1. i \in 1 .. a \/ i \in a + d + 1 .. a + d + c
      BY <1>9, <1>11
    <3>2. j \in 1 .. a \/ j \in a + d + 1 .. a + d + c
      BY <1>9, <1>11
    <3> QED
      BY <1>1, <1>11, <3>1, <3>2
  <2>1. CASE i \in 1 .. a /\ j \in 1 .. a
    <3>1. g[i] = i /\ g[j] = j
      BY <1>5, <2>1
    <3>2. ASSUME NEW k \in i + 1 .. j - 1 PROVE new[k] = old[k]
      <4>1. k \in 1 .. a
        BY <1>1, <2>1
      <4> QED
        BY <1>7, <4>1
    <3> QED
      BY <1>11, <3>1, <3>2
  <2>2. CASE i \in a + d + 1 .. a + d + c /\ j \in a + d + 1 .. a + d + c
    <3>1. g[i] = i + b - d /\ g[j] = j + b - d
      BY <1>5, <2>2
    <3>2. ASSUME NEW k \in g[i] + 1 .. g[j] - 1
          PROVE  \E m \in i + 1 .. j - 1 : new[m] = old[k]
      <4> DEFINE m == k - b + d
      <4>1. m \in i + 1 .. j - 1 /\ m \in a + d + 1 .. a + d + c /\ m + b - d = k
        BY <1>1, <2>2, <3>1
      <4>2. old[m + b - d] = new[m]
        BY <1>8, <4>1
      <4> QED
        BY <4>1, <4>2
    <3>3. g[i] < g[j]
      BY <1>1, <1>11, <2>2, <3>1
    <3> QED
      BY <3>2, <3>3
  <2>3. CASE i \in 1 .. a /\ j \in a + d + 1 .. a + d + c
    <3>1. g[i] = i /\ g[j] = j + b - d
      BY <1>5, <2>3
    <3>2. g[i] < g[j]
      BY <1>1, <2>3, <3>1
    <3>3. less \/ HasMark(M) \/ Silent(Y)
      BY <1>1, <1>4, <2>3
    <3>4. ASSUME HasMark(M) PROVE \E k \in i + 1 .. j - 1 : IsMark(new[k])
      <4>1. PICK n \in 1 .. d : IsMark(M[n])
        BY <1>4, <3>4
      <4>2. a + n \in i + 1 .. j - 1 /\ a + n \in a + 1 .. a + d /\ (a + n) - a = n
        BY <1>1, <2>3
      <4> QED
        BY <1>3, <4>1, <4>2
    <3>5. ASSUME Silent(Y), NEW k \in g[i] + 1 .. g[j] - 1, IsDevice(old[k]) \/ IsMark(old[k])
          PROVE  \E m \in i + 1 .. j - 1 : new[m] = old[k]
      <4>1. k \in i + 1 .. a \/ k \in a + 1 .. a + b \/ k \in a + b + 1 .. j + b - d - 1
        BY <1>1, <2>3, <3>1
      <4>2. CASE k \in i + 1 .. a
        <5>1. k \in 1 .. a /\ k \in i + 1 .. j - 1
          BY <1>1, <2>3, <4>2
        <5> QED
          BY <1>7, <5>1
      <4>3. CASE k \in a + 1 .. a + b
        <5>1. k - a \in 1 .. b /\ old[k] = Y[k - a]
          BY <1>1, <1>2, <4>3
        <5> QED
          BY <1>4, <3>5, <5>1
      <4>4. CASE k \in a + b + 1 .. j + b - d - 1
        <5> DEFINE m == k - b + d
        <5>1. m \in i + 1 .. j - 1 /\ m \in a + d + 1 .. a + d + c /\ m + b - d = k
          BY <1>1, <2>3, <4>4
        <5>2. old[m + b - d] = new[m]
          BY <1>8, <5>1
        <5> QED
          BY <5>1, <5>2
      <4> QED
        BY <4>1, <4>2, <4>3, <4>4
    <3> QED
      BY <3>2, <3>3, <3>4, <3>5
  <2> QED
    BY <2>0, <2>1, <2>2, <2>3
<1>12. Embeds(old, new, g, less)
  BY <1>10, <1>11 DEF Embeds
<1>13. Tells(new, less)
  BY <1>2, <1>3, <1>6, <1>12, TellsStill
<1> QED
  BY <1>13 DEF new

\* The number of the first entry a ring holds of n, the ring, and what a reader
\* who knows those up to last writes of it.
Start(n) == IF n <= Limit THEN 1 ELSE n - Limit + 1

Ring(hist, n) == [items |-> SubSeq(hist, Start(n), n), next |-> n + 1]

Pend(last, hist, n) ==
  IF last + 1 < Start(n) THEN <<Activity!Gap>> \o SubSeq(hist, Start(n), n)
                         ELSE SubSeq(hist, last + 1, n)

\* A stretch of a sequence.
LEMMA StretchIs ==
  ASSUME NEW S, NEW hist \in Seq(S), NEW a \in Nat \ {0}, NEW b \in Nat,
         a <= b + 1, b <= Len(hist)
  PROVE  /\ SubSeq(hist, a, b) \in Seq(S)
         /\ Len(SubSeq(hist, a, b)) = b + 1 - a
         /\ \A i \in 1 .. b + 1 - a : SubSeq(hist, a, b)[i] = hist[a + i - 1]
<1>1. \A i \in a .. b : hist[i] \in S
  <2>1. \A i \in a .. b : i \in 1 .. Len(hist)
    BY LenProperties
  <2> QED
    BY <2>1, ElementOfSeq
<1>2. a \in Int /\ b \in Int
  OBVIOUS
<1>3. /\ SubSeq(hist, a, b) \in Seq(S)
      /\ Len(SubSeq(hist, a, b)) = IF a <= b THEN b - a + 1 ELSE 0
      /\ \A i \in 1 .. b - a + 1 : SubSeq(hist, a, b)[i] = hist[a + i - 1]
  BY <1>1, <1>2, SubSeqProperties
<1>4. b - a + 1 = b + 1 - a
  OBVIOUS
<1> QED
  BY <1>3, <1>4

\* A stretch of a stretch is a stretch.
LEMMA StretchOfStretch ==
  ASSUME NEW S, NEW hist \in Seq(S), NEW a \in Nat \ {0}, NEW b \in Nat,
         a <= b + 1, b <= Len(hist), NEW i \in Nat \ {0}, NEW j \in Nat,
         i <= j + 1, j <= b + 1 - a
  PROVE  SubSeq(SubSeq(hist, a, b), i, j) = SubSeq(hist, a + i - 1, a + j - 1)
<1> DEFINE seq == SubSeq(hist, a, b)
<1> DEFINE x == a + i - 1
<1> DEFINE y == a + j - 1
<1>1. /\ seq \in Seq(S) /\ Len(seq) = b + 1 - a
      /\ \A k \in 1 .. b + 1 - a : seq[k] = hist[a + k - 1]
  BY StretchIs
<1>2. x \in Nat \ {0} /\ y \in Nat /\ x <= y + 1 /\ y <= Len(hist) /\ y + 1 - x = j + 1 - i
  BY LenProperties
<1>3. /\ SubSeq(seq, i, j) \in Seq(S) /\ Len(SubSeq(seq, i, j)) = j + 1 - i
      /\ \A k \in 1 .. j + 1 - i : SubSeq(seq, i, j)[k] = seq[i + k - 1]
  <2> HIDE DEF seq
  <2> QED
    BY <1>1, StretchIs
<1>4. /\ SubSeq(hist, x, y) \in Seq(S) /\ Len(SubSeq(hist, x, y)) = j + 1 - i
      /\ \A k \in 1 .. j + 1 - i : SubSeq(hist, x, y)[k] = hist[x + k - 1]
  <2> HIDE DEF x, y
  <2> QED
    BY <1>2, StretchIs
<1>5. ASSUME NEW k \in 1 .. j + 1 - i PROVE SubSeq(seq, i, j)[k] = SubSeq(hist, x, y)[k]
  <2>1. i + k - 1 \in 1 .. b + 1 - a /\ a + (i + k - 1) - 1 = x + k - 1
    OBVIOUS
  <2>2. seq[i + k - 1] = hist[a + (i + k - 1) - 1]
    BY <1>1, <2>1
  <2> HIDE DEF seq, x, y
  <2> QED
    BY <1>3, <1>4, <2>1, <2>2
<1> HIDE DEF seq, x, y
<1>6. SubSeq(seq, i, j) = SubSeq(hist, x, y)
  BY <1>3, <1>4, <1>5, SeqEqual
<1> QED
  BY <1>6 DEF seq, x, y

\* A stretch of two sequences in a row: within the first, or up to the end.
LEMMA StretchOfConcat ==
  ASSUME NEW S, NEW hist \in Seq(S), NEW more \in Seq(S), NEW a \in Nat \ {0}, NEW b \in Nat,
         a <= b + 1
  PROVE  /\ hist \o more \in Seq(S) /\ Len(hist \o more) = Len(hist) + Len(more)
         /\ b <= Len(hist) => SubSeq(hist \o more, a, b) = SubSeq(hist, a, b)
         /\ (a <= Len(hist) + 1 /\ b = Len(hist) + Len(more)) =>
               SubSeq(hist \o more, a, b) = SubSeq(hist, a, Len(hist)) \o more
<1> DEFINE all == hist \o more
<1> DEFINE n == Len(hist)
<1> DEFINE k == Len(more)
<1>1. n \in Nat /\ k \in Nat
  BY LenProperties
<1>2. /\ all \in Seq(S) /\ Len(all) = n + k
      /\ \A i \in 1 .. n + k : all[i] = IF i <= n THEN hist[i] ELSE more[i - n]
  BY ConcatProperties
<1> HIDE DEF all
<1>3. ASSUME b <= n PROVE SubSeq(all, a, b) = SubSeq(hist, a, b)
  <2>1. /\ SubSeq(all, a, b) \in Seq(S) /\ Len(SubSeq(all, a, b)) = b + 1 - a
        /\ \A i \in 1 .. b + 1 - a : SubSeq(all, a, b)[i] = all[a + i - 1]
    BY <1>1, <1>2, <1>3, StretchIs
  <2>2. /\ SubSeq(hist, a, b) \in Seq(S) /\ Len(SubSeq(hist, a, b)) = b + 1 - a
        /\ \A i \in 1 .. b + 1 - a : SubSeq(hist, a, b)[i] = hist[a + i - 1]
    BY <1>3, StretchIs
  <2>3. ASSUME NEW i \in 1 .. b + 1 - a PROVE SubSeq(all, a, b)[i] = SubSeq(hist, a, b)[i]
    <3>1. a + i - 1 \in 1 .. n + k /\ a + i - 1 <= n
      BY <1>1, <1>3
    <3>2. all[a + i - 1] = hist[a + i - 1]
      BY <1>2, <3>1
    <3> QED
      BY <2>1, <2>2, <3>2
  <2> QED
    BY <2>1, <2>2, <2>3, SeqEqual
<1>4. ASSUME a <= n + 1, b = n + k PROVE SubSeq(all, a, b) = SubSeq(hist, a, n) \o more
  <2> DEFINE piece == SubSeq(hist, a, n)
  <2>1. /\ SubSeq(all, a, b) \in Seq(S) /\ Len(SubSeq(all, a, b)) = b + 1 - a
        /\ \A i \in 1 .. b + 1 - a : SubSeq(all, a, b)[i] = all[a + i - 1]
    BY <1>1, <1>2, <1>4, StretchIs
  <2>2. /\ piece \in Seq(S) /\ Len(piece) = n + 1 - a
        /\ \A i \in 1 .. n + 1 - a : piece[i] = hist[a + i - 1]
    BY <1>1, <1>4, StretchIs
  <2> HIDE DEF piece
  <2>3. /\ piece \o more \in Seq(S) /\ Len(piece \o more) = n + 1 - a + k
        /\ \A i \in 1 .. n + 1 - a + k :
              (piece \o more)[i] = IF i <= n + 1 - a THEN piece[i] ELSE more[i - (n + 1 - a)]
    <3>1. /\ piece \o more \in Seq(S) /\ Len(piece \o more) = Len(piece) + Len(more)
          /\ \A i \in 1 .. Len(piece) + Len(more) :
                (piece \o more)[i] = IF i <= Len(piece) THEN piece[i] ELSE more[i - Len(piece)]
      BY <2>2, ConcatProperties
    <3> QED
      BY <2>2, <3>1
  <2>4. ASSUME NEW i \in 1 .. b + 1 - a PROVE SubSeq(all, a, b)[i] = (piece \o more)[i]
    <3>1. /\ a + i - 1 \in 1 .. n + k /\ i \in 1 .. n + 1 - a + k
          /\ (a + i - 1) - n = i - (n + 1 - a)
          /\ a + i - 1 <= n <=> i <= n + 1 - a
      BY <1>1, <1>4
    <3>2. all[a + i - 1] = IF a + i - 1 <= n THEN hist[a + i - 1] ELSE more[a + i - 1 - n]
      BY <1>2, <3>1
    <3>3. (piece \o more)[i] = IF i <= n + 1 - a THEN piece[i] ELSE more[i - (n + 1 - a)]
      BY <2>3, <3>1
    <3>4. i <= n + 1 - a => piece[i] = hist[a + i - 1]
      BY <1>1, <2>2
    <3> QED
      BY <2>1, <3>1, <3>2, <3>3, <3>4
  <2>5. Len(SubSeq(all, a, b)) = Len(piece \o more)
    BY <1>1, <1>4, <2>1, <2>3
  <2>6. SubSeq(all, a, b) = piece \o more
    BY <2>1, <2>3, <2>4, <2>5, SeqEqual
  <2> QED
    BY <2>6 DEF piece
<1> QED
  BY <1>2, <1>3, <1>4 DEF all

\* So within the first of the two.
LEMMA StretchOfFirst ==
  ASSUME NEW S, NEW hist \in Seq(S), NEW more \in Seq(S), NEW a \in Nat \ {0}, NEW b \in Nat,
         a <= b + 1, b <= Len(hist)
  PROVE  SubSeq(hist \o more, a, b) = SubSeq(hist, a, b)
BY StretchOfConcat

\* And from the first into the second, up to the end.
LEMMA StretchToEnd ==
  ASSUME NEW S, NEW hist \in Seq(S), NEW more \in Seq(S), NEW a \in Nat \ {0}, NEW b \in Nat,
         a <= Len(hist) + 1, b = Len(hist) + Len(more)
  PROVE  SubSeq(hist \o more, a, b) = SubSeq(hist, a, Len(hist)) \o more
<1>1. a <= b + 1
  BY LenProperties
<1> QED
  BY <1>1, StretchOfConcat, SMTT(30)

\* What a ring holds of all it was given.
LEMMA RingIs ==
  ASSUME NEW S, NEW hist \in Seq(S), NEW n \in 0 .. Len(hist), Limit \in Nat \ {0}
  PROVE  /\ Start(n) \in 1 .. n + 1 /\ n \in Nat
         /\ Ring(hist, n).items = SubSeq(hist, Start(n), n)
         /\ Ring(hist, n).next = n + 1
         /\ Ring(hist, n).items \in Seq(S)
         /\ Len(Ring(hist, n).items) = n + 1 - Start(n)
         /\ n + 1 - Start(n) <= Limit
         /\ Activity!First(Ring(hist, n)) = Start(n)
<1>1. n \in Nat /\ n <= Len(hist)
  BY LenProperties
<1>2. Start(n) \in 1 .. n + 1 /\ n + 1 - Start(n) <= Limit
  BY <1>1 DEF Start
<1>3. /\ Ring(hist, n).items = SubSeq(hist, Start(n), n)
      /\ Ring(hist, n).next = n + 1
  BY DEF Ring
<1>4. SubSeq(hist, Start(n), n) \in Seq(S) /\ Len(SubSeq(hist, Start(n), n)) = n + 1 - Start(n)
  BY <1>1, <1>2, StretchIs
<1>5. Activity!First(Ring(hist, n)) = Start(n)
  BY <1>1, <1>2, <1>3, <1>4 DEF Activity!First
<1> QED
  BY <1>1, <1>2, <1>3, <1>4, <1>5

\* What is recorded is the ring of all that was given (record_with_verbosity).
LEMMA RingRecords ==
  ASSUME NEW S, NEW hist \in Seq(S), NEW more \in Seq(S), Limit \in Nat \ {0}
  PROVE  Activity!Record(Ring(hist, Len(hist)), more)
           = Ring(hist \o more, Len(hist) + Len(more))
<1> DEFINE n == Len(hist)
<1> DEFINE k == Len(more)
<1> DEFINE all == hist \o more
<1> DEFINE s == Start(n)
<1> DEFINE held == SubSeq(all, s, n + k)
<1>1. n \in Nat /\ k \in Nat /\ n \in 0 .. Len(hist)
  BY LenProperties
<1>2. /\ s \in 1 .. n + 1
      /\ Ring(hist, n).items = SubSeq(hist, s, n)
      /\ Ring(hist, n).next = n + 1
  BY <1>1, RingIs
<1>3. s = (IF n <= Limit THEN 1 ELSE n - Limit + 1)
  BY DEF Start
<1> HIDE DEF s, n, k
<1>4. SubSeq(hist, s, n) \o more = held /\ all \in Seq(S) /\ Len(all) = n + k
  <2>1. s \in Nat \ {0} /\ n + k \in Nat /\ s <= n + k + 1 /\ s <= n + 1
    BY <1>1, <1>2
  <2> QED
    <3> DEFINE b == n + k
    <3>1. s \in Nat \ {0} /\ b \in Nat /\ s <= b + 1 /\ s <= Len(hist) + 1
          /\ b = Len(hist) + Len(more)
      BY <1>1, <2>1 DEF n, k
    <3> HIDE DEF b
    <3>2. hist \o more \in Seq(S) /\ Len(hist \o more) = Len(hist) + Len(more)
      BY ConcatProperties
    <3>3. SubSeq(hist \o more, s, b) = SubSeq(hist, s, Len(hist)) \o more
      BY <3>1, StretchToEnd
    <3> QED
      BY <3>2, <3>3 DEF b, n, k
<1> HIDE DEF all
<1>5. held \in Seq(S) /\ Len(held) = n + k + 1 - s
  BY <1>1, <1>2, <1>4, StretchIs
<1>6. Activity!LastOf(Limit, held) = SubSeq(all, Start(n + k), n + k)
  <2>1. CASE Len(held) <= Limit
    <3>1. Start(n + k) = s
      BY <1>1, <1>3, <1>5, <2>1 DEF Start
    <3>2. Activity!LastOf(Limit, held) = held
      BY <2>1 DEF Activity!LastOf
    <3> QED
      BY <3>1, <3>2
  <2>2. CASE ~(Len(held) <= Limit)
    <3> DEFINE len == n + k + 1 - s
    <3> DEFINE x == len - Limit + 1
    <3>1. x \in Nat \ {0} /\ len \in Nat /\ x <= len + 1
          /\ s + x - 1 = Start(n + k) /\ s + len - 1 = n + k
      BY <1>1, <1>2, <1>3, <1>5, <2>2 DEF Start
    <3>2. Activity!LastOf(Limit, held) = SubSeq(held, x, len)
      BY <1>5, <2>2 DEF Activity!LastOf
    <3>3. n + k \in Nat /\ s \in Nat \ {0} /\ s <= n + k + 1 /\ n + k <= Len(all)
          /\ len <= n + k + 1 - s
      BY <1>1, <1>2, <1>4
    <3> HIDE DEF x, len
    <3>4. SubSeq(held, x, len) = SubSeq(all, s + x - 1, s + len - 1)
      BY <1>4, <3>1, <3>3, StretchOfStretch
    <3> QED
      BY <3>1, <3>2, <3>4
  <2> QED
    BY <2>1, <2>2
<1>7. Activity!Record(Ring(hist, n), more)
        = [items |-> SubSeq(all, Start(n + k), n + k), next |-> n + 1 + k]
  BY <1>2, <1>4, <1>6 DEF Activity!Record, k
<1>8. n + 1 + k = n + k + 1
  BY <1>1
<1> QED
  BY <1>7, <1>8 DEF Ring, n, k, all

\* What is new in a ring to a reader.
LEMMA NewsIs ==
  ASSUME NEW S, NEW hist \in Seq(S), NEW n \in 0 .. Len(hist), NEW last \in 0 .. n,
         Limit \in Nat \ {0}
  PROVE  /\ Activity!Missed(last, Ring(hist, n)) <=> last + 1 < Start(n)
         /\ Activity!News(last, Ring(hist, n))
              = SubSeq(hist, IF last + 1 < Start(n) THEN Start(n) ELSE last + 1, n)
<1> DEFINE s == Start(n)
<1> DEFINE len == n + 1 - s
<1> DEFINE x == IF last < s THEN 1 ELSE last - s + 2
<1>1. /\ s \in 1 .. n + 1 /\ n \in Nat /\ n <= Len(hist)
      /\ Ring(hist, n).items = SubSeq(hist, s, n)
      /\ Len(Ring(hist, n).items) = len
      /\ Activity!First(Ring(hist, n)) = s
  BY RingIs, LenProperties
<1> HIDE DEF s
<1>2. Activity!Missed(last, Ring(hist, n)) <=> last + 1 < s
  BY <1>1 DEF Activity!Missed
<1>3. Activity!News(last, Ring(hist, n)) = SubSeq(SubSeq(hist, s, n), x, len)
  BY <1>1 DEF Activity!News
<1>4. x \in Nat \ {0} /\ len \in Nat /\ x <= len + 1 /\ s + len - 1 = n
      /\ s + x - 1 = IF last + 1 < s THEN s ELSE last + 1
  BY <1>1
<1>5. s \in Nat \ {0} /\ s <= n + 1 /\ len <= n + 1 - s
  BY <1>1
<1> HIDE DEF x, len
<1>6. SubSeq(SubSeq(hist, s, n), x, len) = SubSeq(hist, s + x - 1, s + len - 1)
  BY <1>1, <1>4, <1>5, StretchOfStretch
<1> QED
  BY <1>2, <1>3, <1>4, <1>6 DEF s

\* A reader's mark and its news are what it has still to write.
LEMMA PendIs ==
  ASSUME NEW hist \in Seq(Item), NEW n \in 0 .. Len(hist), NEW last \in 0 .. n,
         Limit \in Nat \ {0}
  PROVE  /\ (IF Activity!Missed(last, Ring(hist, n)) THEN <<Activity!Gap>> ELSE <<>>)
               \o Activity!News(last, Ring(hist, n)) = Pend(last, hist, n)
         /\ Pend(last, hist, n) \in Seq(Item)
<1>1. /\ Activity!Missed(last, Ring(hist, n)) <=> last + 1 < Start(n)
      /\ Activity!News(last, Ring(hist, n))
           = SubSeq(hist, IF last + 1 < Start(n) THEN Start(n) ELSE last + 1, n)
  BY NewsIs
<1>2. Start(n) \in 1 .. n + 1 /\ n \in Nat /\ n <= Len(hist)
  BY RingIs, LenProperties
<1>3. SubSeq(hist, Start(n), n) \in Seq(Item) /\ SubSeq(hist, last + 1, n) \in Seq(Item)
  BY <1>2, StretchIs
<1>4. <<Activity!Gap>> \in Seq(Item)
  BY ItemsAreItems
<1>5. CASE last + 1 < Start(n)
  BY <1>1, <1>3, <1>4, <1>5, ConcatProperties DEF Pend
<1>6. CASE ~(last + 1 < Start(n))
  BY <1>1, <1>3, <1>6, ConcatEmptySeq DEF Pend
<1> QED
  BY <1>5, <1>6

\* What was left out of new has become a gap.
Elides(old, new) ==
  \/ new = old
  \/ \E cut, kept \in Seq(Item) : old = cut \o kept /\ new = <<Activity!Gap>> \o kept

\* A log keeps what it tells when a part becomes a gap.
LEMMA TellsElided ==
  ASSUME NEW X \in Seq(Item), NEW old \in Seq(Item), NEW new \in Seq(Item),
         NEW V \in Seq(Item), NEW lossy \in BOOLEAN,
         Elides(old, new), Tells(X \o old \o V, lossy)
  PROVE  Tells(X \o new \o V, lossy)
<1>1. CASE new = old
  BY <1>1
<1>2. ASSUME NEW Y \in Seq(Item), NEW Z \in Seq(Item),
             old = Y \o Z, new = <<Activity!Gap>> \o Z
      PROVE  Tells(X \o new \o V, lossy)
  <2> DEFINE M == <<Activity!Gap>>
  <2> DEFINE T == Z \o V
  <2>1. T \in Seq(Item) /\ M \in Seq(Item) /\ X \o Y \in Seq(Item) /\ X \o M \in Seq(Item)
    BY ItemsAreItems
  <2>2. X \o old \o V = X \o Y \o T
    <3>1. RegroupAt(X, Y, Z, V)
      BY Regroup
    <3> QED
      BY <1>2, <3>1 DEF RegroupAt
  <2>3. X \o new \o V = X \o M \o T
    <3>1. new = M \o Z
      BY <1>2
    <3> HIDE DEF M
    <3>2. RegroupAt(X, M, Z, V)
      BY <2>1, Regroup
    <3> QED
      BY <3>1, <3>2 DEF RegroupAt
  <2>4. Plain(M) /\ HasMark(M)
    <3>1. Len(M) = 1 /\ M[1] = Activity!Gap
      OBVIOUS
    <3> HIDE DEF M
    <3> QED
      BY <3>1, ItemsAreItems DEF Plain, HasMark
  <2>5. Tells(X \o Y \o T, lossy)
    BY <2>2
  <2> HIDE DEF M, T
  <2>6. Tells(X \o M \o T, lossy)
    BY <2>1, <2>4, <2>5, TellsSpliced
  <2> QED
    BY <2>3, <2>6
<1> QED
  BY <1>1, <1>2 DEF Elides

\* Who reads twice writes what one reading would have, or less is elided.
LEMMA PendJoins ==
  ASSUME NEW hist \in Seq(Item), NEW n \in 0 .. Len(hist), NEW m \in 0 .. n,
         NEW last \in 0 .. m, Limit \in Nat \ {0}
  PROVE  Elides(Pend(last, hist, m) \o Pend(m, hist, n), Pend(last, hist, n))
<1> DEFINE gap == <<Activity!Gap>>
<1>1. /\ n \in Nat /\ m \in Nat /\ last \in Nat /\ last <= m /\ m <= n /\ n <= Len(hist)
      /\ m \in 0 .. Len(hist) /\ last \in 0 .. n /\ gap \in Seq(Item)
  BY LenProperties, ItemsAreItems
<1>2. Start(n) \in 1 .. n + 1 /\ Start(m) \in 1 .. m + 1 /\ Start(m) <= Start(n)
  BY <1>1 DEF Start
<1> HIDE DEF gap
<1>3. /\ \A a, b \in Nat : (a > 0 /\ a <= b + 1 /\ b <= n) => SubSeq(hist, a, b) \in Seq(Item)
      /\ \A a, b, c \in Nat : (a > 0 /\ a <= b + 1 /\ b <= c /\ c <= n) =>
            SubSeq(hist, a, b) \o SubSeq(hist, b + 1, c) = SubSeq(hist, a, c)
  <2>1. ASSUME NEW a \in Nat, NEW b \in Nat, a > 0, a <= b + 1, b <= n
        PROVE  SubSeq(hist, a, b) \in Seq(Item)
    BY <1>1, <2>1, StretchIs
  <2>2. ASSUME NEW a \in Nat, NEW b \in Nat, NEW c \in Nat, a > 0, a <= b + 1, b <= c, c <= n
        PROVE  SubSeq(hist, a, b) \o SubSeq(hist, b + 1, c) = SubSeq(hist, a, c)
    <3>1. a \in 1 .. Len(hist) + 1 /\ b \in a - 1 .. Len(hist) /\ c \in b .. Len(hist)
      BY <1>1, <2>2
    <3> QED
      BY <3>1, ConcatAdjacentSubSeq
  <2> QED
    BY <2>1, <2>2
<1>4. CASE last + 1 < Start(n)
  <2>1. Pend(last, hist, n) = gap \o SubSeq(hist, Start(n), n)
    BY <1>4 DEF Pend, gap
  <2>2. CASE m + 1 < Start(n)
    <3> DEFINE cut == Pend(last, hist, m) \o gap
    <3> DEFINE kept == SubSeq(hist, Start(n), n)
    <3>1. Pend(m, hist, n) = gap \o kept
      BY <2>2 DEF Pend, gap
    <3>2. Pend(last, hist, m) \in Seq(Item) /\ kept \in Seq(Item)
      BY <1>1, <1>2, <1>3, PendIs
    <3>3. cut \in Seq(Item)
      BY <1>1, <3>2
    <3> HIDE DEF kept
    <3>4. AssocAt(Pend(last, hist, m), gap, kept)
      BY <1>1, <3>2, Assoc
    <3>5. Pend(last, hist, n) = <<Activity!Gap>> \o kept
      BY <2>1 DEF kept, gap
    <3> QED
      BY <3>1, <3>2, <3>3, <3>4, <3>5 DEF Elides, AssocAt
  <2>3. CASE ~(m + 1 < Start(n))
    <3> DEFINE s == Start(n)
    <3> DEFINE kept == SubSeq(hist, s, n)
    <3> DEFINE tail == SubSeq(hist, m + 1, n)
    <3> DEFINE x == IF last + 1 < Start(m) THEN Start(m) ELSE last + 1
    <3> DEFINE lost == SubSeq(hist, x, s - 1)
    <3> DEFINE held == SubSeq(hist, s, m)
    <3> DEFINE pre == IF last + 1 < Start(m) THEN gap ELSE <<>>
    <3>1. Pend(m, hist, n) = tail
      BY <2>3 DEF Pend
    <3>2. /\ x \in Nat /\ x > 0 /\ x <= (s - 1) + 1 /\ s - 1 \in Nat /\ s - 1 <= m
          /\ s \in Nat /\ s > 0 /\ s <= m + 1 /\ (s - 1) + 1 = s /\ s - 1 <= n /\ x <= m + 1
          /\ s <= n + 1 /\ m + 1 \in Nat
      BY <1>1, <1>2, <1>4, <2>3
    <3>3. pre \in Seq(Item)
      BY <1>1
    <3>4. Pend(last, hist, m) = pre \o SubSeq(hist, x, m)
      <4>1. CASE last + 1 < Start(m)
        BY <4>1 DEF Pend, gap
      <4>2. CASE ~(last + 1 < Start(m))
        <5>1. SubSeq(hist, x, m) \in Seq(Item)
          BY <1>1, <1>3, <3>2
        <5>2. <<>> \o SubSeq(hist, x, m) = SubSeq(hist, x, m)
          BY <5>1, ConcatEmptySeq
        <5> QED
          BY <4>2, <5>2 DEF Pend
      <4> QED
        BY <4>1, <4>2
    <3>5. Pend(last, hist, n) = <<Activity!Gap>> \o kept
      BY <2>1 DEF gap
    <3> HIDE DEF x, pre, s
    <3>6. SubSeq(hist, x, m) = lost \o held /\ lost \in Seq(Item) /\ held \in Seq(Item)
      <4>1. SubSeq(hist, x, s - 1) \o SubSeq(hist, (s - 1) + 1, m) = SubSeq(hist, x, m)
        BY <1>1, <1>3, <3>2
      <4>2. (s - 1) + 1 = s
        BY <3>2
      <4>3. SubSeq(hist, x, s - 1) \in Seq(Item) /\ SubSeq(hist, s, m) \in Seq(Item)
        BY <1>1, <1>3, <3>2
      <4> QED
        BY <4>1, <4>2, <4>3
    <3>7. held \o tail = kept /\ tail \in Seq(Item) /\ kept \in Seq(Item)
      BY <1>1, <1>3, <3>2
    <3> HIDE DEF lost, held, tail, kept
    <3>8. (pre \o (lost \o held)) \o tail = (pre \o lost) \o (held \o tail)
      <4>1. lost \in Seq(Item) /\ held \in Seq(Item) /\ tail \in Seq(Item)
        BY <3>6, <3>7
      <4>2. RegroupAt(pre, lost, held, tail)
        BY <3>3, <4>1, Regroup
      <4> QED
        BY <4>2 DEF RegroupAt
    <3>9. pre \o lost \in Seq(Item)
      BY <3>3, <3>6, ConcatProperties
    <3> QED
      BY <3>1, <3>4, <3>5, <3>6, <3>7, <3>8, <3>9 DEF Elides
  <2> QED
    BY <2>2, <2>3
<1>5. CASE ~(last + 1 < Start(n))
  <2>1. /\ Pend(last, hist, n) = SubSeq(hist, last + 1, n)
        /\ Pend(m, hist, n) = SubSeq(hist, m + 1, n)
        /\ Pend(last, hist, m) = SubSeq(hist, last + 1, m)
    BY <1>1, <1>2, <1>5 DEF Pend
  <2>2. last + 1 \in Nat /\ last + 1 > 0 /\ last + 1 <= m + 1
    BY <1>1
  <2>3. SubSeq(hist, last + 1, m) \o SubSeq(hist, m + 1, n) = SubSeq(hist, last + 1, n)
    BY <1>1, <1>3, <2>2
  <2> QED
    BY <2>1, <2>3 DEF Elides
<1> QED
  BY <1>4, <1>5

\* What comes later changes nothing in what was seen.
LEMMA PendKept ==
  ASSUME NEW hist \in Seq(Item), NEW more \in Seq(Item), NEW n \in 0 .. Len(hist),
         NEW last \in 0 .. n, Limit \in Nat \ {0}
  PROVE  /\ Ring(hist \o more, n) = Ring(hist, n)
         /\ Pend(last, hist \o more, n) = Pend(last, hist, n)
<1>1. Start(n) \in Nat \ {0} /\ Start(n) <= n + 1 /\ n \in Nat /\ n <= Len(hist)
      /\ last + 1 \in Nat \ {0} /\ last + 1 <= n + 1
  BY LenProperties, RingIs
<1>2. SubSeq(hist \o more, Start(n), n) = SubSeq(hist, Start(n), n)
  BY <1>1, StretchOfFirst
<1>3. SubSeq(hist \o more, last + 1, n) = SubSeq(hist, last + 1, n)
  BY <1>1, StretchOfFirst
<1> QED
  BY <1>2, <1>3 DEF Ring, Pend

\* What comes later is added to what a reader has to write, or turns a part of it
\* into a gap.
LEMMA PendGrows ==
  ASSUME NEW hist \in Seq(Item), NEW more \in Seq(Item), NEW last \in 0 .. Len(hist),
         Limit \in Nat \ {0}
  PROVE  Elides(Pend(last, hist, Len(hist)) \o more,
                Pend(last, hist \o more, Len(hist) + Len(more)))
<1> DEFINE n == Len(hist)
<1> DEFINE k == Len(more)
<1> DEFINE all == hist \o more
<1> DEFINE old == Pend(last, hist, n) \o more
<1> DEFINE new == Pend(n, all, n + k)
<1>1. n \in Nat /\ k \in Nat /\ n \in 0 .. Len(hist) /\ last \in 0 .. n /\ n + k \in Nat
  BY LenProperties
<1>2. /\ all \in Seq(Item) /\ Len(all) = n + k
      /\ SubSeq(all, n + 1, n + k) = SubSeq(hist, n + 1, n) \o more
  BY <1>1, StretchOfConcat
<1>3. SubSeq(hist, n + 1, n) = <<>>
  BY <1>1, SubSeqEmpty
<1>4. SubSeq(all, n + 1, n + k) = more
  BY <1>2, <1>3, ConcatEmptySeq
<1>5. Pend(last, all, n) = Pend(last, hist, n) /\ Pend(last, hist, n) \in Seq(Item)
  BY <1>1, PendKept, PendIs
<1> HIDE DEF n, k, all
<1>6. Elides(Pend(last, all, n) \o Pend(n, all, n + k), Pend(last, all, n + k))
  <2> DEFINE b == n + k
  <2>1. b \in 0 .. Len(all) /\ n \in 0 .. b
    BY <1>1, <1>2
  <2> HIDE DEF b
  <2>2. Elides(Pend(last, all, n) \o Pend(n, all, b), Pend(last, all, b))
    BY <1>1, <1>2, <2>1, PendJoins
  <2> QED
    BY <2>2 DEF b
<1>7. CASE ~(n + 1 < Start(n + k))
  <2>1. Pend(n, all, n + k) = more
    BY <1>4, <1>7 DEF Pend
  <2> QED
    BY <1>5, <1>6, <2>1 DEF n, k, all
<1>8. CASE n + 1 < Start(n + k)
  <2> DEFINE s == Start(n + k)
  <2> DEFINE kept == SubSeq(all, s, n + k)
  <2> DEFINE lost == SubSeq(all, n + 1, s - 1)
  <2>2. s \in Nat /\ s <= n + k + 1 /\ n + 1 < s /\ s - 1 \in Nat /\ (s - 1) + 1 = s
        /\ last + 1 < s
    BY <1>1, <1>8 DEF Start
  <2>1. Pend(last, all, n + k) = <<Activity!Gap>> \o kept
    BY <2>2 DEF Pend
  <2> HIDE DEF s
  <2>3. lost \o SubSeq(all, (s - 1) + 1, n + k) = SubSeq(all, n + 1, n + k)
    <3> DEFINE a == n + 1
    <3> DEFINE b == s - 1
    <3> DEFINE c == n + k
    <3>1. a \in 1 .. Len(all) + 1 /\ b \in a - 1 .. Len(all) /\ c \in b .. Len(all)
      BY <1>1, <1>2, <2>2
    <3> HIDE DEF a, b, c
    <3>2. SubSeq(all, a, b) \o SubSeq(all, b + 1, c) = SubSeq(all, a, c)
      BY <1>2, <3>1, ConcatAdjacentSubSeq
    <3> QED
      BY <3>2 DEF a, b, c
  <2>4. lost \in Seq(Item) /\ kept \in Seq(Item)
    <3>1. /\ n + 1 \in Nat \ {0} /\ n + 1 <= (s - 1) + 1 /\ s - 1 <= Len(all)
          /\ s \in Nat \ {0} /\ s <= (n + k) + 1 /\ n + k <= Len(all) /\ n + k \in Nat
      BY <1>1, <1>2, <2>2
    <3> QED
      BY <1>2, <2>2, <3>1, StretchIs
  <2>5. more = lost \o kept
    BY <1>4, <2>2, <2>3
  <2> DEFINE pen == Pend(last, hist, n)
  <2>8. pen \in Seq(Item)
    BY <1>5
  <2> HIDE DEF lost, kept, pen
  <2>6. AssocAt(pen, lost, kept)
    BY <2>4, <2>8, Assoc
  <2>7. pen \o lost \in Seq(Item)
    BY <2>4, <2>8, ConcatProperties
  <2> QED
    BY <2>1, <2>4, <2>5, <2>6, <2>7 DEF Elides, AssocAt, n, k, all, pen
<1> QED
  BY <1>7, <1>8

\* The worker's entries from first on, with all before them or a mark.
LEMMA RunTells ==
  ASSUME NEW W \in Seq(Item), NEW M \in Seq(Item), NEW R \in Seq(Item),
         NEW lossy \in BOOLEAN, NEW last \in Nat, NEW first \in Nat,
         last + 1 <= first, Plain(M), first = last + 1 \/ HasMark(M),
         \A i \in 1 .. Len(R) : R[i] = Activity!Device(first + i - 1),
         Tells(W \o <<Activity!Device(last + 1)>>, lossy)
  PROVE  Tells(W \o M \o R, lossy)
<1> DEFINE old == W \o <<Activity!Device(last + 1)>>
<1> DEFINE new == W \o M \o R
<1> DEFINE w == Len(W)
<1> DEFINE d == Len(M)
<1> DEFINE r == Len(R)
<1>1. w \in Nat /\ d \in Nat /\ r \in Nat
  BY LenProperties
<1>2. <<Activity!Device(last + 1)>> \in Seq(Item)
  BY ItemsAreItems
<1>3. /\ old \in Seq(Item) /\ Len(old) = w + 1 /\ old[w + 1] = Activity!Device(last + 1)
      /\ \A i \in 1 .. w : old[i] = W[i]
  BY <1>2
<1>4. /\ new \in Seq(Item) /\ Len(new) = w + d + r
      /\ \A i \in 1 .. w : new[i] = W[i]
      /\ \A i \in w + 1 .. w + d : new[i] = M[i - w]
      /\ \A i \in w + d + 1 .. w + d + r : new[i] = R[i - w - d]
  OBVIOUS
<1>5. /\ \A i \in 1 .. d : ~IsDevice(M[i])
      /\ HasMark(M) => \E i \in 1 .. d : IsMark(M[i])
  BY DEF Plain, HasMark
<1>6. Tells(old, lossy)
  OBVIOUS
<1>7. \A i \in 1 .. r : R[i] = Activity!Device(first + i - 1)
  OBVIOUS
<1> HIDE DEF old, new, w, d, r
<1>8. ASSUME NEW i \in 1 .. Len(new), IsDevice(new[i])
      PROVE  i \in 1 .. w \/ i \in w + d + 1 .. w + d + r
  <2>1. i \in 1 .. w \/ i \in w + 1 .. w + d \/ i \in w + d + 1 .. w + d + r
    BY <1>1, <1>4
  <2>2. ASSUME i \in w + 1 .. w + d PROVE FALSE
    <3>1. i - w \in 1 .. d /\ new[i] = M[i - w]
      BY <1>1, <1>4, <2>2
    <3> QED
      BY <1>5, <1>8, <3>1
  <2> QED
    BY <2>1, <2>2
<1>9. ASSUME NEW i \in w + d + 1 .. w + d + r
      PROVE  /\ new[i] = Activity!Device(first + (i - w - d) - 1)
             /\ new[i].id = first + (i - w - d) - 1
  <2>1. i - w - d \in 1 .. r /\ first + (i - w - d) - 1 \in Nat
    BY <1>1
  <2>2. new[i] = R[i - w - d]
    BY <1>4
  <2>3. new[i] = Activity!Device(first + (i - w - d) - 1)
    BY <1>7, <2>1, <2>2
  <2> QED
    BY <2>1, <2>3, ItemsAreItems
<1>10. ASSUME NEW i \in 1 .. Len(new), NEW j \in 1 .. Len(new), i < j,
              IsDevice(new[i]), IsDevice(new[j])
       PROVE  /\ new[i].id < new[j].id
              /\ \/ lossy
                 \/ \E k \in i + 1 .. j - 1 : IsMark(new[k])
                 \/ \A n \in new[i].id + 1 .. new[j].id - 1 :
                      \E k \in i + 1 .. j - 1 : new[k] = Activity!Device(n)
  <2>0. \/ i \in 1 .. w /\ j \in 1 .. w
        \/ i \in 1 .. w /\ j \in w + d + 1 .. w + d + r
        \/ i \in w + d + 1 .. w + d + r /\ j \in w + d + 1 .. w + d + r
    <3>1. i \in 1 .. w \/ i \in w + d + 1 .. w + d + r
      BY <1>8, <1>10
    <3>2. j \in 1 .. w \/ j \in w + d + 1 .. w + d + r
      BY <1>8, <1>10
    <3> QED
      BY <1>1, <1>10, <3>1, <3>2
  <2>1. CASE i \in 1 .. w /\ j \in 1 .. w
    <3>1. ASSUME NEW k \in i .. j PROVE k \in 1 .. Len(old) /\ old[k] = new[k]
      <4>1. k \in 1 .. w /\ k \in 1 .. Len(old)
        BY <1>1, <1>3, <2>1
      <4> QED
        BY <1>3, <1>4, <4>1
    <3>2. i \in 1 .. Len(old) /\ j \in 1 .. Len(old) /\ old[i] = new[i] /\ old[j] = new[j]
      BY <1>1, <1>3, <1>4, <2>1
    <3>3. /\ old[i].id < old[j].id
          /\ \/ lossy
             \/ \E k \in i + 1 .. j - 1 : IsMark(old[k])
             \/ \A n \in old[i].id + 1 .. old[j].id - 1 :
                   \E k \in i + 1 .. j - 1 : old[k] = Activity!Device(n)
      BY <1>6, <1>10, <3>2 DEF Tells
    <3>4. \A k \in i + 1 .. j - 1 : k \in i .. j
      BY <1>1, <2>1
    <3> QED
      BY <3>1, <3>2, <3>3, <3>4
  <2>2. CASE i \in w + d + 1 .. w + d + r /\ j \in w + d + 1 .. w + d + r
    <3>1. /\ new[i].id = first + (i - w - d) - 1
          /\ new[j].id = first + (j - w - d) - 1
      BY <1>9, <2>2
    <3>2. ASSUME NEW n \in new[i].id + 1 .. new[j].id - 1
          PROVE  \E k \in i + 1 .. j - 1 : new[k] = Activity!Device(n)
      <4> DEFINE k == n - first + 1 + w + d
      <4>1. k \in i + 1 .. j - 1 /\ k \in w + d + 1 .. w + d + r
            /\ first + (k - w - d) - 1 = n
        BY <1>1, <2>2, <3>1
      <4> HIDE DEF k
      <4>2. new[k] = Activity!Device(first + (k - w - d) - 1)
        BY <1>9, <4>1
      <4> QED
        BY <4>1, <4>2
    <3>3. new[i].id < new[j].id
      <4>1. first + (i - w - d) - 1 < first + (j - w - d) - 1
        BY <1>1, <1>10, <2>2
      <4> QED
        BY <3>1, <4>1
    <3> QED
      BY <3>2, <3>3
  <2>3. CASE i \in 1 .. w /\ j \in w + d + 1 .. w + d + r
    <3>1. /\ i \in 1 .. Len(old) /\ w + 1 \in 1 .. Len(old) /\ i < w + 1
          /\ old[i] = new[i]
          /\ \A k \in i + 1 .. (w + 1) - 1 : old[k] = new[k] /\ k \in i + 1 .. j - 1
      <4>1. i \in 1 .. Len(old) /\ w + 1 \in 1 .. Len(old) /\ i < w + 1
        BY <1>1, <1>3, <2>3
      <4>2. old[i] = new[i]
        BY <1>3, <1>4, <2>3
      <4>3. ASSUME NEW k \in i + 1 .. (w + 1) - 1
            PROVE  old[k] = new[k] /\ k \in i + 1 .. j - 1
        <5>1. k \in 1 .. w /\ k \in i + 1 .. j - 1
          BY <1>1, <2>3
        <5> QED
          BY <1>3, <1>4, <5>1
      <4> QED
        BY <4>1, <4>2, <4>3
    <3>2. IsDevice(old[i]) /\ IsDevice(old[w + 1]) /\ old[w + 1].id = last + 1
      BY <1>3, <1>10, <3>1, ItemsAreItems
    <3> DEFINE v == w + 1
    <3>3. v \in 1 .. Len(old) /\ i < v /\ IsDevice(old[v]) /\ old[v].id = last + 1
      BY <3>1, <3>2
    <3> HIDE DEF v
    <3>4. /\ old[i].id < old[v].id
          /\ \/ lossy
             \/ \E k \in i + 1 .. v - 1 : IsMark(old[k])
             \/ \A n \in old[i].id + 1 .. old[v].id - 1 :
                   \E k \in i + 1 .. v - 1 : old[k] = Activity!Device(n)
      BY <1>6, <3>1, <3>2, <3>3 DEF Tells
    <3>5. new[j].id = first + (j - w - d) - 1 /\ j - w - d \in 1 .. r
      <4>1. new[j].id = first + (j - w - d) - 1
        BY <1>9, <2>3
      <4>2. j - w - d \in 1 .. r
        BY <1>1, <2>3
      <4> QED
        BY <4>1, <4>2
    <3>6. old[i].id \in Nat
      <4>1. old[i] \in Item
        BY <1>3, <3>1, ElementOfSeq
      <4> QED
        BY <4>1 DEF Item
    <3>7. new[i].id < new[j].id
      <4> DEFINE x == old[i].id
      <4> DEFINE y == new[j].id
      <4>1. x < last + 1 /\ y = first + (j - w - d) - 1 /\ x \in Nat
        BY <3>3, <3>4, <3>5, <3>6
      <4>2. j - w - d >= 1 /\ j - w - d \in Int
        BY <1>1, <3>5
      <4> HIDE DEF x, y
      <4>3. x < y
        BY <4>1, <4>2
      <4> QED
        BY <3>1, <4>3 DEF x, y
    <3>8. ASSUME \E k \in i + 1 .. v - 1 : IsMark(old[k])
          PROVE  \E k \in i + 1 .. j - 1 : IsMark(new[k])
      BY <3>1, <3>8 DEF v
    <3>9. ASSUME HasMark(M) PROVE \E k \in i + 1 .. j - 1 : IsMark(new[k])
      <4>1. PICK n \in 1 .. d : IsMark(M[n])
        BY <1>5, <3>9
      <4>2. w + n \in i + 1 .. j - 1 /\ w + n \in w + 1 .. w + d /\ (w + n) - w = n
        BY <1>1, <2>3
      <4> QED
        BY <1>4, <4>1, <4>2
    <3>10. ASSUME first = last + 1,
                  \A n \in old[i].id + 1 .. old[v].id - 1 :
                     \E k \in i + 1 .. v - 1 : old[k] = Activity!Device(n),
                  NEW n \in new[i].id + 1 .. new[j].id - 1
           PROVE  \E k \in i + 1 .. j - 1 : new[k] = Activity!Device(n)
      <4>1. CASE n <= last
        <5>1. n \in old[i].id + 1 .. old[v].id - 1
          BY <3>1, <3>3, <3>6, <4>1
        <5>2. PICK k \in i + 1 .. v - 1 : old[k] = Activity!Device(n)
          BY <3>10, <5>1
        <5> QED
          BY <3>1, <5>2 DEF v
      <4>2. CASE n > last
        <5> DEFINE k == n - first + 1 + w + d
        <5>1. n \in Int /\ n <= new[j].id - 1
          BY <3>1, <3>5, <3>6
        <5>2. k \in i + 1 .. j - 1 /\ k \in w + d + 1 .. w + d + r
              /\ first + (k - w - d) - 1 = n
          BY <1>1, <2>3, <3>5, <3>10, <4>2, <5>1
        <5> HIDE DEF k
        <5>3. new[k] = Activity!Device(first + (k - w - d) - 1)
          BY <1>9, <5>2
        <5> QED
          BY <5>2, <5>3
      <4> QED
        BY <3>1, <3>6, <3>5, <4>1, <4>2
    <3> QED
      BY <3>4, <3>7, <3>8, <3>9, <3>10
  <2> QED
    BY <2>0, <2>1, <2>2, <2>3
<1>11. Tells(new, lossy)
  BY <1>10 DEF Tells
<1> QED
  BY <1>11 DEF new

\* What the log will tell when all is written that is in the rings and comes next:
\* seq is what is written, then what the interface has, what the runtime has more,
\* and the worker's next entry.
Told(seq, last, hist, m, taken, lossy) ==
  Tells(seq \o Pend(last, hist, m) \o Pend(m, hist, Len(hist))
            \o <<Activity!Device(taken + 1)>>, lossy)

\* Something that is not an entry of the worker is put in.
LEMMA TellsMore ==
  ASSUME NEW X \in Seq(Item), NEW M \in Seq(Item), NEW Z \in Seq(Item),
         NEW lossy \in BOOLEAN, Plain(M), Tells(X \o Z, lossy)
  PROVE  Tells(X \o M \o Z, lossy)
<1> DEFINE e == <<>>
<1>1. e \in Seq(Item) /\ Silent(e)
  BY DEF Silent
<1>2. X \o e = X
  BY ConcatEmptySeq
<1> HIDE DEF e
<1>3. Tells(X \o e \o Z, lossy)
  BY <1>2
<1> QED
  BY <1>1, <1>3, TellsSpliced

\* Something is left out, at an end or unmarked.
LEMMA TellsLess ==
  ASSUME NEW X \in Seq(Item), NEW Y \in Seq(Item), NEW Z \in Seq(Item),
         NEW lossy \in BOOLEAN, NEW less \in BOOLEAN, lossy => less,
         less \/ X = <<>> \/ Z = <<>>, Tells(X \o Y \o Z, lossy)
  PROVE  Tells(X \o Z, less)
<1> DEFINE e == <<>>
<1>1. e \in Seq(Item) /\ Plain(e)
  BY DEF Plain
<1>2. X \o e = X
  BY ConcatEmptySeq
<1> HIDE DEF e
<1>3. Tells(X \o e \o Z, less)
  BY <1>1, TellsSpliced
<1> QED
  BY <1>2, <1>3

\* The first part of a log tells no more than the whole.
LEMMA TellsFirst ==
  ASSUME NEW X \in Seq(Item), NEW L \in Seq(Item), NEW lossy \in BOOLEAN,
         Tells(X \o L, lossy)
  PROVE  Tells(X, lossy)
<1> DEFINE all == X \o L
<1>1. /\ Len(X) \in Nat /\ Len(X) <= Len(all) /\ Len(all) \in Nat
      /\ \A i \in 1 .. Len(X) : all[i] = X[i]
  OBVIOUS
<1>2. Tells(all, lossy)
  OBVIOUS
<1> HIDE DEF all
<1> SUFFICES ASSUME NEW i \in 1 .. Len(X), NEW j \in 1 .. Len(X),
                    i < j, IsDevice(X[i]), IsDevice(X[j])
             PROVE  /\ X[i].id < X[j].id
                    /\ \/ lossy
                       \/ \E k \in i + 1 .. j - 1 : IsMark(X[k])
                       \/ \A n \in X[i].id + 1 .. X[j].id - 1 :
                             \E k \in i + 1 .. j - 1 : X[k] = Activity!Device(n)
  BY DEF Tells
<1>3. all[i] = X[i] /\ all[j] = X[j] /\ i \in 1 .. Len(all) /\ j \in 1 .. Len(all)
  BY <1>1
<1>4. /\ all[i].id < all[j].id
      /\ \/ lossy
         \/ \E k \in i + 1 .. j - 1 : IsMark(all[k])
         \/ \A n \in all[i].id + 1 .. all[j].id - 1 :
               \E k \in i + 1 .. j - 1 : all[k] = Activity!Device(n)
  BY <1>2, <1>3 DEF Tells
<1>5. \A k \in i + 1 .. j - 1 : all[k] = X[k]
  BY <1>1
<1> QED
  BY <1>3, <1>4, <1>5

\* The worker's next entry is an entry.
LEMMA NextIsItem ==
  ASSUME NEW taken \in Nat
  PROVE  <<Activity!Device(taken + 1)>> \in Seq(Item)
BY ItemsAreItems

\* A reader who has seen all has nothing to write.
LEMMA PendOfNone ==
  ASSUME NEW hist \in Seq(Item), NEW m \in 0 .. Len(hist), Limit \in Nat \ {0}
  PROVE  Pend(m, hist, m) = <<>>
<1>1. m \in Nat /\ Start(m) \in 1 .. m + 1
  BY RingIs, LenProperties
<1>2. ~(m + 1 < Start(m))
  BY <1>1
<1>3. SubSeq(hist, m + 1, m) = <<>>
  BY <1>1, SubSeqEmpty
<1> QED
  BY <1>2, <1>3 DEF Pend

\* The runtime takes something else than the worker's entries.
LEMMA ToldRecords ==
  ASSUME NEW X \in Seq(Item), NEW hist \in Seq(Item), NEW m \in 0 .. Len(hist),
         NEW last \in 0 .. m, NEW taken \in Nat, NEW lossy \in BOOLEAN,
         Limit \in Nat \ {0}, Told(X, last, hist, m, taken, lossy)
  PROVE  Told(X, last, hist \o <<Activity!Own>>, m, taken, lossy)
<1> DEFINE M == <<Activity!Own>>
<1> DEFINE N == Len(hist)
<1> DEFINE P == Pend(last, hist, m)
<1> DEFINE Q == Pend(m, hist, N)
<1> DEFINE V == <<Activity!Device(taken + 1)>>
<1> DEFINE new == Pend(m, hist \o M, Len(hist \o M))
<1>1. M \in Seq(Item) /\ V \in Seq(Item) /\ N \in Nat /\ N \in 0 .. N /\ m \in 0 .. N
  BY ItemsAreItems, NextIsItem, LenProperties
<1>2. Plain(M)
  <2>1. Len(M) = 1 /\ M[1] = Activity!Own
    OBVIOUS
  <2> HIDE DEF M
  <2> QED
    BY <2>1, ItemsAreItems DEF Plain
<1>3. P \in Seq(Item) /\ Q \in Seq(Item) /\ Pend(last, hist \o M, m) = P
  BY <1>1, PendIs, PendKept
<1>4. Elides(Q \o M, new) /\ new \in Seq(Item)
  <2> HIDE DEF M
  <2>1. Len(hist \o M) = Len(hist) + Len(M) /\ hist \o M \in Seq(Item) /\ Len(M) \in Nat
    BY <1>1, ConcatProperties, LenProperties
  <2>2. Elides(Pend(m, hist, Len(hist)) \o M, Pend(m, hist \o M, Len(hist) + Len(M)))
    BY <1>1, PendGrows
  <2>3. Len(hist \o M) \in 0 .. Len(hist \o M) /\ m \in 0 .. Len(hist \o M)
    BY <1>1, <2>1
  <2>4. new \in Seq(Item)
    BY <2>1, <2>3, PendIs
  <2> QED
    BY <2>1, <2>2, <2>4
<1>5. Tells(X \o P \o Q \o V, lossy)
  BY DEF Told
<1>6. Told(X, last, hist \o M, m, taken, lossy) <=> Tells(X \o P \o new \o V, lossy)
  BY <1>3 DEF Told
<1> HIDE DEF M, N, P, Q, V, new
<1> DEFINE XPQ == X \o P \o Q
<1>7. X \o P \in Seq(Item) /\ XPQ \in Seq(Item) /\ Q \o M \in Seq(Item)
  BY <1>1, <1>3
<1>10. Tells(XPQ \o M \o V, lossy)
  <2>1. Tells(XPQ \o V, lossy)
    BY <1>5
  <2> HIDE DEF XPQ
  <2> QED
    BY <1>1, <1>2, <1>7, <2>1, TellsMore
<1>11. XPQ \o M \o V = X \o P \o (Q \o M) \o V
  <2> DEFINE XP == X \o P
  <2>1. XP \in Seq(Item)
    BY <1>7
  <2> HIDE DEF XP
  <2>2. AssocAt(XP, Q, M)
    <3>1. M \in Seq(Item) /\ Q \in Seq(Item)
      BY <1>1, <1>3
    <3> QED
      BY <2>1, <3>1, Assoc
  <2> QED
    BY <2>2 DEF AssocAt, XP
<1>12. Tells(X \o P \o new \o V, lossy)
  <2> DEFINE XP == X \o P
  <2> DEFINE old == Q \o M
  <2>1. XP \in Seq(Item) /\ old \in Seq(Item) /\ Tells(XP \o old \o V, lossy) /\ Elides(old, new)
    BY <1>4, <1>7, <1>10, <1>11
  <2> HIDE DEF XP, old, XPQ
  <2>2. Tells(XP \o new \o V, lossy)
    BY <1>1, <1>4, <2>1, TellsElided
  <2> QED
    BY <2>2 DEF XP
<1> QED
  BY <1>6, <1>12 DEF M

\* Entries of the worker, numbered from first on.
IsRun(seq, first) ==
  \A i \in 1 .. Len(seq) : seq[i] = Activity!Device(first + i - 1)

\* The runtime takes the worker's entries from first on, with a mark if there are
\* others before.
LEMMA ToldTakes ==
  ASSUME NEW X \in Seq(Item), NEW hist \in Seq(Item), NEW m \in 0 .. Len(hist),
         NEW last \in 0 .. m, NEW taken \in Nat, NEW lossy \in BOOLEAN,
         Limit \in Nat \ {0}, Told(X, last, hist, m, taken, lossy),
         NEW M \in Seq(Item), NEW R \in Seq(Item), NEW first \in Nat, taken + 1 <= first,
         Plain(M), first = taken + 1 \/ HasMark(M),
         IsRun(R, first)
  PROVE  Told(X, last, hist \o (M \o R), m, first + Len(R) - 1, lossy)
<1> DEFINE K == M \o R
<1> DEFINE N == Len(hist)
<1> DEFINE P == Pend(last, hist, m)
<1> DEFINE Q == Pend(m, hist, N)
<1> DEFINE V == <<Activity!Device(taken + 1)>>
<1> DEFINE z == first + Len(R) - 1
<1> DEFINE U == <<Activity!Device(z + 1)>>
<1> DEFINE new == Pend(m, hist \o K, Len(hist \o K))
<1>1. /\ K \in Seq(Item) /\ V \in Seq(Item) /\ N \in Nat /\ N \in 0 .. N /\ m \in 0 .. N
      /\ U \in Seq(Item)
  <2>1. z \in Nat
    BY LenProperties
  <2>2. U \in Seq(Item) /\ V \in Seq(Item)
    <3> HIDE DEF z
    <3> QED
      BY <2>1, NextIsItem
  <2> QED
    BY <2>2, LenProperties
<1>2. P \in Seq(Item) /\ Q \in Seq(Item) /\ Pend(last, hist \o K, m) = P
  <2> HIDE DEF K
  <2> QED
    <3>1. P \in Seq(Item) /\ Q \in Seq(Item)
      BY <1>1, PendIs
    <3>2. Pend(last, hist \o K, m) = P
      BY <1>1, PendKept
    <3> QED
      BY <3>1, <3>2
<1>3. Elides(Q \o K, new) /\ new \in Seq(Item)
  <2> HIDE DEF K
  <2>1. Len(hist \o K) = Len(hist) + Len(K) /\ hist \o K \in Seq(Item) /\ Len(K) \in Nat
    BY <1>1, ConcatProperties, LenProperties
  <2>2. Elides(Pend(m, hist, Len(hist)) \o K, Pend(m, hist \o K, Len(hist) + Len(K)))
    BY <1>1, PendGrows
  <2>3. Len(hist \o K) \in 0 .. Len(hist \o K) /\ m \in 0 .. Len(hist \o K)
    BY <1>1, <2>1
  <2>4. new \in Seq(Item)
    BY <2>1, <2>3, PendIs
  <2> QED
    BY <2>1, <2>2, <2>4
<1>4. Tells(X \o P \o Q \o V, lossy)
  BY DEF Told
<1>5. Told(X, last, hist \o K, m, z, lossy) <=> Tells(X \o P \o new \o U, lossy)
  BY <1>2 DEF Told
<1> DEFINE T == R \o U
<1>6. /\ T \in Seq(Item) /\ Len(T) = Len(R) + 1
      /\ \A i \in 1 .. Len(T) : T[i] = Activity!Device(first + i - 1)
  <2> HIDE DEF U
  <2>1. Len(U) = 1 /\ U[1] = Activity!Device(z + 1)
    BY DEF U
  <2>2. /\ T \in Seq(Item) /\ Len(T) = Len(R) + Len(U)
        /\ \A i \in 1 .. Len(R) + Len(U) :
             T[i] = IF i <= Len(R) THEN R[i] ELSE U[i - Len(R)]
    BY <1>1, ConcatProperties
  <2>3. Len(R) \in Nat
    BY LenProperties
  <2> HIDE DEF T
  <2>4. ASSUME NEW i \in 1 .. Len(R) + 1 PROVE T[i] = Activity!Device(first + i - 1)
    <3>1. CASE i <= Len(R)
      BY <2>1, <2>2, <2>3, <3>1 DEF IsRun
    <3>2. CASE i = Len(R) + 1
      <4>1. i - Len(R) = 1 /\ first + i - 1 = z + 1
        BY <2>3, <3>2
      <4> QED
        BY <2>1, <2>2, <2>3, <3>2, <4>1
    <3>3. i <= Len(R) \/ i = Len(R) + 1
      BY <2>3
    <3> QED
      BY <3>1, <3>2, <3>3
  <2> QED
    BY <2>1, <2>2, <2>4
<1> HIDE DEF N, P, Q, new, T, z
<1> DEFINE XPQ == X \o P \o Q
<1>7. X \o P \in Seq(Item) /\ XPQ \in Seq(Item)
  BY <1>2
<1>8. Tells(XPQ \o M \o T, lossy)
  <2>1. Tells(XPQ \o V, lossy)
    BY <1>4
  <2> HIDE DEF XPQ
  <2> QED
    BY <1>6, <1>7, <2>1, RunTells
<1> HIDE DEF K, U, V
<1>9. XPQ \o M \o T = X \o P \o (Q \o K) \o U
  <2> DEFINE XP == X \o P
  <2>1. XP \in Seq(Item)
    BY <1>7
  <2> HIDE DEF XP
  <2>2. Q \o K \in Seq(Item)
    BY <1>1, <1>2
  <2>3. XP \o (Q \o K) \o U = XP \o Q \o M \o T
    <3>1. XP \o (Q \o (M \o R)) \o U = XP \o Q \o M \o (R \o U)
      <4>1. U \in Seq(Item) /\ Q \in Seq(Item)
        BY <1>1, <1>2
      <4> DEFINE A == XP \o Q
      <4> DEFINE B == M \o R
      <4> DEFINE D == R \o U
      <4>2. A \in Seq(Item) /\ B \in Seq(Item) /\ D \in Seq(Item)
        BY <2>1, <4>1, ConcatProperties
      <4>3. AssocAt(M, R, U)
        BY <4>1, Assoc
      <4> HIDE DEF A, B, D
      <4>4. RegroupAt(XP, Q, B, U) /\ AssocAt(A, M, D)
        BY <2>1, <4>1, <4>2, Assoc, Regroup
      <4>5. XP \o (Q \o B) \o U = A \o (B \o U)
        BY <4>4 DEF RegroupAt, A
      <4>6. B \o U = M \o D
        BY <4>3 DEF AssocAt, B, D
      <4>7. A \o (M \o D) = A \o M \o D
        BY <4>4 DEF AssocAt
      <4> QED
        BY <4>5, <4>6, <4>7 DEF A, B, D
    <3> QED
      BY <3>1 DEF K, T
  <2> QED
    BY <2>3 DEF XP
<1>10. Tells(X \o P \o new \o U, lossy)
  <2> DEFINE XP == X \o P
  <2> DEFINE old == Q \o K
  <2>1. XP \in Seq(Item) /\ old \in Seq(Item) /\ Tells(XP \o old \o U, lossy) /\ Elides(old, new)
    BY <1>1, <1>2, <1>3, <1>7, <1>8, <1>9
  <2> HIDE DEF XP, old, XPQ
  <2>2. Tells(XP \o new \o U, lossy)
    BY <1>1, <1>3, <2>1, TellsElided
  <2> QED
    BY <2>2 DEF XP
<1> QED
  BY <1>5, <1>10 DEF K, z

\* The interface sees the runtime's ring.
LEMMA ToldPublishes ==
  ASSUME NEW X \in Seq(Item), NEW hist \in Seq(Item), NEW m \in 0 .. Len(hist),
         NEW last \in 0 .. m, NEW taken \in Nat, NEW lossy \in BOOLEAN,
         Limit \in Nat \ {0}, Told(X, last, hist, m, taken, lossy)
  PROVE  Told(X, last, hist, Len(hist), taken, lossy)
<1> DEFINE N == Len(hist)
<1> DEFINE P == Pend(last, hist, m)
<1> DEFINE Q == Pend(m, hist, N)
<1> DEFINE V == <<Activity!Device(taken + 1)>>
<1> DEFINE new == Pend(last, hist, N)
<1>1. V \in Seq(Item) /\ N \in Nat /\ N \in 0 .. N /\ m \in 0 .. N /\ last \in 0 .. N
  BY NextIsItem, LenProperties
<1>2. P \in Seq(Item) /\ Q \in Seq(Item) /\ new \in Seq(Item) /\ Pend(N, hist, N) = <<>>
  BY <1>1, PendIs, PendOfNone
<1>3. Elides(P \o Q, new)
  BY <1>1, PendJoins
<1>4. Tells(X \o P \o Q \o V, lossy)
  BY DEF Told
<1>5. Told(X, last, hist, Len(hist), taken, lossy) <=> Tells(X \o new \o <<>> \o V, lossy)
  BY <1>2 DEF Told
<1> HIDE DEF N, P, Q, V, new
<1>6. X \o P \o Q = X \o (P \o Q) /\ P \o Q \in Seq(Item)
  <2>1. AssocAt(X, P, Q)
    BY <1>2, Assoc
  <2>2. P \o Q \in Seq(Item)
    BY <1>2, ConcatProperties
  <2> QED
    BY <2>1, <2>2 DEF AssocAt
<1>7. Tells(X \o new \o V, lossy)
  <2> DEFINE old == P \o Q
  <2>1. old \in Seq(Item) /\ Tells(X \o old \o V, lossy) /\ Elides(old, new)
    BY <1>3, <1>4, <1>6
  <2> HIDE DEF old
  <2> QED
    BY <1>1, <1>2, <2>1, TellsElided
<1>8. X \o new \o <<>> = X \o new
  <2> DEFINE Y == X \o new
  <2>1. Y \in Seq(Item)
    BY <1>2
  <2> HIDE DEF Y
  <2>2. Y \o <<>> = Y
    BY <2>1, ConcatEmptySeq
  <2> QED
    BY <2>2 DEF Y
<1> QED
  BY <1>5, <1>7, <1>8

\* The interface writes what is new, or fails to; or what is written is removed.
LEMMA ToldLogs ==
  ASSUME NEW X \in Seq(Item), NEW hist \in Seq(Item), NEW m \in 0 .. Len(hist),
         NEW last \in 0 .. m, NEW taken \in Nat, NEW lossy \in BOOLEAN,
         Limit \in Nat \ {0}, Told(X, last, hist, m, taken, lossy)
  PROVE  /\ Told(X \o Pend(last, hist, m), m, hist, m, taken, lossy)
         /\ Told(X, m, hist, m, taken, TRUE)
         /\ X = <<>> => Told(X, m, hist, m, taken, lossy)
         /\ X = <<>> => Told(<<Activity!Cleared>>, last, hist, m, taken, lossy)
         /\ Tells(X, lossy)
<1> DEFINE N == Len(hist)
<1> DEFINE P == Pend(last, hist, m)
<1> DEFINE Q == Pend(m, hist, N)
<1> DEFINE V == <<Activity!Device(taken + 1)>>
<1> DEFINE C == <<Activity!Cleared>>
<1>1. V \in Seq(Item) /\ N \in Nat /\ N \in 0 .. N /\ m \in 0 .. N /\ last \in 0 .. N
      /\ C \in Seq(Item)
  BY NextIsItem, LenProperties, ItemsAreItems
<1>2. P \in Seq(Item) /\ Q \in Seq(Item) /\ Pend(m, hist, m) = <<>>
  BY <1>1, PendIs, PendOfNone
<1>3. Tells(X \o P \o Q \o V, lossy)
  BY DEF Told
<1>4. /\ Told(X \o P, m, hist, m, taken, lossy) <=> Tells(X \o P \o <<>> \o Q \o V, lossy)
      /\ \A y : Told(X, m, hist, m, taken, y) <=> Tells(X \o <<>> \o Q \o V, y)
      /\ Told(C, last, hist, m, taken, lossy) <=> Tells(C \o P \o Q \o V, lossy)
  BY <1>2 DEF Told
<1>5. Plain(C) /\ Plain(<<>>) /\ Silent(<<>>)
  <2>1. Len(C) = 1 /\ C[1] = Activity!Cleared
    OBVIOUS
  <2> HIDE DEF C
  <2> QED
    BY <2>1, ItemsAreItems DEF Plain, Silent
<1> HIDE DEF N, P, Q, V, C
<1> DEFINE T == Q \o V
<1> DEFINE L == P \o T
<1>6. T \in Seq(Item) /\ L \in Seq(Item) /\ X \o P \in Seq(Item) /\ <<>> \in Seq(Item)
  BY <1>1, <1>2
<1>0. P \in Seq(Item) /\ Q \in Seq(Item) /\ V \in Seq(Item) /\ C \in Seq(Item)
  BY <1>1, <1>2
<1>7. ASSUME NEW S \in Seq(Item) PROVE S \o Q \o V = S \o T
  <2>1. AssocAt(S, Q, V)
    BY <1>0, Assoc
  <2> QED
    BY <2>1 DEF AssocAt
<1>8. X \o P \o Q \o V = X \o P \o T /\ X \o P \o T = X \o L
  <2> DEFINE XP == X \o P
  <2>1. XP \in Seq(Item)
    BY <1>6
  <2> HIDE DEF XP, T
  <2>2. XP \o Q \o V = XP \o T
    BY <1>7, <2>1
  <2>3. AssocAt(X, P, T)
    BY <1>0, <1>6, Assoc
  <2> QED
    BY <2>2, <2>3 DEF AssocAt, XP
<1>9. X \o <<>> \o Q \o V = X \o T
  <2>1. X \o <<>> = X
    BY ConcatEmptySeq
  <2> HIDE DEF T
  <2>2. X \o Q \o V = X \o T
    BY <1>7
  <2> QED
    BY <2>1, <2>2
<1>10. C \o P \o Q \o V = C \o L
  <2> DEFINE XP == C \o P
  <2>1. XP \in Seq(Item)
    BY <1>0, ConcatProperties
  <2> HIDE DEF XP, T
  <2>2. XP \o Q \o V = XP \o T
    BY <1>7, <2>1
  <2>3. AssocAt(C, P, T)
    BY <1>0, <1>6, Assoc
  <2> QED
    BY <2>2, <2>3 DEF AssocAt, XP
<1>11. X \o P \o <<>> = X \o P
  <2> DEFINE Y == X \o P
  <2>1. Y \in Seq(Item)
    BY <1>6
  <2> HIDE DEF Y
  <2>2. Y \o <<>> = Y
    BY <2>1, ConcatEmptySeq
  <2> QED
    BY <2>2 DEF Y
<1>12. Tells(X \o P \o T, lossy) /\ Tells(X \o L, lossy)
  BY <1>3, <1>8
<1> HIDE DEF T, L
<1>13. ASSUME NEW less \in BOOLEAN, lossy => less, less \/ X = <<>>
       PROVE  Tells(X \o T, less)
  <2>1. P \in Seq(Item) /\ T \in Seq(Item) /\ Tells(X \o P \o T, lossy)
    BY <1>0, <1>6, <1>12
  <2> QED
    BY <1>13, <2>1, TellsLess
<1>15. ASSUME X = <<>> PROVE Tells(C \o L, lossy)
  <2>1. X \o C = C
    BY <1>0, <1>15, ConcatEmptySeq
  <2>2. Tells(X \o C \o L, lossy)
    BY <1>0, <1>5, <1>6, <1>12, TellsMore
  <2> QED
    BY <2>1, <2>2
<1>16. Tells(X, lossy)
  <2>1. L \in Seq(Item) /\ Tells(X \o L, lossy)
    BY <1>6, <1>12
  <2> QED
    BY <2>1, TellsFirst
<1>17. Told(X \o P, m, hist, m, taken, lossy)
  BY <1>3, <1>4, <1>11
<1> QED
  BY <1>4, <1>9, <1>10, <1>13, <1>15, <1>16, <1>17 DEF P, C

\* The worker's first n entries.
WorkerTo(n) == [i \in 1 .. n |-> Activity!Device(i)]

\* The worker's ring and its snapshot are rings of its entries, and the runtime has
\* read no more than the snapshot shows.
WorkerInv ==
  \E d \in 0 .. Entries, p \in 0 .. Entries :
     /\ p <= d /\ lastDevice \in 0 .. p
     /\ activityDevice = Ring(WorkerTo(d), d)
     /\ posted = Ring(WorkerTo(p), p)

\* The runtime's ring and the interface's view of it are rings of one history, and
\* the log tells the truth when all is written that is on its way, from here on or
\* from an empty log on.
EngineInv ==
  \E hist \in Seq(Activity!Items) :
     \E m \in 0 .. Len(hist) :
        /\ engine = Ring(hist, Len(hist)) /\ shown = Ring(hist, m)
        /\ lastEngine \in 0 .. m
        /\ Told(log, lastEngine, hist, m, lastDevice, failed)
        /\ Told(<<>>, lastEngine, hist, m, lastDevice, FALSE)

\* The inductive invariant of the activity log.
LogInv ==
  /\ WorkerInv /\ EngineInv
  /\ log \in Seq(Activity!Items) /\ failed \in BOOLEAN
  /\ others \in 0 .. Others /\ clears \in 0 .. Clears

\* The worker's first entries are entries, and in order.
LEMMA WorkerIs ==
  ASSUME NEW n \in 0 .. Entries, Entries \in Nat
  PROVE  /\ WorkerTo(n) \in Seq(Activity!Items) /\ Len(WorkerTo(n)) = n
         /\ n \in 0 .. Len(WorkerTo(n))
         /\ \A i \in 1 .. n : WorkerTo(n)[i] = Activity!Device(i)
<1>1. \A i \in 1 .. n : Activity!Device(i) \in Activity!Items
  BY DEF Activity!Items
<1>2. n \in Nat
  OBVIOUS
<1>3. WorkerTo(n) \in Seq(Activity!Items) /\ Len(WorkerTo(n)) = n
  BY <1>1, <1>2 DEF WorkerTo
<1> QED
  BY <1>3 DEF WorkerTo

\* The worker's next entry follows those before it.
LEMMA WorkerGrows ==
  ASSUME NEW n \in 0 .. Entries, n < Entries, Entries \in Nat
  PROVE  WorkerTo(n) \o <<Activity!Device(n + 1)>> = WorkerTo(n + 1)
<1> DEFINE more == <<Activity!Device(n + 1)>>
<1> DEFINE S == Activity!Items
<1>1. n \in Nat /\ n + 1 \in 0 .. Entries
  OBVIOUS
<1>2. more \in Seq(S) /\ Len(more) = 1 /\ more[1] = Activity!Device(n + 1)
  <2>1. Activity!Device(n + 1) \in S
    BY <1>1 DEF Activity!Items
  <2> HIDE DEF S
  <2> QED
    BY <2>1
<1>3. WorkerTo(n) \in Seq(S) /\ Len(WorkerTo(n)) = n
      /\ \A i \in 1 .. n : WorkerTo(n)[i] = Activity!Device(i)
  BY WorkerIs
<1>4. WorkerTo(n + 1) \in Seq(S) /\ Len(WorkerTo(n + 1)) = n + 1
      /\ \A i \in 1 .. n + 1 : WorkerTo(n + 1)[i] = Activity!Device(i)
  <2> DEFINE k == n + 1
  <2>1. k \in 0 .. Entries
    BY <1>1
  <2> HIDE DEF k
  <2>2. WorkerTo(k) \in Seq(S) /\ Len(WorkerTo(k)) = k
        /\ \A i \in 1 .. k : WorkerTo(k)[i] = Activity!Device(i)
    BY <2>1, WorkerIs
  <2> QED
    BY <2>2 DEF k
<1> HIDE DEF more, S
<1> DEFINE all == WorkerTo(n) \o more
<1>5. /\ all \in Seq(S) /\ Len(all) = n + 1
      /\ \A i \in 1 .. n + 1 : all[i] = IF i <= n THEN WorkerTo(n)[i] ELSE more[i - n]
  <2>1. /\ all \in Seq(S) /\ Len(all) = Len(WorkerTo(n)) + Len(more)
        /\ \A i \in 1 .. Len(WorkerTo(n)) + Len(more) :
             all[i] = IF i <= Len(WorkerTo(n)) THEN WorkerTo(n)[i]
                                               ELSE more[i - Len(WorkerTo(n))]
    BY <1>2, <1>3, ConcatProperties
  <2> QED
    BY <1>2, <1>3, <2>1
<1> HIDE DEF all
<1>6. ASSUME NEW i \in 1 .. n + 1 PROVE all[i] = WorkerTo(n + 1)[i]
  <2>1. CASE i <= n
    <3>1. i \in 1 .. n
      BY <2>1
    <3> QED
      BY <1>3, <1>4, <1>5, <2>1, <3>1
  <2>2. CASE i = n + 1
    <3>1. i - n = 1 /\ ~(i <= n)
      BY <1>1, <2>2
    <3> QED
      BY <1>2, <1>4, <1>5, <2>2, <3>1
  <2>3. i <= n \/ i = n + 1
    BY <1>1
  <2> QED
    BY <2>1, <2>2, <2>3
<1>7. all = WorkerTo(n + 1)
  BY <1>4, <1>5, <1>6, SeqEqual
<1> QED
  BY <1>7 DEF all, more

\* Sequences of the model's entries are sequences of entries.
LEMMA ItemsSeq == Seq(Activity!Items) \subseteq Seq(Item)
BY ItemsAreItems, SeqMonotonic

\* The invariant holds in the beginning.
LEMMA LogInit ==
  ASSUME Activity!LogAssumption, Activity!Init
  PROVE  LogInv
<1>1. Limit \in Nat \ {0} /\ Entries \in Nat /\ Others \in Nat /\ Clears \in Nat
  BY DEF Activity!LogAssumption
<1>2. /\ activityDevice = Activity!Empty /\ posted = Activity!Empty
      /\ engine = Activity!Empty /\ shown = Activity!Empty
      /\ lastDevice = 0 /\ lastEngine = 0 /\ log = <<>> /\ failed = FALSE
      /\ others = 0 /\ clears = 0
  BY DEF Activity!Init
<1>3. ASSUME NEW hist PROVE Ring(hist, 0) = Activity!Empty
  <2>1. Start(0) = 1
    BY <1>1 DEF Start
  <2>2. SubSeq(hist, 1, 0) = <<>>
    BY SubSeqEmpty
  <2> QED
    BY <2>1, <2>2 DEF Ring, Activity!Empty
<1>4. WorkerInv
  <2>1. 0 \in 0 .. Entries /\ 0 <= 0 /\ 0 \in 0 .. 0
    BY <1>1
  <2>2. Ring(WorkerTo(0), 0) = Activity!Empty
    BY <1>3
  <2> QED
    BY <1>2, <2>1, <2>2 DEF WorkerInv
<1>5. EngineInv
  <2> DEFINE hist == <<>>
  <2>1. hist \in Seq(Activity!Items) /\ Len(hist) = 0 /\ hist \in Seq(Item) /\ 0 \in 0 .. 0
        /\ 0 \in 0 .. Len(hist)
    OBVIOUS
  <2> HIDE DEF hist
  <2>2. Pend(0, hist, 0) = <<>>
    BY <1>1, <2>1, PendOfNone
  <2>3. \A y : Tells(<<>> \o <<>> \o <<>> \o <<Activity!Device(0 + 1)>>, y)
    <3> DEFINE C == <<Activity!Device(0 + 1)>>
    <3>1. <<>> \o <<>> \o <<>> \o C = C
      OBVIOUS
    <3>2. Len(C) = 1
      OBVIOUS
    <3> HIDE DEF C
    <3>3. \A y : Tells(C, y)
      BY <3>2 DEF Tells
    <3> QED
      BY <3>1, <3>3 DEF C
  <2>4. \A y : Told(<<>>, 0, hist, 0, 0, y)
    BY <2>1, <2>2, <2>3 DEF Told
  <2>5. engine = Ring(hist, Len(hist)) /\ shown = Ring(hist, 0)
    BY <1>2, <1>3, <2>1
  <2> QED
    BY <1>2, <2>1, <2>4, <2>5 DEF EngineInv
<1>6. log \in Seq(Activity!Items) /\ failed \in BOOLEAN
  <2>1. log \in Seq(Activity!Items)
    BY <1>2, EmptySeq
  <2> QED
    BY <1>2, <2>1
<1>7. others \in 0 .. Others /\ clears \in 0 .. Clears
  BY <1>1, <1>2
<1> QED
  BY <1>4, <1>5, <1>6, <1>7 DEF LogInv

\* The invariant implies the types and LossIsLogged.
LEMMA LogSafe ==
  ASSUME Activity!LogAssumption, LogInv
  PROVE  Activity!TypeOK /\ Activity!LossIsLogged
<1>1. Limit \in Nat \ {0} /\ Entries \in Nat /\ Others \in Nat /\ Clears \in Nat
  BY DEF Activity!LogAssumption
<1> DEFINE Fits(ring) == ring \in Activity!Rings /\ Len(ring.items) <= Limit
<1>2. ASSUME NEW hist \in Seq(Activity!Items), NEW n \in 0 .. Len(hist)
      PROVE  Fits(Ring(hist, n))
  <2>1. /\ Ring(hist, n).items \in Seq(Activity!Items) /\ n \in Nat
        /\ Start(n) \in 1 .. n + 1
        /\ Len(Ring(hist, n).items) = n + 1 - Start(n)
        /\ n + 1 - Start(n) <= Limit
        /\ Ring(hist, n).items = SubSeq(hist, Start(n), n)
    BY <1>1, RingIs
  <2>2. n + 1 \in Nat
    BY <2>1
  <2> QED
    BY <2>1, <2>2 DEF Activity!Rings, Ring
<1>3. Fits(activityDevice) /\ Fits(posted) /\ lastDevice \in 0 .. Entries
  <2>1. PICK d \in 0 .. Entries, p \in 0 .. Entries :
           /\ p <= d /\ lastDevice \in 0 .. p
           /\ activityDevice = Ring(WorkerTo(d), d)
           /\ posted = Ring(WorkerTo(p), p)
    BY DEF LogInv, WorkerInv
  <2>2. Fits(Ring(WorkerTo(d), d)) /\ Fits(Ring(WorkerTo(p), p))
    <3> HIDE DEF Fits
    <3>1. WorkerTo(d) \in Seq(Activity!Items) /\ d \in 0 .. Len(WorkerTo(d))
      BY <1>1, WorkerIs
    <3>2. WorkerTo(p) \in Seq(Activity!Items) /\ p \in 0 .. Len(WorkerTo(p))
      BY <1>1, WorkerIs
    <3> QED
      BY <1>2, <3>1, <3>2
  <2> QED
    BY <1>1, <2>1, <2>2
<1>4. PICK hist \in Seq(Activity!Items) :
         \E m \in 0 .. Len(hist) :
            /\ engine = Ring(hist, Len(hist)) /\ shown = Ring(hist, m)
            /\ lastEngine \in 0 .. m
            /\ Told(log, lastEngine, hist, m, lastDevice, failed)
            /\ Told(<<>>, lastEngine, hist, m, lastDevice, FALSE)
  BY DEF LogInv, EngineInv
<1>5. PICK m \in 0 .. Len(hist) :
            /\ engine = Ring(hist, Len(hist)) /\ shown = Ring(hist, m)
            /\ lastEngine \in 0 .. m
            /\ Told(log, lastEngine, hist, m, lastDevice, failed)
            /\ Told(<<>>, lastEngine, hist, m, lastDevice, FALSE)
  BY <1>4
<1>6. Fits(engine) /\ Fits(shown) /\ lastEngine \in Nat
  <2>1. Len(hist) \in 0 .. Len(hist) /\ m \in Nat
    BY LenProperties
  <2> HIDE DEF Fits
  <2> QED
    BY <1>2, <1>5, <2>1
<1>7. log \in Seq(Activity!Items) /\ log \in Seq(Item) /\ failed \in BOOLEAN
  BY ItemsSeq DEF LogInv
<1>8. Activity!TypeOK
  BY <1>3, <1>6, <1>7 DEF Activity!TypeOK, LogInv
<1>9. Tells(log, failed)
  <2>1. hist \in Seq(Item) /\ lastDevice \in Nat
    BY <1>1, <1>3, ItemsSeq
  <2> QED
    BY <1>1, <1>5, <1>7, <2>1, ToldLogs
<1> QED
  BY <1>7, <1>8, <1>9, TellsIsLossIsLogged

\* EngineInv with its witnesses.
EngineAt(hist, m) ==
  /\ hist \in Seq(Activity!Items) /\ m \in 0 .. Len(hist)
  /\ engine = Ring(hist, Len(hist)) /\ shown = Ring(hist, m)
  /\ lastEngine \in 0 .. m
  /\ Told(log, lastEngine, hist, m, lastDevice, failed)
  /\ Told(<<>>, lastEngine, hist, m, lastDevice, FALSE)

\* WorkerInv with its witnesses.
WorkerAt(d, p) ==
  /\ d \in 0 .. Entries /\ p \in 0 .. Entries
  /\ p <= d /\ lastDevice \in 0 .. p
  /\ activityDevice = Ring(WorkerTo(d), d)
  /\ posted = Ring(WorkerTo(p), p)

\* Every step of the activity log keeps the invariant.
LEMMA LogStep ==
  ASSUME Activity!LogAssumption, LogInv, [Activity!Next]_activityVars
  PROVE  LogInv'
<1>1. Limit \in Nat \ {0} /\ Entries \in Nat /\ Others \in Nat /\ Clears \in Nat
  BY DEF Activity!LogAssumption
<1>2. PICK hist, m : EngineAt(hist, m)
  BY DEF LogInv, EngineInv, EngineAt
<1>3. PICK d, p : WorkerAt(d, p)
  BY DEF LogInv, WorkerInv, WorkerAt
<1>4. /\ hist \in Seq(Activity!Items) /\ hist \in Seq(Item) /\ m \in 0 .. Len(hist)
      /\ engine = Ring(hist, Len(hist)) /\ shown = Ring(hist, m)
      /\ lastEngine \in 0 .. m
      /\ Told(log, lastEngine, hist, m, lastDevice, failed)
      /\ Told(<<>>, lastEngine, hist, m, lastDevice, FALSE)
      /\ Len(hist) \in 0 .. Len(hist) /\ Len(hist) \in Nat
  <2>1. /\ hist \in Seq(Activity!Items) /\ m \in 0 .. Len(hist)
        /\ engine = Ring(hist, Len(hist)) /\ shown = Ring(hist, m)
        /\ lastEngine \in 0 .. m
        /\ Told(log, lastEngine, hist, m, lastDevice, failed)
        /\ Told(<<>>, lastEngine, hist, m, lastDevice, FALSE)
    BY <1>2 DEF EngineAt
  <2>2. hist \in Seq(Item)
    BY <2>1, ItemsSeq
  <2>3. Len(hist) \in Nat
    BY <2>1, LenProperties
  <2>4. Len(hist) \in 0 .. Len(hist)
    BY <2>3
  <2> QED
    BY <2>1, <2>2, <2>3, <2>4
<1>5. /\ d \in 0 .. Entries /\ p \in 0 .. Entries /\ p <= d /\ lastDevice \in 0 .. p
      /\ activityDevice = Ring(WorkerTo(d), d) /\ posted = Ring(WorkerTo(p), p)
      /\ lastDevice \in Nat
  BY <1>3 DEF WorkerAt
<1>6. /\ log \in Seq(Activity!Items) /\ log \in Seq(Item) /\ failed \in BOOLEAN
      /\ others \in 0 .. Others /\ clears \in 0 .. Clears
  BY ItemsSeq DEF LogInv
<1>7. <<>> \in Seq(Item) /\ FALSE \in BOOLEAN
  OBVIOUS
<1>8. ASSUME NEW x, NEW y, x \in 0 .. Entries, y \in 0 .. Entries, y <= x,
             lastDevice' \in 0 .. y,
             activityDevice' = Ring(WorkerTo(x), x), posted' = Ring(WorkerTo(y), y)
      PROVE  WorkerInv'
  BY <1>8 DEF WorkerInv, Ring, WorkerTo, Start, Activity!Device
<1>9. ASSUME NEW h, NEW n, h \in Seq(Activity!Items), n \in 0 .. Len(h),
             engine' = Ring(h, Len(h)), shown' = Ring(h, n),
             lastEngine' \in 0 .. n,
             Told(log', lastEngine', h, n, lastDevice', failed'),
             Told(<<>>, lastEngine', h, n, lastDevice', FALSE)
      PROVE  EngineInv'
  BY <1>9 DEF EngineInv, Ring, Start, Told, Pend, Tells, IsDevice, IsMark, Activity!Device, Activity!Gap
<1>10. UNCHANGED <<activityDevice, posted, lastDevice>> => WorkerInv'
  BY <1>5, <1>8
<1>11. UNCHANGED <<engine, shown, lastEngine, log, lastDevice, failed>> => EngineInv'
  BY <1>4, <1>9
<1>12. CASE Activity!DeviceRecords
  <2>1. /\ activityDevice.next <= Entries
        /\ activityDevice' = Activity!Record(activityDevice,
                                  <<Activity!Device(activityDevice.next)>>)
        /\ UNCHANGED <<posted, engine, shown, lastDevice, lastEngine, log, failed,
                       others, clears>>
    BY <1>12 DEF Activity!DeviceRecords
  <2>2. activityDevice.next = d + 1 /\ d < Entries /\ d \in Nat
    BY <1>1, <1>5, <2>1 DEF Ring
  <2> DEFINE more == <<Activity!Device(d + 1)>>
  <2>3. /\ WorkerTo(d) \in Seq(Activity!Items) /\ Len(WorkerTo(d)) = d
        /\ WorkerTo(d) \o more = WorkerTo(d + 1)
    BY <1>1, <1>5, <2>2, WorkerIs, WorkerGrows
  <2>4. more \in Seq(Activity!Items) /\ Len(more) = 1
    <3> DEFINE S == Activity!Items
    <3>1. Activity!Device(d + 1) \in S
      BY <1>1, <2>2 DEF Activity!Items
    <3> HIDE DEF S
    <3>2. more \in Seq(S) /\ Len(more) = 1
      BY <3>1
    <3> QED
      BY <3>2 DEF S
  <2> HIDE DEF more
  <2>5. Activity!Record(Ring(WorkerTo(d), Len(WorkerTo(d))), more)
          = Ring(WorkerTo(d) \o more, Len(WorkerTo(d)) + Len(more))
    BY <1>1, <2>3, <2>4, RingRecords
  <2>6. activityDevice' = Ring(WorkerTo(d + 1), d + 1)
    BY <1>5, <2>1, <2>2, <2>3, <2>4, <2>5 DEF more
  <2>7. d + 1 \in 0 .. Entries /\ p <= d + 1
    BY <1>1, <1>5, <2>2
  <2>8. WorkerInv'
    BY <1>5, <1>8, <2>1, <2>6, <2>7
  <2> QED
    BY <1>6, <1>11, <2>1, <2>8 DEF LogInv
<1>13. CASE Activity!RuntimeRecords
  <2>1. /\ others < Others /\ others' = others + 1
        /\ engine' = Activity!Record(engine, <<Activity!Own>>)
        /\ UNCHANGED <<activityDevice, posted, shown, lastDevice, lastEngine, log,
                       failed, clears>>
    BY <1>13 DEF Activity!RuntimeRecords
  <2> DEFINE more == <<Activity!Own>>
  <2>2. more \in Seq(Activity!Items) /\ Len(more) = 1 /\ more \in Seq(Item)
    <3>1. Activity!Own \in Activity!Items /\ Activity!Own \in Item
      BY ItemsAreItems DEF Activity!Items
    <3> QED
      BY <3>1
  <2>3. /\ Told(log, lastEngine, hist \o more, m, lastDevice, failed)
        /\ Told(<<>>, lastEngine, hist \o more, m, lastDevice, FALSE)
    BY <1>1, <1>4, <1>5, <1>6, <1>7, ToldRecords
  <2> HIDE DEF more
  <2>4. engine' = Ring(hist \o more, Len(hist) + Len(more))
    BY <1>1, <1>4, <2>1, <2>2, RingRecords DEF more
  <2>5. hist \o more \in Seq(Activity!Items) /\ Len(hist \o more) = Len(hist) + Len(more)
    BY <1>4, <2>2, ConcatProperties
  <2>6. Ring(hist \o more, m) = Ring(hist, m)
    BY <1>1, <1>4, <2>2, PendKept
  <2>7. m \in 0 .. Len(hist \o more)
    BY <1>4, <2>2, <2>5
  <2>8. EngineInv'
    BY <1>4, <1>9, <2>1, <2>3, <2>4, <2>5, <2>6, <2>7
  <2>9. others' \in 0 .. Others
    BY <1>1, <1>6, <2>1
  <2> QED
    BY <1>6, <1>10, <2>1, <2>8, <2>9 DEF LogInv
<1>14. CASE Activity!DevicePublishes
  <2>1. /\ posted' = activityDevice
        /\ UNCHANGED <<activityDevice, engine, shown, lastDevice, lastEngine, log,
                       failed, others, clears>>
    BY <1>14 DEF Activity!DevicePublishes
  <2>2. lastDevice \in 0 .. d /\ d <= d
    BY <1>5
  <2>3. WorkerInv'
    BY <1>5, <1>8, <2>1, <2>2
  <2> QED
    BY <1>6, <1>11, <2>1, <2>3 DEF LogInv
<1>15. CASE Activity!Refresh
  <2>1. /\ lastDevice < posted.next - 1
        /\ engine' = Activity!Record(engine,
              (IF Activity!Missed(lastDevice, posted) THEN <<Activity!Skipped>> ELSE <<>>)
                \o Activity!News(lastDevice, posted))
        /\ lastDevice' = posted.next - 1
        /\ UNCHANGED <<activityDevice, posted, shown, lastEngine, log, failed,
                       others, clears>>
    BY <1>15 DEF Activity!Refresh, Activity!TakeOver
  <2>2. posted.next = p + 1 /\ lastDevice < p /\ lastDevice' = p
    BY <1>1, <1>5, <2>1 DEF Ring
  <2> DEFINE W == WorkerTo(p)
  <2> DEFINE first == IF lastDevice + 1 < Start(p) THEN Start(p) ELSE lastDevice + 1
  <2> DEFINE M == IF lastDevice + 1 < Start(p) THEN <<Activity!Skipped>> ELSE <<>>
  <2> DEFINE R == SubSeq(W, first, p)
  <2>3. /\ W \in Seq(Activity!Items) /\ Len(W) = p /\ p \in 0 .. Len(W)
        /\ \A i \in 1 .. p : W[i] = Activity!Device(i)
        /\ Start(p) \in 1 .. p + 1
    BY <1>1, <1>5, WorkerIs, RingIs
  <2> HIDE DEF W
  <2>4. posted = Ring(W, p)
    BY <1>5 DEF W
  <2>5. /\ Activity!Missed(lastDevice, posted) <=> lastDevice + 1 < Start(p)
        /\ Activity!News(lastDevice, posted) = R
    <3>1. /\ Activity!Missed(lastDevice, Ring(W, p)) <=> lastDevice + 1 < Start(p)
          /\ Activity!News(lastDevice, Ring(W, p))
               = SubSeq(W, IF lastDevice + 1 < Start(p) THEN Start(p) ELSE lastDevice + 1, p)
      BY <1>1, <1>5, <2>3, NewsIs
    <3> QED
      BY <2>4, <3>1
  <2>6. engine' = Activity!Record(engine, M \o R)
    BY <2>1, <2>5
  <2>7. first \in Nat \ {0} /\ first <= p + 1 /\ lastDevice + 1 <= first /\ p \in Nat
    BY <1>5, <2>2, <2>3
  <2>8. /\ R \in Seq(Activity!Items) /\ Len(R) = p + 1 - first
        /\ \A i \in 1 .. p + 1 - first : R[i] = W[first + i - 1]
    <3> HIDE DEF first
    <3> QED
      BY <2>3, <2>7, StretchIs
  <2>9. IsRun(R, first)
    <3> HIDE DEF first, R
    <3>1. ASSUME NEW i \in 1 .. Len(R) PROVE R[i] = Activity!Device(first + i - 1)
      <4>1. first + i - 1 \in 1 .. p /\ i \in 1 .. p + 1 - first
        BY <2>7, <2>8
      <4> QED
        BY <2>3, <2>8, <4>1
    <3> QED
      BY <3>1 DEF IsRun
  <2>10. first + Len(R) - 1 = p
    <3> HIDE DEF first, R
    <3> QED
      BY <2>7, <2>8
  <2>11. /\ M \in Seq(Activity!Items) /\ Plain(M)
         /\ first = lastDevice + 1 \/ HasMark(M)
    <3>1. CASE lastDevice + 1 < Start(p)
      <4> DEFINE S == <<Activity!Skipped>>
      <4>1. Activity!Skipped \in Activity!Items
        BY DEF Activity!Items
      <4>2. S \in Seq(Activity!Items) /\ Len(S) = 1 /\ S[1] = Activity!Skipped
        BY <4>1
      <4>3. M = S
        BY <3>1
      <4> HIDE DEF S, M, first
      <4>4. Plain(S)
        BY <4>2, ItemsAreItems DEF Plain
      <4>5. HasMark(S)
        BY <4>2, ItemsAreItems DEF HasMark
      <4> QED
        BY <4>2, <4>3, <4>4, <4>5
    <3>2. CASE ~(lastDevice + 1 < Start(p))
      BY <3>2 DEF Plain
    <3> QED
      BY <3>1, <3>2
  <2> HIDE DEF first, M, R
  <2> DEFINE more == M \o R
  <2>12. M \in Seq(Item) /\ R \in Seq(Item) /\ more \in Seq(Activity!Items)
         /\ more \in Seq(Item) /\ Len(more) \in Nat
    BY <2>8, <2>11, ItemsSeq, ConcatProperties, LenProperties
  <2>13. /\ Told(log, lastEngine, hist \o more, m, p, failed)
         /\ Told(<<>>, lastEngine, hist \o more, m, p, FALSE)
    <3>1. first \in Nat
      BY <2>7
    <3>2. Told(log, lastEngine, hist \o (M \o R), m, first + Len(R) - 1, failed)
      <4>1. /\ hist \in Seq(Item) /\ m \in 0 .. Len(hist) /\ lastEngine \in 0 .. m
            /\ Told(log, lastEngine, hist, m, lastDevice, failed)
            /\ log \in Seq(Item) /\ failed \in BOOLEAN /\ lastDevice \in Nat
        BY <1>4, <1>5, <1>6
      <4>2. M \in Seq(Item) /\ R \in Seq(Item)
        BY <2>12
      <4> QED
        BY <1>1, <2>7, <2>9, <2>11, <4>1, <4>2, <3>1, ToldTakes
    <3>3. Told(<<>>, lastEngine, hist \o (M \o R), m, first + Len(R) - 1, FALSE)
      BY <1>1, <1>4, <1>5, <1>7, <2>7, <2>9, <2>11, <2>12, <3>1, ToldTakes
    <3> QED
      BY <2>10, <3>2, <3>3
  <2> HIDE DEF more
  <2>14. engine' = Ring(hist \o more, Len(hist) + Len(more))
    <3>1. engine' = Activity!Record(Ring(hist, Len(hist)), more)
      BY <1>4, <2>6 DEF more
    <3> QED
      BY <1>1, <1>4, <2>12, <3>1, RingRecords
  <2>15. hist \o more \in Seq(Activity!Items) /\ Len(hist \o more) = Len(hist) + Len(more)
    BY <1>4, <2>12, ConcatProperties
  <2>16. Ring(hist \o more, m) = Ring(hist, m)
    BY <1>1, <1>4, <2>12, PendKept
  <2>17. m \in 0 .. Len(hist \o more)
    BY <1>4, <2>12, <2>15
  <2>18. EngineInv'
    BY <1>4, <1>9, <2>1, <2>2, <2>13, <2>14, <2>15, <2>16, <2>17
  <2>19. WorkerInv'
    <3>1. lastDevice' \in 0 .. p
      BY <2>2, <2>7
    <3> QED
      BY <1>5, <1>8, <2>1, <3>1
  <2> QED
    BY <1>6, <2>1, <2>18, <2>19 DEF LogInv
<1>16. CASE Activity!Publishes
  <2>1. /\ shown' = engine
        /\ UNCHANGED <<activityDevice, posted, engine, lastDevice, lastEngine, log,
                       failed, others, clears>>
    BY <1>16 DEF Activity!Publishes
  <2>2. /\ Told(log, lastEngine, hist, Len(hist), lastDevice, failed)
        /\ Told(<<>>, lastEngine, hist, Len(hist), lastDevice, FALSE)
    BY <1>1, <1>4, <1>5, <1>6, <1>7, ToldPublishes
  <2>3. lastEngine \in 0 .. Len(hist)
    BY <1>4
  <2>4. EngineInv'
    BY <1>4, <1>9, <2>1, <2>2, <2>3
  <2> QED
    BY <1>6, <1>10, <2>1, <2>4 DEF LogInv
<1>17. CASE Activity!Logs
  <2>1. /\ lastEngine' = shown.next - 1
        /\ \/ log' = log \o Activity!Fresh /\ UNCHANGED <<failed, clears>>
           \/ /\ clears < Clears /\ clears' = clears + 1
              /\ failed' = TRUE /\ UNCHANGED log
        /\ UNCHANGED <<activityDevice, posted, engine, shown, lastDevice, others>>
    BY <1>17 DEF Activity!Logs
  <2>2. m \in Nat /\ shown.next = m + 1 /\ lastEngine' = m /\ m \in 0 .. m
    BY <1>4, <2>1 DEF Ring
  <2> DEFINE P == Pend(lastEngine, hist, m)
  <2>3. Activity!Fresh = P
    BY <1>1, <1>4, PendIs DEF Activity!Fresh
  <2>4. P \in Seq(Activity!Items)
    <3>1. Start(m) \in Nat \ {0} /\ Start(m) <= m + 1 /\ m <= Len(hist)
          /\ lastEngine + 1 \in Nat \ {0} /\ lastEngine + 1 <= m + 1
      BY <1>1, <1>4, <2>2, RingIs
    <3>2. /\ SubSeq(hist, Start(m), m) \in Seq(Activity!Items)
          /\ SubSeq(hist, lastEngine + 1, m) \in Seq(Activity!Items)
      BY <1>4, <2>2, <3>1, StretchIs
    <3>3. <<Activity!Gap>> \in Seq(Activity!Items)
      <4>1. Activity!Gap \in Activity!Items
        BY DEF Activity!Items
      <4> QED
        BY <4>1
    <3> QED
      BY <3>2, <3>3, ConcatProperties DEF Pend
  <2> HIDE DEF P
  <2>5. /\ Told(log \o P, m, hist, m, lastDevice, failed)
        /\ Told(log, m, hist, m, lastDevice, TRUE)
    BY <1>1, <1>4, <1>5, <1>6, ToldLogs DEF P
  <2>6. Told(<<>>, m, hist, m, lastDevice, FALSE)
    BY <1>1, <1>4, <1>5, <1>7, ToldLogs
  <2>7. CASE log' = log \o Activity!Fresh /\ UNCHANGED <<failed, clears>>
    <3>1. log' = log \o P /\ log \o P \in Seq(Activity!Items)
      BY <1>6, <2>3, <2>4, <2>7, ConcatProperties
    <3>2. EngineInv'
      BY <1>4, <1>9, <2>1, <2>2, <2>5, <2>6, <2>7, <3>1
    <3> QED
      BY <1>6, <1>10, <2>1, <2>7, <3>1, <3>2 DEF LogInv
  <2>8. CASE clears < Clears /\ clears' = clears + 1 /\ failed' = TRUE /\ UNCHANGED log
    <3>1. EngineInv'
      BY <1>4, <1>9, <2>1, <2>2, <2>5, <2>6, <2>8
    <3>2. clears' \in 0 .. Clears
      BY <1>1, <1>6, <2>8
    <3> QED
      BY <1>6, <1>10, <2>1, <2>8, <3>1, <3>2 DEF LogInv
  <2> QED
    BY <2>1, <2>7, <2>8
<1>18. CASE Activity!Clear
  <2>1. /\ clears < Clears /\ clears' = clears + 1
        /\ log' = <<Activity!Cleared>> /\ failed' = FALSE
        /\ UNCHANGED <<activityDevice, posted, engine, shown, lastDevice, lastEngine,
                       others>>
    BY <1>18 DEF Activity!Clear
  <2>2. Told(<<Activity!Cleared>>, lastEngine, hist, m, lastDevice, FALSE)
    BY <1>1, <1>4, <1>5, <1>7, ToldLogs
  <2>3. EngineInv'
    BY <1>4, <1>9, <2>1, <2>2
  <2>4. log' \in Seq(Activity!Items)
    <3>1. Activity!Cleared \in Activity!Items
      BY DEF Activity!Items
    <3> QED
      BY <2>1, <3>1
  <2>5. clears' \in 0 .. Clears /\ failed' \in BOOLEAN
    <3>1. clears \in 0 .. Clears /\ clears < Clears /\ clears' = clears + 1
      BY <1>6, <2>1
    <3>2. clears' \in 0 .. Clears
      BY <1>1, <3>1
    <3>3. failed' = FALSE
      BY <2>1
    <3> QED
      BY <3>2, <3>3
  <2> QED
    BY <1>6, <1>10, <2>1, <2>3, <2>4, <2>5 DEF LogInv
<1>19. CASE UNCHANGED activityVars
  <2>1. UNCHANGED <<activityDevice, posted, engine, shown, lastDevice, lastEngine, log,
                    failed, others, clears>>
    BY <1>19 DEF activityVars
  <2> QED
    BY <1>6, <1>10, <1>11, <2>1 DEF LogInv
<1> QED
  BY <1>12, <1>13, <1>14, <1>15, <1>16, <1>17, <1>18, <1>19 DEF Activity!Next

----------------------------------------------------------------------------
(***************************************************************************)
(* The notices (Notices), for any messages, limits and number of changes   *)
(* and clicks.                                                             *)
(***************************************************************************)

\* A set of numbers that is not empty has a least one.
LEMMA LeastNumber ==
  ASSUME NEW S \in SUBSET Nat, S # {}
  PROVE  \E least \in S : \A n \in S : least <= n
<1>1. PICK least \in S : \A n \in S : ~(<<n, least>> \in OpToRel(<, Nat))
  BY WFMin, NatLessThanWellFounded
<1>2. ASSUME NEW n \in S PROVE least <= n
  <2>1. n < least => <<n, least>> \in OpToRel(<, Nat)
    BY DEF OpToRel
  <2>2. n \in Nat /\ least \in Nat /\ ~(n < least)
    BY <1>1, <2>1
  <2> QED BY <2>2
<1> QED BY <1>2

\* How the numbers up to n grow with n.
LEMMA UptoIs ==
  ASSUME NEW top \in Nat, NEW places \in SUBSET (1 .. top)
  PROVE  /\ {k \in places : k <= top} = places
         /\ {k \in places : k <= 0} = {}
         /\ \A n \in Nat :
              {k \in places : k <= n + 1} =
                 IF n + 1 \in places THEN {k \in places : k <= n} \cup {n + 1}
                                     ELSE {k \in places : k <= n}
<1>1. \A k \in places : k \in Nat /\ 1 <= k /\ k <= top
  OBVIOUS
<1>2. {k \in places : k <= top} = places
  BY <1>1
<1>3. {k \in places : k <= 0} = {}
  <2>1. \A k \in places : ~(k <= 0)
    BY <1>1
  <2> QED
    BY <2>1
<1>4. ASSUME NEW n \in Nat
      PROVE  {k \in places : k <= n + 1} =
                 IF n + 1 \in places THEN {k \in places : k <= n} \cup {n + 1}
                                     ELSE {k \in places : k <= n}
  <2>1. \A k \in places : k <= n + 1 <=> k <= n \/ k = n + 1
    BY <1>1
  <2>2. CASE n + 1 \in places
    BY <2>1, <2>2
  <2>3. CASE n + 1 \notin places
    BY <2>1, <2>3
  <2> QED
    BY <2>2, <2>3
<1> QED
  BY <1>2, <1>3, <1>4

\* Every rank in a finite set of numbers is the rank of one of them.
LEMMA Ranks ==
  ASSUME NEW top \in Nat, NEW places \in SUBSET (1 .. top),
         NEW i \in 1 .. Cardinality(places)
  PROVE  /\ Cardinality(places) \in Nat
         /\ \E n \in places : Cardinality({k \in places : k <= n}) = i
<1> DEFINE Upto(n) == {k \in places : k <= n}
<1>1. IsFiniteSet(places) /\ Cardinality(places) \in Nat
  <2>1. IsFiniteSet(1 .. top)
    BY FS_Interval
  <2>2. IsFiniteSet(places)
    BY <2>1, FS_Subset
  <2> QED
    BY <2>2, FS_CardinalityType
<1>2. ASSUME NEW n \in Nat PROVE IsFiniteSet(Upto(n)) /\ Cardinality(Upto(n)) \in Nat
  <2>1. Upto(n) \in SUBSET places
    OBVIOUS
  <2> HIDE DEF Upto
  <2>2. IsFiniteSet(Upto(n))
    BY <1>1, <2>1, FS_Subset
  <2> QED
    BY <2>2, FS_CardinalityType
<1>3. /\ Upto(top) = places /\ Upto(0) = {}
      /\ \A n \in Nat : Upto(n + 1) = IF n + 1 \in places THEN Upto(n) \cup {n + 1} ELSE Upto(n)
  BY UptoIs
<1> HIDE DEF Upto
<1> DEFINE S == {n \in Nat : Cardinality(Upto(n)) >= i}
<1>6. S \in SUBSET Nat /\ top \in S
  BY <1>1, <1>3
<1>7. PICK least \in S : \A n \in S : least <= n
  BY <1>6, LeastNumber
<1>8. least # 0
  <2>1. Cardinality(Upto(0)) = 0
    BY <1>3, FS_EmptySet
  <2> QED
    BY <2>1
<1>9. least - 1 \in Nat /\ (least - 1) + 1 = least
  BY <1>8
<1>10. ~(Cardinality(Upto(least - 1)) >= i)
  <2> DEFINE n == least - 1
  <2>1. n \in Nat /\ ~(least <= n)
    BY <1>9
  <2> HIDE DEF n
  <2>2. n \notin S
    BY <1>7, <2>1
  <2>3. ~(Cardinality(Upto(n)) >= i)
    BY <2>1, <2>2
  <2> QED
    BY <2>3 DEF n
<1>11. Cardinality(Upto(least - 1)) < i /\ Cardinality(Upto(least)) >= i
  BY <1>2, <1>9, <1>10
<1>12. Upto(least) = IF least \in places THEN Upto(least - 1) \cup {least} ELSE Upto(least - 1)
  BY <1>3, <1>9
<1>13. least \in places
  BY <1>2, <1>9, <1>11, <1>12
<1>14. Cardinality(Upto(least)) <= Cardinality(Upto(least - 1)) + 1
  <2>1. IsFiniteSet(Upto(least - 1))
    BY <1>2, <1>9
  <2>2. Cardinality(Upto(least - 1) \cup {least}) =
          IF least \in Upto(least - 1) THEN Cardinality(Upto(least - 1))
                                       ELSE Cardinality(Upto(least - 1)) + 1
    BY <2>1, FS_AddElement
  <2> QED
    BY <1>2, <1>9, <1>12, <1>13, <2>2
<1>15. Cardinality(Upto(least)) = i
  BY <1>2, <1>9, <1>11, <1>14
<1> QED
  BY <1>1, <1>13, <1>15 DEF Upto

\* The cardinality that Notices uses is that of the theorems.
LEMMA SameCardinality ==
  ASSUME NEW S
  PROVE  Notes!Cardinality(S) = Cardinality(S)
  BY DEF Notes!Cardinality, Cardinality

\* What is picked from a list has as many elements as places, all from the list.
LEMMA PickedIs ==
  ASSUME NEW top \in Nat, NEW places \in SUBSET (1 .. top), NEW list, NEW T,
         \A n \in places : list[n] \in T
  PROVE  /\ Notes!Picked(list, places) \in Seq(T)
         /\ Len(Notes!Picked(list, places)) = Cardinality(places)
<1> DEFINE at(i) == CHOOSE n \in places : Notes!Cardinality({k \in places : k <= n}) = i
<1>1. Cardinality(places) \in Nat
  <2>1. IsFiniteSet(1 .. top)
    BY FS_Interval
  <2> QED
    BY <2>1, FS_Subset, FS_CardinalityType
<1>2. ASSUME NEW i \in 1 .. Cardinality(places) PROVE at(i) \in places
  <2> DEFINE Rank(n) == Notes!Cardinality({k \in places : k <= n})
  <2>1. \E n \in places : Rank(n) = i
    <3>1. PICK n \in places : Cardinality({k \in places : k <= n}) = i
      BY Ranks
    <3>2. Rank(n) = i
      BY <3>1, SameCardinality
    <3> HIDE DEF Rank
    <3> QED
      BY <3>2
  <2>2. at(i) = CHOOSE n \in places : Rank(n) = i
    OBVIOUS
  <2> HIDE DEF Rank, at
  <2> QED
    BY <2>1, <2>2
<1>3. Notes!Picked(list, places) = [i \in 1 .. Cardinality(places) |-> list[at(i)]]
  <2>1. Notes!Cardinality(places) = Cardinality(places)
    BY SameCardinality
  <2>2. Notes!Picked(list, places) = [i \in 1 .. Notes!Cardinality(places) |-> list[at(i)]]
    BY DEF Notes!Picked
  <2> HIDE DEF at
  <2> QED
    BY <2>1, <2>2
<1> HIDE DEF at
<1>4. \A i \in 1 .. Cardinality(places) : list[at(i)] \in T
  BY <1>2
<1> DEFINE size == Cardinality(places)
<1>5. size \in Nat
  BY <1>1
<1> HIDE DEF size
<1>6. [i \in 1 .. size |-> list[at(i)]] \in Seq(T) /\ Len([i \in 1 .. size |-> list[at(i)]]) = size
  BY <1>4, <1>5 DEF size
<1> QED
  BY <1>3, <1>6 DEF size

\* What an entry of the center is about, and the entry.
Key == Notes!Warning \cup {Notes!Own}
Entry == [id : Nat, key : Key]

\* The toasts are the newest entries, and numbers go down from the newest.
CenterInv ==
  /\ entries \in Seq(Entry) /\ Len(entries) <= EntryLimit
  /\ toasts \in Seq(Nat) /\ Len(toasts) <= ToastLimit /\ Len(toasts) <= Len(entries)
  /\ lastEntry \in Nat
  /\ \A i \in 1 .. Len(toasts) : toasts[i] = entries[i].id
  /\ \A i \in 1 .. Len(entries) : entries[i].id <= lastEntry
  /\ \A i, j \in 1 .. Len(entries) : i < j => entries[i].id > entries[j].id

\* What the ring of alerts holds.
Alert == [id : Nat, warning : Notes!Warning]

\* Alerts have numbers up to the last.
Numbered(list) ==
  /\ list \in Seq(Alert)
  /\ \A i \in 1 .. Len(list) : list[i].id <= lastAlert

\* What is known about the warnings: the registries, what is active of them, and
\* what the interface knows and told.
RegistryInv ==
  /\ sources \in [Notes!Devices -> Messages \cup {NoMessage}]
  /\ reported \in [Notes!Devices -> Messages \cup {NoMessage}]
  /\ warnings \in [Notes!Sources -> Messages \cup {NoMessage}]
  /\ active \subseteq Notes!Warning /\ noticesShown.active \subseteq Notes!Warning
  /\ activeKeys \subseteq Notes!Warning
  /\ told \subseteq Notes!Warning /\ standing \subseteq Notes!Warning
  /\ enabled \in {"yes", "no"}
  /\ excuse \in {"none", "overwritten", "muted"}

\* Alerts have numbers up to the last, the ring keeps its limit, and the interface
\* has seen no number that was not given.
AlertsInv ==
  /\ Numbered(alerts) /\ Len(alerts) <= AlertLimit
  /\ Numbered(noticesShown.alerts)
  /\ lastAlert \in Nat /\ lastSeen \in 0 .. lastAlert

\* The inductive invariant of the notices.
NoticesInv == RegistryInv /\ AlertsInv /\ CenterInv

\* The invariant implies the types and ToastsHaveEntries.
LEMMA NoticesSafe ==
  ASSUME NoticesInv, Notes!NoticesAssumption
  PROVE  Notes!TypeOK /\ Notes!ToastsHaveEntries
<1>1. Notes!TypeOK
  BY DEF NoticesInv, RegistryInv, AlertsInv, CenterInv, Numbered, Notes!TypeOK
<1>2. /\ DOMAIN entries = 1 .. Len(entries) /\ DOMAIN toasts = 1 .. Len(toasts)
      /\ Len(entries) \in Nat /\ Len(toasts) \in Nat
  BY DEF NoticesInv, CenterInv
<1>3. Notes!ToastsHaveEntries
  BY <1>2 DEF NoticesInv, CenterInv, Notes!ToastsHaveEntries
<1> QED
  BY <1>1, <1>3

\* The invariant holds in the beginning.
LEMMA NoticesInit ==
  ASSUME Notes!NoticesAssumption, Notes!Init
  PROVE  NoticesInv
<1>1. lastAlert = 0 /\ lastSeen = 0 /\ lastEntry = 0 /\ alerts = <<>> /\ entries = <<>>
      /\ toasts = <<>> /\ noticesShown = [active |-> {}, alerts |-> <<>>]
  BY DEF Notes!Init
<1>2. AlertLimit \in Nat /\ EntryLimit \in Nat /\ ToastLimit \in Nat
  BY DEF Notes!NoticesAssumption
<1>3. CenterInv
  <2>1. entries \in Seq(Entry) /\ toasts \in Seq(Nat)
    BY <1>1, EmptySeq
  <2>2. Len(entries) = 0 /\ Len(toasts) = 0
    BY <1>1
  <2> QED
    BY <1>1, <1>2, <2>1, <2>2 DEF CenterInv
<1>4. Numbered(<<>>) /\ Len(alerts) <= AlertLimit
  <2>1. <<>> \in Seq(Alert)
    BY EmptySeq
  <2> QED
    BY <1>1, <1>2, <2>1 DEF Numbered
<1>5. RegistryInv
  <2>1. /\ sources = [s \in Notes!Devices |-> NoMessage] /\ reported = sources
        /\ warnings = [s \in Notes!Sources |-> NoMessage]
        /\ active = {} /\ activeKeys = {} /\ told = {} /\ standing = {}
        /\ enabled = "yes" /\ excuse = "none"
    BY DEF Notes!Init
  <2> QED
    BY <1>1, <2>1 DEF RegistryInv
<1>6. AlertsInv
  BY <1>1, <1>4 DEF AlertsInv
<1> QED
  BY <1>3, <1>5, <1>6 DEF NoticesInv

\* The first elements of a sequence.
LEMMA ShortenIs ==
  ASSUME NEW S, NEW list \in Seq(S), NEW limit \in Nat
  PROVE  LET short == Notes!Shorten(list, limit)
         IN /\ short \in Seq(S) /\ Len(short) <= limit /\ Len(short) <= Len(list)
            /\ Len(short) = IF Len(list) < limit THEN Len(list) ELSE limit
            /\ \A i \in 1 .. Len(short) : short[i] = list[i]
<1> DEFINE m == IF Len(list) < limit THEN Len(list) ELSE limit
<1>1. m \in Nat /\ m <= limit /\ m <= Len(list) /\ Len(list) \in Nat
  BY LenProperties
<1>2. \A i \in 1 .. m : list[i] \in S
  BY <1>1, ElementOfSeq
<1>3. Notes!Shorten(list, limit) = SubSeq(list, 1, m)
  BY DEF Notes!Shorten
<1> HIDE DEF m
<1>4. /\ SubSeq(list, 1, m) \in Seq(S)
      /\ Len(SubSeq(list, 1, m)) = IF 1 <= m THEN m - 1 + 1 ELSE 0
      /\ \A i \in 1 .. m - 1 + 1 : SubSeq(list, 1, m)[i] = list[1 + i - 1]
  BY <1>1, <1>2, SubSeqProperties
<1>5. Len(SubSeq(list, 1, m)) = m /\ \A i \in 1 .. m : SubSeq(list, 1, m)[i] = list[i]
  BY <1>1, <1>4
<1> QED
  BY <1>1, <1>3, <1>4, <1>5 DEF m

\* push_item keeps the center's invariant, for any keys.
LEMMA PushesKeeps ==
  ASSUME Notes!NoticesAssumption, CenterInv, NEW keys \in Seq(Key), Notes!Pushes(keys)
  PROVE  CenterInv'
<1> DEFINE n == Len(keys)
<1> DEFINE news == [i \in DOMAIN keys |-> [id |-> lastEntry + i, key |-> keys[i]]]
<1> DEFINE new == Notes!Reverse(news)
<1> DEFINE ids == [i \in DOMAIN new |-> new[i].id]
<1>1. n \in Nat /\ DOMAIN keys = 1 .. n /\ \A i \in 1 .. n : keys[i] \in Key
  BY LenProperties, ElementOfSeq
<1>2. /\ entries \in Seq(Entry) /\ Len(entries) <= EntryLimit
      /\ toasts \in Seq(Nat) /\ Len(toasts) <= ToastLimit /\ Len(toasts) <= Len(entries)
      /\ lastEntry \in Nat
      /\ \A i \in 1 .. Len(toasts) : toasts[i] = entries[i].id
      /\ \A i \in 1 .. Len(entries) : entries[i].id <= lastEntry
      /\ \A i, j \in 1 .. Len(entries) : i < j => entries[i].id > entries[j].id
      /\ Len(entries) \in Nat /\ Len(toasts) \in Nat
  BY LenProperties DEF CenterInv
<1>3. /\ EntryLimit \in Nat /\ ToastLimit \in Nat /\ ToastLimit <= EntryLimit
  BY DEF Notes!NoticesAssumption
<1>4. news \in Seq(Entry) /\ Len(news) = n
      /\ \A i \in 1 .. n : news[i] = [id |-> lastEntry + i, key |-> keys[i]]
  <2>1. \A i \in 1 .. n : [id |-> lastEntry + i, key |-> keys[i]] \in Entry
    BY <1>1, <1>2 DEF Entry
  <2> DEFINE f == [i \in 1 .. n |-> [id |-> lastEntry + i, key |-> keys[i]]]
  <2>2. f = news
    BY <1>1
  <2>3. f \in Seq(Entry) /\ Len(f) = n
    <3> HIDE DEF n
    <3> QED
      BY <1>1, <2>1, IsASeq
  <2> QED
    BY <1>1, <2>2, <2>3
<1> HIDE DEF n, news
<1>5. new \in Seq(Entry) /\ Len(new) = n /\ DOMAIN new = 1 .. n
      /\ \A i \in 1 .. n : new[i].id = lastEntry + n + 1 - i
  <2>1. new = [i \in 1 .. n |-> news[(n - i) + 1]]
    BY <1>4 DEF Notes!Reverse
  <2>2. ASSUME NEW i \in 1 .. n
        PROVE  news[(n - i) + 1] \in Entry /\ news[(n - i) + 1].id = lastEntry + n + 1 - i
    <3>1. (n - i) + 1 \in 1 .. n
      BY <1>1
    <3>2. news[(n - i) + 1] \in Entry
      BY <1>4, <3>1, ElementOfSeq
    <3>3. news[(n - i) + 1].id = lastEntry + ((n - i) + 1)
      BY <1>4, <3>1
    <3> QED
      BY <1>1, <1>2, <3>2, <3>3
  <2>3. new \in Seq(Entry) /\ Len(new) = n
    BY <1>1, <2>1, <2>2, IsASeq
  <2> HIDE DEF new
  <2> QED
    BY <2>1, <2>2, <2>3
<1> HIDE DEF new
<1>6. ids \in Seq(Nat) /\ Len(ids) = n /\ \A i \in 1 .. n : ids[i] = lastEntry + n + 1 - i
  <2>1. \A i \in 1 .. n : new[i].id \in Nat
    BY <1>1, <1>2, <1>5
  <2>2. ids = [i \in 1 .. n |-> new[i].id]
    BY <1>5
  <2> HIDE DEF ids
  <2>3. ids \in Seq(Nat) /\ Len(ids) = n
    BY <1>1, <2>1, <2>2, IsASeq
  <2> QED
    BY <1>5, <2>2, <2>3
<1>7. /\ lastEntry' = lastEntry + n
      /\ entries' = Notes!Shorten(new \o entries, EntryLimit)
      /\ toasts' = Notes!Shorten(ids \o toasts, ToastLimit)
  BY DEF Notes!Pushes, new, news, n
<1> HIDE DEF ids
<1> DEFINE all == new \o entries
<1> DEFINE pops == ids \o toasts
<1>8. /\ all \in Seq(Entry) /\ Len(all) = n + Len(entries)
      /\ \A i \in 1 .. n : all[i] = new[i]
      /\ \A i \in n + 1 .. n + Len(entries) : all[i] = entries[i - n]
  <2>1. /\ all \in Seq(Entry) /\ Len(all) = Len(new) + Len(entries)
        /\ \A i \in 1 .. Len(new) + Len(entries) :
              all[i] = IF i <= Len(new) THEN new[i] ELSE entries[i - Len(new)]
    BY <1>2, <1>5, ConcatProperties
  <2> HIDE DEF all
  <2> QED
    BY <1>1, <1>2, <1>5, <2>1
<1>9. /\ pops \in Seq(Nat) /\ Len(pops) = n + Len(toasts)
      /\ \A i \in 1 .. n : pops[i] = ids[i]
      /\ \A i \in n + 1 .. n + Len(toasts) : pops[i] = toasts[i - n]
  <2>1. /\ pops \in Seq(Nat) /\ Len(pops) = Len(ids) + Len(toasts)
        /\ \A i \in 1 .. Len(ids) + Len(toasts) :
              pops[i] = IF i <= Len(ids) THEN ids[i] ELSE toasts[i - Len(ids)]
    BY <1>2, <1>6, ConcatProperties
  <2> HIDE DEF pops
  <2> QED
    BY <1>1, <1>2, <1>6, <2>1, SMTT(30)
<1> HIDE DEF all, pops
<1>10. ASSUME NEW i \in 1 .. Len(pops) PROVE i \in 1 .. Len(all) /\ pops[i] = all[i].id
  <2>1. i \in 1 .. Len(all)
    BY <1>1, <1>2, <1>8, <1>9
  <2>2. CASE i \in 1 .. n
    BY <1>5, <1>6, <1>8, <1>9, <2>2, SMTT(30)
  <2>3. CASE i \in n + 1 .. n + Len(toasts)
    <3>1. i - n \in 1 .. Len(toasts) /\ i \in n + 1 .. n + Len(entries)
      BY <1>1, <1>2, <2>3
    <3> QED
      BY <1>2, <1>8, <1>9, <2>1, <2>3, <3>1
  <2>4. i \in 1 .. n \/ i \in n + 1 .. n + Len(toasts)
    BY <1>1, <1>2, <1>9
  <2> QED
    BY <2>1, <2>2, <2>3, <2>4
<1>11. ASSUME NEW i \in 1 .. Len(all)
       PROVE  /\ i \in 1 .. n \/ (i \in n + 1 .. n + Len(entries) /\ i - n \in 1 .. Len(entries))
              /\ all[i].id \in Nat /\ all[i].id <= lastEntry + n
              /\ i \in 1 .. n => all[i].id = lastEntry + n + 1 - i
              /\ i \notin 1 .. n => all[i].id = entries[i - n].id /\ all[i].id <= lastEntry
  <2>1. i \in 1 .. n \/ (i \in n + 1 .. n + Len(entries) /\ i - n \in 1 .. Len(entries))
    BY <1>1, <1>2, <1>8
  <2>2. CASE i \in 1 .. n
    BY <1>1, <1>2, <1>5, <1>8, <2>2
  <2>3. CASE i \in n + 1 .. n + Len(entries) /\ i - n \in 1 .. Len(entries)
    <3>1. all[i] = entries[i - n] /\ entries[i - n].id <= lastEntry
      BY <1>2, <1>8, <2>3
    <3>2. entries[i - n].id \in Nat
      <4>1. entries[i - n] \in Entry
        BY <1>2, <2>3, ElementOfSeq
      <4> QED
        BY <4>1 DEF Entry
    <3>3. i \notin 1 .. n
      BY <1>1, <2>3
    <3> QED
      BY <1>1, <1>2, <2>1, <3>1, <3>2, <3>3
  <2> QED
    BY <2>1, <2>2, <2>3
<1>12. ASSUME NEW i \in 1 .. Len(all), NEW j \in 1 .. Len(all), i < j
       PROVE  all[i].id > all[j].id
  <2>1. CASE j \in 1 .. n
    <3>1. i \in 1 .. n
      BY <1>1, <1>12, <2>1
    <3>2. all[i].id = lastEntry + n + 1 - i /\ all[j].id = lastEntry + n + 1 - j
      BY <1>11, <2>1, <3>1
    <3> QED
      BY <1>1, <1>2, <1>12, <2>1, <3>1, <3>2
  <2>2. CASE j \notin 1 .. n /\ i \in 1 .. n
    <3>1. all[i].id = lastEntry + n + 1 - i /\ all[j].id <= lastEntry /\ all[j].id \in Nat
      BY <1>11, <2>2
    <3> QED
      BY <1>1, <1>2, <2>2, <3>1
  <2>3. CASE j \notin 1 .. n /\ i \notin 1 .. n
    <3>1. i - n \in 1 .. Len(entries) /\ j - n \in 1 .. Len(entries) /\ i - n < j - n
      BY <1>1, <1>11, <1>12, <2>3
    <3>2. entries[i - n].id > entries[j - n].id
      BY <1>2, <3>1
    <3> QED
      BY <1>11, <2>3, <3>2
  <2>4. CASE j \in 1 .. n /\ i \notin 1 .. n
    BY <2>1, <2>4
  <2> QED
    BY <2>1, <2>2, <2>3, <2>4
<1> DEFINE e == Notes!Shorten(all, EntryLimit)
<1> DEFINE t == Notes!Shorten(pops, ToastLimit)
<1>13. /\ e \in Seq(Entry) /\ Len(e) <= EntryLimit /\ Len(e) <= Len(all)
       /\ Len(e) = IF Len(all) < EntryLimit THEN Len(all) ELSE EntryLimit
       /\ \A i \in 1 .. Len(e) : e[i] = all[i]
       /\ Len(e) \in Nat /\ Len(all) \in Nat
  BY <1>3, <1>8, ShortenIs, LenProperties
<1>14. /\ t \in Seq(Nat) /\ Len(t) <= ToastLimit /\ Len(t) <= Len(pops)
       /\ Len(t) = IF Len(pops) < ToastLimit THEN Len(pops) ELSE ToastLimit
       /\ \A i \in 1 .. Len(t) : t[i] = pops[i]
       /\ Len(t) \in Nat /\ Len(pops) \in Nat
  BY <1>3, <1>9, ShortenIs, LenProperties
<1>15. entries' = e /\ toasts' = t
  BY <1>7 DEF all, pops
<1> HIDE DEF e, t
<1>16. Len(t) <= Len(e)
  BY <1>1, <1>2, <1>3, <1>8, <1>9, <1>13, <1>14
<1>17. ASSUME NEW i \in 1 .. Len(t) PROVE t[i] = e[i].id
  <2>1. i \in 1 .. Len(pops) /\ i \in 1 .. Len(e)
    BY <1>13, <1>14, <1>16
  <2>2. pops[i] = all[i].id
    BY <1>10, <2>1
  <2> QED
    BY <1>13, <1>14, <2>1, <2>2
<1>18. ASSUME NEW i \in 1 .. Len(e) PROVE e[i].id <= lastEntry + n
  <2>1. i \in 1 .. Len(all)
    BY <1>13
  <2> QED
    BY <1>11, <1>13, <2>1
<1>19. ASSUME NEW i \in 1 .. Len(e), NEW j \in 1 .. Len(e), i < j PROVE e[i].id > e[j].id
  <2>1. i \in 1 .. Len(all) /\ j \in 1 .. Len(all)
    BY <1>13
  <2>2. all[i].id > all[j].id
    BY <1>12, <1>19, <2>1
  <2> QED
    BY <1>13, <2>2
<1>20. lastEntry + n \in Nat
  BY <1>1, <1>2
<1> QED
  BY <1>7, <1>13, <1>14, <1>15, <1>16, <1>17, <1>18, <1>19, <1>20 DEF CenterInv, Entry, Key, Notes!Warning, Notes!Own, Notes!Sources, Notes!Devices

\* The only source of warnings in the worker.
LEMMA WebcamIsTheDevice == Notes!Devices = {"Webcam"} /\ Notes!Sources = {"Webcam"} \cup OwnSources
<1>1. DOMAIN <<"Webcam">> = {1}
  OBVIOUS
<1>2. {<<"Webcam">>[i] : i \in {1}} = {"Webcam"}
  OBVIOUS
<1> QED
  BY <1>1, <1>2 DEF Notes!Devices, Notes!Sources, Notes!ToSet

\* WarningRegistry::active_alerts gives warnings.
LEMMA ActiveAreWarnings ==
  ASSUME NEW registry \in [Notes!Sources -> Messages \cup {NoMessage}]
  PROVE  Notes!ActiveIn(registry) \subseteq Notes!Warning
BY DEF Notes!ActiveIn, Notes!Warning

\* record_alert keeps the ring within its limit and its numbers below the last.
LEMMA RecordsKeeps ==
  ASSUME Notes!NoticesAssumption, Numbered(alerts), lastAlert \in Nat,
         NEW list \in Seq(Notes!Warning), Notes!RecordsAlerts(list)
  PROVE  /\ Numbered(alerts)' /\ Len(alerts') <= AlertLimit
         /\ lastAlert' \in Nat /\ lastAlert <= lastAlert'
<1> DEFINE n == Len(list)
<1> DEFINE news == [i \in DOMAIN list |-> [id |-> lastAlert + i, warning |-> list[i]]]
<1> DEFINE all == alerts \o news
<1>1. n \in Nat /\ DOMAIN list = 1 .. n /\ \A i \in 1 .. n : list[i] \in Notes!Warning
  BY LenProperties, ElementOfSeq
<1>2. alerts \in Seq(Alert) /\ Len(alerts) \in Nat /\ \A i \in 1 .. Len(alerts) : alerts[i].id <= lastAlert
  BY LenProperties DEF Numbered
<1>3. AlertLimit \in Nat \ {0}
  BY DEF Notes!NoticesAssumption
<1>4. news \in Seq(Alert) /\ Len(news) = n /\ \A i \in 1 .. n : news[i].id = lastAlert + i
  <2>1. \A i \in 1 .. n : [id |-> lastAlert + i, warning |-> list[i]] \in Alert
    BY <1>1 DEF Alert
  <2> DEFINE f == [i \in 1 .. n |-> [id |-> lastAlert + i, warning |-> list[i]]]
  <2>2. f = news
    BY <1>1
  <2>3. f \in Seq(Alert) /\ Len(f) = n
    <3> HIDE DEF n
    <3> QED
      BY <1>1, <2>1, IsASeq
  <2>4. \A i \in 1 .. n : f[i].id = lastAlert + i
    OBVIOUS
  <2> HIDE DEF f, news
  <2> QED
    BY <2>2, <2>3, <2>4
<1>5. lastAlert' = lastAlert + n
  BY DEF Notes!RecordsAlerts
<1>6. alerts' = SubSeq(all, IF Len(all) > AlertLimit THEN Len(all) - AlertLimit + 1 ELSE 1, Len(all))
  BY DEF Notes!RecordsAlerts
<1> HIDE DEF n, news
<1>7. /\ all \in Seq(Alert) /\ Len(all) = Len(alerts) + n
      /\ \A i \in 1 .. Len(alerts) + n :
            all[i] = IF i <= Len(alerts) THEN alerts[i] ELSE news[i - Len(alerts)]
  BY <1>2, <1>4, ConcatProperties
<1> HIDE DEF all
<1>8. ASSUME NEW i \in 1 .. Len(all) PROVE all[i] \in Alert /\ all[i].id <= lastAlert + n
  <2>1. all[i] \in Alert
    BY <1>7, ElementOfSeq
  <2>2. CASE i <= Len(alerts)
    <3>1. all[i] = alerts[i] /\ i \in 1 .. Len(alerts)
      BY <1>1, <1>2, <1>7, <2>2
    <3>2. alerts[i].id <= lastAlert /\ alerts[i] \in Alert
      BY <1>2, <3>1, ElementOfSeq
    <3>3. alerts[i].id \in Nat
      BY <3>2 DEF Alert
    <3> QED
      BY <1>1, <2>1, <3>1, <3>2, <3>3
  <2>3. CASE ~(i <= Len(alerts))
    <3>1. all[i] = news[i - Len(alerts)] /\ i - Len(alerts) \in 1 .. n
      BY <1>1, <1>2, <1>7, <2>3
    <3>2. all[i].id = lastAlert + (i - Len(alerts))
      BY <1>4, <3>1
    <3> QED
      BY <1>1, <2>1, <3>1, <3>2
  <2> QED
    BY <2>2, <2>3
<1> DEFINE first == IF Len(all) > AlertLimit THEN Len(all) - AlertLimit + 1 ELSE 1
<1> DEFINE last == Len(all)
<1>9. first \in 1 .. last + 1 /\ last \in Nat /\ last - first + 1 <= AlertLimit
      /\ last - first + 1 \in Nat
  BY <1>1, <1>2, <1>3, <1>7
<1>10. alerts' = SubSeq(all, first, last)
  BY <1>6
<1> HIDE DEF first
<1>11. \A i \in first .. last : all[i] \in Alert
  BY <1>8, <1>9
<1>12. /\ SubSeq(all, first, last) \in Seq(Alert)
       /\ Len(SubSeq(all, first, last)) = IF first <= last THEN last - first + 1 ELSE 0
       /\ \A i \in 1 .. last - first + 1 : SubSeq(all, first, last)[i] = all[first + i - 1]
  BY <1>9, <1>11, SubSeqProperties
<1>13. Len(alerts') = last - first + 1
  BY <1>9, <1>10, <1>12
<1>14. ASSUME NEW i \in 1 .. Len(alerts') PROVE alerts'[i].id <= lastAlert'
  <2>1. first + i - 1 \in 1 .. last /\ alerts'[i] = all[first + i - 1]
    BY <1>9, <1>10, <1>12, <1>13
  <2> QED
    BY <1>5, <1>8, <2>1
<1>15. Numbered(alerts)'
  <2>1. alerts' \in Seq(Alert)'
    BY <1>10, <1>12 DEF Alert, Notes!Warning
  <2> QED
    BY <1>14, <2>1 DEF Numbered
<1> QED
  BY <1>1, <1>5, <1>9, <1>13, <1>15

\* A longer numbering keeps what was numbered.
LEMMA NumberedKeeps ==
  ASSUME NEW list, Numbered(list), lastAlert \in Nat, lastAlert' \in Nat, lastAlert <= lastAlert'
  PROVE  /\ list \in Seq(Alert)
         /\ \A i \in 1 .. Len(list) : list[i].id <= lastAlert'
<1>1. list \in Seq(Alert)
  BY DEF Numbered
<1>2. ASSUME NEW i \in 1 .. Len(list) PROVE list[i].id <= lastAlert'
  <2>1. list[i] \in Alert /\ list[i].id <= lastAlert
    BY <1>1, ElementOfSeq DEF Numbered
  <2>2. list[i].id \in Nat
    BY <2>1 DEF Alert
  <2> QED
    BY <2>1, <2>2
<1> QED
  BY <1>1, <1>2

\* copy_device_sources_from gives warnings.
LEMMA ChangedAreWarnings ==
  ASSUME reported \in [Notes!Devices -> Messages \cup {NoMessage}]
  PROVE  Notes!Changed \in Seq(Notes!Warning)
<1> DEFINE message(n) == reported[<<"Webcam">>[n]]
<1> DEFINE fresh == {n \in DOMAIN <<"Webcam">> : message(n) \notin {NoMessage, warnings[<<"Webcam">>[n]]}}
<1> DEFINE all == [n \in DOMAIN <<"Webcam">> |-> [source |-> <<"Webcam">>[n], message |-> message(n)]]
<1>1. Notes!Changed = Notes!Picked(all, fresh)
  BY DEF Notes!Changed
<1>2. fresh \in SUBSET (1 .. 1)
  OBVIOUS
<1>3. ASSUME NEW n \in fresh PROVE all[n] \in Notes!Warning
  <2>1. n = 1
    BY <1>2
  <2>2. all[n] = [source |-> "Webcam", message |-> reported["Webcam"]] /\ reported["Webcam"] # NoMessage
    BY <2>1, <1>3
  <2>3. reported["Webcam"] \in Messages
    BY <2>2, WebcamIsTheDevice
  <2> QED
    BY <2>2, <2>3, WebcamIsTheDevice DEF Notes!Warning
<1> HIDE DEF fresh, all
<1> QED
  BY <1>1, <1>2, <1>3, PickedIs

\* record_alert, whatever the interface sees then, keeps what is known of alerts.
LEMMA AlertsKeep ==
  ASSUME Notes!NoticesAssumption, AlertsInv, NEW list \in Seq(Notes!Warning),
         Notes!RecordsAlerts(list), lastSeen' = lastSeen,
         \/ noticesShown' = noticesShown
         \/ noticesShown'.alerts = alerts'
  PROVE  AlertsInv'
<1>1. Numbered(alerts) /\ Numbered(noticesShown.alerts) /\ lastAlert \in Nat /\ lastSeen \in 0 .. lastAlert
  BY DEF AlertsInv
<1>2. /\ Numbered(alerts)' /\ Len(alerts') <= AlertLimit
      /\ lastAlert' \in Nat /\ lastAlert <= lastAlert'
  BY <1>1, RecordsKeeps
<1>3. Numbered(noticesShown.alerts)'
  <2>1. CASE noticesShown' = noticesShown
    <3> DEFINE seen == noticesShown.alerts
    <3>1. seen \in Seq(Alert) /\ \A i \in 1 .. Len(seen) : seen[i].id <= lastAlert'
      <4>1. Numbered(seen)
        BY <1>1
      <4> HIDE DEF seen
      <4> QED
        BY <1>1, <1>2, <4>1, NumberedKeeps
    <3> QED
      BY <2>1, <3>1 DEF Numbered, Alert, Notes!Warning
  <2>2. CASE noticesShown'.alerts = alerts'
    BY <1>2, <2>2 DEF Numbered
  <2> QED
    BY <2>1, <2>2
<1>4. lastSeen' \in 0 .. lastAlert'
  BY <1>1, <1>2
<1> QED
  BY <1>2, <1>3, <1>4 DEF AlertsInv

\* So does a step that leaves the alerts alone.
LEMMA AlertsStay ==
  ASSUME AlertsInv, UNCHANGED <<alerts, lastAlert, noticesShown>>, lastSeen' \in 0 .. lastAlert
  PROVE  AlertsInv'
BY DEF AlertsInv, Numbered, Alert, Notes!Warning

\* A step that leaves the center alone keeps its invariant.
LEMMA CenterStays ==
  ASSUME CenterInv, UNCHANGED <<entries, toasts, lastEntry>>
  PROVE  CenterInv'
BY DEF CenterInv, Entry, Key, Notes!Warning, Notes!Own

\* ingest_runtime_alerts.
LEMMA IngestKeeps ==
  ASSUME Notes!NoticesAssumption, NoticesInv, Notes!Ingest
  PROVE  NoticesInv'
<1>0. RegistryInv /\ AlertsInv /\ CenterInv
  BY DEF NoticesInv
<1> DEFINE list == noticesShown.alerts
<1> DEFINE fresh == {i \in DOMAIN list : list[i].id > lastSeen}
<1> DEFINE new == {i \in fresh : /\ list[i].warning \notin Notes!Known
                                 /\ \A j \in fresh : j < i => list[j].warning # list[i].warning}
<1> DEFINE warningsOf == [i \in DOMAIN list |-> list[i].warning]
<1> DEFINE keys == Notes!Picked(warningsOf, new)
<1>1. /\ activeKeys' = Notes!Known \cup Notes!ToSet(keys)
      /\ \/ /\ Notes!Pushes(keys)
            /\ told' = told \cup (Notes!ToSet(keys) \cap Notes!ActiveIn(warnings))
            /\ standing' = (standing \cap noticesShown.active) \cup Notes!ToSet(keys)
         \/ /\ UNCHANGED <<entries, toasts, lastEntry, told>>
            /\ standing' = standing \cap noticesShown.active
      /\ lastSeen' = IF fresh = {} THEN lastSeen ELSE Notes!Last(list).id
      /\ UNCHANGED <<sources, reported, warnings, active, alerts, lastAlert, noticesShown,
                     enabled, excuse, budget>>
  BY DEF Notes!Ingest, Notes!deviceVars, Notes!runtimeVars
<1>2. /\ list \in Seq(Alert) /\ Len(list) \in Nat /\ DOMAIN list = 1 .. Len(list)
      /\ \A i \in 1 .. Len(list) : list[i] \in Alert /\ list[i].id <= lastAlert
  BY <1>0, LenProperties, ElementOfSeq DEF AlertsInv, Numbered
<1>3. /\ keys \in Seq(Notes!Warning)
      /\ fresh # {} => Len(list) \in 1 .. Len(list)
  <2>1. new \in SUBSET (1 .. Len(list)) /\ fresh \in SUBSET (1 .. Len(list))
    BY <1>2
  <2>2. ASSUME NEW i \in new PROVE warningsOf[i] \in Notes!Warning
    <3>1. i \in 1 .. Len(list)
      BY <2>1
    <3>2. warningsOf[i] = list[i].warning /\ list[i] \in Alert
      BY <1>2, <3>1
    <3> QED
      BY <3>2 DEF Alert
  <2>3. fresh # {} => Len(list) \in 1 .. Len(list)
    BY <1>2, <2>1
  <2>4. Len(list) \in Nat
    BY <1>2
  <2> HIDE DEF new, warningsOf, list
  <2> QED
    BY <2>1, <2>2, <2>3, <2>4, PickedIs
<1> HIDE DEF keys, fresh, new, warningsOf
<1>4. Notes!ToSet(keys) \subseteq Notes!Warning
  <2>1. \A i \in DOMAIN keys : keys[i] \in Notes!Warning
    BY <1>3, LenProperties, ElementOfSeq
  <2> QED
    BY <2>1 DEF Notes!ToSet
<1>5. RegistryInv'
  <2>1. /\ activeKeys' \subseteq Notes!Warning
        /\ told' \subseteq Notes!Warning /\ standing' \subseteq Notes!Warning
    BY <1>0, <1>1, <1>4 DEF RegistryInv, Notes!Known
  <2> QED
    BY <1>0, <1>1, <2>1 DEF RegistryInv, Notes!Warning, Notes!Sources, Notes!Devices
<1>6. AlertsInv'
  <2>1. lastSeen' \in 0 .. lastAlert
    <3>1. CASE fresh = {}
      BY <1>0, <1>1, <3>1 DEF AlertsInv
    <3>2. CASE fresh # {}
      <4>1. lastSeen' = list[Len(list)].id
        BY <1>1, <3>2 DEF Notes!Last
      <4>2. list[Len(list)] \in Alert /\ list[Len(list)].id <= lastAlert
        BY <1>2, <1>3, <3>2
      <4>3. list[Len(list)].id \in Nat
        BY <4>2 DEF Alert
      <4>4. lastAlert \in Nat
        BY <1>0 DEF AlertsInv
      <4> QED
        BY <4>1, <4>2, <4>3, <4>4
    <3> QED
      BY <3>1, <3>2
  <2> QED
    BY <1>0, <1>1, <2>1, AlertsStay
<1>7. CenterInv'
  <2>1. CASE Notes!Pushes(keys)
    <3>1. keys \in Seq(Key)
      <4>1. /\ Len(keys) \in Nat /\ keys = [i \in 1 .. Len(keys) |-> keys[i]]
            /\ \A i \in 1 .. Len(keys) : keys[i] \in Notes!Warning
        BY <1>3, LenProperties, ElementOfSeq
      <4>2. \A i \in 1 .. Len(keys) : keys[i] \in Key
        BY <4>1 DEF Key
      <4> DEFINE m == Len(keys)
      <4>3. m \in Nat
        BY <4>1
      <4> HIDE DEF m
      <4>4. [i \in 1 .. m |-> keys[i]] \in Seq(Key)
        BY <4>2, <4>3, IsASeq DEF m
      <4> QED
        BY <4>1, <4>4 DEF m
    <3> QED
      BY <1>0, <2>1, <3>1, PushesKeeps
  <2>2. CASE UNCHANGED <<entries, toasts, lastEntry>>
    BY <1>0, <2>2, CenterStays
  <2> QED
    BY <1>1, <2>1, <2>2
<1> QED
  BY <1>5, <1>6, <1>7 DEF NoticesInv

\* prune, and clear_all.
LEMMA RemovesKeep ==
  ASSUME Notes!NoticesAssumption, CenterInv, Notes!Expire \/ Notes!ClearAll
  PROVE  CenterInv'
<1>0. /\ entries \in Seq(Entry) /\ Len(entries) <= EntryLimit
      /\ toasts \in Seq(Nat) /\ Len(toasts) <= ToastLimit /\ Len(toasts) <= Len(entries)
      /\ lastEntry \in Nat
      /\ \A i \in 1 .. Len(toasts) : toasts[i] = entries[i].id
      /\ \A i \in 1 .. Len(entries) : entries[i].id <= lastEntry
      /\ \A i, j \in 1 .. Len(entries) : i < j => entries[i].id > entries[j].id
      /\ Len(entries) \in Nat /\ Len(toasts) \in Nat
  BY LenProperties DEF CenterInv
<1>1. EntryLimit \in Nat /\ ToastLimit \in Nat
  BY DEF Notes!NoticesAssumption
<1>2. CASE Notes!Expire
  <2>1. toasts' = SubSeq(toasts, 1, Len(toasts) - 1) /\ toasts # <<>>
        /\ UNCHANGED <<entries, lastEntry>>
    BY <1>2 DEF Notes!Expire, Notes!Front
  <2>2. Len(toasts) >= 1
    BY <1>0, <2>1, EmptySeq
  <2> DEFINE m == Len(toasts) - 1
  <2>3. m \in Nat /\ m + 1 = Len(toasts)
    BY <1>0, <2>2
  <2>4. \A i \in 1 .. m : toasts[i] \in Nat
    BY <1>0, <2>3, ElementOfSeq
  <2>5. toasts' = SubSeq(toasts, 1, m)
    BY <2>1
  <2> HIDE DEF m
  <2>6. /\ SubSeq(toasts, 1, m) \in Seq(Nat)
        /\ Len(SubSeq(toasts, 1, m)) = IF 1 <= m THEN m - 1 + 1 ELSE 0
        /\ \A i \in 1 .. m - 1 + 1 : SubSeq(toasts, 1, m)[i] = toasts[1 + i - 1]
    BY <2>3, <2>4, SubSeqProperties
  <2>7. toasts' \in Seq(Nat) /\ Len(toasts') = m /\ \A i \in 1 .. m : toasts'[i] = toasts[i]
    BY <2>3, <2>5, <2>6
  <2>8. \A i \in 1 .. m : toasts'[i] = entries[i].id
    <3> TAKE i \in 1 .. m
    <3>1. i \in 1 .. Len(toasts)
      BY <1>0, <2>3
    <3>2. toasts[i] = entries[i].id
      BY <1>0, <3>1
    <3>3. toasts'[i] = toasts[i]
      BY <2>7
    <3> QED
      BY <3>2, <3>3
  <2>9. entries' \in Seq(Entry)'
    BY <1>0, <2>1 DEF Entry, Key, Notes!Warning, Notes!Own
  <2>10. /\ entries' \in Seq(Entry)' /\ Len(entries') <= EntryLimit
         /\ toasts' \in Seq(Nat) /\ Len(toasts') <= ToastLimit
         /\ Len(toasts') <= Len(entries') /\ lastEntry' \in Nat
    BY <1>0, <1>1, <2>1, <2>3, <2>7, <2>9
  <2>11. \A i \in 1 .. Len(toasts') : toasts'[i] = entries'[i].id
    BY <2>1, <2>7, <2>8
  <2>12. /\ \A i \in 1 .. Len(entries') : entries'[i].id <= lastEntry'
         /\ \A i, j \in 1 .. Len(entries') : i < j => entries'[i].id > entries'[j].id
    BY <1>0, <2>1
  <2> QED
    BY <2>10, <2>11, <2>12 DEF CenterInv
<1>3. CASE Notes!ClearAll
  <2>1. entries' = <<>> /\ toasts' = <<>> /\ lastEntry' = lastEntry
    BY <1>3 DEF Notes!ClearAll
  <2>2. <<>> \in Seq(Entry)' /\ <<>> \in Seq(Nat) /\ Len(<<>>) = 0
    BY EmptySeq
  <2> QED
    BY <1>0, <1>1, <2>1, <2>2 DEF CenterInv
<1> QED
  BY <1>2, <1>3

\* Every step of the notices keeps the invariant.
LEMMA NoticesStep ==
  ASSUME Notes!NoticesAssumption, NoticesInv, [Notes!Next]_noticeVars
  PROVE  NoticesInv'
<1>0. RegistryInv /\ AlertsInv /\ CenterInv
  BY DEF NoticesInv
<1>q. (RegistryInv' /\ AlertsInv' /\ CenterInv') => NoticesInv'
  BY DEF NoticesInv
<1> USE DEF Notes!deviceVars, Notes!runtimeVars, Notes!centerVars, Notes!history
<1>l. lastSeen \in 0 .. lastAlert
  BY <1>0 DEF AlertsInv
<1>1. ASSUME NEW s \in OwnSources, NEW m \in Messages, Notes!SetWarning(s, m)
      PROVE  NoticesInv'
  <2>1. s \in Notes!Sources
    BY WebcamIsTheDevice
  <2>2. warnings' \in [Notes!Sources -> Messages \cup {NoMessage}]
    BY <1>0, <1>1, <2>1 DEF RegistryInv, Notes!SetWarning
  <2>3. active' \subseteq Notes!Warning
    BY <1>1, <2>2, ActiveAreWarnings DEF Notes!SetWarning
  <2>4. RegistryInv'
    BY <1>0, <1>1, <2>2, <2>3 DEF RegistryInv, Notes!SetWarning, Notes!Forgets, Notes!Warning, Notes!Sources, Notes!Devices
  <2>5. <<[source |-> s, message |-> m]>> \in Seq(Notes!Warning)
    BY <2>1 DEF Notes!Warning
  <2>6. AlertsInv'
    BY <1>0, <1>1, <2>5, AlertsKeep DEF Notes!SetWarning
  <2>7. CenterInv'
    BY <1>0, <1>1, CenterStays DEF Notes!SetWarning
  <2> QED
    BY <1>q, <2>4, <2>6, <2>7
<1>2. ASSUME NEW s \in OwnSources, Notes!ClearWarning(s)
      PROVE  NoticesInv'
  <2>1. s \in Notes!Sources
    BY WebcamIsTheDevice
  <2>2. warnings' \in [Notes!Sources -> Messages \cup {NoMessage}]
    BY <1>0, <1>2, <2>1 DEF RegistryInv, Notes!ClearWarning
  <2>3. active' \subseteq Notes!Warning
    BY <1>2, <2>2, ActiveAreWarnings DEF Notes!ClearWarning
  <2>4. RegistryInv'
    BY <1>0, <1>2, <2>2, <2>3 DEF RegistryInv, Notes!ClearWarning, Notes!Forgets, Notes!Warning, Notes!Sources, Notes!Devices
  <2>5. AlertsInv' /\ CenterInv'
    BY <1>0, <1>2, <1>l, AlertsStay, CenterStays DEF Notes!ClearWarning
  <2> QED
    BY <1>q, <2>4, <2>5
<1>3. ASSUME NEW s \in Notes!Devices,
             Notes!DeviceClearWarning(s) \/ \E m \in Messages : Notes!DeviceSetWarning(s, m)
      PROVE  NoticesInv'
  <2>1. sources' \in [Notes!Devices -> Messages \cup {NoMessage}]
    BY <1>0, <1>3 DEF RegistryInv, Notes!DeviceClearWarning, Notes!DeviceSetWarning
  <2>2. UNCHANGED <<reported, warnings, active, alerts, lastAlert, noticesShown, entries, toasts,
                    lastEntry, activeKeys, lastSeen, enabled, told, standing, excuse>>
    BY <1>3 DEF Notes!DeviceClearWarning, Notes!DeviceSetWarning
  <2>3. RegistryInv'
    BY <1>0, <2>1, <2>2 DEF RegistryInv, Notes!Warning, Notes!Sources, Notes!Devices
  <2>4. AlertsInv' /\ CenterInv'
    BY <1>0, <2>2, <1>l, AlertsStay, CenterStays
  <2> QED
    BY <1>q, <2>3, <2>4
<1>4. CASE Notes!Report
  <2>1. RegistryInv'
    BY <1>0, <1>4 DEF RegistryInv, Notes!Report, Notes!Warning, Notes!Sources, Notes!Devices
  <2>2. AlertsInv' /\ CenterInv'
    BY <1>0, <1>4, <1>l, AlertsStay, CenterStays DEF Notes!Report
  <2> QED
    BY <1>q, <2>1, <2>2
<1>5. CASE Notes!Cycle
  <2>1. warnings' \in [Notes!Sources -> Messages \cup {NoMessage}]
    <3>1. warnings' = [s \in Notes!Sources |-> IF s \in Notes!Devices THEN reported[s] ELSE warnings[s]]
      BY <1>5 DEF Notes!Cycle
    <3> QED
      BY <1>0, <3>1 DEF RegistryInv
  <2>2. active' \subseteq Notes!Warning
    <3>1. Notes!ActiveIn(warnings') \subseteq Notes!Warning
      BY <2>1, ActiveAreWarnings
    <3> QED
      BY <1>0, <1>5, <3>1 DEF Notes!Cycle, RegistryInv
  <2>3. noticesShown'.active = active' /\ noticesShown'.alerts = alerts'
    BY <1>5 DEF Notes!Cycle
  <2>4. excuse' \in {"none", "overwritten", "muted"}
    BY <1>0, <1>5 DEF Notes!Cycle, RegistryInv
  <2>5. /\ UNCHANGED <<sources, reported, entries, toasts, lastEntry, activeKeys, lastSeen, enabled>>
        /\ told' \subseteq told /\ standing' = standing
    BY <1>5 DEF Notes!Cycle, Notes!Forgets
  <2>6. RegistryInv'
    BY <1>0, <2>1, <2>2, <2>3, <2>4, <2>5 DEF RegistryInv, Notes!Warning, Notes!Sources, Notes!Devices
  <2>7. AlertsInv'
    <3>1. Notes!Changed \in Seq(Notes!Warning)
      BY <1>0, ChangedAreWarnings DEF RegistryInv
    <3>2. Notes!RecordsAlerts(Notes!Changed)
      BY <1>5 DEF Notes!Cycle
    <3> QED
      BY <1>0, <2>3, <2>5, <3>1, <3>2, AlertsKeep
  <2>8. CenterInv'
    BY <1>0, <2>5, CenterStays
  <2> QED
    BY <1>q, <2>6, <2>7, <2>8
<1>6. CASE Notes!Ingest
  BY <1>6, IngestKeeps
<1>7. CASE Notes!PushOwn
  <2>1. <<Notes!Own>> \in Seq(Key)
    BY DEF Key
  <2>2. CenterInv'
    BY <1>0, <1>7, <2>1, PushesKeeps DEF Notes!PushOwn
  <2>3. RegistryInv'
    BY <1>0, <1>7 DEF RegistryInv, Notes!PushOwn, Notes!Warning, Notes!Sources, Notes!Devices
  <2>4. AlertsInv'
    BY <1>0, <1>7, <1>l, AlertsStay DEF Notes!PushOwn
  <2> QED
    BY <1>q, <2>2, <2>3, <2>4
<1>8. CASE Notes!Expire \/ Notes!ClearAll
  <2>1. CenterInv'
    BY <1>0, <1>8, RemovesKeep
  <2>2. RegistryInv'
    BY <1>0, <1>8 DEF RegistryInv, Notes!Expire, Notes!ClearAll, Notes!Warning, Notes!Sources, Notes!Devices
  <2>3. AlertsInv'
    BY <1>0, <1>8, <1>l, AlertsStay DEF Notes!Expire, Notes!ClearAll
  <2> QED
    BY <1>q, <2>1, <2>2, <2>3
<1>9. CASE Notes!Toggle
  <2>1. RegistryInv'
    BY <1>0, <1>9 DEF RegistryInv, Notes!Toggle, Notes!Warning, Notes!Sources, Notes!Devices
  <2>2. AlertsInv' /\ CenterInv'
    BY <1>0, <1>9, <1>l, AlertsStay, CenterStays DEF Notes!Toggle
  <2> QED
    BY <1>q, <2>1, <2>2
<1>10. CASE UNCHANGED noticeVars
  <2>1. RegistryInv'
    BY <1>0, <1>10 DEF RegistryInv, noticeVars, Notes!Warning, Notes!Sources, Notes!Devices
  <2>2. AlertsInv' /\ CenterInv'
    BY <1>0, <1>10, <1>l, AlertsStay, CenterStays DEF noticeVars
  <2> QED
    BY <1>q, <2>1, <2>2
<1> QED
  BY <1>1, <1>2, <1>3, <1>4, <1>5, <1>6, <1>7, <1>8, <1>9, <1>10 DEF Notes!Next

----------------------------------------------------------------------------
(***************************************************************************)
(* The handoff to the device worker (DeviceHandoff), for any number of     *)
(* settings, restarts and calls that hang.                                 *)
(***************************************************************************)

\* A restart that is owed is on its way: in the slots, or among the commands the
\* worker took.
OwedIsOnItsWay ==
  \A target \in owed :
    \/ target \in commands.restarts
    \/ target \in pending.restarts
    \/ Handoff!All \in pending.restarts

\* The settings sent last are in the slot, or taken from it, or in force.
LatestSettings ==
  IF pending.settings # 0 THEN pending.settings = sent
  ELSE IF commands.settings # 0 THEN commands.settings = sent
  ELSE device = sent

\* The inductive invariant of the handoff: a worker ends only at the exit and with
\* the picture off the air, and outside its work it holds no command.
HandoffInv ==
  /\ Handoff!TypeOK
  /\ stop <=> runtime # "runs"
  /\ worker = "ended" => stop /\ pipe = "invalid"
  /\ runtime = "joined" => worker = "ended"
  /\ worker \notin {"runs", "stuck"} => commands = Handoff!NoCommands
  /\ OwedIsOnItsWay
  /\ LatestSettings

\* The invariant holds in the beginning.
LEMMA HandoffInit ==
  ASSUME Handoff!HandoffAssumption, Handoff!Init
  PROVE  HandoffInv
<1>1. Settings \in Nat /\ Asked \in Nat /\ Stalls \in Nat
  BY DEF Handoff!HandoffAssumption
<1>2. /\ pending = [settings |-> 0, restarts |-> {}, notified |-> FALSE]
      /\ commands = [settings |-> 0, restarts |-> {}]
      /\ snapshot = [there |-> FALSE, age |-> 0, frame |-> 2] /\ frame = 2
      /\ device = 0 /\ sent = 0 /\ owed = {} /\ asked = 0 /\ stalls = 0
  BY DEF Handoff!Init, Handoff!NoCommands, Handoff!Old
<1>3. Handoff!TypeOK
  <2>1. pending \in [settings : 0 .. Settings,
              restarts : SUBSET (Handoff!Targets \cup {Handoff!All}), notified : BOOLEAN]
    BY <1>1, <1>2
  <2>2. commands \in [settings : 0 .. Settings, restarts : SUBSET Handoff!Targets]
    BY <1>1, <1>2
  <2>3. snapshot \in [there : BOOLEAN, age : 0 .. 2, frame : 0 .. 2]
    BY <1>2
  <2>4. /\ worker = "cycle" /\ runtime = "runs" /\ pipe = "invalid"
        /\ webcam = FALSE /\ warned = FALSE /\ stop = FALSE
    BY DEF Handoff!Init
  <2>5. /\ device \in 0 .. Settings /\ frame \in 0 .. 2 /\ sent \in 0 .. Settings
        /\ owed \subseteq Handoff!Targets
        /\ asked \in 0 .. Asked /\ stalls \in 0 .. Stalls
    BY <1>1, <1>2
  <2> QED
    BY <2>1, <2>2, <2>3, <2>4, <2>5 DEF Handoff!TypeOK, Handoff!Old
<1>4. OwedIsOnItsWay /\ LatestSettings
  BY <1>2 DEF OwedIsOnItsWay, LatestSettings
<1> QED
  BY <1>3, <1>4 DEF Handoff!Init, HandoffInv

\* Every step keeps the types.
LEMMA HandoffTypes ==
  ASSUME Handoff!HandoffAssumption, Handoff!TypeOK, [Handoff!Next]_handoffVars
  PROVE  Handoff!TypeOK'
<1> USE DEF Handoff!HandoffAssumption, Handoff!Old, Handoff!All, Handoff!Targets
<1>1. CASE Handoff!SendSettings
  <2>1. sent + 1 \in 0 .. Settings
    BY <1>1 DEF Handoff!TypeOK, Handoff!SendSettings
  <2>2. pending' \in [settings : 0 .. Settings,
              restarts : SUBSET (Handoff!Targets \cup {Handoff!All}), notified : BOOLEAN]
    BY <1>1, <2>1 DEF Handoff!TypeOK, Handoff!SendSettings
  <2> QED
    BY <1>1, <2>1, <2>2 DEF Handoff!TypeOK, Handoff!SendSettings, Handoff!theWorker
<1>2. CASE Handoff!AskRestart
  <2>1. PICK target \in Handoff!Targets \cup {Handoff!All} :
          /\ pending' = [pending EXCEPT
                !.restarts = Handoff!Joined(@, target), !.notified = TRUE]
          /\ owed' = owed \cup (IF target = Handoff!All THEN Handoff!Targets ELSE {target})
    BY <1>2 DEF Handoff!AskRestart
  <2>2. Handoff!Joined(pending.restarts, target) \in SUBSET (Handoff!Targets \cup {Handoff!All})
    BY DEF Handoff!TypeOK, Handoff!Joined
  <2>3. pending' \in [settings : 0 .. Settings,
              restarts : SUBSET (Handoff!Targets \cup {Handoff!All}), notified : BOOLEAN]
    BY <2>1, <2>2 DEF Handoff!TypeOK
  <2>4. owed' \subseteq Handoff!Targets
    BY <2>1 DEF Handoff!TypeOK
  <2> QED
    BY <1>2, <2>3, <2>4 DEF Handoff!TypeOK, Handoff!AskRestart, Handoff!theWorker
<1>3. CASE Handoff!OutputCycle
  BY <1>3 DEF Handoff!TypeOK, Handoff!OutputCycle, Handoff!Stale, Handoff!theWorker
<1>4. CASE Handoff!Exit
  BY <1>4 DEF Handoff!TypeOK, Handoff!Exit, Handoff!theWorker
<1>5. CASE Handoff!Joins \/ Handoff!Detaches
  BY <1>5 DEF Handoff!TypeOK, Handoff!Joins, Handoff!Detaches, Handoff!theWorker
<1>6. CASE Handoff!Take
  BY <1>6 DEF Handoff!TypeOK, Handoff!Take, Handoff!theRuntime
<1>7. CASE Handoff!Runs
  BY <1>7 DEF Handoff!TypeOK, Handoff!Runs, Handoff!theRuntime
<1>8. CASE Handoff!Cycle
  BY <1>8 DEF Handoff!TypeOK, Handoff!Cycle, Handoff!theRuntime, Handoff!theWorker
<1>9. CASE Handoff!Listens
  BY <1>9 DEF Handoff!TypeOK, Handoff!Listens, Handoff!theRuntime, Handoff!theWorker
<1>10. CASE Handoff!Wakes \/ Handoff!Ends \/ Handoff!Returns
  BY <1>10 DEF Handoff!TypeOK, Handoff!Wakes, Handoff!Ends, Handoff!Returns,
               Handoff!theRuntime, Handoff!theWorker
<1>11. CASE Handoff!Stuck
  BY <1>11 DEF Handoff!TypeOK, Handoff!Stuck, Handoff!theRuntime
<1>12. CASE Handoff!Delivers \/ Handoff!TimePasses
  <2>1. \A age \in 0 .. 2 : Handoff!Older(age) \in 0 .. 2
    BY DEF Handoff!Older
  <2>2. frame' \in 0 .. 2
    BY <1>12, <2>1 DEF Handoff!TypeOK, Handoff!Delivers, Handoff!TimePasses
  <2>3. snapshot' \in [there : BOOLEAN, age : 0 .. 2, frame : 0 .. 2]
    <3>1. snapshot \in [there : BOOLEAN, age : 0 .. 2, frame : 0 .. 2]
      BY DEF Handoff!TypeOK
    <3>2. CASE Handoff!Delivers
      BY <1>12, <3>1, <3>2 DEF Handoff!Delivers
    <3>3. CASE Handoff!TimePasses
      <4>1. /\ Handoff!Older(snapshot.age) \in 0 .. 2
            /\ Handoff!Older(snapshot.frame) \in 0 .. 2
        BY <2>1, <3>1
      <4>2. CASE snapshot.there
        <5>1. snapshot' = [snapshot EXCEPT !.age = Handoff!Older(@),
                                           !.frame = Handoff!Older(@)]
          BY <3>3, <4>2 DEF Handoff!TimePasses
        <5> QED
          BY <3>1, <4>1, <5>1
      <4>3. CASE ~snapshot.there
        BY <3>1, <3>3, <4>3 DEF Handoff!TimePasses
      <4> QED
        BY <4>2, <4>3
    <3> QED
      BY <1>12, <3>2, <3>3
  <2> QED
    BY <1>12, <2>2, <2>3 DEF Handoff!TypeOK, Handoff!Delivers, Handoff!TimePasses,
                             Handoff!theRuntime, Handoff!theWorker
<1>13. CASE UNCHANGED handoffVars
  BY <1>13 DEF Handoff!TypeOK, handoffVars
<1> QED
  BY <1>1, <1>2, <1>3, <1>4, <1>5, <1>6, <1>7, <1>8, <1>9, <1>10, <1>11, <1>12, <1>13
     DEF Handoff!Next

\* Every step of the handoff keeps the invariant.
LEMMA HandoffStep ==
  ASSUME Handoff!HandoffAssumption, HandoffInv, [Handoff!Next]_handoffVars
  PROVE  HandoffInv'
<1>0. Handoff!TypeOK /\ Handoff!TypeOK'
  BY HandoffTypes DEF HandoffInv
<1> DEFINE Rest ==
      /\ stop <=> runtime # "runs"
      /\ worker = "ended" => stop /\ pipe = "invalid"
      /\ runtime = "joined" => worker = "ended"
      /\ worker \notin {"runs", "stuck"} => commands = Handoff!NoCommands
<1>a. Rest /\ OwedIsOnItsWay /\ LatestSettings
  BY DEF HandoffInv
<1>1. CASE Handoff!SendSettings
  BY <1>0, <1>a, <1>1 DEF Handoff!TypeOK, HandoffInv, OwedIsOnItsWay, LatestSettings,
     Handoff!SendSettings, Handoff!theWorker, Handoff!HandoffAssumption
<1>2. CASE Handoff!AskRestart
  <2>1. PICK target \in Handoff!Targets \cup {Handoff!All} :
          /\ pending' = [pending EXCEPT
                !.restarts = Handoff!Joined(@, target), !.notified = TRUE]
          /\ owed' = owed \cup (IF target = Handoff!All THEN Handoff!Targets ELSE {target})
    BY <1>2 DEF Handoff!AskRestart
  <2>2. /\ pending'.restarts = Handoff!Joined(pending.restarts, target)
        /\ pending'.settings = pending.settings
    BY <1>0, <2>1 DEF Handoff!TypeOK
  <2>3. OwedIsOnItsWay'
    BY <1>2, <1>a, <2>1, <2>2 DEF OwedIsOnItsWay, Handoff!Joined, Handoff!AskRestart, Handoff!theWorker
  <2>4. LatestSettings'
    BY <1>2, <1>a, <2>2 DEF LatestSettings, Handoff!AskRestart, Handoff!theWorker
  <2>5. Rest'
    BY <1>2, <1>a DEF Handoff!AskRestart, Handoff!theWorker
  <2> QED
    BY <1>0, <2>3, <2>4, <2>5 DEF HandoffInv
<1>3. CASE Handoff!OutputCycle
  BY <1>0, <1>a, <1>3 DEF HandoffInv, OwedIsOnItsWay, LatestSettings, Handoff!OutputCycle, Handoff!theWorker
<1>4. CASE Handoff!Exit
  BY <1>0, <1>a, <1>4 DEF Handoff!TypeOK, HandoffInv, OwedIsOnItsWay, LatestSettings, Handoff!Exit,
     Handoff!theWorker
<1>5. CASE Handoff!Joins \/ Handoff!Detaches
  BY <1>0, <1>a, <1>5 DEF HandoffInv, OwedIsOnItsWay, LatestSettings, Handoff!Joins,
     Handoff!Detaches, Handoff!theWorker
<1>6. CASE Handoff!Take
  <2>1. commands = Handoff!NoCommands
    BY <1>6, <1>a DEF Handoff!Take
  <2>2. OwedIsOnItsWay'
    BY <1>6, <1>0, <1>a, <2>1 DEF OwedIsOnItsWay, Handoff!Take, Handoff!NoCommands, Handoff!TypeOK
  <2>3. LatestSettings'
    BY <1>6, <1>0, <1>a, <2>1 DEF LatestSettings, Handoff!Take, Handoff!NoCommands, Handoff!theRuntime
  <2>4. Rest'
    BY <1>6, <1>a DEF Handoff!Take, Handoff!theRuntime
  <2> QED
    BY <1>0, <2>2, <2>3, <2>4 DEF HandoffInv
<1>7. CASE Handoff!Runs
  <2>1. CASE /\ commands.settings # 0
             /\ device' = commands.settings
             /\ commands' = [commands EXCEPT !.settings = 0]
             /\ UNCHANGED <<owed, worker>>
    BY <1>7, <1>0, <1>a, <2>1 DEF Handoff!TypeOK, HandoffInv, OwedIsOnItsWay, LatestSettings,
       Handoff!Runs, Handoff!theRuntime
  <2>2. CASE /\ commands.settings = 0
             /\ \E target \in commands.restarts :
                   /\ commands' = [commands EXCEPT !.restarts = @ \ {target}]
                   /\ owed' = owed \ {target}
             /\ UNCHANGED <<device, worker>>
    BY <1>7, <1>0, <1>a, <2>2 DEF Handoff!TypeOK, HandoffInv, OwedIsOnItsWay, LatestSettings,
       Handoff!Runs, Handoff!theRuntime
  <2>3. CASE /\ commands = Handoff!NoCommands
             /\ worker' = "cycle"
             /\ UNCHANGED <<commands, device, owed>>
    BY <1>7, <1>0, <1>a, <2>3 DEF HandoffInv, OwedIsOnItsWay, LatestSettings,
       Handoff!Runs, Handoff!theRuntime
  <2> QED
    BY <1>7, <2>1, <2>2, <2>3 DEF Handoff!Runs
<1>8. CASE Handoff!Cycle \/ Handoff!Wakes \/ Handoff!Ends \/ Handoff!Returns \/ Handoff!Stuck
  BY <1>0, <1>a, <1>8 DEF HandoffInv, OwedIsOnItsWay, LatestSettings, Handoff!Cycle, Handoff!Wakes,
     Handoff!Ends, Handoff!Returns, Handoff!Stuck, Handoff!theRuntime, Handoff!theWorker
<1>9. CASE Handoff!Listens
  BY <1>0, <1>a, <1>9 DEF Handoff!TypeOK, HandoffInv, OwedIsOnItsWay, LatestSettings, Handoff!Listens,
     Handoff!theRuntime, Handoff!theWorker
<1>10. CASE Handoff!Delivers \/ Handoff!TimePasses
  BY <1>0, <1>a, <1>10 DEF HandoffInv, OwedIsOnItsWay, LatestSettings, Handoff!Delivers,
     Handoff!TimePasses, Handoff!theRuntime, Handoff!theWorker
<1>11. CASE UNCHANGED handoffVars
  BY <1>0, <1>a, <1>11 DEF HandoffInv, OwedIsOnItsWay, LatestSettings, handoffVars
<1> QED
  BY <1>1, <1>2, <1>3, <1>4, <1>5, <1>6, <1>7, <1>8, <1>9, <1>10, <1>11 DEF Handoff!Next

----------------------------------------------------------------------------
(***************************************************************************)
(* The shell (AppShell), for any capacity of the queue and any number of   *)
(* events.                                                                 *)
(***************************************************************************)

\* What the interface sends about the reference picture.
ReferenceCommands == {"discard", "capture", "confirm"}

\* The state of a capture.
CaptureOK ==
  capture \in [state : Shell!Undecided \cup {"Idle", "Confirmed", "CaptureFailed"}, seen : 0 .. 3]

\* The queue to the runtime.
QueueOK == queue \in Seq(ReferenceCommands) /\ Len(queue) <= QueueCapacity

\* The setup session.
GuideOK ==
  guide \in [step : 0 .. 5, pending : 0 .. 5, back : {"Dashboard", "Settings"}]

\* The window and the way out: a decided exit keeps its close request.
WindowOK ==
  /\ window \in [visible : BOOLEAN, closeSent : BOOLEAN]
  /\ leaving \in {"no", "exit", "ended"}
  /\ leaving = "exit" => window.closeSent

\* All the rest.
RestOK ==
  /\ setting \in [tray : BOOLEAN, confirm : BOOLEAN]
  /\ view \in Shell!Views /\ dialog \in Shell!Dialogs
  /\ completed \in BOOLEAN /\ late \in BOOLEAN
  /\ shellCandidate \in 0 .. 3 /\ shellReference \in 0 .. 3
  /\ events \in 0 .. Events

\* send_setup_reference_command keeps the queue within its capacity.
LEMMA SendsTypes ==
  ASSUME Shell!ShellAssumption, QueueOK, NEW command \in ReferenceCommands,
         Shell!Sends(command)
  PROVE  QueueOK'
<1>1. queue' = IF Len(queue) < QueueCapacity THEN Append(queue, command) ELSE queue
  BY DEF Shell!Sends, Shell!Accepted
<1>2. QueueCapacity \in Nat
  BY DEF Shell!ShellAssumption
<1>3. CASE Len(queue) < QueueCapacity
  <2>1. /\ Append(queue, command) \in Seq(ReferenceCommands)
        /\ Len(Append(queue, command)) = Len(queue) + 1
        /\ Len(queue) \in Nat
    BY AppendProperties, LenProperties DEF QueueOK
  <2> QED
    BY <1>1, <1>2, <1>3, <2>1 DEF QueueOK
<1>4. CASE ~(Len(queue) < QueueCapacity)
  BY <1>1, <1>4 DEF QueueOK
<1> QED
  BY <1>3, <1>4

\* prepare_reference_capture keeps the types.
LEMMA PreparesTypes ==
  ASSUME Shell!ShellAssumption, QueueOK, CaptureOK, late \in BOOLEAN, Shell!Prepares
  PROVE  QueueOK' /\ CaptureOK' /\ late' \in BOOLEAN
<1>1. QueueOK'
  BY SendsTypes DEF Shell!Prepares, ReferenceCommands
<1>2. CaptureOK' /\ late' \in BOOLEAN
  BY DEF Shell!Prepares, CaptureOK, Shell!State, Shell!Undecided
<1> QED
  BY <1>1, <1>2

\* A record with two fields replaced.
LEMMA BothReplaced ==
  ASSUME NEW S, NEW B, NEW g \in [step : S, pending : S, back : B], NEW x \in S, NEW y \in S
  PROVE  [g EXCEPT !.step = x, !.pending = y] \in [step : S, pending : S, back : B]
OBVIOUS

\* SetupSession::transition_to keeps the session's type.
LEMMA MovedTypes ==
  ASSUME GuideOK, NEW step \in 0 .. 5
  PROVE  Shell!MovedTo(step) \in [step : 0 .. 5, pending : 0 .. 5, back : {"Dashboard", "Settings"}]
<1>1. [guide EXCEPT !.pending = step]
        \in [step : 0 .. 5, pending : 0 .. 5, back : {"Dashboard", "Settings"}]
  BY DEF GuideOK
<1>2. [guide EXCEPT !.step = step, !.pending = 0]
        \in [step : 0 .. 5, pending : 0 .. 5, back : {"Dashboard", "Settings"}]
  <2>1. 0 \in 0 .. 5
    OBVIOUS
  <2> QED
    BY <2>1, BothReplaced DEF GuideOK
<1> QED
  BY <1>1, <1>2 DEF GuideOK, Shell!MovedTo

\* So do the guide's moves and its ends.
LEMMA GuideMovesTypes ==
  ASSUME Shell!ShellAssumption, QueueOK, CaptureOK, GuideOK, view \in Shell!Views,
         completed \in BOOLEAN,
         \/ \E step \in 1 .. 5 : Shell!Moves(step)
         \/ Shell!Finishes
         \/ Shell!Dismisses
  PROVE  QueueOK' /\ CaptureOK' /\ GuideOK' /\ view' \in Shell!Views /\ completed' \in BOOLEAN
<1>1. ASSUME NEW step \in 1 .. 5, Shell!Moves(step)
      PROVE  QueueOK' /\ CaptureOK' /\ GuideOK' /\ view' \in Shell!Views /\ completed' \in BOOLEAN
  <2>1. view' = view /\ completed' = completed /\ guide' = Shell!MovedTo(step)
    BY <1>1 DEF Shell!Moves
  <2>2. GuideOK'
    BY <2>1, MovedTypes DEF GuideOK
  <2>3. (UNCHANGED <<queue, capture>>) \/ (Shell!Sends("discard") /\ capture' = Shell!State("Idle"))
    BY <1>1 DEF Shell!Moves
  <2>4. QueueOK'
    BY <2>3, SendsTypes DEF QueueOK, ReferenceCommands
  <2>5. CaptureOK'
    BY <2>3 DEF CaptureOK, Shell!State
  <2> QED
    BY <2>1, <2>2, <2>4, <2>5
<1>2. CASE Shell!Finishes
  <2>1. QueueOK'
    BY <1>2, SendsTypes DEF Shell!Finishes, ReferenceCommands
  <2> QED
    BY <1>2, <2>1 DEF Shell!Finishes, CaptureOK, GuideOK, Shell!State, Shell!NoGuide, Shell!Views
<1>3. CASE Shell!Dismisses
  <2>1. QueueOK'
    BY <1>3, SendsTypes DEF Shell!Dismisses, ReferenceCommands
  <2>2. CaptureOK' /\ GuideOK' /\ completed' \in BOOLEAN
    BY <1>3 DEF Shell!Dismisses, CaptureOK, GuideOK, Shell!State, Shell!NoGuide
  <2>3. view' \in Shell!Views
    BY <1>3 DEF Shell!Dismisses, GuideOK, Shell!Views
  <2> QED
    BY <2>1, <2>2, <2>3
<1> QED
  BY <1>1, <1>2, <1>3

\* The inductive invariant of the shell.
ShellInv == WindowOK /\ GuideOK /\ CaptureOK /\ QueueOK /\ RestOK

\* The invariant implies the types, and that a decided exit keeps its close request.
LEMMA ShellSafe ==
  ASSUME ShellInv, Shell!ShellAssumption
  PROVE  Shell!TypeOK /\ (leaving = "exit" => window.closeSent)
BY DEF ShellInv, WindowOK, GuideOK, CaptureOK, QueueOK, RestOK, Shell!TypeOK, Shell!Ready

\* The invariant holds in the beginning.
LEMMA ShellInit ==
  ASSUME Shell!Init, Shell!ShellAssumption
  PROVE  ShellInv
<1>1. WindowOK
  BY DEF Shell!Init, WindowOK
<1>2. GuideOK
  BY DEF Shell!Init, GuideOK, Shell!NoGuide
<1>3. CaptureOK
  BY DEF Shell!Init, CaptureOK, Shell!State
<1>4. QueueOK
  <2>1. <<>> \in Seq(ReferenceCommands) /\ Len(<<>>) = 0
    BY EmptySeq
  <2> QED
    BY <2>1 DEF Shell!Init, QueueOK, Shell!ShellAssumption
<1>5. RestOK
  <2>1. view \in Shell!Views /\ dialog \in Shell!Dialogs /\ completed \in BOOLEAN
    BY DEF Shell!Init, Shell!Views, Shell!Dialogs
  <2>2. late = FALSE /\ shellCandidate = 0 /\ shellReference \in {0, 1} /\ events = 0
        /\ setting \in [tray : BOOLEAN, confirm : BOOLEAN] /\ Events \in Nat
    BY DEF Shell!Init, Shell!ShellAssumption
  <2>3. shellCandidate \in 0 .. 3 /\ shellReference \in 0 .. 3 /\ events \in 0 .. Events
    BY <2>2
  <2>4. late \in BOOLEAN
    BY <2>2
  <2> QED
    BY <2>1, <2>2, <2>3, <2>4 DEF RestOK
<1> QED
  BY <1>1, <1>2, <1>3, <1>4, <1>5 DEF ShellInv

\* Every step of the shell keeps the invariant, and none takes a decided exit back.
LEMMA ShellStep ==
  ASSUME Shell!ShellAssumption, ShellInv, [Shell!Next]_shellVars
  PROVE  ShellInv' /\ (leaving = "exit" => leaving' # "no")
<1> DEFINE Goal == ShellInv' /\ (leaving = "exit" => leaving' # "no")
<1>0. WindowOK /\ GuideOK /\ CaptureOK /\ QueueOK /\ RestOK
  BY DEF ShellInv
<1>e. Shell!Event => events' \in 0 .. Events
  <2>1. events \in 0 .. Events /\ Events \in Nat
    BY <1>0 DEF RestOK, Shell!ShellAssumption
  <2> QED
    BY <2>1 DEF Shell!Event
<1>s. \A command \in ReferenceCommands : Shell!Sends(command) => QueueOK'
  BY <1>0, SendsTypes
<1>p. Shell!Prepares => QueueOK' /\ CaptureOK' /\ late' \in BOOLEAN
  <2>1. late \in BOOLEAN
    BY <1>0 DEF RestOK
  <2> QED
    BY <1>0, <2>1, PreparesTypes
<1>g. (UNCHANGED guide => GuideOK') /\ (UNCHANGED capture => CaptureOK') /\ (UNCHANGED queue => QueueOK')
      /\ (UNCHANGED <<window, leaving>> => WindowOK')
      /\ (leaving' \in {"exit", "ended"} => leaving' # "no")
  BY <1>0 DEF GuideOK, CaptureOK, QueueOK, WindowOK
<1>m. (\/ \E step \in 1 .. 5 : Shell!Moves(step)
       \/ Shell!Finishes
       \/ Shell!Dismisses)
       => QueueOK' /\ CaptureOK' /\ GuideOK' /\ view' \in Shell!Views /\ completed' \in BOOLEAN
  <2>1. view \in Shell!Views /\ completed \in BOOLEAN
    BY <1>0 DEF RestOK
  <2> QED
    BY <1>0, <2>1, GuideMovesTypes
<1>1. CASE Shell!TrayShow \/ Shell!TraySettings \/ Shell!CloseWindow
  <2>1. GuideOK' /\ CaptureOK' /\ QueueOK' /\ leaving' = leaving
    BY <1>1, <1>g DEF Shell!TrayShow, Shell!TraySettings, Shell!CloseWindow
  <2>2. WindowOK'
    BY <1>1, <1>0 DEF WindowOK, Shell!TrayShow, Shell!TraySettings, Shell!CloseWindow, Shell!Shown
  <2>3. RestOK'
    BY <1>1, <1>0, <1>e DEF RestOK, Shell!TrayShow, Shell!TraySettings, Shell!CloseWindow, Shell!Views
  <2> QED
    BY <2>1, <2>2, <2>3 DEF ShellInv
<1>2. CASE Shell!TrayCapture
  <2>1. GuideOK' /\ CaptureOK' /\ QueueOK' /\ late' \in BOOLEAN /\ leaving' = leaving
    BY <1>2, <1>g, <1>p DEF Shell!TrayCapture
  <2>2. WindowOK'
    BY <1>2, <1>0 DEF WindowOK, Shell!TrayCapture, Shell!Shown
  <2>3. RestOK'
    BY <1>2, <1>0, <1>e, <2>1 DEF RestOK, Shell!TrayCapture, Shell!Views, Shell!Dialogs
  <2> QED
    BY <2>1, <2>2, <2>3 DEF ShellInv
<1>3. CASE Shell!TrayExit \/ Shell!Replaced \/ Shell!ConfirmExit
  <2>1. GuideOK' /\ CaptureOK' /\ QueueOK' /\ leaving' \in {leaving, "exit"}
    BY <1>3, <1>g DEF Shell!TrayExit, Shell!Replaced, Shell!ConfirmExit
  <2>2. WindowOK'
    BY <1>3, <1>0 DEF WindowOK, Shell!TrayExit, Shell!Replaced, Shell!ConfirmExit, Shell!Shown
  <2>3. RestOK'
    BY <1>3, <1>0, <1>e DEF RestOK, Shell!TrayExit, Shell!Replaced, Shell!ConfirmExit, Shell!Dialogs,
       Shell!DialogClick
  <2> QED
    BY <2>1, <2>2, <2>3 DEF ShellInv
<1>4. CASE Shell!Closes
  <2>1. GuideOK' /\ CaptureOK' /\ QueueOK'
    BY <1>4, <1>g DEF Shell!Closes
  <2>2. WindowOK' /\ (leaving = "exit" => leaving' # "no")
    <3>1. CASE leaving = "no" /\ window' = [visible |-> FALSE, closeSent |-> FALSE] /\ leaving' = leaving
      BY <3>1 DEF WindowOK
    <3>2. CASE leaving = "no" /\ window' = [window EXCEPT !.closeSent = FALSE] /\ leaving' = leaving
      BY <1>0, <3>2 DEF WindowOK
    <3>3. CASE leaving' = "ended" /\ window' = window
      BY <1>0, <3>3 DEF WindowOK
    <3> QED
      BY <1>4, <3>1, <3>2, <3>3 DEF Shell!Closes
  <2>3. RestOK'
    BY <1>4, <1>0 DEF RestOK, Shell!Closes, Shell!Dialogs
  <2> QED
    BY <2>1, <2>2, <2>3 DEF ShellInv
<1>5. CASE Shell!OpenSettings \/ Shell!CloseSettings \/ Shell!ChangeSetting \/ Shell!AskInSettings
  <2>1. GuideOK' /\ CaptureOK' /\ QueueOK' /\ WindowOK' /\ leaving' = leaving
    BY <1>5, <1>g DEF Shell!OpenSettings, Shell!CloseSettings, Shell!ChangeSetting, Shell!AskInSettings
  <2>2. RestOK'
    BY <1>5, <1>0, <1>e DEF RestOK, Shell!OpenSettings, Shell!CloseSettings, Shell!ChangeSetting,
       Shell!AskInSettings, Shell!Views, Shell!Dialogs, Shell!Click
  <2> QED
    BY <2>1, <2>2 DEF ShellInv
<1>6. CASE Shell!BeginCapture
  <2>1. GuideOK' /\ CaptureOK' /\ QueueOK' /\ WindowOK' /\ late' \in BOOLEAN /\ leaving' = leaving
    BY <1>6, <1>g, <1>p DEF Shell!BeginCapture
  <2>2. RestOK'
    BY <1>6, <1>0, <1>e, <2>1 DEF RestOK, Shell!BeginCapture, Shell!Dialogs, Shell!Click
  <2> QED
    BY <2>1, <2>2 DEF ShellInv
<1>7. CASE Shell!StartGuide
  <2>1. CaptureOK' /\ GuideOK'
    BY <1>7 DEF Shell!StartGuide, CaptureOK, GuideOK, Shell!State
  <2>2. QueueOK' /\ WindowOK' /\ leaving' = leaving
    BY <1>7, <1>g, <1>s DEF Shell!StartGuide, ReferenceCommands
  <2>3. RestOK'
    BY <1>7, <1>0, <1>e DEF RestOK, Shell!StartGuide, Shell!Views, Shell!Click
  <2> QED
    BY <2>1, <2>2, <2>3 DEF ShellInv
<1>8. CASE Shell!GuideClick \/ Shell!GuideKey
  <2>1. \/ \E step \in 1 .. 5 : Shell!Moves(step)
        \/ Shell!Finishes
        \/ Shell!Dismisses
    <3>1. guide.step \in 0 .. 5
      BY <1>0 DEF GuideOK
    <3>2. guide.step > 1 => guide.step - 1 \in 1 .. 5
      BY <3>1
    <3>3. guide.step < 5 => guide.step + 1 \in 1 .. 5
      BY <3>1
    <3>4. CASE Shell!GuideClick
      BY <3>4 DEF Shell!GuideClick, Shell!Ready
    <3>5. CASE Shell!GuideKey
      <4>1. PICK step \in {guide.step - 1, guide.step + 1} :
              \/ step \in 1 .. 5 /\ Shell!Moves(step)
              \/ Shell!Finishes
              \/ Shell!Dismisses
        BY <3>2, <3>3, <3>5 DEF Shell!GuideKey, Shell!Ready
      <4> QED
        BY <4>1
    <3> QED
      BY <1>8, <3>4, <3>5
  <2>2. QueueOK' /\ CaptureOK' /\ GuideOK' /\ view' \in Shell!Views /\ completed' \in BOOLEAN
    BY <2>1, <1>m
  <2>3. WindowOK' /\ leaving' = leaving
    BY <1>8, <1>g DEF Shell!GuideClick, Shell!GuideKey
  <2>4. events' \in 0 .. Events
    BY <1>8, <1>e DEF Shell!GuideClick, Shell!GuideKey, Shell!Click
  <2>5. RestOK'
    BY <1>8, <1>0, <2>2, <2>4 DEF RestOK, Shell!GuideClick, Shell!GuideKey
  <2> QED
    BY <2>2, <2>3, <2>5 DEF ShellInv
<1>9. CASE Shell!Fades
  <2>1. GuideOK'
    BY <1>9, <1>0 DEF Shell!Fades, GuideOK
  <2>2. CaptureOK' /\ QueueOK' /\ WindowOK' /\ leaving' = leaving
    BY <1>9, <1>g DEF Shell!Fades
  <2>3. RestOK'
    BY <1>9, <1>0 DEF Shell!Fades, RestOK
  <2> QED
    BY <2>1, <2>2, <2>3 DEF ShellInv
<1>10. CASE Shell!NoSession \/ Shell!TimePasses
  <2>1. GuideOK' /\ CaptureOK' /\ QueueOK' /\ WindowOK' /\ leaving' = leaving
    BY <1>10, <1>g DEF Shell!NoSession, Shell!TimePasses
  <2>2. RestOK'
    BY <1>10, <1>0 DEF Shell!NoSession, Shell!TimePasses, RestOK, Shell!Views
  <2> QED
    BY <2>1, <2>2 DEF ShellInv
<1>11. CASE Shell!Update
  <2>1. shellCandidate \in 0 .. 3
    BY <1>0 DEF RestOK
  <2>2. CaptureOK'
    BY <1>11, <1>0, <2>1 DEF Shell!Update, CaptureOK, Shell!State, Shell!Undecided
  <2>3. QueueOK'
    BY <1>11, <1>g, <1>s DEF Shell!Update, ReferenceCommands
  <2>4. GuideOK' /\ WindowOK' /\ leaving' = leaving
    BY <1>11, <1>g DEF Shell!Update
  <2>5. RestOK'
    BY <1>11, <1>0 DEF Shell!Update, RestOK
  <2> QED
    BY <2>2, <2>3, <2>4, <2>5 DEF ShellInv
<1>12. CASE Shell!CaptureConfirmed
  <2>1. GuideOK'
    BY <1>12, <1>0, MovedTypes DEF Shell!CaptureConfirmed, GuideOK, Shell!Ready
  <2>2. CaptureOK' /\ QueueOK' /\ WindowOK' /\ leaving' = leaving
    BY <1>12, <1>g DEF Shell!CaptureConfirmed
  <2>3. RestOK'
    BY <1>12, <1>0 DEF Shell!CaptureConfirmed, RestOK, Shell!Dialogs
  <2> QED
    BY <2>1, <2>2, <2>3 DEF ShellInv
<1>13. CASE Shell!CancelCapture
  <2>1. CaptureOK'
    BY <1>13 DEF Shell!CancelCapture, CaptureOK, Shell!State
  <2>2. QueueOK' /\ GuideOK' /\ WindowOK' /\ leaving' = leaving
    BY <1>13, <1>g, <1>s DEF Shell!CancelCapture, ReferenceCommands
  <2>3. RestOK'
    BY <1>13, <1>0, <1>e DEF Shell!CancelCapture, RestOK, Shell!Dialogs, Shell!DialogClick
  <2> QED
    BY <2>1, <2>2, <2>3 DEF ShellInv
<1>14. CASE Shell!Retake
  <2>1. GuideOK' /\ CaptureOK' /\ QueueOK' /\ WindowOK' /\ late' \in BOOLEAN /\ leaving' = leaving
    BY <1>14, <1>g, <1>p DEF Shell!Retake
  <2>2. RestOK'
    BY <1>14, <1>0, <1>e, <2>1 DEF RestOK, Shell!Retake, Shell!DialogClick
  <2> QED
    BY <2>1, <2>2 DEF ShellInv
<1>15. CASE Shell!Confirm
  <2>1. shellReference \in 0 .. 3
    BY <1>0 DEF RestOK
  <2>2. CaptureOK'
    BY <1>15, <2>1 DEF Shell!Confirm, CaptureOK, Shell!Undecided
  <2>3. QueueOK' /\ GuideOK' /\ WindowOK' /\ leaving' = leaving
    BY <1>15, <1>g, <1>s DEF Shell!Confirm, ReferenceCommands
  <2>4. RestOK'
    BY <1>15, <1>0, <1>e DEF Shell!Confirm, RestOK, Shell!DialogClick
  <2> QED
    BY <2>2, <2>3, <2>4 DEF ShellInv
<1>16. CASE Shell!Dismiss \/ Shell!AdminAsks \/ Shell!AdminDone
  <2>1. GuideOK' /\ CaptureOK' /\ QueueOK' /\ WindowOK' /\ leaving' = leaving
    BY <1>16, <1>g DEF Shell!Dismiss, Shell!AdminAsks, Shell!AdminDone
  <2>2. RestOK'
    BY <1>16, <1>0, <1>e DEF RestOK, Shell!Dismiss, Shell!AdminAsks, Shell!AdminDone,
       Shell!DialogClick, Shell!Dialogs
  <2> QED
    BY <2>1, <2>2 DEF ShellInv
<1>17. CASE Shell!Runtime
  <2>1. QueueOK'
    <3>1. queue \in Seq(ReferenceCommands) /\ queue # <<>> /\ queue' = Tail(queue)
      BY <1>17, <1>0 DEF QueueOK, Shell!Runtime
    <3>2. Tail(queue) \in Seq(ReferenceCommands) /\ Len(Tail(queue)) = Len(queue) - 1
      BY <3>1, HeadTailProperties
    <3>3. Len(queue) \in Nat /\ QueueCapacity \in Nat
      BY <3>1, LenProperties DEF Shell!ShellAssumption
    <3> QED
      BY <1>0, <3>1, <3>2, <3>3 DEF QueueOK
  <2>2. GuideOK' /\ CaptureOK' /\ WindowOK' /\ leaving' = leaving
    BY <1>17, <1>g DEF Shell!Runtime
  <2>3. shellCandidate' \in 0 .. 3 /\ shellReference' \in 0 .. 3
    BY <1>17, <1>0 DEF Shell!Runtime, RestOK
  <2>4. RestOK'
    BY <1>17, <1>0, <2>3 DEF Shell!Runtime, RestOK
  <2> QED
    BY <2>1, <2>2, <2>4 DEF ShellInv
<1>18. CASE UNCHANGED shellVars
  <2>1. GuideOK' /\ CaptureOK' /\ QueueOK' /\ WindowOK' /\ leaving' = leaving
    BY <1>18, <1>g DEF shellVars
  <2>2. RestOK'
    BY <1>18, <1>0 DEF shellVars, RestOK
  <2> QED
    BY <2>1, <2>2 DEF ShellInv
<1> HIDE DEF Goal
<1> QED
  BY <1>1, <1>2, <1>3, <1>4, <1>5, <1>6, <1>7, <1>8, <1>9, <1>10, <1>11, <1>12, <1>13,
     <1>14, <1>15, <1>16, <1>17, <1>18 DEF Shell!Next, Goal

----------------------------------------------------------------------------
(***************************************************************************)
(* The composition (MCInterface).                                          *)
(***************************************************************************)

\* The inductive invariant of the composition.
InterfaceInv == ShellInv /\ NoticesInv /\ HandoffInv /\ LogInv

\* The invariant of the composition, for every value of the constants: each
\* component keeps its own, and the steps of the others leave it alone.
THEOREM InterfaceInvariance == Spec => []InterfaceInv
<1> USE InterfaceAssumption
<1>1. Init => InterfaceInv
  BY ShellInit, NoticesInit, HandoffInit, LogInit DEF Init, InterfaceInv
<1>2. InterfaceInv /\ [Next]_<<part, shellVars, noticeVars, handoffVars, activityVars>>
        => InterfaceInv'
  <2>1. [Next]_<<part, shellVars, noticeVars, handoffVars, activityVars>> =>
          /\ [Shell!Next]_shellVars /\ [Notes!Next]_noticeVars
          /\ [Handoff!Next]_handoffVars /\ [Activity!Next]_activityVars
    BY DEF Next
  <2> QED
    BY <2>1, ShellStep, NoticesStep, HandoffStep, LogStep DEF InterfaceInv
<1> QED
  BY <1>1, <1>2, PTL DEF Spec

\* An exit that was decided is not taken back, in the dialog, from the tray or by
\* another instance: it keeps its close request until the program ends, whatever
\* is clicked, typed or open meanwhile (the guards of logic on exit_requested).
THEOREM DecidedExitStays ==
  Spec => /\ [](Shell!TypeOK /\ (leaving = "exit" => window.closeSent))
          /\ [][leaving = "exit" => leaving' # "no"]_leaving
<1> USE InterfaceAssumption
<1>1. InterfaceInv => Shell!TypeOK /\ (leaving = "exit" => window.closeSent)
  BY ShellSafe DEF InterfaceInv
<1>2. InterfaceInv /\ [Next]_<<part, shellVars, noticeVars, handoffVars, activityVars>>
        => [leaving = "exit" => leaving' # "no"]_leaving
  <2>1. [Next]_<<part, shellVars, noticeVars, handoffVars, activityVars>>
          => [Shell!Next]_shellVars
    BY DEF Next
  <2> QED
    BY <2>1, ShellStep DEF InterfaceInv
<1> QED
  BY <1>1, <1>2, InterfaceInvariance, PTL DEF Spec

\* A toast shows an entry that is there, numbers tell entries apart, and toasts,
\* entries and alerts keep their limits, however many warnings come at once and
\* whatever the user clears or mutes (notifications.rs, record_alert).
THEOREM ToastsAlwaysHaveEntries == Spec => [](Notes!TypeOK /\ Notes!ToastsHaveEntries)
<1> USE InterfaceAssumption
<1>1. InterfaceInv => Notes!TypeOK /\ Notes!ToastsHaveEntries
  BY NoticesSafe DEF InterfaceInv
<1> QED
  BY <1>1, InterfaceInvariance, PTL

\* Nothing handed to the worker is lost: a restart that is owed is in a slot or
\* among the commands the worker took, the settings sent last are on their way or
\* in force, and a worker that was joined has taken the picture off the air, at
\* whatever moment commands come, calls hang or the exit begins
\* (PendingDeviceCommands, finish_worker_shutdown).
THEOREM NothingHandedOverIsLost ==
  Spec => [](/\ Handoff!TypeOK /\ OwedIsOnItsWay /\ LatestSettings
             /\ runtime = "joined" => pipe = "invalid")
<1>1. InterfaceInv => /\ Handoff!TypeOK /\ OwedIsOnItsWay /\ LatestSettings
                      /\ runtime = "joined" => pipe = "invalid"
  BY DEF InterfaceInv, HandoffInv
<1> QED
  BY <1>1, InterfaceInvariance, PTL

\* The worker's entries are in the log once and in order, and where entries are
\* missing between two of them there is a mark, unless an entry could not be
\* written: for rings of any size, and whichever of worker, runtime and interface
\* is late (record_with_verbosity, ACTIVITY_GAP, clear_logs).
THEOREM LossIsAlwaysLogged == Spec => [](Activity!TypeOK /\ Activity!LossIsLogged)
<1> USE InterfaceAssumption
<1>1. InterfaceInv => Activity!TypeOK /\ Activity!LossIsLogged
  BY LogSafe DEF InterfaceInv
<1> QED
  BY <1>1, InterfaceInvariance, PTL
==============================================================================
