-------------------------- MODULE RegressionProofs --------------------------
(***************************************************************************)
(* Theorems about Regression, for every number of slots, window and set of *)
(* samples: what the bitfields mark, and what line is fitted.              *)
(***************************************************************************)
EXTENDS Regression, SumTheorems

(* The sum of a function is over its domain. *)
LEMMA SumOverDomain ==
  ASSUME NEW f, NEW S, DOMAIN f = S
  PROVE  SumFunction(f) = SumFunctionOnSet(f, S)
BY DEF SumFunction

(* The sum of what is left of y, over x and z. *)
Rest(r, den, y, slope, x, offset, z, S) ==
  \A s \in S : /\ y[s] \in Int /\ x[s] \in Int /\ z[s] \in Int
               /\ r[s] = den * y[s] - slope * x[s] - offset * z[s]

LEMMA SumOfRest ==
  ASSUME NEW S, IsFiniteSet(S), NEW y, NEW x, NEW z, NEW r,
         NEW den \in Int, NEW slope \in Int, NEW offset \in Int,
         Rest(r, den, y, slope, x, offset, z, S)
  PROVE  SumFunctionOnSet(r, S)
         = den * SumFunctionOnSet(y, S) - slope * SumFunctionOnSet(x, S)
           - offset * SumFunctionOnSet(z, S)
<1>0. \A s \in S : /\ y[s] \in Int /\ x[s] \in Int /\ z[s] \in Int
                   /\ r[s] = den * y[s] - slope * x[s] - offset * z[s]
  BY DEF Rest
<1>1. PICK a \in Int, b \in Int : a = -slope /\ b = -offset
  OBVIOUS
<1> DEFINE h == [s \in S |-> a * x[s] + b * z[s]]
           X == SumFunctionOnSet(x, S)
           Y == SumFunctionOnSet(y, S)
           Z == SumFunctionOnSet(z, S)
<1>2. Combines(h, a, x, b, z, S)
  BY <1>0 DEF Combines
<1>3. Combines(r, den, y, 1, h, S)
  BY <1>0, <1>1 DEF Combines
<1> HIDE DEF h
<1>4. X \in Int /\ Y \in Int /\ Z \in Int
  BY <1>0, SumType
<1>5. SumFunctionOnSet(h, S) = a * X + b * Z
  BY ONLY IsFiniteSet(S), <1>1, <1>2, SumLinear
<1>6. SumFunctionOnSet(r, S) = den * Y + 1 * SumFunctionOnSet(h, S)
  BY ONLY IsFiniteSet(S), den \in Int, <1>3, SumLinear
<1>7. den * Y + 1 * (a * X + b * Z) = den * Y - slope * X - offset * Z
  BY <1>1, <1>4
<1> QED
  BY ONLY <1>5, <1>6, <1>7

(* The sum of a xy - b x - c y + e. *)
Bilinear(r, a, xy, b, x, c, y, e, S) ==
  \A s \in S : /\ xy[s] \in Int /\ x[s] \in Int /\ y[s] \in Int
               /\ r[s] = a * xy[s] - b * x[s] - c * y[s] + e

LEMMA SumOfBilinear ==
  ASSUME NEW S, IsFiniteSet(S), NEW xy, NEW x, NEW y, NEW r,
         NEW a \in Int, NEW b \in Int, NEW c \in Int, NEW e \in Int,
         Bilinear(r, a, xy, b, x, c, y, e, S)
  PROVE  SumFunctionOnSet(r, S)
         = a * SumFunctionOnSet(xy, S) - b * SumFunctionOnSet(x, S)
           - c * SumFunctionOnSet(y, S) + e * Cardinality(S)
<1> DEFINE one == [s \in S |-> 1]
           k == [s \in S |-> a * xy[s] + e * one[s]]
<1>0. \A s \in S : /\ xy[s] \in Int /\ x[s] \in Int /\ y[s] \in Int
                   /\ r[s] = a * xy[s] - b * x[s] - c * y[s] + e
  BY DEF Bilinear
<1>1. \A s \in S : one[s] = 1
  OBVIOUS
<1>2. Combines(k, a, xy, e, one, S)
  BY <1>0 DEF Combines
<1>3. Rest(r, 1, k, b, x, c, y, S)
  BY <1>0 DEF Rest
<1> HIDE DEF one, k
<1>4. SumFunctionOnSet(one, S) = 1 * Cardinality(S)
  BY ONLY IsFiniteSet(S), <1>1, SumConstant
<1>5. SumFunctionOnSet(k, S) = a * SumFunctionOnSet(xy, S) + e * SumFunctionOnSet(one, S)
  BY ONLY IsFiniteSet(S), a \in Int, e \in Int, <1>2, SumLinear
<1>6. SumFunctionOnSet(r, S) = 1 * SumFunctionOnSet(k, S) - b * SumFunctionOnSet(x, S)
                               - c * SumFunctionOnSet(y, S)
  BY ONLY IsFiniteSet(S), b \in Int, c \in Int, <1>3, SumOfRest
<1>7. PICK A \in Int, X \in Int, Y \in Int, n \in Int :
        /\ A = SumFunctionOnSet(xy, S) /\ X = SumFunctionOnSet(x, S)
        /\ Y = SumFunctionOnSet(y, S) /\ n = Cardinality(S)
  BY <1>0, SumType, FS_CardinalityType
<1>8. 1 * (a * A + e * (1 * n)) - b * X - c * Y = a * A - b * X - c * Y + e * n
  BY ONLY <1>7, a \in Int, b \in Int, c \in Int, e \in Int
<1> QED
  BY ONLY <1>4, <1>5, <1>6, <1>7, <1>8

(* The sum of (n x - X) (n y - Y), where X and Y are the sums of the x and y. *)
ProductOfDeviations(d, n, x, X, y, Y, xy, S) ==
  \A s \in S : /\ x[s] \in Int /\ y[s] \in Int /\ xy[s] = x[s] * y[s]
               /\ d[s] = (n * x[s] - X) * (n * y[s] - Y)

LEMMA SumOfProducts ==
  ASSUME NEW S, IsFiniteSet(S), NEW x, NEW y, NEW n, NEW X, NEW Y, NEW xy, NEW d,
         n = Cardinality(S), X = SumFunctionOnSet(x, S), Y = SumFunctionOnSet(y, S),
         ProductOfDeviations(d, n, x, X, y, Y, xy, S)
  PROVE  SumFunctionOnSet(d, S) = n * n * SumFunctionOnSet(xy, S) - n * X * Y
<1>0. \A s \in S : /\ x[s] \in Int /\ y[s] \in Int /\ xy[s] = x[s] * y[s]
                   /\ d[s] = (n * x[s] - X) * (n * y[s] - Y)
  BY DEF ProductOfDeviations
<1>1. n \in Nat /\ X \in Int /\ Y \in Int
  BY <1>0, FS_CardinalityType, SumType
<1>2. \A s \in S : xy[s] \in Int
  BY <1>0
<1>3. PICK a \in Int, b \in Int, c \in Int, e \in Int :
        a = n * n /\ b = n * Y /\ c = n * X /\ e = X * Y
  BY <1>1
<1>4. Bilinear(d, a, xy, b, x, c, y, e, S)
  <2> SUFFICES ASSUME NEW s \in S
               PROVE  /\ xy[s] \in Int /\ x[s] \in Int /\ y[s] \in Int
                      /\ d[s] = a * xy[s] - b * x[s] - c * y[s] + e
    BY DEF Bilinear
  <2>1. PICK p \in Int, q \in Int : p = x[s] /\ q = y[s]
    BY <1>0
  <2>2. (n * p - X) * (n * q - Y) = a * (p * q) - b * p - c * q + e
    BY ONLY <1>1, <1>3, p \in Int, q \in Int
  <2> QED
    BY <1>0, <1>2, <2>1, <2>2
<1>5. SumFunctionOnSet(d, S) = a * SumFunctionOnSet(xy, S) - b * X - c * Y + e * n
  BY ONLY IsFiniteSet(S), n = Cardinality(S), X = SumFunctionOnSet(x, S),
          Y = SumFunctionOnSet(y, S), <1>3, <1>4, SumOfBilinear
<1>6. SumFunctionOnSet(xy, S) \in Int
  BY ONLY IsFiniteSet(S), <1>2, SumType
<1>7. - b * X - c * Y + e * n = - (n * X * Y)
  BY ONLY <1>1, <1>3
<1> QED
  BY ONLY <1>1, <1>3, <1>5, <1>6, <1>7

-----------------------------------------------------------------------------
(* The bitfields and the bursts. *)

(* A set of slots is finite. *)
LEMMA SlotsFinite == \A slots \in SUBSET Slots : IsFiniteSet(slots)
<1>1. IsFiniteSet(Slots)
  <2>1. 0 \in Int /\ SlotNumber - 1 \in Int
    BY BitsAssumption
  <2> QED
    BY ONLY <2>1, FS_Interval DEF Slots
<1> QED
  BY <1>1, FS_Subset

(* Quotient and remainder. *)
LEMMA Division ==
  ASSUME NEW b \in Nat \ {0}, NEW i \in Nat
  PROVE  i = b * (i \div b) + (i % b) /\ (i % b) \in 0 .. b - 1 /\ i \div b \in Nat
OBVIOUS

(* Every slot has its byte among the NB_BYTES_BITFIELD of a bitfield. *)
LEMMA SlotHasByte ==
  ASSUME NEW i \in Slots
  PROVE  /\ i \in Nat /\ i \div ByteBits \in 0 .. NbBytes - 1
         /\ (i % ByteBits) \in 0 .. ByteBits - 1
         /\ i = ByteBits * (i \div ByteBits) + (i % ByteBits)
<1>1. i \in Nat /\ SlotNumber \in Nat /\ i <= SlotNumber - 1 /\ ByteBits \in Nat \ {0}
  BY BitsAssumption DEF Slots
<1>2. PICK q \in Nat, r \in 0 .. ByteBits - 1 :
        q = i \div ByteBits /\ r = i % ByteBits /\ i = ByteBits * q + r
  BY ONLY <1>1, Division
<1>3. SlotNumber + (ByteBits - 1) \in Nat
  BY <1>1
<1>4. PICK n \in Nat, m \in 0 .. ByteBits - 1 :
        n = NbBytes /\ SlotNumber + (ByteBits - 1) = ByteBits * n + m
  BY ONLY <1>1, <1>3, Division DEF NbBytes
<1>5. ByteBits * q < ByteBits * n
  BY <1>1, <1>2, <1>4
<1>6. ASSUME NEW b \in Nat \ {0}, NEW u \in Nat, NEW v \in Nat, b * u < b * v PROVE u < v
  BY <1>6
<1>7. q < n
  BY ONLY <1>1, <1>5, <1>6, q \in Nat, n \in Nat
<1> QED
  BY ONLY <1>1, <1>2, <1>4, <1>7

(***************************************************************************)
(* NB_BYTES_BITFIELD bytes have a bit for each slot, and setting the bit   *)
(* of a slot marks that slot and no other.                                 *)
(***************************************************************************)
THEOREM BitPerSlot ==
  ASSUME NEW bitfield \in Bitfield, NEW i \in Slots, NEW j \in Slots
  PROVE  /\ set_bit(bitfield, i) \in Bitfield
         /\ is_bit_set(set_bit(bitfield, i), j) <=> i = j \/ is_bit_set(bitfield, j)
<1>1. PICK p \in 0 .. NbBytes - 1, b \in 0 .. ByteBits - 1 :
        p = i \div ByteBits /\ b = i % ByteBits /\ i = ByteBits * p + b
  BY SlotHasByte
<1>2. PICK q \in 0 .. NbBytes - 1, c \in 0 .. ByteBits - 1 :
        q = j \div ByteBits /\ c = j % ByteBits /\ j = ByteBits * q + c
  BY SlotHasByte
<1>3. bitfield \in [0 .. NbBytes - 1 -> SUBSET (0 .. ByteBits - 1)]
  BY DEF Bitfield
<1>4. set_bit(bitfield, i) = [bitfield EXCEPT ![p] = bitfield[p] \cup {b}]
  BY <1>1 DEF set_bit
<1>5. set_bit(bitfield, i) \in Bitfield
  BY <1>3, <1>4 DEF Bitfield
<1>6. set_bit(bitfield, i)[q] = IF p = q THEN bitfield[q] \cup {b} ELSE bitfield[q]
  BY <1>3, <1>4
<1>7. i = j <=> p = q /\ b = c
  BY <1>1, <1>2
<1>8. \A f : is_bit_set(f, j) <=> c \in f[q]
  BY <1>2 DEF is_bit_set
<1> QED
  BY <1>5, <1>6, <1>7, <1>8

(* The conjunction of two bitfields marks the slots that both mark. *)
LEMMA BitsAnd ==
  ASSUME NEW f \in Bitfield, NEW g \in Bitfield, NEW i \in Slots
  PROVE  is_bit_set(bitwise_and_bitfields(f, g), i) <=> is_bit_set(f, i) /\ is_bit_set(g, i)
BY SlotHasByte DEF is_bit_set, bitwise_and_bitfields

(* A burst marked at some slots, with a time for each of them. *)
HoldsTimes(burst, slots, time) ==
  /\ burst \in Burst
  /\ \A i \in Slots : /\ is_bit_set(burst.bitfield, i) <=> i \in slots
                      /\ i \in slots => burst.ticks[i] = time[i]

(* A cleared burst is marked nowhere. *)
LEMMA NoneHeld ==
  ASSUME NEW time
  PROVE  HoldsTimes(NoTimestamps, {}, time)
<1>1. NoTimestamps \in Burst
  BY DEF NoTimestamps, Burst, NoBits, Bitfield
<1>2. \A i \in Slots : ~ is_bit_set(NoTimestamps.bitfield, i)
  BY SlotHasByte DEF NoTimestamps, NoBits, is_bit_set
<1> QED
  BY <1>1, <1>2 DEF HoldsTimes

(* add_bluesync_timestamps marks one slot more, with its time. *)
LEMMA AddHolds ==
  ASSUME NEW time \in [Slots -> Int], NEW slots \in SUBSET Slots, NEW burst,
         HoldsTimes(burst, slots, time), NEW i \in Slots
  PROVE  HoldsTimes(add(burst, i, time[i]), slots \cup {i}, time)
<1> DEFINE new == add(burst, i, time[i])
<1>1. burst.ticks \in [Slots -> Int] /\ burst.bitfield \in Bitfield
  BY DEF HoldsTimes, Burst
<1>2. /\ new.ticks = [burst.ticks EXCEPT ![i] = time[i]]
      /\ new.bitfield = set_bit(burst.bitfield, i)
  BY DEF add
<1>3. new.bitfield \in Bitfield
  BY <1>1, <1>2, BitPerSlot
<1>4. new \in Burst
  BY <1>1, <1>3 DEF add, Burst
<1>5. ASSUME NEW j \in Slots
      PROVE  /\ is_bit_set(new.bitfield, j) <=> j \in slots \cup {i}
             /\ j \in slots \cup {i} => new.ticks[j] = time[j]
  <2>1. is_bit_set(new.bitfield, j) <=> i = j \/ is_bit_set(burst.bitfield, j)
    BY <1>1, <1>2, BitPerSlot
  <2> HIDE DEF new
  <2> QED
    BY <1>1, <1>2, <2>1 DEF HoldsTimes
<1> QED
  BY <1>4, <1>5 DEF HoldsTimes

(* add_bluesync_timestamps for each slot of a set. *)
Adds(g, time, slots) ==
  \A s \in SUBSET slots :
    g[s] = IF s = {} THEN NoTimestamps
           ELSE add(g[s \ {First(s)}], First(s), time[First(s)])

(***************************************************************************)
(* Added for each slot of a set, the times are all held, whatever the      *)
(* order.                                                                  *)
(***************************************************************************)
LEMMA AddsHold ==
  ASSUME NEW time \in [Slots -> Int], NEW slots \in SUBSET Slots, NEW g, Adds(g, time, slots)
  PROVE  HoldsTimes(g[slots], slots, time)
<1> DEFINE F == {s \in SUBSET slots : HoldsTimes(g[s], s, time)}
<1>1. ASSUME NEW s \in SUBSET slots, \A i \in s : s \ {i} \in F
      PROVE  s \in F
  <2>1. CASE s = {}
    BY <2>1, NoneHeld DEF Adds
  <2>2. CASE s # {}
    <3>1. First(s) \in s
      BY <2>2, FirstIn
    <3>2. HoldsTimes(g[s \ {First(s)}], s \ {First(s)}, time)
      BY <1>1, <3>1
    <3>3. s \ {First(s)} \in SUBSET Slots /\ First(s) \in Slots /\ (s \ {First(s)}) \cup {First(s)} = s
      BY <3>1
    <3>4. HoldsTimes(add(g[s \ {First(s)}], First(s), time[First(s)]), s, time)
      BY <3>2, <3>3, AddHolds
    <3> QED
      BY <2>2, <3>4 DEF Adds
  <2> QED
    BY <2>1, <2>2
<1>2. IsFiniteSet(slots)
  BY SlotsFinite
<1>3. slots \in F
  <2> HIDE DEF F
  <2> QED
    BY <1>1, <1>2, RemovalInduction
<1> QED
  BY <1>3

(* Such a function exists. *)
AddsAll(g, time, slots) ==
  DOMAIN g = SUBSET slots /\ Adds(g, time, slots) /\ g = [s \in SUBSET slots |-> g[s]]

LEMMA AddsExist ==
  ASSUME NEW time \in [Slots -> Int], NEW slots \in SUBSET Slots
  PROVE  \E g : AddsAll(g, time, slots)
<1> DEFINE F == [p \in slots \X Burst |-> add(p[2], p[1], time[p[1]])]
<1>1. IsFiniteSet(slots)
  BY SlotsFinite
<1>2. F \in [slots \X Burst -> Burst]
  <2> SUFFICES ASSUME NEW i \in slots, NEW b \in Burst PROVE add(b, i, time[i]) \in Burst
    OBVIOUS
  <2>1. b.ticks \in [Slots -> Int] /\ b.bitfield \in Bitfield /\ i \in Slots
    BY DEF Burst
  <2>2. set_bit(b.bitfield, i) \in Bitfield
    BY <2>1, BitPerSlot
  <2> QED
    BY <2>1, <2>2 DEF add, Burst
<1>3. NoTimestamps \in Burst
  BY NoneHeld DEF HoldsTimes
<1>4. Foldable(F, NoTimestamps, slots, Burst)
  BY <1>1, <1>2, <1>3 DEF Foldable
<1>5. PICK g : IsFold(g, F, NoTimestamps, slots, Burst)
  BY <1>4, FoldExists
<1>6. ASSUME NEW s \in SUBSET slots
      PROVE g[s] = IF s = {} THEN NoTimestamps
                   ELSE add(g[s \ {First(s)}], First(s), time[First(s)])
  <2>1. s # {} => First(s) \in slots /\ g[s \ {First(s)}] \in Burst
    BY <1>5, FirstIn DEF IsFold
  <2> QED
    BY <1>5, <2>1 DEF IsFold, Step
<1> QED
  BY <1>5, <1>6 DEF Adds, AddsAll, IsFold

-----------------------------------------------------------------------------
(* The window. *)

(* The samples of a window are finitely many, and their times integers. *)
LEMMA SamplesAreTimes ==
  ASSUME NEW w \in Seq(Burst \X Burst)
  PROVE  /\ IsFiniteSet(Samples(w))
         /\ \A s \in Samples(w) : /\ s[1] \in 1 .. Len(w) /\ s[2] \in Slots
                                  /\ Own(w, s) \in Int /\ Master(w, s) \in Int
<1>1. IsFiniteSet((1 .. Len(w)) \X Slots)
  <2>1. IsFiniteSet(1 .. Len(w))
    <3>1. 1 \in Int /\ Len(w) \in Int
      OBVIOUS
    <3> QED
      BY ONLY <3>1, FS_Interval
  <2> QED
    BY <2>1, SlotsFinite, FS_Product
<1>2. IsFiniteSet(Samples(w))
  BY <1>1, FS_Subset DEF Samples
<1>3. ASSUME NEW s \in Samples(w)
      PROVE  /\ s[1] \in 1 .. Len(w) /\ s[2] \in Slots
             /\ Own(w, s) \in Int /\ Master(w, s) \in Int
  <2>1. s[1] \in 1 .. Len(w) /\ s[2] \in Slots
    BY DEF Samples
  <2>2. w[s[1]] \in Burst \X Burst
    BY <2>1
  <2>3. w[s[1]][1].ticks \in [Slots -> Int] /\ w[s[1]][2].ticks \in [Slots -> Int]
    BY <2>2 DEF Burst
  <2> QED
    BY <2>1, <2>3 DEF Own, Master
<1> QED
  BY <1>2, <1>3

(* The sums of calculate_lr_from_history. *)
Xs(w) == [s \in Samples(w) |-> Own(w, s)]
Ys(w) == [s \in Samples(w) |-> Master(w, s)]
SumX(w) == SumFunctionOnSet(Xs(w), Samples(w))
SumY(w) == SumFunctionOnSet(Ys(w), Samples(w))
DevX(w, s) == Cardinality(Samples(w)) * Own(w, s) - SumX(w)
DevY(w, s) == Cardinality(Samples(w)) * Master(w, s) - SumY(w)
Cov(w) == SumFunctionOnSet([s \in Samples(w) |-> DevX(w, s) * DevY(w, s)], Samples(w))
Var(w) == SumFunctionOnSet([s \in Samples(w) |-> DevX(w, s) * DevX(w, s)], Samples(w))
Fit(w) ==
  LET n == Cardinality(Samples(w)) IN
  [slope |-> n * Cov(w), offset |-> SumY(w) * Var(w) - Cov(w) * SumX(w), den |-> n * Var(w)]

(* A regression that succeeds returns the quotients of those sums. *)
LEMMA SuccessIsFit ==
  ASSUME NEW w, NEW min, calculate_lr_from_history(w, min).status = "SUCCESS"
  PROVE  /\ calculate_lr_from_history(w, min).line = Fit(w)
         /\ Cardinality(Samples(w)) # 0 /\ Var(w) # 0
BY DEF calculate_lr_from_history, Fit, Cov, Var, DevX, DevY, SumX, SumY, Xs, Ys, SumFunction

(* The sums are integers, and the variance is not negative. *)
LEMMA FitSums ==
  ASSUME NEW w \in Seq(Burst \X Burst)
  PROVE  /\ Cardinality(Samples(w)) \in Nat /\ SumX(w) \in Int /\ SumY(w) \in Int
         /\ Cov(w) \in Int /\ Var(w) \in Nat
         /\ \A s \in Samples(w) : DevX(w, s) \in Int /\ DevY(w, s) \in Int
<1> DEFINE S == Samples(w)
<1>1. IsFiniteSet(S) /\ \A s \in S : Own(w, s) \in Int /\ Master(w, s) \in Int
  BY SamplesAreTimes
<1>2. (\A s \in S : Xs(w)[s] \in Int) /\ (\A s \in S : Ys(w)[s] \in Int)
  BY <1>1 DEF Xs, Ys
<1> HIDE DEF S
<1>3. SumFunctionOnSet(Xs(w), S) \in Int /\ SumFunctionOnSet(Ys(w), S) \in Int
  BY ONLY <1>1, <1>2, SumType
<1>4. Cardinality(S) \in Nat
  BY <1>1, FS_CardinalityType
<1>5. \A s \in S : DevX(w, s) \in Int /\ DevY(w, s) \in Int
  BY <1>1, <1>3, <1>4 DEF DevX, DevY, SumX, SumY, S
<1> DEFINE cov == [s \in S |-> DevX(w, s) * DevY(w, s)]
           var == [s \in S |-> DevX(w, s) * DevX(w, s)]
<1>6. (\A s \in S : cov[s] \in Int) /\ (\A s \in S : var[s] \in Nat)
  <2>1. ASSUME NEW d \in Int PROVE d * d \in Nat
    OBVIOUS
  <2> QED
    BY <1>5, <2>1
<1> HIDE DEF cov, var
<1>7. SumFunctionOnSet(cov, S) \in Int /\ SumFunctionOnSet(var, S) \in Nat
  BY ONLY <1>1, <1>6, SumType, SumNonnegative
<1> QED
  BY <1>3, <1>4, <1>5, <1>7 DEF SumX, SumY, Cov, Var, cov, var, S

(***************************************************************************)
(* A successful regression divides by no zero, and its denominator is      *)
(* positive.                                                               *)
(***************************************************************************)
LEMMA FitIsLine ==
  ASSUME NEW w \in Seq(Burst \X Burst), Cardinality(Samples(w)) # 0, Var(w) # 0
  PROVE  Fit(w) \in Line
<1>1. /\ Cardinality(Samples(w)) \in Nat /\ SumX(w) \in Int /\ SumY(w) \in Int
      /\ Cov(w) \in Int /\ Var(w) \in Nat
  BY FitSums
<1>2. ASSUME NEW n \in Nat, NEW v \in Nat, n # 0, v # 0 PROVE n * v \in Nat \ {0}
  BY <1>2
<1>3. Cardinality(Samples(w)) * Var(w) \in Nat \ {0}
  BY <1>1, <1>2
<1> QED
  BY <1>1, <1>3 DEF Fit, Line

(* Variance and covariance by the sums of squares and of products. *)
LEMMA FitMoments ==
  ASSUME NEW w \in Seq(Burst \X Burst), NEW xx, NEW xy,
         \A s \in Samples(w) : /\ xx[s] = Own(w, s) * Own(w, s)
                               /\ xy[s] = Own(w, s) * Master(w, s)
  PROVE  LET n == Cardinality(Samples(w)) IN
         /\ Var(w) = n * n * SumFunctionOnSet(xx, Samples(w)) - n * SumX(w) * SumX(w)
         /\ Cov(w) = n * n * SumFunctionOnSet(xy, Samples(w)) - n * SumX(w) * SumY(w)
<1> DEFINE S == Samples(w)
           n == Cardinality(S)
           x == Xs(w)
           y == Ys(w)
           X == SumX(w)
           Y == SumY(w)
           cov == [s \in S |-> DevX(w, s) * DevY(w, s)]
           var == [s \in S |-> DevX(w, s) * DevX(w, s)]
<1>1. IsFiniteSet(S) /\ \A s \in S : Own(w, s) \in Int /\ Master(w, s) \in Int
  BY SamplesAreTimes
<1>2. \A s \in S : x[s] \in Int /\ y[s] \in Int /\ xx[s] = x[s] * x[s] /\ xy[s] = x[s] * y[s]
  BY <1>1 DEF Xs, Ys
<1>3. \A s \in S : /\ cov[s] = (n * x[s] - X) * (n * y[s] - Y)
                   /\ var[s] = (n * x[s] - X) * (n * x[s] - X)
  BY DEF DevX, DevY, Xs, Ys
<1>4. X = SumFunctionOnSet(x, S) /\ Y = SumFunctionOnSet(y, S) /\ n = Cardinality(S)
  BY DEF SumX, SumY
<1>5. Cov(w) = SumFunctionOnSet(cov, S) /\ Var(w) = SumFunctionOnSet(var, S)
  BY DEF Cov, Var
<1> HIDE DEF S, n, x, y, X, Y, cov, var
<1>8. /\ ProductOfDeviations(cov, n, x, X, y, Y, xy, S)
      /\ ProductOfDeviations(var, n, x, X, x, X, xx, S)
  BY <1>2, <1>3 DEF ProductOfDeviations
<1>6. SumFunctionOnSet(cov, S) = n * n * SumFunctionOnSet(xy, S) - n * X * Y
  BY ONLY <1>1, <1>4, <1>8, SumOfProducts
<1>7. SumFunctionOnSet(var, S) = n * n * SumFunctionOnSet(xx, S) - n * X * X
  BY ONLY <1>1, <1>4, <1>8, SumOfProducts
<1> QED
  BY <1>5, <1>6, <1>7 DEF S, n, X, Y

(***************************************************************************)
(* A regression that succeeds returns the least-squares line of the        *)
(* samples: the residuals sum to zero, alone and against the local times.  *)
(***************************************************************************)
THEOREM LeastSquares ==
  ASSUME NEW w \in Seq(Burst \X Burst), NEW l, l = Fit(w), Fit(w) \in Line, NEW r, NEW xr,
         \A s \in Samples(w) :
           /\ r[s] = l.den * Master(w, s) - l.slope * Own(w, s) - l.offset
           /\ xr[s] = Own(w, s) * r[s]
  PROVE  /\ SumFunctionOnSet(r, Samples(w)) = 0
         /\ SumFunctionOnSet(xr, Samples(w)) = 0
<1> DEFINE S == Samples(w)
           n == Cardinality(S)
           x == Xs(w)
           y == Ys(w)
           one == [s \in S |-> 1]
           xx == [s \in S |-> Own(w, s) * Own(w, s)]
           xy == [s \in S |-> Own(w, s) * Master(w, s)]
           A == SumFunctionOnSet(xx, S)
           B == SumFunctionOnSet(xy, S)
           X == SumX(w)
           Y == SumY(w)
           V == Var(w)
           C == Cov(w)
<1>1. IsFiniteSet(S) /\ \A s \in S : Own(w, s) \in Int /\ Master(w, s) \in Int
  BY SamplesAreTimes
<1>2. /\ n \in Nat /\ X \in Int /\ Y \in Int /\ C \in Int /\ V \in Int
      /\ l.slope \in Int /\ l.offset \in Int /\ l.den \in Int
  BY FitSums DEF Line
<1>3. l.slope = n * C /\ l.offset = Y * V - C * X /\ l.den = n * V
  BY DEF Fit
<1>4. Rest(r, l.den, y, l.slope, x, l.offset, one, S)
  BY <1>1, <1>2 DEF Xs, Ys, Rest
<1>5. Rest(xr, l.den, xy, l.slope, xx, l.offset, x, S)
  <2> SUFFICES ASSUME NEW s \in S
               PROVE  /\ xy[s] \in Int /\ xx[s] \in Int /\ x[s] \in Int
                      /\ xr[s] = l.den * xy[s] - l.slope * xx[s] - l.offset * x[s]
    BY DEF Rest
  <2>1. PICK p \in Int, q \in Int, a \in Int, b \in Int, c \in Int :
          p = Own(w, s) /\ q = Master(w, s) /\ a = l.den /\ b = l.slope /\ c = l.offset
    BY <1>1, <1>2
  <2>2. /\ x[s] = p /\ xx[s] = p * p /\ xy[s] = p * q
        /\ xr[s] = p * (a * q - b * p - c)
    BY <2>1 DEF Xs
  <2>3. p * (a * q - b * p - c) = a * (p * q) - b * (p * p) - c * p
    BY ONLY p \in Int, q \in Int, a \in Int, b \in Int, c \in Int
  <2>4. p * p \in Int /\ p * q \in Int /\ p \in Int
    BY ONLY p \in Int, q \in Int
  <2> QED
    BY ONLY <2>1, <2>2, <2>3, <2>4
<1>6. \A s \in S : one[s] = 1 /\ xx[s] = Own(w, s) * Own(w, s) /\ xy[s] = Own(w, s) * Master(w, s)
  OBVIOUS
<1>7. X = SumFunctionOnSet(x, S) /\ Y = SumFunctionOnSet(y, S) /\ n = Cardinality(S)
  BY DEF SumX, SumY
<1>8. V = n * n * A - n * X * X /\ C = n * n * B - n * X * Y
  <2> HIDE DEF xx, xy
  <2> QED
    BY <1>6, FitMoments
<1>9. \A s \in S : xx[s] \in Int /\ xy[s] \in Int
  BY <1>5 DEF Rest
<1> HIDE DEF x, y, one, xx, xy, X, Y, V, C, n, S
<1>10. A \in Int /\ B \in Int /\ SumFunctionOnSet(one, S) = n
  <2>1. A \in Int /\ B \in Int
    BY ONLY <1>1, <1>9, SumType
  <2>2. SumFunctionOnSet(one, S) = 1 * Cardinality(S)
    BY ONLY <1>1, <1>6, SumConstant
  <2> QED
    BY ONLY <1>2, <1>7, <2>1, <2>2
<1>11. SumFunctionOnSet(r, S) = l.den * Y - l.slope * X - l.offset * n
  BY ONLY <1>1, <1>2, <1>4, <1>7, <1>10, SumOfRest
<1>12. SumFunctionOnSet(xr, S) = l.den * B - l.slope * A - l.offset * X
  BY ONLY <1>1, <1>2, <1>5, <1>7, SumOfRest
<1> HIDE DEF A, B
<1>13. l.den * Y - l.slope * X - l.offset * n = 0
  BY ONLY <1>2, <1>3
<1>14. l.den * B - l.slope * A - l.offset * X = 0
  <2>1. PICK K \in Int : K = V * (n * B - X * Y) - C * (n * A - X * X)
    BY <1>2, <1>10
  <2>2. (n * V) * B - (n * C) * A - (Y * V - C * X) * X = K
    BY ONLY <1>2, <1>10, <2>1
  <2>3. n * K = V * (n * n * B - n * X * Y) - C * (n * n * A - n * X * X)
    BY ONLY <1>2, <1>10, <2>1
  <2>4. n * K = 0
    <3>1. V * C - C * V = 0
      BY ONLY <1>2
    <3> QED
      BY ONLY <1>8, <2>3, <3>1
  <2>5. n # 0
    <3>1. l.den \in Nat \ {0}
      BY DEF Line
    <3> QED
      BY ONLY <1>2, <1>3, <3>1
  <2>6. ASSUME NEW a \in Nat, a # 0, NEW b \in Int, a * b = 0 PROVE b = 0
    BY ONLY a \in Nat, a # 0, b \in Int, a * b = 0
  <2> QED
    BY ONLY <1>2, <1>3, <2>1, <2>2, <2>4, <2>5, <2>6
<1> QED
  BY <1>11, <1>12, <1>13, <1>14 DEF S

(***************************************************************************)
(* Samples that lie on a line are fitted that line.                        *)
(***************************************************************************)
THEOREM FitOfALine ==
  ASSUME NEW w \in Seq(Burst \X Burst), NEW l, l = Fit(w),
         NEW rate \in Int, NEW start \in Int,
         \A s \in Samples(w) : Master(w, s) = rate * Own(w, s) + start
  PROVE  l.slope = l.den * rate /\ l.offset = l.den * start
<1> DEFINE S == Samples(w)
           n == Cardinality(S)
           x == Xs(w)
           y == Ys(w)
           one == [s \in S |-> 1]
           X == SumX(w)
           Y == SumY(w)
           V == Var(w)
           C == Cov(w)
           cov == [s \in S |-> DevX(w, s) * DevY(w, s)]
           var == [s \in S |-> DevX(w, s) * DevX(w, s)]
<1>1. IsFiniteSet(S) /\ \A s \in S : Own(w, s) \in Int /\ Master(w, s) \in Int
  BY SamplesAreTimes
<1>2. /\ n \in Nat /\ X \in Int /\ Y \in Int /\ C \in Int /\ V \in Int
      /\ \A s \in S : DevX(w, s) \in Int /\ DevY(w, s) \in Int
  BY FitSums
<1>3. l.slope = n * C /\ l.offset = Y * V - C * X /\ l.den = n * V
  BY DEF Fit
<1>4. Combines(y, rate, x, start, one, S)
  BY <1>1 DEF Combines, Xs, Ys
<1>5. \A s \in S : one[s] = 1
  OBVIOUS
<1>6. X = SumFunctionOnSet(x, S) /\ Y = SumFunctionOnSet(y, S) /\ n = Cardinality(S)
  BY DEF SumX, SumY
<1>7. C = SumFunctionOnSet(cov, S) /\ V = SumFunctionOnSet(var, S)
  BY DEF Cov, Var
<1>8. \A s \in S : /\ DevX(w, s) = n * Own(w, s) - X /\ DevY(w, s) = n * Master(w, s) - Y
                   /\ cov[s] = DevX(w, s) * DevY(w, s) /\ var[s] = DevX(w, s) * DevX(w, s)
  BY DEF DevX, DevY
<1>9. \A s \in S : Master(w, s) = rate * Own(w, s) + start
  OBVIOUS
<1> HIDE DEF S, n, x, y, one, X, Y, V, C, cov, var
<1>10. Y = rate * X + start * n
  <2>1. SumFunctionOnSet(one, S) = 1 * n
    BY ONLY <1>1, <1>5, <1>6, SumConstant
  <2>2. SumFunctionOnSet(y, S) = rate * SumFunctionOnSet(x, S) + start * SumFunctionOnSet(one, S)
    BY ONLY <1>1, <1>4, rate \in Int, start \in Int, SumLinear
  <2>3. 1 * n = n
    BY ONLY <1>2
  <2> QED
    BY ONLY <1>6, <2>1, <2>2, <2>3
<1>11. Combines(cov, rate, var, 0, var, S)
  <2> SUFFICES ASSUME NEW s \in S
               PROVE  var[s] \in Int /\ cov[s] = rate * var[s] + 0 * var[s]
    BY DEF Combines
  <2>1. PICK p \in Int, q \in Int, a \in Int, b \in Int :
          /\ p = Own(w, s) /\ q = Master(w, s) /\ a = DevX(w, s) /\ b = DevY(w, s)
    BY <1>1, <1>2
  <2>2. a = n * p - X /\ b = n * q - Y /\ q = rate * p + start
    BY ONLY <1>8, <1>9, <2>1, s \in S
  <2>3. b = rate * a
    <3>1. n * (rate * p + start) - (rate * X + start * n) = rate * (n * p - X)
      BY ONLY <1>2, p \in Int, rate \in Int, start \in Int
    <3> QED
      BY ONLY <1>10, <2>2, <3>1
  <2>4. a * b = rate * (a * a) /\ a * a \in Int
    BY ONLY <2>1, <2>3, rate \in Int
  <2>5. cov[s] = a * b /\ var[s] = a * a
    BY ONLY <1>8, <2>1, s \in S
  <2> QED
    BY ONLY <2>4, <2>5, rate \in Int
<1>12. C = rate * V
  <2>1. SumFunctionOnSet(cov, S) = rate * SumFunctionOnSet(var, S) + 0 * SumFunctionOnSet(var, S)
    BY ONLY <1>1, <1>11, rate \in Int, 0 \in Int, SumLinear
  <2> QED
    BY ONLY <1>2, <1>7, <2>1, rate \in Int
<1>13. n * C = n * V * rate
  BY ONLY <1>2, <1>12, rate \in Int
<1>14. Y * V - C * X = n * V * start
  BY ONLY <1>2, <1>10, <1>12, rate \in Int, start \in Int
<1> QED
  BY ONLY <1>3, <1>13, <1>14

(***************************************************************************)
(* Where later samples are never of earlier times, the covariance is not   *)
(* negative.                                                               *)
(***************************************************************************)
Rising(w) ==
  \A s, t \in Samples(w) : Own(w, s) <= Own(w, t) => Master(w, s) <= Master(w, t)

(***************************************************************************)
(* Rising times have no negative covariance: n times it is the sum, over   *)
(* all pairs of samples, of the product of their differences, halved.      *)
(***************************************************************************)
LEMMA RisingCovariance ==
  ASSUME NEW w \in Seq(Burst \X Burst), Rising(w)
  PROVE  Cov(w) \in Nat
<1> DEFINE S == Samples(w)
           n == Cardinality(S)
           x == Xs(w)
           y == Ys(w)
           xy == [s \in S |-> Own(w, s) * Master(w, s)]
           X == SumX(w)
           Y == SumY(w)
           B == SumFunctionOnSet(xy, S)
           dev(t) == [s \in S |-> (Own(w, s) - Own(w, t)) * (Master(w, s) - Master(w, t))]
           sum == [t \in S |-> SumFunctionOnSet(dev(t), S)]
<1>1. IsFiniteSet(S) /\ \A s \in S : Own(w, s) \in Int /\ Master(w, s) \in Int
  BY SamplesAreTimes
<1>2. n \in Nat /\ X \in Int /\ Y \in Int /\ Cov(w) \in Int
  BY FitSums
<1>3. X = SumFunctionOnSet(x, S) /\ Y = SumFunctionOnSet(y, S) /\ n = Cardinality(S)
  BY DEF SumX, SumY
<1>4. \A s \in S : x[s] = Own(w, s) /\ y[s] = Master(w, s) /\ xy[s] = Own(w, s) * Master(w, s)
  BY DEF Xs, Ys
<1>5. \A s \in S : x[s] \in Int /\ y[s] \in Int /\ xy[s] \in Int
  BY <1>1, <1>4
<1>6. \A s, t \in S : dev(t)[s] = (Own(w, s) - Own(w, t)) * (Master(w, s) - Master(w, t))
  OBVIOUS
<1>7. \A s, t \in S : Own(w, s) <= Own(w, t) => Master(w, s) <= Master(w, t)
  BY DEF Rising
<1>8. \A t \in S : sum[t] = SumFunctionOnSet(dev(t), S)
  OBVIOUS
<1>9. Cov(w) = n * n * B - n * X * Y
  <2> DEFINE xx == [s \in S |-> Own(w, s) * Own(w, s)]
  <2>1. \A s \in S : /\ xx[s] = Own(w, s) * Own(w, s) /\ xy[s] = Own(w, s) * Master(w, s)
    OBVIOUS
  <2> HIDE DEF xx, xy
  <2> QED
    BY <2>1, FitMoments
<1> HIDE DEF S, n, x, y, xy, X, Y, dev, sum
<1>10. B \in Int
  BY ONLY <1>1, <1>5, SumType
<1> HIDE DEF B
<1>11. ASSUME NEW t \in S
       PROVE  /\ sum[t] \in Nat
              /\ sum[t] = n * xy[t] - X * y[t] - Y * x[t] + B
  <2>1. PICK p \in Int, q \in Int : p = Own(w, t) /\ q = Master(w, t)
    BY <1>1
  <2>2. ASSUME NEW s \in S
        PROVE  /\ dev(t)[s] \in Nat
               /\ dev(t)[s] = 1 * xy[s] - q * x[s] - p * y[s] + p * q
    <3>1. PICK a \in Int, b \in Int : a = Own(w, s) /\ b = Master(w, s)
      BY <1>1
    <3>2. (a <= p => b <= q) /\ (p <= a => q <= b)
      BY <1>7, <2>1, <3>1
    <3>3. (a - p) * (b - q) \in Nat
      BY ONLY <3>2, a \in Int, b \in Int, p \in Int, q \in Int
    <3>4. (a - p) * (b - q) = 1 * (a * b) - q * a - p * b + p * q
      BY ONLY a \in Int, b \in Int, p \in Int, q \in Int
    <3>5. x[s] = a /\ y[s] = b /\ xy[s] = a * b /\ dev(t)[s] = (a - p) * (b - q)
      BY <1>4, <1>6, <2>1, <3>1
    <3> QED
      BY ONLY <3>3, <3>4, <3>5
  <2>3. PICK e \in Int : e = p * q
    BY <2>1
  <2>4. Bilinear(dev(t), 1, xy, q, x, p, y, e, S)
    BY ONLY <1>5, <2>2, <2>3 DEF Bilinear
  <2>5. SumFunctionOnSet(dev(t), S) = 1 * B - q * X - p * Y + e * n
    BY ONLY <1>1, <1>3, <2>1, <2>3, <2>4, 1 \in Int, SumOfBilinear DEF B
  <2>6. SumFunctionOnSet(dev(t), S) \in Nat
    BY ONLY <1>1, <2>2, SumNonnegative
  <2>7. 1 * B - q * X - p * Y + e * n = n * (p * q) - X * q - Y * p + B
    <3>1. q * X = X * q /\ p * Y = Y * p /\ e * n = n * e
      BY ONLY <1>2, p \in Int, q \in Int, e \in Int
    <3>2. e * n = n * (p * q)
      BY ONLY <2>3, <3>1
    <3>3. X * q \in Int /\ Y * p \in Int /\ e * n \in Int
      BY ONLY <1>2, p \in Int, q \in Int, e \in Int
    <3> QED
      BY ONLY <1>10, <3>1, <3>2, <3>3
  <2>8. x[t] = p /\ y[t] = q /\ xy[t] = p * q
    BY ONLY <1>4, <2>1, t \in S
  <2> QED
    BY ONLY <1>8, <2>5, <2>6, <2>7, <2>8, t \in S
<1>12. Bilinear(sum, n, xy, X, y, Y, x, B, S)
  BY ONLY <1>5, <1>11 DEF Bilinear
<1>13. SumFunctionOnSet(sum, S) = n * B - X * Y - Y * X + B * n
  BY ONLY <1>1, <1>2, <1>3, <1>10, <1>12, n \in Int, SumOfBilinear DEF B
<1>14. SumFunctionOnSet(sum, S) \in Nat
  BY ONLY <1>1, <1>11, SumNonnegative
<1>15. PICK K \in Int : K = n * B - X * Y
  BY <1>2, <1>10
<1>16. 2 * K \in Nat
  <2>1. n * B - X * Y - Y * X + B * n = 2 * K
    BY ONLY <1>2, <1>10, <1>15
  <2> QED
    BY ONLY <1>13, <1>14, <2>1
<1>17. K \in Nat
  BY ONLY <1>15, <1>16
<1>18. n * n * B - n * X * Y = n * K
  BY ONLY <1>2, <1>10, <1>15
<1>19. n * K \in Nat
  BY ONLY <1>2, <1>17
<1> QED
  BY ONLY <1>9, <1>18, <1>19

(***************************************************************************)
(* A line fitted to rising times, none of them negative, is not negative   *)
(* from the last of them on.                                               *)
(***************************************************************************)
THEOREM FitOfRisingTimes ==
  ASSUME NEW w \in Seq(Burst \X Burst), NEW l, l = Fit(w), Rising(w), NEW d \in Int,
         \A s \in Samples(w) : Own(w, s) <= d /\ Master(w, s) >= 0
  PROVE  l.slope \in Nat /\ l.slope * d + l.offset \in Nat
<1> DEFINE S == Samples(w)
           n == Cardinality(S)
           x == Xs(w)
           y == Ys(w)
           one == [s \in S |-> 1]
           late == [s \in S |-> d - Own(w, s)]
           X == SumX(w)
           Y == SumY(w)
           V == Var(w)
           C == Cov(w)
<1>1. IsFiniteSet(S) /\ \A s \in S : Own(w, s) \in Int /\ Master(w, s) \in Int
  BY SamplesAreTimes
<1>2. n \in Nat /\ X \in Int /\ Y \in Int /\ V \in Nat /\ C \in Nat
  BY FitSums, RisingCovariance
<1>3. l.slope = n * C /\ l.offset = Y * V - C * X /\ l.den = n * V
  BY DEF Fit
<1>4. \A s \in S : y[s] \in Nat /\ late[s] \in Nat /\ one[s] = 1
  BY <1>1 DEF Ys
<1>5. X = SumFunctionOnSet(x, S) /\ Y = SumFunctionOnSet(y, S) /\ n = Cardinality(S)
  BY DEF SumX, SumY
<1>6. Combines(late, d, one, -1, x, S)
  BY <1>1 DEF Combines, Xs
<1> HIDE DEF S, n, x, y, one, late, X, Y, V, C
<1>7. Y \in Nat /\ SumFunctionOnSet(late, S) \in Nat
  BY ONLY <1>1, <1>4, <1>5, SumNonnegative
<1>8. SumFunctionOnSet(late, S) = d * SumFunctionOnSet(one, S) + (-1) * SumFunctionOnSet(x, S)
  BY ONLY <1>1, <1>6, d \in Int, -1 \in Int, SumLinear
<1>9. SumFunctionOnSet(one, S) = 1 * n
  BY ONLY <1>1, <1>4, <1>5, SumConstant
<1>10. PICK K \in Nat : K = n * d - X
  <2>1. d * (1 * n) + (-1) * X = n * d - X
    BY ONLY <1>2, d \in Int
  <2> QED
    BY ONLY <1>5, <1>7, <1>8, <1>9, <2>1
<1>11. (n * C) * d + (Y * V - C * X) = C * K + Y * V
  BY ONLY <1>2, <1>10, d \in Int
<1>12. C * K + Y * V \in Nat /\ n * C \in Nat
  <2>1. ASSUME NEW u \in Nat, NEW v \in Nat PROVE u * v \in Nat
    OBVIOUS
  <2>2. C * K \in Nat /\ Y * V \in Nat /\ n * C \in Nat
    BY ONLY <1>2, <1>7, <1>10, <2>1
  <2> QED
    BY ONLY <2>2
<1>13. l.slope \in Nat
  BY ONLY <1>3, <1>12
<1>14. l.slope * d + l.offset = C * K + Y * V
  BY ONLY <1>3, <1>11
<1> QED
  BY ONLY <1>12, <1>13, <1>14
=============================================================================
