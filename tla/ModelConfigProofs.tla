------------------------- MODULE ModelConfigProofs -------------------------
(***************************************************************************)
(* What validate() guarantees to the frame loops about the GOP and QP      *)
(* schedule, for every configuration and every frame number.               *)
(***************************************************************************)
EXTENDS ModelConfig, TLAPS

(***************************************************************************)
(* The fields of a parsed configuration that the schedule reads.           *)
(***************************************************************************)
LEMMA ConfigTypes ==
  ASSUME NEW c \in RawConfig
  PROVE  /\ c.qp_num \in Int
         /\ c.total_qp_num \in Int
         /\ c.frame_index_map \in Seq(Int)
         /\ c.qp_shift \in Seq(Int)
         /\ c.iframe_period \in SUBSET Int
BY DEF RawConfig, ConfigFields

(***************************************************************************)
(* model.cpp:142-149: the number of a frame in its GOP is a natural number *)
(* as long as the I-frame period passed validate().                        *)
(***************************************************************************)
LEMMA FrameInGopIsNat ==
  ASSUME NEW c \in RawConfig, Validate(c), NEW frame \in Nat
  PROVE  FrameInGop(c, frame) \in Nat
<1>1. CASE c.iframe_period = {}
  BY <1>1 DEF FrameInGop
<1>2. CASE c.iframe_period # {}
  <2> DEFINE p == CHOOSE r \in c.iframe_period : TRUE
  <2>1. p \in c.iframe_period
    BY <1>2
  <2>2. p \in Int /\ p > 0
    BY <2>1, ConfigTypes DEF Validate
  <2>3. FrameInGop(c, frame) = frame % p
    BY <1>2 DEF FrameInGop
  <2>4. frame % p \in Nat
    <3> HIDE DEF p
    <3> QED BY <2>2
  <2> QED BY <2>3, <2>4
<1> QED BY <1>1, <1>2

(***************************************************************************)
(* Division with remainder: the quotient and remainder are unique.         *)
(***************************************************************************)
LEMMA ProductBound ==
  ASSUME NEW n \in Nat, NEW d \in Int, d >= 1
  PROVE  n * d >= n
OBVIOUS

LEMMA ProductNegative ==
  ASSUME NEW n \in Nat, NEW d \in Int, d <= -1
  PROVE  n * d <= -n
<1>1. n * (-d) >= n
  BY ProductBound
<1>2. n * d = -(n * (-d))
  OBVIOUS
<1> QED BY <1>1, <1>2

LEMMA RemainderUnique ==
  ASSUME NEW n \in Nat, n > 0, NEW d \in Int, NEW r \in Int, NEW e \in Int, NEW t \in Int,
         0 <= r, r < n, 0 <= t, t < n, n * d + r = n * e + t
  PROVE  r = t /\ d = e
<1> DEFINE f == d - e
<1>1. f \in Int /\ n * f = t - r
  OBVIOUS
<1> HIDE DEF f
<1>2. ~(f >= 1)
  BY <1>1, ProductBound
<1>3. ~(f <= -1)
  BY <1>1, ProductNegative
<1>4. f = 0
  BY <1>1, <1>2, <1>3
<1>5. n * f = 0
  BY <1>4
<1> QED BY <1>1, <1>4, <1>5 DEF f

LEMMA RemainderOf ==
  ASSUME NEW n \in Nat, n > 0, NEW d \in Int, NEW r \in Int, 0 <= r, r < n
  PROVE  (n * d + r) % n = r /\ (n * d + r) \div n = d
<1> DEFINE a == n * d + r
<1>1. a \in Int
  OBVIOUS
<1> HIDE DEF a
<1>2. /\ a % n \in Int /\ a \div n \in Int /\ 0 <= a % n /\ a % n < n
      /\ a = n * (a \div n) + (a % n)
  BY <1>1
<1>3. a = n * d + r
  BY DEF a
<1>4. r = a % n /\ d = a \div n
  BY <1>2, <1>3, RemainderUnique
<1> QED BY <1>4 DEF a

(***************************************************************************)
(* Quotients, rounded down and up.                                         *)
(***************************************************************************)
LEMMA Quotient ==
  ASSUME NEW a \in Nat, NEW b \in Nat, b > 0
  PROVE  /\ a \div b \in Nat
         /\ b * (a \div b) <= a
         /\ a < b * (a \div b) + b
<1> DEFINE q == a \div b
           r == a % b
<1>1. q \in Int /\ r \in Int /\ 0 <= r /\ r < b /\ a = b * q + r
  OBVIOUS
<1> HIDE DEF q, r
<1>2. CASE q <= -1
  <2>1. b * q <= -b
    BY <1>1, <1>2, ProductNegative
  <2> QED BY <1>1, <2>1
<1>3. b * q \in Int
  BY <1>1
<1> QED BY <1>1, <1>2, <1>3 DEF q

LEMMA ProductMonotone ==
  ASSUME NEW b \in Nat, NEW x \in Int, NEW y \in Int, x <= y
  PROVE  b * x <= b * y
<1>1. y - x \in Nat /\ b * (y - x) >= 0
  OBVIOUS
<1>2. b * y = b * x + b * (y - x)
  OBVIOUS
<1> QED BY <1>1, <1>2

LEMMA QuotientBelow ==
  ASSUME NEW a \in Nat, NEW b \in Nat, b > 0, NEW k \in Nat, a < b * k
  PROVE  a \div b < k
<1> DEFINE q == a \div b
<1>1. q \in Nat /\ b * q <= a
  BY Quotient
<1> HIDE DEF q
<1>2. q >= k => b * k <= b * q
  BY <1>1, ProductMonotone
<1>3. b * k \in Nat /\ b * q \in Nat
  BY <1>1
<1> QED BY <1>1, <1>2, <1>3 DEF q

LEMMA CeilingBounds ==
  ASSUME NEW h \in Nat, h > 0, NEW d \in Nat, d > 0, NEW r \in Nat
  PROVE  LET u == (h + d - 1) \div d
         IN u \in Nat /\ u >= 1 /\ (r < u <=> d * r < h)
<1> DEFINE u == (h + d - 1) \div d
<1>1. /\ u \in Nat
      /\ d * u <= h + d - 1
      /\ h + d - 1 < d * u + d
  BY Quotient
<1> HIDE DEF u
<1>2. ASSUME NEW x \in Nat
      PROVE  x < u <=> d * x < h
  <2>1. x + 1 <= u => d * (x + 1) <= d * u
    BY <1>1, ProductMonotone
  <2>2. u <= x => d * u <= d * x
    BY <1>1, ProductMonotone
  <2>3. d * (x + 1) = d * x + d /\ d * x \in Nat /\ d * u \in Nat
    BY <1>1
  <2> QED BY <1>1, <2>1, <2>2, <2>3
<1>3. 0 < u <=> d * 0 < h
  BY <1>2
<1> QED BY <1>1, <1>2, <1>3 DEF u

(***************************************************************************)
(* model.cpp:142-149: a GOP begins with the first frame, the number of a   *)
(* frame in its GOP never exceeds its absolute number, and it grows by one *)
(* from frame to frame until the next GOP begins.                          *)
(***************************************************************************)
LEMMA GopCounts ==
  ASSUME NEW c \in RawConfig, Validate(c), NEW frame \in Nat
  PROVE  /\ FrameInGop(c, 0) = 0
         /\ FrameInGop(c, frame) <= frame
         /\ FrameInGop(c, frame + 1) # 0 =>
              FrameInGop(c, frame + 1) = FrameInGop(c, frame) + 1
<1>1. CASE c.iframe_period = {}
  BY <1>1 DEF FrameInGop
<1>2. CASE c.iframe_period # {}
  <2> DEFINE p == CHOOSE r \in c.iframe_period : TRUE
  <2>1. p \in c.iframe_period
    BY <1>2
  <2>2. p \in Nat /\ p > 0
    BY <2>1, ConfigTypes DEF Validate
  <2>3. \A i : FrameInGop(c, i) = i % p
    BY <1>2 DEF FrameInGop
  <2> HIDE DEF p
  <2> DEFINE d == frame \div p
             r == frame % p
  <2>4. /\ d \in Int /\ r \in Int /\ 0 <= r /\ r < p /\ frame = p * d + r
    BY <2>2
  <2> HIDE DEF d
  <2>5. 0 % p = 0
    BY <2>2
  <2>6. r <= frame
    <3>1. CASE d >= 1
      <4>1. p * d >= p
        BY <2>2, <2>4, <3>1, ProductBound
      <4> HIDE DEF r
      <4> QED BY <2>2, <2>4, <4>1
    <3>2. CASE d <= -1
      <4>1. p * d <= -p
        BY <2>2, <2>4, <3>2, ProductNegative
      <4> HIDE DEF r
      <4> QED BY <2>2, <2>4, <4>1
    <3>3. CASE d = 0
      <4>1. p * d = 0
        BY <2>2, <3>3
      <4> HIDE DEF r
      <4> QED BY <2>2, <2>4, <4>1
    <3> QED BY <2>4, <3>1, <3>2, <3>3
  <2>7. ASSUME (frame + 1) % p # 0
        PROVE  (frame + 1) % p = r + 1
    <3> HIDE DEF r
    <3>1. CASE r + 1 < p
      <4>1. (p * d + (r + 1)) % p = r + 1
        BY <2>2, <2>4, <3>1, RemainderOf
      <4>2. frame + 1 = p * d + (r + 1)
        BY <2>2, <2>4
      <4> QED BY <4>1, <4>2
    <3>2. CASE r + 1 = p
      <4>1. (p * (d + 1) + 0) % p = 0
        BY <2>2, <2>4, RemainderOf
      <4>2. p * (d + 1) = p * d + p
        BY <2>2, <2>4
      <4>3. frame + 1 = p * (d + 1) + 0
        BY <2>2, <2>4, <3>2, <4>2
      <4> QED BY <2>7, <4>1, <4>3
    <3> QED BY <2>2, <2>4, <3>1, <3>2
  <2> QED BY <2>3, <2>5, <2>6, <2>7
<1> QED BY <1>1, <1>2

(***************************************************************************)
(* model.cpp:157-159: the slot of the frame map is one of its entries.     *)
(***************************************************************************)
LEMMA MapSlotInRange ==
  ASSUME NEW c \in RawConfig, Validate(c), NEW gop_frame \in Nat
  PROVE  MapSlot(c, gop_frame) \in 0..(Len(c.frame_index_map) - 1)
<1>1. Len(c.frame_index_map) \in Nat /\ Len(c.frame_index_map) > 0
  BY ConfigTypes DEF Validate
<1>2. \A n \in Nat : n > 0 => (gop_frame % n) + 1 \in Nat
  OBVIOUS
<1>3. \A k, n \in Nat : n > 0 => k % n \in 0..(n - 1)
  OBVIOUS
<1> QED BY <1>1, <1>2, <1>3 DEF MapSlot

(***************************************************************************)
(* model.cpp:151-162 and pipeline.cpp:407-409: no table lookup of the      *)
(* schedule is out of range, and the shifted q-index of a valid base       *)
(* q-index is one of the model's QPs.                                      *)
(***************************************************************************)
LEMMA ScheduleInRange ==
  ASSUME NEW c \in RawConfig, Validate(c), NEW frame \in Nat,
         NEW q \in Int, ValidQ(c, q)
  PROVE  /\ MapSlot(c, FrameInGop(c, frame)) \in 0..(Len(c.frame_index_map) - 1)
         /\ c.frame_index_map[MapSlot(c, FrameInGop(c, frame)) + 1]
              \in 0..(Len(c.qp_shift) - 1)
         /\ ShiftedQ(c, q, frame) \in 0..(c.total_qp_num - 1)
<1> DEFINE k == MapSlot(c, FrameInGop(c, frame))
           e == c.frame_index_map[k + 1]
<1>1. k \in 0..(Len(c.frame_index_map) - 1)
  BY FrameInGopIsNat, MapSlotInRange
<1>2. k + 1 \in 1..Len(c.frame_index_map)
  BY <1>1, ConfigTypes
<1>3. e \in Int /\ e >= 0 /\ e < Len(c.qp_shift)
  <2> HIDE DEF k
  <2> QED BY <1>2, ConfigTypes DEF Validate, MapInRange
<1>4. e + 1 \in 1..Len(c.qp_shift)
  <2> HIDE DEF e
  <2> QED BY <1>3, ConfigTypes
<1>5. /\ c.qp_shift[e + 1] \in Int
      /\ c.qp_shift[e + 1] >= 0
      /\ c.qp_shift[e + 1] <= c.total_qp_num - c.qp_num
  <2> HIDE DEF e
  <2> QED BY <1>4, ConfigTypes DEF Validate, ShiftInRange
<1>6. ShiftedQ(c, q, frame) = q + c.qp_shift[e + 1]
  BY DEF ShiftedQ, QIndexShift
<1>7. q + c.qp_shift[e + 1] \in 0..(c.total_qp_num - 1)
  <2> HIDE DEF e
  <2> QED BY <1>5, ConfigTypes DEF ValidQ
<1>8. e \in 0..(Len(c.qp_shift) - 1)
  <2> HIDE DEF e
  <2> QED BY <1>3, ConfigTypes
<1> QED BY <1>1, <1>6, <1>7, <1>8
(***************************************************************************)
(* What happened to the frames of a GOP up to frame i, one item of f for   *)
(* each: what happened up to the frame before, and one item more.          *)
(***************************************************************************)
GopRun(c, f, i) ==
  LET g == FrameInGop(c, i) IN [k \in 1..(g + 1) |-> f[i - g + k - 1]]

LEMMA AppendIsLonger ==
  ASSUME NEW S, NEW n \in Nat, NEW f \in [1..(n + 1) -> S]
  PROVE  Append([k \in 1..n |-> f[k]], f[n + 1]) = f
OBVIOUS

LEMMA GopRunGrows ==
  ASSUME NEW c \in RawConfig, Validate(c), NEW S, NEW f \in [Nat -> S], NEW i \in Nat
  PROVE  GopRun(c, f, i) =
           Append(IF FrameInGop(c, i) = 0 THEN <<>> ELSE GopRun(c, f, i - 1), f[i])
<1> DEFINE g == FrameInGop(c, i)
           run == GopRun(c, f, i)
<1>1. g \in Nat /\ g <= i
  BY FrameInGopIsNat, GopCounts
<1>2. run = [k \in 1..(g + 1) |-> f[i - g + k - 1]]
  BY DEF GopRun
<1>3. run \in [1..(g + 1) -> S] /\ run[g + 1] = f[i]
  <2> HIDE DEF g
  <2> QED BY <1>1, <1>2
<1>4. run = Append([k \in 1..g |-> run[k]], f[i])
  <2> HIDE DEF g, run
  <2> QED BY <1>1, <1>3, AppendIsLonger
<1>5. [k \in 1..g |-> run[k]] = IF g = 0 THEN <<>> ELSE GopRun(c, f, i - 1)
  <2>1. CASE g = 0
    <3> HIDE DEF g, run
    <3>1. 1..g = {}
      BY <2>1
    <3>2. [k \in 1..g |-> run[k]] = <<>>
      BY <3>1
    <3> QED BY <2>1, <3>2
  <2>2. CASE g # 0
    <3>1. i - 1 \in Nat
      BY <1>1, <2>2
    <3>2. g = FrameInGop(c, i - 1) + 1
      BY <2>2, <3>1, GopCounts
    <3>3. FrameInGop(c, i - 1) = g - 1
      BY <3>1, <3>2, FrameInGopIsNat
    <3>4. GopRun(c, f, i - 1) = [k \in 1..((g - 1) + 1) |-> f[(i - 1) - (g - 1) + k - 1]]
      BY <3>3 DEF GopRun
    <3> HIDE DEF g
    <3>5. [k \in 1..g |-> run[k]] = [k \in 1..g |-> f[i - g + k - 1]]
      BY <1>1, <1>2
    <3>6. (g - 1) + 1 = g /\ \A k \in 1..g : (i - 1) - (g - 1) + k - 1 = i - g + k - 1
      BY <1>1
    <3>7. [k \in 1..g |-> f[i - g + k - 1]]
            = [k \in 1..((g - 1) + 1) |-> f[(i - 1) - (g - 1) + k - 1]]
      BY <3>6
    <3> QED BY <2>2, <3>4, <3>5, <3>7
  <2> QED BY <2>1, <2>2
<1> QED BY <1>4, <1>5
============================================================================
