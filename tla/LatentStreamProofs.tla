------------------------- MODULE LatentStreamProofs -------------------------
(***************************************************************************)
(* The schedule, for every metadata file and frame number: what validate() *)
(* accepts keeps the frame loops inside the QP tables and the QP range.    *)
(* The latents, for every such model, PMF pair, tensor and loss of the     *)
(* container's tail: decoding inverts encoding, and the tables of y are    *)
(* the reference's.                                                        *)
(***************************************************************************)
EXTENDS LatentStream, ModelConfigProofs

(***************************************************************************)
(* model.cpp:16-27: the planes that a rounded-up quotient has room for.    *)
(***************************************************************************)
LEMMA DivideUpBounds ==
  ASSUME NEW h \in Nat, h > 0, NEW d \in Nat, d > 0, NEW r \in Nat
  PROVE  /\ DivideUp(h, d) \in Nat /\ DivideUp(h, d) >= 1
         /\ r < DivideUp(h, d) <=> d * r < h
BY CeilingBounds DEF DivideUp

(***************************************************************************)
(* scales.cpp:63-73: a row of y lies over a row of z that exists, so the   *)
(* clamp at the last row changes nothing.                                  *)
(***************************************************************************)
LEMMA CropFits ==
  ASSUME NEW h \in Nat, h > 0, NEW d \in Nat, d > 0, NEW e \in Nat, e > 0,
         NEW r \in Nat, r < DivideUp(h, d)
  PROVE  /\ r \div e \in Nat
         /\ r \div e < DivideUp(h, d * e)
         /\ r < DivideUp(h, d * e) * e
<1> DEFINE x == r \div e
<1>1. x \in Nat /\ e * x <= r /\ r < e * x + e
  BY Quotient
<1>2. d * r < h
  BY DivideUpBounds
<1> HIDE DEF x
<1>3. d * (e * x) <= d * r
  BY <1>1, ProductMonotone
<1>4. d * e \in Nat /\ d * e > 0 /\ (d * e) * x = d * (e * x)
  BY <1>1
<1>5. (d * e) * x < h
  <2>1. d * r \in Nat /\ d * (e * x) \in Nat
    BY <1>1
  <2> QED BY <1>2, <1>3, <1>4, <2>1
<1> DEFINE u == DivideUp(h, d * e)
<1>6. u \in Nat /\ x < u
  BY <1>1, <1>4, <1>5, DivideUpBounds
<1> HIDE DEF u
<1>7. e * (x + 1) <= e * u
  BY <1>1, <1>6, ProductMonotone
<1>8. e * (x + 1) = e * x + e /\ u * e = e * u /\ e * x \in Nat /\ e * u \in Nat
  BY <1>1, <1>6
<1>9. r < u * e
  BY <1>1, <1>7, <1>8
<1> QED BY <1>1, <1>6, <1>9 DEF x, u

-----------------------------------------------------------------------------
(***************************************************************************)
(* The planes of a model that passed validate().                           *)
(***************************************************************************)
ValidConfigs == {c \in RawConfig : Validate(c)}

LEMMA ConfigNumbers ==
  ASSUME NEW c \in ValidConfigs
  PROVE  /\ c.model_height \in Nat /\ c.model_height > 0
         /\ c.model_width \in Nat /\ c.model_width > 0
         /\ c.latent_channels \in Nat /\ c.latent_channels > 0
         /\ c.hyperprior_channels \in Nat /\ c.hyperprior_channels > 0
         /\ c.downsample_latent \in Nat /\ c.downsample_latent > 0
         /\ c.downsample_hyperprior \in Nat /\ c.downsample_hyperprior > 0
         /\ c.y_scale_repeat \in Nat /\ c.y_scale_repeat > 0
         /\ c.qp_num \in Nat /\ c.total_qp_num \in Nat /\ c.qp_num <= c.total_qp_num
         /\ LatentSplit(c)
BY DEF ValidConfigs, RawConfig, ConfigFields, Validate, PositiveDimensions

(***************************************************************************)
(* model.cpp:73-75: the channels of y are two halves, and every one of     *)
(* them has a channel of z for its scale.                                  *)
(***************************************************************************)
LEMMA ChannelSplit ==
  ASSUME NEW c \in ValidConfigs
  PROVE  /\ HalfChannels(c) \in Nat
         /\ c.latent_channels = 2 * HalfChannels(c)
         /\ HalfChannels(c) > 0
         /\ \A k \in Nat : k < c.latent_channels =>
              k \div c.y_scale_repeat \in 0..(c.hyperprior_channels - 1)
<1> DEFINE l == c.latent_channels
           r == c.y_scale_repeat
<1>1. l \in Nat /\ l > 0 /\ r \in Nat /\ r > 0 /\ c.hyperprior_channels \in Nat
  BY ConfigNumbers
<1>2. l % 2 = 0 /\ l % r = 0 /\ l \div r <= c.hyperprior_channels
  BY ConfigNumbers DEF LatentSplit
<1> HIDE DEF l, r
<1>3. l \div 2 \in Nat /\ l = 2 * (l \div 2) /\ l \div 2 > 0
  BY <1>1, <1>2
<1>4. l = r * (l \div r) /\ l \div r \in Nat
  BY <1>1, <1>2, Quotient
<1>5. ASSUME NEW k \in Nat, k < l
      PROVE  k \div r \in 0..(c.hyperprior_channels - 1)
  <2>1. k \div r < l \div r
    BY <1>1, <1>4, <1>5, QuotientBelow
  <2>2. k \div r \in Nat
    BY <1>1, Quotient
  <2> QED BY <1>1, <1>2, <1>4, <2>1, <2>2
<1> QED BY <1>3, <1>5 DEF HalfChannels, l, r

LEMMA CellOf ==
  ASSUME NEW a \in Nat, NEW b \in Nat, NEW d \in Nat, NEW cell \in Cells(a, b, d)
  PROVE  /\ cell[1] \in Nat /\ cell[1] < a
         /\ cell[2] \in Nat /\ cell[2] < b
         /\ cell[3] \in Nat /\ cell[3] < d
BY DEF Cells

LEMMA PlaneNumbers ==
  ASSUME NEW c \in ValidConfigs
  PROVE  /\ LatentHeight(c) \in Nat /\ LatentWidth(c) \in Nat
         /\ HyperpriorHeight(c) \in Nat /\ HyperpriorHeight(c) >= 1
         /\ HyperpriorWidth(c) \in Nat /\ HyperpriorWidth(c) >= 1
<1>1. /\ c.downsample_latent * c.downsample_hyperprior \in Nat
      /\ c.downsample_latent * c.downsample_hyperprior > 0
  BY ConfigNumbers
<1> QED
  BY <1>1, ConfigNumbers, DivideUpBounds
     DEF LatentHeight, LatentWidth, HyperpriorHeight, HyperpriorWidth

LEMMA RowOfZ ==
  ASSUME NEW c \in ValidConfigs, NEW r \in Nat, r < LatentHeight(c)
  PROVE  /\ r \div c.downsample_hyperprior \in 0..(HyperpriorHeight(c) - 1)
         /\ r < HyperpriorHeight(c) * c.downsample_hyperprior
<1>1. /\ r \div c.downsample_hyperprior \in Nat
      /\ r \div c.downsample_hyperprior < HyperpriorHeight(c)
      /\ r < HyperpriorHeight(c) * c.downsample_hyperprior
  BY ConfigNumbers, CropFits DEF LatentHeight, HyperpriorHeight
<1> QED BY <1>1, PlaneNumbers

LEMMA ColumnOfZ ==
  ASSUME NEW c \in ValidConfigs, NEW r \in Nat, r < LatentWidth(c)
  PROVE  /\ r \div c.downsample_hyperprior \in 0..(HyperpriorWidth(c) - 1)
         /\ r < HyperpriorWidth(c) * c.downsample_hyperprior
<1>1. /\ r \div c.downsample_hyperprior \in Nat
      /\ r \div c.downsample_hyperprior < HyperpriorWidth(c)
      /\ r < HyperpriorWidth(c) * c.downsample_hyperprior
  BY ConfigNumbers, CropFits DEF LatentWidth, HyperpriorWidth
<1> QED BY <1>1, PlaneNumbers

\* The cell of z whose scale a cell of y in channel k of all channels has.
Cover(c, k, cell) ==
  <<k \div c.y_scale_repeat, cell[2] \div c.downsample_hyperprior,
    cell[3] \div c.downsample_hyperprior>>

(***************************************************************************)
(* scales.cpp:20-83: the scales of a cell of y come from cells of z that   *)
(* exist, the ones that cover it, and the clamps are never needed.         *)
(***************************************************************************)
LEMMA ScaleCells ==
  ASSUME NEW c \in ValidConfigs, NEW z, NEW cell \in YCells(c)
  PROVE  /\ Cover(c, cell[1], cell) \in ZCells(c)
         /\ Cover(c, cell[1] + HalfChannels(c), cell) \in ZCells(c)
         /\ FirstScale(c, z, cell) = BaseScale(c, z, Cover(c, cell[1], cell))
         /\ SecondScale(c, z, cell)
              = BaseScale(c, z, Cover(c, cell[1] + HalfChannels(c), cell))
<1> DEFINE r == cell[2] \div c.downsample_hyperprior
           s == cell[3] \div c.downsample_hyperprior
           n == HyperpriorHeight(c)
           m == HyperpriorWidth(c)
<1>1. /\ HalfChannels(c) \in Nat /\ LatentHeight(c) \in Nat /\ LatentWidth(c) \in Nat
      /\ n \in Nat /\ m \in Nat
  BY ChannelSplit, PlaneNumbers
<1>2. /\ cell[1] \in Nat /\ cell[1] < HalfChannels(c)
      /\ cell[2] \in Nat /\ cell[2] < LatentHeight(c)
      /\ cell[3] \in Nat /\ cell[3] < LatentWidth(c)
  BY <1>1, CellOf DEF YCells
<1>3. r \in 0..(n - 1) /\ s \in 0..(m - 1)
  BY <1>2, RowOfZ, ColumnOfZ
<1>4. /\ cell[1] \div c.y_scale_repeat \in 0..(c.hyperprior_channels - 1)
      /\ (cell[1] + HalfChannels(c)) \div c.y_scale_repeat
           \in 0..(c.hyperprior_channels - 1)
  <2>1. /\ cell[1] + HalfChannels(c) \in Nat
        /\ cell[1] < c.latent_channels
        /\ cell[1] + HalfChannels(c) < c.latent_channels
    BY <1>1, <1>2, ChannelSplit
  <2> QED BY <1>2, <2>1, ChannelSplit
<1>5. Smaller(r, n - 1) = r /\ Smaller(s, m - 1) = s
  <2> HIDE DEF r, s, n, m
  <2> QED BY <1>1, <1>3 DEF Smaller
<1> QED BY <1>3, <1>4, <1>5
        DEF Cover, ZCells, Cells, FirstScale, SecondScale, SecondChannel

-----------------------------------------------------------------------------
(***************************************************************************)
(* static_cast<std::int32_t> on halves: taking the whole part twice is     *)
(* taking it once, and clipping commutes with it.                          *)
(***************************************************************************)
LEMMA WholePart ==
  ASSUME NEW v \in Int
  PROVE  /\ Truncated(v) \in Int
         /\ Magnitude(v) \in Nat
         /\ Truncated(Magnitude(v)) \in Nat
         /\ Truncated(Magnitude(2 * Truncated(v))) = Truncated(Magnitude(v))
         /\ \A n \in Nat :
              Truncated(Smaller(Magnitude(v), 2 * n)) = Smaller(Truncated(Magnitude(v)), n)
<1>1. Truncated(v) \in Int /\ Magnitude(v) \in Nat
  BY DEF Truncated, Magnitude
<1>2. Truncated(Magnitude(v)) \in Nat
  BY <1>1 DEF Truncated
<1>3. Truncated(Magnitude(2 * Truncated(v))) = Truncated(Magnitude(v))
  <2>1. CASE v < 0
    <3> DEFINE n == (-v) \div 2
    <3>1. n \in Nat /\ Truncated(v) = -n /\ Magnitude(v) = -v
      BY <2>1 DEF Truncated, Magnitude
    <3>2. Magnitude(2 * (-n)) = 2 * n
      <4> HIDE DEF n
      <4> QED BY <3>1 DEF Magnitude
    <3>3. Truncated(2 * n) = n
      <4> HIDE DEF n
      <4> QED BY <3>1 DEF Truncated
    <3>4. Truncated(-v) = n
      BY <2>1 DEF Truncated
    <3> QED BY <3>1, <3>2, <3>3, <3>4
  <2>2. CASE ~(v < 0)
    <3> DEFINE n == v \div 2
    <3>1. n \in Nat /\ Truncated(v) = n /\ Magnitude(v) = v
      BY <2>2 DEF Truncated, Magnitude
    <3>2. Magnitude(2 * n) = 2 * n /\ Truncated(2 * n) = n
      <4> HIDE DEF n
      <4> QED BY <3>1 DEF Magnitude, Truncated
    <3> QED BY <3>1, <3>2
  <2> QED BY <2>1, <2>2
<1>4. ASSUME NEW n \in Nat, NEW w \in Nat
      PROVE  Truncated(Smaller(w, 2 * n)) = Smaller(Truncated(w), n)
  BY DEF Truncated, Smaller
<1> QED BY <1>1, <1>2, <1>3, <1>4

(***************************************************************************)
(* The tables of y depend on the whole parts of z only: the decoder, which *)
(* has nothing else, chooses the same ones.                                *)
(***************************************************************************)
LEMMA SameTables ==
  ASSUME NEW c \in ValidConfigs, NEW z \in [ZCells(c) -> Int]
  PROVE  /\ Scales0(c, Values(Symbols(z))) = Scales0(c, z)
         /\ Scales1(c, Values(Symbols(z))) = Scales1(c, z)
<1> DEFINE w == Values(Symbols(z))
<1>1. w = [cell \in ZCells(c) |-> 2 * Truncated(z[cell])]
  BY DEF Values, Symbols
<1> HIDE DEF w
<1>2. ASSUME NEW cell \in ZCells(c)
      PROVE  BaseScale(c, w, cell) = BaseScale(c, z, cell)
  <2>1. z[cell] \in Int /\ w[cell] = 2 * Truncated(z[cell])
    BY <1>1
  <2>2. Truncated(Magnitude(w[cell])) = Truncated(Magnitude(z[cell]))
    BY <2>1, WholePart
  <2> QED BY <2>2 DEF BaseScale
<1>3. ASSUME NEW cell \in YCells(c)
      PROVE  /\ FirstScale(c, w, cell) = FirstScale(c, z, cell)
             /\ SecondScale(c, w, cell) = SecondScale(c, z, cell)
  BY <1>2, ScaleCells
<1>4. Scales0(c, w) = Scales0(c, z) /\ Scales1(c, w) = Scales1(c, z)
  BY <1>3 DEF Scales0, Scales1
<1> QED BY <1>4 DEF w

(***************************************************************************)
(* entropy.cpp:234-257, scales.cpp:53-57: every table is one the coder has.*)
(***************************************************************************)
LEMMA TablesExist ==
  ASSUME NEW c \in ValidConfigs, NEW z \in [ZCells(c) -> Int], config = c,
         pmf \in PmfFile, PmfFits, NEW q \in Nat, ValidQ(c, q)
  PROVE  /\ \A cell \in YCells(c) : /\ Scales0(c, z)[cell] \in 0..(pmf.y_tables - 1)
                                    /\ Scales1(c, z)[cell] \in 0..(pmf.y_tables - 1)
         /\ \A cell \in ZCells(c) : ZIndices(c, q)[cell] \in 0..(pmf.z_tables - 1)
<1>1. /\ pmf.scale_levels \in Int /\ pmf.scale_levels > 0
      /\ pmf.y_tables = pmf.scale_levels
      /\ pmf.qp_num = c.total_qp_num /\ pmf.channels = c.hyperprior_channels
      /\ pmf.z_tables = c.total_qp_num * c.hyperprior_channels
  BY DEF PmfFile, PmfFits
<1>2. ASSUME NEW cell \in ZCells(c)
      PROVE  BaseScale(c, z, cell) \in 0..(pmf.y_tables - 1)
  <2>1. Truncated(Magnitude(z[cell])) \in Nat
    BY WholePart
  <2> QED BY <1>1, <2>1 DEF BaseScale, Smaller
<1>3. ASSUME NEW cell \in YCells(c)
      PROVE  /\ FirstScale(c, z, cell) \in 0..(pmf.y_tables - 1)
             /\ SecondScale(c, z, cell) \in 0..(pmf.y_tables - 1)
  BY <1>2, ScaleCells
<1>4. ASSUME NEW cell \in ZCells(c)
      PROVE  ZIndices(c, q)[cell] \in 0..(pmf.z_tables - 1)
  <2> DEFINE n == c.hyperprior_channels
             t == c.total_qp_num
             k == cell[1]
  <2>1. n \in Nat /\ t \in Nat /\ c.qp_num \in Nat /\ c.qp_num <= t
    BY ConfigNumbers
  <2>2. k \in Nat /\ k < n
    BY <2>1, PlaneNumbers, CellOf DEF ZCells
  <2>3. q + 1 <= t
    BY <2>1 DEF ValidQ
  <2>4. ZIndices(c, q)[cell] = q * n + k /\ pmf.z_tables = t * n
    BY <1>1 DEF ZIndices
  <2> HIDE DEF n, t, k
  <2>5. n * (q + 1) <= n * t
    BY <2>1, <2>3, ProductMonotone
  <2>6. n * (q + 1) = q * n + n /\ n * t = t * n /\ q * n \in Nat /\ t * n \in Nat
    BY <2>1
  <2> QED BY <2>1, <2>2, <2>4, <2>5, <2>6
<1> QED BY <1>3, <1>4 DEF Scales0, Scales1

\* What the decoder must get out of the payload of an encoded frame.
Restored(s) ==
  [q |-> s.q, z |-> Values(Symbols(s.latents.z)),
   y0 |-> Values(Symbols(s.latents.y0)), y1 |-> Values(Symbols(s.latents.y1))]

LEMMA PayloadUnpacks ==
  ASSUME NEW c \in ValidConfigs, config = c, pmf \in PmfFile, PmfFits,
         NEW q \in Nat, ValidQ(c, q), NEW latents \in Tensors(c)
  PROVE  Unpacked(c, Payload(c, latents, q), q)
           = Restored([q |-> q, latents |-> latents])
<1> DEFINE p == Payload(c, latents, q)
           z == Values(p[1].symbols)
<1>1. latents.z \in [ZCells(c) -> Int]
  BY DEF Tensors
<1>2. /\ p[1] = [tables |-> ZIndices(c, q), symbols |-> Symbols(latents.z)]
      /\ p[2] = [tables |-> Scales0(c, latents.z), symbols |-> Symbols(latents.y0)]
      /\ p[3] = [tables |-> Scales1(c, latents.z), symbols |-> Symbols(latents.y1)]
  BY DEF Payload, Message
<1> HIDE DEF p
<1>3. Scales0(c, z) = Scales0(c, latents.z) /\ Scales1(c, z) = Scales1(c, latents.z)
  BY <1>1, <1>2, SameTables
<1>4. /\ DOMAIN ZIndices(c, q) = ZCells(c)
      /\ DOMAIN Scales0(c, latents.z) = YCells(c)
      /\ DOMAIN Scales1(c, latents.z) = YCells(c)
  BY DEF ZIndices, Scales0, Scales1
<1>5. /\ Readable(p[1], ZIndices(c, q), pmf.z_tables)
      /\ Readable(p[2], Scales0(c, z), pmf.y_tables)
      /\ Readable(p[3], Scales1(c, z), pmf.y_tables)
  BY <1>1, <1>2, <1>3, <1>4, TablesExist DEF Readable
<1>6. Unpacked(c, p, q) = [q |-> q, z |-> z, y0 |-> Values(p[2].symbols),
                           y1 |-> Values(p[3].symbols)]
  BY <1>5 DEF Unpacked
<1> QED BY <1>2, <1>6 DEF Restored, p

(***************************************************************************)
(* scales.cpp:20-83 against docs/design.md:92-103.                         *)
(***************************************************************************)
LEMMA ReferenceTables ==
  ASSUME NEW c \in ValidConfigs, NEW z \in [ZCells(c) -> Int], config = c,
         pmf \in PmfFile, PmfFits
  PROVE  /\ Scales0(c, z) = ReferenceScales(c, z, 0)
         /\ Scales1(c, z) = ReferenceScales(c, z, 1)
<1> DEFINE n == HalfChannels(c)
           s == Upsampled(c, z)
           other(cell) == <<cell[1] + n, cell[2], cell[3]>>
           All == Cells(c.latent_channels, HyperpriorHeight(c) * c.downsample_hyperprior,
                        HyperpriorWidth(c) * c.downsample_hyperprior)
<1>1. n \in Nat /\ n > 0 /\ c.latent_channels = 2 * n
  BY ChannelSplit
<1>2. pmf.scale_levels - 1 \in Nat
  BY DEF PmfFile, PmfFits
<1>3. ASSUME NEW cell \in YCells(c)
      PROVE  /\ cell[1] \in Nat /\ cell[1] < n /\ cell[2] \in Nat /\ cell[3] \in Nat
             /\ cell \in All /\ other(cell) \in All
  <2>1. /\ cell[1] \in Nat /\ cell[1] < n
        /\ cell[2] \in Nat /\ cell[2] < LatentHeight(c)
        /\ cell[3] \in Nat /\ cell[3] < LatentWidth(c)
        /\ cell = <<cell[1], cell[2], cell[3]>>
    <3>1. LatentHeight(c) \in Nat /\ LatentWidth(c) \in Nat
      BY PlaneNumbers
    <3>2. cell = <<cell[1], cell[2], cell[3]>>
      BY DEF YCells, Cells
    <3> QED BY <1>1, <3>1, <3>2, CellOf DEF YCells
  <2>2. /\ cell[2] < HyperpriorHeight(c) * c.downsample_hyperprior
        /\ cell[3] < HyperpriorWidth(c) * c.downsample_hyperprior
    BY <2>1, RowOfZ, ColumnOfZ
  <2>3. /\ HyperpriorHeight(c) * c.downsample_hyperprior \in Nat
        /\ HyperpriorWidth(c) * c.downsample_hyperprior \in Nat
    BY ConfigNumbers, PlaneNumbers
  <2>4. /\ cell[1] \in 0..(c.latent_channels - 1)
        /\ cell[1] + n \in 0..(c.latent_channels - 1)
    BY <1>1, <2>1
  <2>5. /\ cell[2] \in 0..(HyperpriorHeight(c) * c.downsample_hyperprior - 1)
        /\ cell[3] \in 0..(HyperpriorWidth(c) * c.downsample_hyperprior - 1)
    BY <2>1, <2>2, <2>3
  <2> HIDE DEF n
  <2>6. /\ <<cell[1], cell[2], cell[3]>> \in All
        /\ <<cell[1] + n, cell[2], cell[3]>> \in All
    BY <2>4, <2>5 DEF Cells
  <2> QED BY <2>1, <2>6
<1>4. ASSUME NEW cell \in YCells(c)
      PROVE  /\ Truncated(s[cell]) = FirstScale(c, z, cell)
             /\ Truncated(s[other(cell)]) = SecondScale(c, z, cell)
             /\ s[cell] \in Int /\ s[other(cell)] \in Int
  <2>1. /\ s[cell] = Smaller(Magnitude(z[Cover(c, cell[1], cell)]),
                             2 * (pmf.scale_levels - 1))
        /\ s[other(cell)] = Smaller(Magnitude(z[Cover(c, cell[1] + n, cell)]),
                                    2 * (pmf.scale_levels - 1))
    BY <1>3 DEF Upsampled, Cover
  <2>2. /\ z[Cover(c, cell[1], cell)] \in Int
        /\ z[Cover(c, cell[1] + n, cell)] \in Int
    BY ScaleCells
  <2> HIDE DEF n, s
  <2>3. /\ Truncated(s[cell]) = BaseScale(c, z, Cover(c, cell[1], cell))
        /\ Truncated(s[other(cell)]) = BaseScale(c, z, Cover(c, cell[1] + n, cell))
    BY <1>2, <2>1, <2>2, WholePart DEF BaseScale
  <2>4. s[cell] \in Int /\ s[other(cell)] \in Int
    <3>1. \A v, w \in Int : Smaller(Magnitude(v), w) \in Int
      BY DEF Smaller, Magnitude
    <3>2. 2 * (pmf.scale_levels - 1) \in Int
      BY <1>2
    <3> QED BY <2>1, <2>2, <3>1, <3>2
  <2> QED BY <2>3, <2>4, ScaleCells DEF n
<1>5. ASSUME NEW cell \in YCells(c), NEW half \in {0, 1}
      PROVE  /\ Mask(c, half, cell) = IF (cell[2] + cell[3] + half) % 2 = 0 THEN 1 ELSE 0
             /\ Mask(c, half, other(cell))
                  = IF (cell[2] + cell[3] + half) % 2 = 0 THEN 0 ELSE 1
  <2>1. cell[1] \in Nat /\ cell[1] < n /\ cell[2] \in Nat /\ cell[3] \in Nat
    BY <1>3
  <2> HIDE DEF n
  <2>2. cell[1] \div n = 0
    <3>1. (n * 0 + cell[1]) \div n = 0
      BY <1>1, <2>1, RemainderOf
    <3> QED BY <1>1, <2>1, <3>1
  <2>3. (cell[1] + n) \div n = 1
    <3>1. (n * 1 + cell[1]) \div n = 1
      BY <1>1, <2>1, RemainderOf
    <3>2. n * 1 + cell[1] = cell[1] + n
      BY <1>1, <2>1
    <3> QED BY <3>1, <3>2
  <2>4. \A i \in Nat : (i + 1) % 2 = 0 <=> ~(i % 2 = 0)
    OBVIOUS
  <2>5. /\ Mask(c, half, cell)
             = IF (cell[2] + cell[3] + half + 0) % 2 = 0 THEN 1 ELSE 0
        /\ Mask(c, half, other(cell))
             = IF (cell[2] + cell[3] + half + 1) % 2 = 0 THEN 1 ELSE 0
    BY <2>2, <2>3 DEF Mask, n
  <2>6. cell[2] + cell[3] + half \in Nat
    BY <2>1
  <2> QED BY <2>4, <2>5, <2>6
<1>6. ASSUME NEW cell \in YCells(c), NEW half \in {0, 1}
      PROVE  ReferenceScales(c, z, half)[cell] =
               IF (cell[2] + cell[3] + half) % 2 = 0
               THEN FirstScale(c, z, cell) ELSE SecondScale(c, z, cell)
  <2>1. ReferenceScales(c, z, half)[cell]
          = Truncated(Mask(c, half, cell) * s[cell]
                      + Mask(c, half, other(cell)) * s[other(cell)])
    BY DEF ReferenceScales
  <2> HIDE DEF s, other
  <2>2. \A x, y \in Int : 1 * x + 0 * y = x /\ 0 * x + 1 * y = y
    OBVIOUS
  <2> QED BY <1>4, <1>5, <2>1, <2>2
<1>7. ASSUME NEW cell \in YCells(c)
      PROVE  /\ Scales0(c, z)[cell] = ReferenceScales(c, z, 0)[cell]
             /\ Scales1(c, z)[cell] = ReferenceScales(c, z, 1)[cell]
  <2>1. cell[2] \in Nat /\ cell[3] \in Nat
    BY <1>3
  <2>2. /\ (cell[2] + cell[3] + 0) % 2 = 0 <=> Checkerboard0(cell)
        /\ (cell[2] + cell[3] + 1) % 2 = 0 <=> ~Checkerboard0(cell)
    BY <2>1 DEF Checkerboard0
  <2>3. 0 \in {0, 1} /\ 1 \in {0, 1}
    OBVIOUS
  <2> QED BY <1>6, <2>2, <2>3 DEF Scales0, Scales1
<1>8. /\ DOMAIN Scales0(c, z) = YCells(c) /\ DOMAIN Scales1(c, z) = YCells(c)
      /\ DOMAIN ReferenceScales(c, z, 0) = YCells(c)
      /\ DOMAIN ReferenceScales(c, z, 1) = YCells(c)
  BY DEF Scales0, Scales1, ReferenceScales
<1>9. /\ Scales0(c, z) = [cell \in YCells(c) |-> Scales0(c, z)[cell]]
      /\ Scales1(c, z) = [cell \in YCells(c) |-> Scales1(c, z)[cell]]
      /\ ReferenceScales(c, z, 0) = [cell \in YCells(c) |-> ReferenceScales(c, z, 0)[cell]]
      /\ ReferenceScales(c, z, 1) = [cell \in YCells(c) |-> ReferenceScales(c, z, 1)[cell]]
  BY DEF Scales0, Scales1, ReferenceScales
<1> QED BY <1>7, <1>9

-----------------------------------------------------------------------------
(***************************************************************************)
(* The schedule: every state of it has the declared types, metadata that   *)
(* were accepted passed validate(), and the q-index at hand, zero until    *)
(* then, passed its own range check.                                       *)
(***************************************************************************)
Accepted ==
  /\ loading = "read" => q_index = 0
  /\ loading = "accepted" => Validate(config) /\ ValidQ(config, q_index)

ScheduleInv == TypeOK /\ Accepted /\ config \in Candidates

LEMMA ScheduleInductive ==
  /\ Init => ScheduleInv
  /\ ScheduleInv /\ [Next]_vars => ScheduleInv'
<1>1. Init => ScheduleInv
  BY CandidatesAssumption DEF Init, ScheduleInv, TypeOK, Accepted
<1>2. ScheduleInv /\ [Next]_vars => ScheduleInv'
  <2> SUFFICES ASSUME ScheduleInv, [Next]_vars
               PROVE  ScheduleInv'
    OBVIOUS
  <2> USE DEF ScheduleInv, TypeOK, Accepted
  <2>1. CASE Load
    <3>1. q_index = 0 => (Validate(config) => ValidQ(config, q_index))
      BY ConfigTypes DEF Validate, ValidQ
    <3> QED BY <2>1, <3>1 DEF Load
  <2>2. CASE NextFrame
    <3>1. config.total_qp_num \in Int
      BY ConfigTypes
    <3>2. q_index' \in Nat
      BY <2>2, <3>1 DEF NextFrame, ValidQ
    <3> QED BY <2>2, <3>2 DEF NextFrame
  <2>3. CASE Stop \/ UNCHANGED vars
    BY <2>3 DEF Stop, vars
  <2> QED BY <2>1, <2>2, <2>3 DEF Next
<1> QED BY <1>1, <1>2

(***************************************************************************)
(* Every state of the schedule has the declared types, for every set of    *)
(* metadata files and every bound on the frames.                           *)
(***************************************************************************)
THEOREM TypeCorrect == Spec => []TypeOK
<1>1. ScheduleInv => TypeOK
  BY DEF ScheduleInv
<1> QED BY <1>1, ScheduleInductive, PTL DEF Spec

LEMMA InvIsTotal ==
  ASSUME ScheduleInv
  PROVE  ScheduleIsTotal
<1> SUFFICES ASSUME loading = "accepted"
             PROVE  ScheduleIsTotal
  BY DEF ScheduleIsTotal
<1>1. config \in RawConfig /\ frame \in Nat /\ q_index \in Int
  BY DEF ScheduleInv, TypeOK
<1> QED BY <1>1, ScheduleInRange DEF ScheduleInv, Accepted, ScheduleIsTotal, MapEntry

(***************************************************************************)
(* model.cpp:151-162 with pipeline.cpp:407-409: no metadata file accepted  *)
(* by validate() makes a lookup of the schedule throw or takes a frame's   *)
(* q-index out of the model's range, at whatever frame number.             *)
(***************************************************************************)
THEOREM ScheduleNeverThrows == Spec => []ScheduleIsTotal
BY ScheduleInductive, InvIsTotal, PTL DEF Spec

-----------------------------------------------------------------------------
(***************************************************************************)
(* The invariant of the stream: the two coders are open only on a model    *)
(* that was accepted and whose tables fit; the container holds the payload *)
(* of each frame sent; what has been decoded is what was sent, and the     *)
(* pieces read so far are in the container.                                *)
(***************************************************************************)
Sent == [q : {q \in Nat : ValidQ(config, q)}, latents : Latents(config)]

Written(s) == [q |-> s.q, payload |-> Payload(config, s.latents, s.q)]

Opened ==
  /\ pmf \in Pmfs(config)
  /\ pc \in {"open", "refused", "encode", "encoded", "decode", "read", "ended", "truncated"}
  /\ pc \notin {"open", "refused"} => loading = "accepted" /\ PmfFits

Stored ==
  /\ sent \in Seq(Sent)
  /\ file \in Seq({Written(s) : s \in Sent})
  /\ Len(file) = Len(sent)
  /\ \A k \in 1..Len(sent) : file[k] = Written(sent[k])
  /\ pieces \in Nat
  /\ pieces <= 4 * Len(sent)
  /\ pc \in {"open", "refused"} => sent = <<>>

ReadBack ==
  /\ decoded \in Seq({Restored(s) : s \in Sent})
  /\ \A k \in 1..Len(decoded) : decoded[k] = Restored(sent[k])
  /\ 4 * Len(decoded) <= pieces
  /\ pc \in {"open", "refused", "encode", "encoded"} => decoded = <<>>
  /\ pc = "read" => Left >= 4
  /\ pc = "ended" => Left = 0
  /\ pc = "truncated" => Left \in 1..3

StreamInv == ScheduleInv /\ Opened /\ Stored /\ ReadBack

LEMMA OpenedTypes ==
  ASSUME ScheduleInv, Opened, pc \notin {"open", "refused"}
  PROVE  /\ config \in ValidConfigs /\ pmf \in PmfFile /\ PmfFits
         /\ \A s \in Sent : /\ s.q \in Nat /\ ValidQ(config, s.q)
                            /\ s.latents \in Tensors(config)
                            /\ s = [q |-> s.q, latents |-> s.latents]
<1>1. loading = "accepted" /\ PmfFits /\ pmf \in Pmfs(config)
  BY DEF Opened
<1>2. config \in RawConfig /\ Validate(config) /\ config \in Candidates
  BY <1>1 DEF ScheduleInv, TypeOK, Accepted
<1>3. config \in ValidConfigs /\ pmf \in PmfFile
  BY <1>1, <1>2, PmfsAssumption DEF ValidConfigs
<1>4. Latents(config) \subseteq Tensors(config)
  BY <1>2, LatentsAssumption
<1> QED BY <1>1, <1>3, <1>4 DEF Sent

LEMMA StreamCounts ==
  ASSUME Stored, ReadBack
  PROVE  /\ Len(sent) \in Nat /\ Len(decoded) \in Nat /\ pieces \in Nat
         /\ Len(decoded) <= Len(sent)
         /\ Left >= 4 => Len(decoded) + 1 \in 1..Len(sent)
BY DEF Stored, ReadBack, Left

LEMMA InitialStream ==
  ASSUME StreamInit
  PROVE  StreamInv
<1>1. ScheduleInv
  BY ScheduleInductive DEF StreamInit
<1> QED BY <1>1 DEF StreamInit, StreamInv, Opened, Stored, ReadBack

\* Steps that leave the frames alone.
LEMMA MoveKeeps ==
  ASSUME StreamInv, ScheduleInv', UNCHANGED <<config, pmf, sent, file, decoded>>,
         loading' = loading \/ pc \in {"open", "refused"}, Opened',
         \/ pieces' = pieces
         \/ pieces' \in 0..pieces /\ decoded = <<>>,
         pc' \in {"open", "refused", "encode", "encoded"} => decoded = <<>>,
         pc' \in {"open", "refused"} => sent = <<>>,
         pc' = "read" => Left' >= 4,
         pc' = "ended" => Left' = 0,
         pc' = "truncated" => Left' \in 1..3
  PROVE  StreamInv'
<1>1. Sent' = Sent /\ \A s : Written(s)' = Written(s)
  BY DEF Sent, Written, Payload, ZIndices, Scales0, Scales1, FirstScale, SecondScale,
         BaseScale
<1>2. Stored'
  <2>1. pieces' \in Nat /\ pieces' <= 4 * Len(sent)
    BY StreamCounts DEF StreamInv, Stored
  <2> QED BY <1>1, <2>1 DEF StreamInv, Stored
<1>3. 4 * Len(decoded) <= pieces'
  <2>1. pieces \in Nat
    BY DEF StreamInv, Stored
  <2> QED BY <2>1 DEF StreamInv, ReadBack
<1>4. ReadBack'
  BY <1>1, <1>3 DEF StreamInv, ReadBack
<1> QED BY <1>2, <1>4 DEF StreamInv

\* pipeline.cpp:591-596: a frame is encoded and put in the container.
LEMMA EncodeFrameKeeps ==
  ASSUME StreamInv, EncodeFrame
  PROVE  StreamInv'
<1> USE DEF StreamInv
<1>1. /\ pc = "encode" /\ NextFrame /\ UNCHANGED <<pmf, decoded>>
      /\ UNCHANGED <<config, loading>>
      /\ decoded = <<>>
  BY DEF EncodeFrame, NextFrame, ReadBack
<1>2. ScheduleInv'
  BY <1>1, ScheduleInductive DEF Next
<1>3. PICK latents \in Latents(config) :
        \/ /\ sent' = Append(sent, [q |-> q_index', latents |-> latents])
           /\ file' = Append(file, [q |-> q_index',
                                    payload |-> Payload(config, latents, q_index')])
           /\ \E part \in 1..4 :
                /\ pieces' = pieces + part
                /\ pc' = IF part < 4 THEN "encoded" ELSE "encode"
        \/ pc' = "encoded" /\ UNCHANGED <<sent, file, pieces>>
  BY DEF EncodeFrame
<1>4. pc' \in {"encode", "encoded"}
  BY <1>3
<1>5. Opened'
  BY <1>1, <1>4 DEF Opened, PmfFits
<1>6. CASE pc' = "encoded" /\ UNCHANGED <<sent, file, pieces>>
  BY <1>1, <1>2, <1>5, <1>6, MoveKeeps
<1>7. ASSUME sent' = Append(sent, [q |-> q_index', latents |-> latents]),
             file' = Append(file, [q |-> q_index',
                                   payload |-> Payload(config, latents, q_index')]),
             NEW part \in 1..4, pieces' = pieces + part
      PROVE  StreamInv'
  <2>1. PICK s \in Sent : s = [q |-> q_index', latents |-> latents]
    <3>1. q_index' \in Nat /\ ValidQ(config, q_index')
      BY <1>1, <1>2 DEF NextFrame, ScheduleInv, TypeOK
    <3> QED BY <3>1 DEF Sent
  <2>2. /\ Sent' = Sent
        /\ \A t : Written(t)' = Written(t)
    BY <1>1 DEF Sent, Written, Payload, ZIndices, Scales0, Scales1,
       FirstScale, SecondScale, BaseScale
  <2>3. sent' = Append(sent, s) /\ file' = Append(file, Written(s))
    BY <1>7, <2>1 DEF Written
  <2>4. /\ Len(sent) \in Nat /\ Len(file) = Len(sent)
        /\ Len(sent') = Len(sent) + 1 /\ Len(file') = Len(sent) + 1
        /\ sent' \in Seq(Sent) /\ file' \in Seq({Written(t) : t \in Sent})
        /\ sent'[Len(sent) + 1] = s /\ file'[Len(sent) + 1] = Written(s)
        /\ \A k \in 1..Len(sent) : sent'[k] = sent[k] /\ file'[k] = file[k]
    BY <2>3 DEF Stored
  <2>5. \A k \in 1..(Len(sent) + 1) : k \in 1..Len(sent) \/ k = Len(sent) + 1
    BY <2>4
  <2>6. \A k \in 1..Len(sent') : file'[k] = Written(sent'[k])
    BY <2>4, <2>5 DEF Stored
  <2>7. pieces' \in Nat /\ pieces' <= 4 * Len(sent')
    BY <1>7, <2>4 DEF Stored
  <2>8. Stored'
    BY <1>4, <2>2, <2>4, <2>6, <2>7 DEF Stored
  <2>9. ReadBack'
    <3>1. Len(decoded) = 0 /\ decoded' = <<>>
      BY <1>1
    <3> QED BY <1>1, <1>4, <2>2, <2>7, <3>1 DEF ReadBack
  <2> QED BY <1>2, <1>5, <2>8, <2>9
<1> QED BY <1>3, <1>6, <1>7

(***************************************************************************)
(* entropy.cpp:348-390: the frame comes out of its payload as it went in.  *)
(***************************************************************************)
LEMMA DecodeFrameKeeps ==
  ASSUME StreamInv, DecodeFrame
  PROVE  StreamInv'
<1> USE DEF StreamInv
<1> DEFINE n == Len(decoded) + 1
<1>1. /\ pc = "read" /\ pc' = "decode" /\ UNCHANGED <<vars, pmf, sent, file, pieces>>
      /\ decoded' = Append(decoded, Unpacked(config, file[n].payload, file[n].q))
  BY DEF DecodeFrame
<1>2. /\ UNCHANGED <<config, loading>> /\ ScheduleInv'
  BY <1>1, ScheduleInductive DEF vars
<1>3. Left >= 4 /\ n \in 1..Len(sent)
  BY <1>1, StreamCounts DEF ReadBack
<1>4. PICK s \in Sent : s = sent[n] /\ file[n] = Written(s)
  BY <1>3 DEF Stored
<1>5. Unpacked(config, file[n].payload, file[n].q) = Restored(s)
  <2>1. /\ config \in ValidConfigs /\ pmf \in PmfFile /\ PmfFits
        /\ s.q \in Nat /\ ValidQ(config, s.q) /\ s.latents \in Tensors(config)
        /\ s = [q |-> s.q, latents |-> s.latents]
    BY <1>1, OpenedTypes
  <2>2. file[n].payload = Payload(config, s.latents, s.q) /\ file[n].q = s.q
    BY <1>4 DEF Written
  <2> QED BY <2>1, <2>2, PayloadUnpacks
<1>6. decoded' = Append(decoded, Restored(s))
  BY <1>1, <1>5
<1>7. /\ Sent' = Sent
      /\ \A t : Written(t)' = Written(t)
  BY <1>1, <1>2 DEF Sent, Written, Payload, ZIndices, Scales0, Scales1,
     FirstScale, SecondScale, BaseScale
<1>8. Opened' /\ Stored'
  BY <1>1, <1>2, <1>7 DEF Opened, Stored, PmfFits
<1>9. ReadBack'
  <2>1. /\ Len(decoded') = n /\ decoded'[n] = Restored(s)
        /\ \A k \in 1..Len(decoded) : decoded'[k] = decoded[k]
        /\ decoded' \in Seq({Restored(t) : t \in Sent})
        /\ Len(decoded) \in Nat
    BY <1>6 DEF ReadBack
  <2>2. \A k \in 1..n : k \in 1..Len(decoded) \/ k = n
    BY <2>1
  <2>3. \A k \in 1..n : decoded'[k] = Restored(sent[k])
    BY <1>4, <2>1, <2>2 DEF ReadBack
  <2>4. 4 * n <= pieces
    BY <1>3, <2>1, StreamCounts DEF Left
  <2> HIDE DEF n
  <2> QED BY <1>1, <1>7, <2>1, <2>3, <2>4 DEF ReadBack
<1> QED BY <1>2, <1>8, <1>9

LEMMA StreamInductive == StreamSpec => []StreamInv
<1>1. StreamInit => StreamInv
  BY InitialStream
<1>2. StreamInv /\ [StreamNext]_streamVars => StreamInv'
  <2> SUFFICES ASSUME StreamInv, [StreamNext]_streamVars
               PROVE  StreamInv'
    OBVIOUS
  <2>1. CASE LoadConfig
    <3>1. ScheduleInv' /\ UNCHANGED <<config, pmf, pc, sent, file, pieces, decoded>>
      BY <2>1, ScheduleInductive DEF LoadConfig, Load, Next, StreamInv
    <3>2. loading = "read" => pc \in {"open", "refused"}
      BY DEF StreamInv, Opened
    <3>3. loading = "read"
      BY <2>1 DEF LoadConfig, Load
    <3>4. Opened'
      BY <3>1, <3>2, <3>3 DEF StreamInv, Opened
    <3> QED BY <3>1, <3>2, <3>3, <3>4, MoveKeeps DEF StreamInv, Stored, ReadBack
  <2>2. CASE Open \/ EndOfVideo \/ Transfer \/ ReadFrame
    <3>1. ScheduleInv' /\ UNCHANGED <<config, loading, pmf, sent, file, decoded>>
      BY <2>2, ScheduleInductive
         DEF Open, EndOfVideo, Transfer, ReadFrame, vars, StreamInv
    <3>2. CASE Open
      BY <3>1, <3>2, MoveKeeps
         DEF Open, StreamInv, Opened, PmfFits, Stored, ReadBack
    <3>3. CASE EndOfVideo
      BY <3>1, <3>3, MoveKeeps
         DEF EndOfVideo, StreamInv, Opened, PmfFits, Stored, ReadBack
    <3>4. CASE Transfer
      BY <3>1, <3>4, MoveKeeps
         DEF Transfer, StreamInv, Opened, PmfFits, Stored, ReadBack
    <3>5. CASE ReadFrame
      <4>1. /\ pc = "decode" /\ pieces' = pieces /\ Left' = Left
            /\ pc' = CASE Left = 0 -> "ended"
                       [] Left \in 1..3 -> "truncated"
                       [] OTHER -> "read"
        BY <3>5 DEF ReadFrame, Left
      <4>2. Left \in Nat
        BY StreamCounts DEF StreamInv, ReadBack, Left
      <4>3. \/ Left = 0 /\ pc' = "ended"
            \/ Left \in 1..3 /\ pc' = "truncated"
            \/ Left >= 4 /\ pc' = "read"
        BY <4>1, <4>2
      <4>4. Opened'
        BY <3>1, <4>1, <4>3 DEF StreamInv, Opened, PmfFits
      <4> QED BY <3>1, <4>1, <4>3, <4>4, MoveKeeps
    <3> QED BY <2>2, <3>2, <3>3, <3>4, <3>5
  <2>3. CASE EncodeFrame
    BY <2>3, EncodeFrameKeeps
  <2>4. CASE DecodeFrame
    BY <2>4, DecodeFrameKeeps
  <2>5. CASE StreamStop \/ UNCHANGED streamVars
    <3>1. UNCHANGED vars /\ UNCHANGED <<pmf, pc, sent, file, pieces, decoded>>
      BY <2>5 DEF StreamStop, streamVars
    <3>2. ScheduleInv' /\ UNCHANGED <<config, loading>> /\ Left' = Left
      BY <3>1, ScheduleInductive DEF StreamInv, vars, Left
    <3>3. Opened'
      BY <3>1, <3>2 DEF StreamInv, Opened, PmfFits
    <3> QED BY <3>1, <3>2, <3>3, MoveKeeps DEF StreamInv, Stored, ReadBack
  <2> QED BY <2>1, <2>2, <2>3, <2>4, <2>5 DEF StreamNext
<1> QED BY <1>1, <1>2, PTL DEF StreamSpec

(***************************************************************************)
(* The same for the frames that are encoded and written to a container.    *)
(***************************************************************************)
THEOREM StreamScheduleNeverThrows == StreamSpec => []ScheduleIsTotal
<1>1. StreamInv => ScheduleIsTotal
  BY InvIsTotal DEF StreamInv
<1> QED BY <1>1, StreamInductive, PTL

(***************************************************************************)
(* entropy.cpp:292-322 and 348-390 with bitstream.cpp:27-48: whatever the  *)
(* metadata, the tensors and the place where the container ends, each      *)
(* decoded frame is the one encoded at its place, and the end is reported  *)
(* for what it is.                                                         *)
(***************************************************************************)
THEOREM DecodingInvertsEncoding == StreamSpec => []LatentsSurvive
<1>1. StreamInv => LatentsSurvive
  <2> SUFFICES ASSUME StreamInv
               PROVE  LatentsSurvive
    OBVIOUS
  <2>1. /\ Len(decoded) \in Nat /\ pieces \in Nat
        /\ \A k \in 1..Len(decoded) : decoded[k] = Restored(sent[k])
    BY StreamCounts DEF StreamInv, ReadBack
  <2>2. ASSUME pc \in {"ended", "truncated"}
        PROVE  /\ Len(decoded) = pieces \div 4
               /\ (pc = "ended") = (pieces % 4 = 0)
    <3>1. Left \in 0..3 /\ (pc = "ended" <=> Left = 0)
      BY <2>2 DEF StreamInv, ReadBack
    <3>2. pieces = 4 * Len(decoded) + Left
      BY <2>1, <3>1 DEF Left
    <3> QED BY <2>1, <3>1, <3>2
  <2> QED BY <2>1, <2>2 DEF LatentsSurvive, Restored
<1> QED BY <1>1, StreamInductive, PTL

(***************************************************************************)
(* scales.cpp:20-83: for every model that validate() accepts and every z,  *)
(* the tables of y in a container are those of docs/design.md:92-103.      *)
(***************************************************************************)
THEOREM TablesAreTheReferences == StreamSpec => []ScalesAreReference
<1>1. StreamInv => ScalesAreReference
  <2> SUFFICES ASSUME StreamInv, NEW k \in 1..Len(file)
               PROVE  /\ file[k].payload[2].tables
                           = ReferenceScales(config, sent[k].latents.z, 0)
                      /\ file[k].payload[3].tables
                           = ReferenceScales(config, sent[k].latents.z, 1)
    BY DEF ScalesAreReference
  <2>1. PICK s \in Sent : s = sent[k] /\ file[k] = Written(s)
    BY DEF StreamInv, Stored
  <2>2. pc \notin {"open", "refused"}
    BY DEF StreamInv, Stored
  <2>3. config \in ValidConfigs /\ pmf \in PmfFile /\ PmfFits
        /\ s.latents.z \in [ZCells(config) -> Int]
    BY <2>2, OpenedTypes DEF StreamInv, Tensors
  <2>4. /\ Scales0(config, s.latents.z) = ReferenceScales(config, s.latents.z, 0)
        /\ Scales1(config, s.latents.z) = ReferenceScales(config, s.latents.z, 1)
    BY <2>3, ReferenceTables
  <2> QED BY <2>1, <2>4 DEF Written, Payload, Message
<1> QED BY <1>1, StreamInductive, PTL
=============================================================================
