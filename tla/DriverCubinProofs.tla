------------------------- MODULE DriverCubinProofs -------------------------
(***************************************************************************)
(* What the driver_cubin backend rests on, for every graph and every size: *)
(* the arena of a bundle keeps live results apart, the dealing of epilogue *)
(* slots is right for every arena plan and the constructor keeps to its    *)
(* terms, no launch writes outside of the allocations the planner has made *)
(* for it, and the tiled convolution kernels sum every slice of every      *)
(* convolution that reaches them, on any number of warps and however late  *)
(* their copies land.                                                      *)
(***************************************************************************)
EXTENDS GraphPlan, TilePipeline, ModelConfigProofs, WellFoundedInduction

(***************************************************************************)
(* Induction over the natural numbers: a set of counterexamples would have *)
(* a least element.                                                        *)
(***************************************************************************)
LEMMA Least ==
  ASSUME NEW T, T \subseteq Nat, T # {}
  PROVE  \E n \in T : \A m \in T : n <= m
<1> DEFINE R == OpToRel(<, Nat)
<1>1. IsWellFoundedOn(R, Nat)
  BY NatLessThanWellFounded
<1>2. \A m, n \in Nat : m < n => <<m, n>> \in R
  BY DEF OpToRel
<1> HIDE DEF R
<1>3. PICK n \in T : \A m \in T : <<m, n>> \notin R
  BY <1>1, WFMin
<1>4. ASSUME NEW m \in T PROVE n <= m
  <2>1. m \in Nat /\ n \in Nat
    OBVIOUS
  <2>2. ASSUME m < n PROVE FALSE
    BY <1>2, <1>3, <2>1, <2>2
  <2> QED BY <2>1, <2>2
<1> QED BY <1>4

\* f starts with first and takes one step of next per index.
Recursive(f, n, S, first, next) ==
  /\ f \in [0..n -> S]
  /\ \A k \in 0..n : f[k] = IF k = 0 THEN first ELSE next[<<k, f[k - 1]>>]

\* A recursion over 0..n in a set that it does not leave defines a function.
LEMMA Recursion ==
  ASSUME NEW n \in Nat, NEW S, NEW first \in S, NEW next \in [(1..n) \X S -> S]
  PROVE  \E f : Recursive(f, n, S, first, next)
<1> DEFINE Is(f, m) ==
      /\ f \in [0..m -> S]
      /\ \A k \in 0..m : f[k] = IF k = 0 THEN first ELSE next[<<k, f[k - 1]>>]
    T == {m \in 0..n : ~\E f : Is(f, m)}
<1>1. ASSUME T # {} PROVE FALSE
  <2>1. PICK m \in T : \A l \in T : m <= l
    <3>1. T \subseteq Nat
      OBVIOUS
    <3> HIDE DEF T
    <3> QED BY <1>1, <3>1, Least
  <2>2. m \in 0..n /\ ~\E f : Is(f, m)
    BY <2>1
  <2>3. CASE m = 0
    <3> DEFINE f == [k \in 0..0 |-> first]
    <3>1. f \in [0..0 -> S] /\ \A k \in 0..0 : k = 0 /\ f[k] = first
      OBVIOUS
    <3>2. Is(f, 0)
      BY <3>1
    <3> QED BY <2>2, <2>3, <3>2
  <2>4. CASE m # 0
    <3>1. m - 1 \in 0..n /\ m - 1 \notin T /\ m \in 1..n /\ m - 1 < m
      <4>1. m - 1 \in 0..n /\ m \in 1..n
        BY <2>2, <2>4
      <4>2. ASSUME m - 1 \in T PROVE FALSE
        BY <2>1, <2>2, <4>1, <4>2
      <4> QED BY <4>1, <4>2
    <3>2. PICK g : Is(g, m - 1)
      BY <3>1
    <3> DEFINE f == [k \in 0..m |-> IF k = m THEN next[<<m, g[m - 1]>>] ELSE g[k]]
    <3>3. \A k \in 0..m : k = m \/ k \in 0..(m - 1)
      BY <3>1
    <3>4. g[m - 1] \in S /\ next[<<m, g[m - 1]>>] \in S
      BY <3>1, <3>2
    <3>5. f \in [0..m -> S] /\ f[m] = next[<<m, f[m - 1]>>]
      <4>1. m \in 0..m /\ m - 1 \in 0..m /\ m - 1 # m
        BY <3>1
      <4>2. f[m] = next[<<m, g[m - 1]>>] /\ f[m - 1] = g[m - 1]
        BY <4>1
      <4>3. \A k \in 0..(m - 1) : g[k] \in S
        BY <3>2
      <4>4. \A k \in 0..m : (IF k = m THEN next[<<m, g[m - 1]>>] ELSE g[k]) \in S
        BY <3>3, <3>4, <4>3
      <4> QED BY <4>2, <4>4
    <3>6. ASSUME NEW k \in 0..(m - 1)
          PROVE  f[k] = IF k = 0 THEN first ELSE next[<<k, f[k - 1]>>]
      <4>1. f[k] = g[k] /\ (k # 0 => f[k - 1] = g[k - 1])
        BY <3>1
      <4> QED BY <3>2, <4>1
    <3>7. Is(f, m)
      BY <3>3, <3>5, <3>6, <2>4
    <3> QED BY <2>2, <3>7
  <2> QED BY <2>3, <2>4
<1>2. PICK f : Is(f, n)
  BY <1>1
<1> QED BY <1>2 DEF Recursive

LEMMA Greatest ==
  ASSUME NEW n \in Nat, NEW T, T \subseteq 0..n, T # {}
  PROVE  Max(T) \in T /\ \A m \in T : m <= Max(T)
<1> DEFINE R == {n - m : m \in T}
<1>1. R \subseteq Nat /\ R # {}
  <2>1. ASSUME NEW m \in T PROVE n - m \in Nat
    <3>1. m \in 0..n
      OBVIOUS
    <3> QED BY <3>1
  <2> QED BY <2>1
<1>2. PICK r \in R : \A q \in R : r <= q
  <2> HIDE DEF R
  <2> QED BY <1>1, Least
<1>3. PICK k \in T : r = n - k
  BY <1>2
<1>4. ASSUME NEW m \in T PROVE m <= k
  <2>1. n - m \in R /\ m \in 0..n /\ k \in 0..n
    OBVIOUS
  <2>2. n - k <= n - m
    BY <1>2, <1>3, <2>1
  <2> QED BY <2>1, <2>2
<1>5. \E x \in T : \A y \in T : x >= y
  BY <1>4
<1>6. Max(T) = CHOOSE x \in T : \A y \in T : x >= y
  BY DEF Max
<1>7. Max(T) \in T /\ \A y \in T : Max(T) >= y
  BY <1>5, <1>6
<1> QED BY <1>7

-----------------------------------------------------------------------------
(***************************************************************************)
(* tools/model_aot.py:126-177: the loop gives each result the tightest     *)
(* free block, or room behind all others.                                  *)
(***************************************************************************)
Size(g, k) == g.channels[g.nodes[k].out]
Room(g, at, k) == at[k]..(at[k] + Size(g, k) - 1)

Arenas == [at : Seq(Nat), end : Nat]

\* The first n results have their places.
PlannedTo(g, plan, n) ==
  /\ plan \in Arenas
  /\ Len(plan.at) = n
  /\ \A k \in 1..n :
       /\ plan.at[k] + Size(g, k) <= plan.end
       /\ \A j \in 1..(k - 1) :
            Death(g, j) >= k => Room(g, plan.at, j) \cap Room(g, plan.at, k) = {}

\* The block that the loop takes.
Tightest(fits, b) ==
  /\ b \in fits
  /\ \A c \in fits : \/ b[2] - b[1] < c[2] - c[1]
                     \/ b[2] - b[1] = c[2] - c[1] /\ b[1] <= c[1]

LEMMA BestFit ==
  ASSUME NEW fits, fits # {}, fits \subseteq Nat \X Nat, \A b \in fits : b[1] <= b[2]
  PROVE  \E b : Tightest(fits, b)
<1> DEFINE W == {b[2] - b[1] : b \in fits}
<1>1. W \subseteq Nat /\ W # {}
  OBVIOUS
<1>2. PICK w \in W : \A v \in W : w <= v
  <2> HIDE DEF W
  <2> QED BY <1>1, Least
<1> DEFINE narrow == {b \in fits : b[2] - b[1] = w}
           A == {b[1] : b \in narrow}
<1>3. A \subseteq Nat /\ A # {}
  BY <1>2
<1>4. PICK a \in A : \A v \in A : a <= v
  <2> HIDE DEF A
  <2> QED BY <1>3, Least
<1>5. PICK b \in fits : b[2] - b[1] = w /\ b[1] = a
  BY <1>4
<1>6. ASSUME NEW c \in fits
      PROVE  w < c[2] - c[1] \/ (w = c[2] - c[1] /\ a <= c[1])
  <2>1. c[2] - c[1] \in W /\ c[2] - c[1] \in Nat /\ w \in Nat
    BY <1>1
  <2>2. w <= c[2] - c[1]
    BY <1>2, <2>1
  <2>3. w = c[2] - c[1] => a <= c[1]
    BY <1>4
  <2> QED BY <2>1, <2>2, <2>3
<1> HIDE DEF W, narrow, A
<1>7. b \in fits
  BY <1>5
<1>8. ASSUME NEW c \in fits
      PROVE  \/ b[2] - b[1] < c[2] - c[1]
             \/ b[2] - b[1] = c[2] - c[1] /\ b[1] <= c[1]
  BY <1>5, <1>6
<1>9. Tightest(fits, b)
  BY <1>7, <1>8 DEF Tightest
<1> QED BY <1>9

LiveCells(g, plan, k) ==
  UNION {plan.at[j]..(plan.at[j] + Size(g, j) - 1) :
           j \in {i \in 1..(k - 1) : Death(g, i) >= k}}

\* Where a result goes: behind all others, or where nobody lives.
LEMMA PlaceFound ==
  ASSUME NEW g, NEW plan \in Arenas, NEW k \in Nat, Size(g, k) \in Nat
  PROVE  \E a \in Nat :
           LET placed == PlaceInArena(g, plan, k)
           IN /\ placed.at = Append(plan.at, a)
              /\ placed \in Arenas
              /\ \/ a = plan.end /\ placed.end = plan.end + Size(g, k)
                 \/ /\ placed.end = plan.end
                    /\ a + Size(g, k) <= plan.end
                    /\ a..(a + Size(g, k) - 1) \cap LiveCells(g, plan, k) = {}
<1> DEFINE size == Size(g, k)
           free == (0..(plan.end - 1)) \ LiveCells(g, plan, k)
           fits == {b \in Blocks(free) : b[2] - b[1] + 1 >= size}
           best == CHOOSE b \in fits : \A c \in fits :
                     \/ b[2] - b[1] < c[2] - c[1]
                     \/ b[2] - b[1] = c[2] - c[1] /\ b[1] <= c[1]
           placed == PlaceInArena(g, plan, k)
<1>1. placed = IF fits = {} THEN [at |-> Append(plan.at, plan.end), end |-> plan.end + size]
               ELSE [plan EXCEPT !.at = Append(@, best[1])]
  BY DEF PlaceInArena, Size, LiveCells
<1>2. plan.at \in Seq(Nat) /\ plan.end \in Nat /\ plan = [at |-> plan.at, end |-> plan.end]
  BY DEF Arenas
<1>3. CASE fits = {}
  <2>1. placed = [at |-> Append(plan.at, plan.end), end |-> plan.end + size]
    BY <1>1, <1>3
  <2>2. Append(plan.at, plan.end) \in Seq(Nat) /\ plan.end + size \in Nat
    BY <1>2
  <2> HIDE DEF placed
  <2>3. placed \in Arenas
    BY <2>1, <2>2 DEF Arenas
  <2> QED BY <1>2, <2>1, <2>3 DEF placed
<1>4. CASE fits # {}
  <2>1. fits \subseteq Nat \X Nat /\ \A b \in fits : b[1] <= b[2]
    BY <1>2 DEF Blocks
  <2>2. best \in fits
    <3>1. \E b : Tightest(fits, b)
      <4> HIDE DEF fits
      <4> QED BY <1>4, <2>1, BestFit
    <3> HIDE DEF fits
    <3> QED BY <3>1 DEF Tightest
  <2> DEFINE a == best[1]
             z == best[2]
  <2>3. /\ a \in Nat /\ z \in Nat /\ a..z \subseteq free /\ z - a + 1 >= size /\ a <= z
        /\ z \in free
    <3>1. fits \subseteq Blocks(free) /\ best[2] - best[1] + 1 >= size
      <4> HIDE DEF best
      <4> QED BY <2>2
    <3>2. free \subseteq Nat
      BY <1>2
    <3> HIDE DEF fits, best, free, size
    <3>3. best \in Blocks(free)
      BY <2>2, <3>1
    <3>4. best[1] \in free /\ best[2] \in free /\ best[1] <= best[2] /\ best[1]..best[2] \subseteq free
      BY <3>3 DEF Blocks
    <3> QED BY <3>1, <3>2, <3>4
  <2>4. placed = [at |-> Append(plan.at, a), end |-> plan.end]
    BY <1>1, <1>2, <1>4
  <2> HIDE DEF a, z, best
  <2>5. Append(plan.at, a) \in Seq(Nat)
    BY <1>2, <2>3
  <2>6. placed \in Arenas
    BY <1>2, <2>4, <2>5 DEF Arenas
  <2>7. a + size <= plan.end
    <3>1. z <= plan.end - 1
      BY <2>3
    <3> QED BY <1>2, <2>3, <3>1
  <2>8. a..(a + size - 1) \subseteq a..z
    BY <2>3
  <2>9. a..(a + size - 1) \cap LiveCells(g, plan, k) = {}
    BY <2>3, <2>8
  <2> QED BY <2>3, <2>4, <2>6, <2>7, <2>9
<1> QED BY <1>3, <1>4

\* One more result: the rooms of those it may meet are taken from what is free.
LEMMA PlaceKeeps ==
  ASSUME NEW g, NEW n \in Nat, \A k \in 1..(n + 1) : Size(g, k) \in Nat,
         NEW plan, PlannedTo(g, plan, n)
  PROVE  PlannedTo(g, PlaceInArena(g, plan, n + 1), n + 1)
<1> DEFINE m == n + 1
           placed == PlaceInArena(g, plan, m)
<1>1. /\ m \in Nat /\ m \in 1..m /\ \A k \in 1..m : k \in 1..n \/ k = m
      /\ \A k \in 1..n : k \in 1..m
  OBVIOUS
<1>2. /\ plan \in Arenas /\ plan.at \in Seq(Nat) /\ plan.end \in Nat /\ Len(plan.at) = n
      /\ Size(g, m) \in Nat
  BY <1>1 DEF PlannedTo, Arenas
<1>3. PICK a \in Nat :
        /\ placed.at = Append(plan.at, a)
        /\ placed \in Arenas
        /\ \/ a = plan.end /\ placed.end = plan.end + Size(g, m)
           \/ /\ placed.end = plan.end
              /\ a + Size(g, m) <= plan.end
              /\ a..(a + Size(g, m) - 1) \cap LiveCells(g, plan, m) = {}
  <2> HIDE DEF m
  <2> QED BY <1>1, <1>2, PlaceFound
<1> HIDE DEF placed
<1>4. /\ Len(placed.at) = m /\ placed.at[m] = a
      /\ \A k \in 1..n : placed.at[k] = plan.at[k] /\ plan.at[k] \in Nat
      /\ placed.end \in Nat /\ placed.end >= plan.end /\ a + Size(g, m) <= placed.end
  <2>1. placed.at \in Seq(Nat) /\ placed.end \in Nat
    BY <1>3 DEF Arenas
  <2>2. placed.end >= plan.end /\ a + Size(g, m) <= placed.end
    <3> DEFINE size == Size(g, m)
               old == plan.end
               new == placed.end
    <3>1. size \in Nat /\ old \in Nat /\ new \in Nat
      BY <1>2, <2>1
    <3>2. (a = old /\ new = old + size) \/ (new = old /\ a + size <= old)
      BY <1>3
    <3> HIDE DEF size, old, new
    <3>3. new >= old /\ a + size <= new
      BY <3>1, <3>2
    <3> QED BY <3>3 DEF size, old, new
  <2>3. \A k \in 1..n : plan.at[k] \in Nat
    BY <1>2
  <2>4. /\ Len(placed.at) = m /\ placed.at[m] = a
        /\ \A k \in 1..n : placed.at[k] = plan.at[k]
    BY <1>2, <1>3
  <2> QED BY <2>1, <2>2, <2>3, <2>4
<1>5. ASSUME NEW k \in 1..n
      PROVE  placed.at[k] + Size(g, k) <= placed.end
  <2>1. plan.at[k] + Size(g, k) <= plan.end /\ Size(g, k) \in Nat
    BY <1>1 DEF PlannedTo
  <2> DEFINE size == Size(g, k)
             from == plan.at[k]
             old == plan.end
             new == placed.end
  <2>2. size \in Nat /\ from \in Nat /\ old \in Nat /\ new \in Nat /\ new >= old
    BY <1>2, <1>4, <2>1
  <2>3. from + size <= old /\ placed.at[k] = from
    BY <1>4, <2>1
  <2> HIDE DEF size, from, old, new
  <2>4. from + size <= new
    BY <2>2, <2>3
  <2> QED BY <2>3, <2>4 DEF size, new
<1>6. ASSUME NEW k \in 1..n, NEW j \in 1..(k - 1), Death(g, j) >= k
      PROVE  Room(g, placed.at, j) \cap Room(g, placed.at, k) = {}
  <2>1. j \in 1..n
    OBVIOUS
  <2>2. Room(g, placed.at, j) = Room(g, plan.at, j) /\ Room(g, placed.at, k) = Room(g, plan.at, k)
    BY <1>4, <2>1 DEF Room
  <2> QED BY <1>6, <2>2 DEF PlannedTo
<1>7. ASSUME NEW j \in 1..(m - 1), Death(g, j) >= m
      PROVE  Room(g, placed.at, j) \cap Room(g, placed.at, m) = {}
  <2>1. j \in 1..n /\ Size(g, j) \in Nat /\ Size(g, m) \in Nat
    BY <1>1
  <2>2. /\ Room(g, placed.at, j) = plan.at[j]..(plan.at[j] + Size(g, j) - 1)
        /\ Room(g, placed.at, m) = a..(a + Size(g, m) - 1)
    BY <1>4, <2>1 DEF Room
  <2>3. CASE a = plan.end
    <3>1. plan.at[j] + Size(g, j) <= plan.end /\ plan.at[j] \in Nat
      BY <1>4, <2>1 DEF PlannedTo
    <3> DEFINE x == plan.at[j]
               sx == Size(g, j)
               sz == Size(g, m)
    <3>2. x \in Nat /\ sx \in Nat /\ sz \in Nat /\ x + sx <= a
      BY <2>1, <2>3, <3>1
    <3> HIDE DEF x, sx, sz
    <3>3. (x..(x + sx - 1)) \cap (a..(a + sz - 1)) = {}
      BY <3>2
    <3> QED BY <2>2, <3>3 DEF x, sx, sz
  <2>4. CASE a..(a + Size(g, m) - 1) \cap LiveCells(g, plan, m) = {}
    <3>1. plan.at[j]..(plan.at[j] + Size(g, j) - 1) \subseteq LiveCells(g, plan, m)
      BY <1>7 DEF LiveCells
    <3> QED BY <2>2, <2>4, <3>1
  <2> QED BY <1>3, <2>3, <2>4
<1>8. ASSUME NEW k \in 1..m
      PROVE  /\ placed.at[k] + Size(g, k) <= placed.end
             /\ \A j \in 1..(k - 1) :
                  Death(g, j) >= k => Room(g, placed.at, j) \cap Room(g, placed.at, k) = {}
  <2>1. CASE k \in 1..n
    BY <1>5, <1>6, <2>1
  <2>2. CASE k = m
    BY <1>4, <1>7, <2>2
  <2> QED BY <1>1, <2>1, <2>2
<1> QED BY <1>3, <1>4, <1>8 DEF PlannedTo, placed

\* The whole plan, by induction over its nodes.
LEMMA ArenaPlanned ==
  ASSUME NEW g, Len(g.nodes) \in Nat, \A k \in 1..Len(g.nodes) : Size(g, k) \in Nat
  PROVE  PlannedTo(g, PlanArena(g), Len(g.nodes))
<1> DEFINE n == Len(g.nodes)
           first == [at |-> <<>>, end |-> 0]
           IsPlan(f) == f = [k \in 0..n |-> IF k = 0 THEN first
                                          ELSE PlaceInArena(g, f[k - 1], k)]
           plan == CHOOSE f : IsPlan(f)
<1>1. PlanArena(g) = plan[n]
  BY DEF PlanArena
<1>2. first \in Arenas
  BY DEF Arenas
<1>3. \E f : IsPlan(f)
  <2> DEFINE next == [p \in (1..n) \X Arenas |-> PlaceInArena(g, p[2], p[1])]
  <2>1. ASSUME NEW k \in 1..n, NEW p \in Arenas
        PROVE  PlaceInArena(g, p, k) \in Arenas
    <3>1. k \in Nat /\ Size(g, k) \in Nat
      OBVIOUS
    <3> QED BY <3>1, PlaceFound
  <2>2. next \in [(1..n) \X Arenas -> Arenas]
    BY <2>1
  <2>3. \A k \in 1..n : \A p \in Arenas : next[<<k, p>>] = PlaceInArena(g, p, k)
    OBVIOUS
  <2> HIDE DEF next, first, n
  <2>4. n \in Nat
    BY DEF n
  <2>5. PICK f \in [0..n -> Arenas] :
          \A k \in 0..n : f[k] = IF k = 0 THEN first ELSE next[<<k, f[k - 1]>>]
    <3>1. n \in Nat /\ first \in Arenas /\ next \in [(1..n) \X Arenas -> Arenas]
      BY <1>2, <2>2, <2>4
    <3>2. \E f : Recursive(f, n, Arenas, first, next)
      BY <3>1, Recursion
    <3> QED BY <3>2 DEF Recursive
  <2>6. ASSUME NEW k \in 0..n, k # 0
        PROVE  next[<<k, f[k - 1]>>] = PlaceInArena(g, f[k - 1], k)
    <3>1. k \in 1..n /\ k - 1 \in 0..n
      BY <2>4, <2>6
    <3> QED BY <2>3, <3>1
  <2>7. \A k \in 0..n : f[k] = IF k = 0 THEN first ELSE PlaceInArena(g, f[k - 1], k)
    BY <2>5, <2>6
  <2>8. IsPlan(f)
    BY <2>5, <2>7
  <2> QED BY <2>8
<1> HIDE DEF first
<1>4. plan = [k \in 0..n |-> IF k = 0 THEN first ELSE PlaceInArena(g, plan[k - 1], k)]
  BY <1>3
<1> HIDE DEF plan, IsPlan
<1> DEFINE T == {k \in 0..n : ~PlannedTo(g, plan[k], k)}
<1>5. ASSUME T # {} PROVE FALSE
  <2>1. PICK k \in T : \A l \in T : k <= l
    <3>1. T \subseteq Nat
      OBVIOUS
    <3> HIDE DEF T
    <3> QED BY <1>5, <3>1, Least
  <2>2. k \in 0..n /\ ~PlannedTo(g, plan[k], k)
    BY <2>1
  <2>3. CASE k = 0
    <3>1. plan[k] = [at |-> <<>>, end |-> 0]
      BY <1>4, <2>2, <2>3 DEF first
    <3>2. PlannedTo(g, [at |-> <<>>, end |-> 0], 0)
      BY DEF PlannedTo, Arenas
    <3> QED BY <2>2, <2>3, <3>1, <3>2
  <2>4. CASE k # 0
    <3>1. k - 1 \in 0..n /\ k - 1 \in Nat /\ (k - 1) + 1 = k /\ ~(k <= k - 1) /\ k \in 1..n
      BY <2>2, <2>4
    <3>2. PlannedTo(g, plan[k - 1], k - 1)
      BY <2>1, <3>1
    <3>3. plan[k] = PlaceInArena(g, plan[k - 1], k)
      BY <1>4, <2>2, <2>4
    <3>4. \A i \in 1..((k - 1) + 1) : Size(g, i) \in Nat
      BY <3>1
    <3> HIDE DEF n, T
    <3>5. PlannedTo(g, PlaceInArena(g, plan[k - 1], (k - 1) + 1), (k - 1) + 1)
      BY <3>1, <3>2, <3>4, PlaceKeeps
    <3> QED BY <2>2, <3>1, <3>3, <3>5
  <2> QED BY <2>3, <2>4
<1>6. n \in 0..n
  OBVIOUS
<1> QED BY <1>1, <1>5, <1>6

-----------------------------------------------------------------------------
\* What a manifest says of a node and its readers.
LEMMA ManifestFacts ==
  ASSUME NEW g, Manifest(g)
  PROVE  /\ Len(g.nodes) \in Nat
         /\ \A k \in 1..Len(g.nodes) :
              /\ Size(g, k) \in Nat
              /\ Readers(g, g.nodes[k].out) \subseteq (k + 1)..Len(g.nodes)
              /\ Death(g, k) \in Nat
              /\ k <= Death(g, k)
<1> DEFINE n == Len(g.nodes)
<1>1. n \in Nat
  BY DEF Manifest
<1>2. ASSUME NEW k \in 1..n
      PROVE  /\ Size(g, k) \in Nat
             /\ Readers(g, g.nodes[k].out) \subseteq (k + 1)..n
             /\ Death(g, k) \in Nat
             /\ k <= Death(g, k)
  <2> DEFINE t == g.nodes[k].out
             readers == Readers(g, t)
  <2>1. /\ t \in Tensors(g) \ (g.weights \cup ToSet(g.inputs))
        /\ g.channels \in [Tensors(g) -> Nat \ {0}]
    BY DEF Manifest
  <2>2. Size(g, k) \in Nat
    BY <2>1 DEF Size
  <2>3. ASSUME NEW i \in readers PROVE i \in (k + 1)..n
    <3>1. i \in 1..n /\ t \in ToSet(g.nodes[i].in)
      BY DEF Readers
    <3>2. ToSet(g.nodes[i].in) \subseteq
            g.weights \cup ToSet(g.inputs) \cup {g.nodes[j].out : j \in 1..(i - 1)}
      BY <3>1 DEF Manifest
    <3>3. PICK j \in 1..(i - 1) : t = g.nodes[j].out
      BY <2>1, <3>1, <3>2
    <3>4. \A l \in 1..(k - 1) : g.nodes[l].out # t
      BY DEF Manifest
    <3>5. j \in 1..n /\ ~(j < k)
      BY <1>1, <3>1, <3>3, <3>4
    <3> QED BY <1>1, <3>1, <3>3, <3>5
  <2>4. readers \subseteq 0..n
    BY <1>1, <2>3
  <2>5. CASE t \in ToSet(g.outputs)
    <3>1. Death(g, k) = n + 1
      BY <2>5 DEF Death
    <3> QED BY <1>1, <2>2, <2>3, <3>1
  <2>6. CASE t \notin ToSet(g.outputs) /\ readers = {}
    <3>1. Death(g, k) = k
      BY <2>6 DEF Death
    <3> QED BY <1>1, <2>2, <2>3, <3>1
  <2>7. CASE t \notin ToSet(g.outputs) /\ readers # {}
    <3>1. Death(g, k) = Max(readers)
      BY <2>7 DEF Death
    <3> HIDE DEF readers
    <3>2. Max(readers) \in readers
      BY <1>1, <2>4, <2>7, Greatest
    <3>3. Max(readers) \in (k + 1)..n
      BY <2>3, <3>2
    <3> QED BY <1>1, <2>2, <2>3, <3>1, <3>3 DEF readers
  <2> QED BY <2>5, <2>6, <2>7
<1> QED BY <1>1, <1>2

-----------------------------------------------------------------------------
\* The epilogues found in the first n nodes, in their order.
InOrder(s, n) ==
  /\ s \in Seq(Nat)
  /\ \A i \in 1..Len(s) : s[i] \in 1..n /\ HasEpilogue(s[i])
  /\ \A i, j \in 1..Len(s) : i < j => s[i] < s[j]

LEMMA OneMoreInOrder ==
  ASSUME NEW n \in Nat, NEW s, InOrder(s, n)
  PROVE  /\ InOrder(s, n + 1)
         /\ HasEpilogue(n + 1) => InOrder(Append(s, n + 1), n + 1)
<1>1. \A x \in 1..n : x \in 1..(n + 1) /\ x < n + 1
  OBVIOUS
<1>2. InOrder(s, n + 1)
  BY <1>1 DEF InOrder
<1>3. ASSUME HasEpilogue(n + 1) PROVE InOrder(Append(s, n + 1), n + 1)
  <2> DEFINE a == Append(s, n + 1)
             l == Len(s)
  <2>1. /\ a \in Seq(Nat) /\ l \in Nat /\ Len(a) = l + 1 /\ a[l + 1] = n + 1
        /\ \A i \in 1..l : a[i] = s[i]
    BY DEF InOrder
  <2>2. \A i \in 1..l : s[i] \in 1..n /\ HasEpilogue(s[i])
    BY DEF InOrder
  <2>3. \A i, j \in 1..l : i < j => s[i] < s[j]
    BY DEF InOrder
  <2> HIDE DEF a, l
  <2>4. \A i \in 1..(l + 1) : i \in 1..l \/ i = l + 1
    BY <2>1
  <2>5. \A i \in 1..(l + 1) : a[i] \in 1..(n + 1) /\ HasEpilogue(a[i])
    BY <1>1, <1>3, <2>1, <2>2, <2>4
  <2>6. ASSUME NEW i \in 1..(l + 1), NEW j \in 1..(l + 1), i < j
        PROVE  a[i] < a[j]
    <3>1. i \in 1..l
      BY <2>1, <2>6
    <3>2. CASE j \in 1..l
      BY <2>1, <2>3, <2>6, <3>1, <3>2
    <3>3. CASE j = l + 1
      BY <1>1, <2>1, <2>2, <3>1, <3>3
    <3> QED BY <2>4, <3>2, <3>3
  <2>7. InOrder(a, n + 1)
    BY <2>1, <2>5, <2>6 DEF InOrder
  <2> QED BY <2>7 DEF a
<1> QED BY <1>2, <1>3

LEMMA EpiloguesInOrder ==
  ASSUME Len(Nodes) \in Nat
  PROVE  InOrder(Epilogues, Len(Nodes))
<1> DEFINE n == Len(Nodes)
           grow(s, k) == IF HasEpilogue(k) THEN Append(s, k) ELSE s
           IsUpTo(f) == f = [k \in 0..n |-> IF k = 0 THEN <<>>
                                            ELSE IF HasEpilogue(k) THEN Append(f[k - 1], k)
                                            ELSE f[k - 1]]
           upTo == CHOOSE f : IsUpTo(f)
<1>1. Epilogues = upTo[n]
  BY DEF Epilogues
<1>2. \E f : IsUpTo(f)
  <2> DEFINE next == [p \in (1..n) \X Seq(Nat) |-> grow(p[2], p[1])]
  <2>1. ASSUME NEW k \in 1..n, NEW s \in Seq(Nat) PROVE grow(s, k) \in Seq(Nat)
    <3>1. k \in Nat
      OBVIOUS
    <3> QED BY <3>1
  <2>2. next \in [(1..n) \X Seq(Nat) -> Seq(Nat)]
    BY <2>1
  <2>3. \A k \in 1..n : \A s \in Seq(Nat) : next[<<k, s>>] = grow(s, k)
    OBVIOUS
  <2> HIDE DEF next, grow, n
  <2>4. n \in Nat /\ <<>> \in Seq(Nat)
    BY DEF n
  <2>5. PICK f : Recursive(f, n, Seq(Nat), <<>>, next)
    BY <2>2, <2>4, Recursion
  <2>6. /\ f \in [0..n -> Seq(Nat)]
        /\ \A k \in 0..n : f[k] = IF k = 0 THEN <<>> ELSE next[<<k, f[k - 1]>>]
    BY <2>5 DEF Recursive
  <2>7. ASSUME NEW k \in 0..n, k # 0
        PROVE  next[<<k, f[k - 1]>>] = grow(f[k - 1], k)
    <3>1. k \in 1..n /\ k - 1 \in 0..n
      BY <2>4, <2>7
    <3> QED BY <2>3, <2>6, <3>1
  <2>8. \A k \in 0..n : f[k] = IF k = 0 THEN <<>>
                               ELSE IF HasEpilogue(k) THEN Append(f[k - 1], k) ELSE f[k - 1]
    BY <2>6, <2>7 DEF grow
  <2>9. IsUpTo(f)
    BY <2>6, <2>8
  <2> QED BY <2>9
<1>3. upTo = [k \in 0..n |-> IF k = 0 THEN <<>>
                             ELSE IF HasEpilogue(k) THEN Append(upTo[k - 1], k)
                             ELSE upTo[k - 1]]
  BY <1>2
<1> HIDE DEF upTo, IsUpTo, grow
<1> DEFINE T == {k \in 0..n : ~InOrder(upTo[k], k)}
<1>4. ASSUME T # {} PROVE FALSE
  <2>1. PICK k \in T : \A l \in T : k <= l
    <3>1. T \subseteq Nat
      OBVIOUS
    <3> HIDE DEF T
    <3> QED BY <1>4, <3>1, Least
  <2>2. k \in 0..n /\ ~InOrder(upTo[k], k)
    BY <2>1
  <2>3. CASE k = 0
    <3>1. upTo[k] = <<>>
      BY <1>3, <2>2, <2>3
    <3>2. InOrder(<<>>, 0)
      BY DEF InOrder
    <3> QED BY <2>2, <2>3, <3>1, <3>2
  <2>4. CASE k # 0
    <3>1. k - 1 \in 0..n /\ k - 1 \in Nat /\ (k - 1) + 1 = k /\ ~(k <= k - 1)
      BY <2>2, <2>4
    <3>2. InOrder(upTo[k - 1], k - 1)
      BY <2>1, <3>1
    <3>3. upTo[k] = IF HasEpilogue(k) THEN Append(upTo[k - 1], k) ELSE upTo[k - 1]
      BY <1>3, <2>2, <2>4
    <3> HIDE DEF n, T
    <3>4. /\ InOrder(upTo[k - 1], k)
          /\ HasEpilogue(k) => InOrder(Append(upTo[k - 1], k), k)
      BY <3>1, <3>2, OneMoreInOrder
    <3> QED BY <2>2, <3>3, <3>4
  <2> QED BY <2>3, <2>4
<1>5. n \in 0..n
  OBVIOUS
<1> QED BY <1>1, <1>4, <1>5

-----------------------------------------------------------------------------
\* Sequences of equal length: every slot has a death and a size.
SlotsTyped ==
  /\ WellFormed(intervals)
  /\ slot_deaths \in Seq(Nat)
  /\ slot_bytes \in Seq(Nat)
  /\ Len(slot_bytes) = Len(slot_deaths)
  /\ slot_of \in Seq(Nat)
  /\ \A i \in Placed : slot_of[i] \in SlotsInUse
  /\ Len(slot_of) <= Len(intervals)

\* The death a slot carries is that of its longest-lived tenant: what the
\* search compares a birth with speaks for all of them.
DeathsAreBounds ==
  \A i \in Placed : intervals[i].death <= slot_deaths[slot_of[i]]

SlotsInv == SlotsTyped /\ DeathsAreBounds /\ TenantsDoNotMeet /\ TenantsFit

-----------------------------------------------------------------------------
LEMMA SlotsInitInv == SlotsInit => SlotsInv
  BY DEF SlotsInit, SlotsInv, SlotsTyped, DeathsAreBounds, TenantsDoNotMeet,
         TenantsFit, Placed, SlotsInUse, WellFormed

\* What is known of the next interval while one is left to place.
LEMMA UpcomingFacts ==
  ASSUME SlotsTyped, Len(slot_of) < Len(intervals)
  PROVE  /\ Upcoming \in Interval
         /\ Upcoming.birth \in Nat /\ Upcoming.death \in Nat /\ Upcoming.size \in Nat
         /\ Upcoming.birth <= Upcoming.death
         /\ Len(slot_of) + 1 \in 1..Len(intervals)
         /\ \A i \in Placed : /\ i \in 1..Len(intervals)
                              /\ intervals[i].birth \in Nat
                              /\ intervals[i].death \in Nat
                              /\ intervals[i].size \in Nat
<1>1. Len(slot_of) + 1 \in 1..Len(intervals) /\ Placed \subseteq 1..Len(intervals)
  BY DEF SlotsTyped, WellFormed, Placed
<1>2. \A i \in 1..Len(intervals) : intervals[i] \in Interval
  BY DEF SlotsTyped, WellFormed
<1> QED
  BY <1>1, <1>2 DEF SlotsTyped, WellFormed, Upcoming, Interval

-----------------------------------------------------------------------------
LEMMA OpenSlotInv == SlotsInv /\ OpenSlot => SlotsInv'
<1> SUFFICES ASSUME SlotsInv, OpenSlot PROVE SlotsInv'
  OBVIOUS
<1> USE DEF SlotsInv
<1>0. Len(slot_of) < Len(intervals) /\ intervals' = intervals
  BY DEF OpenSlot
<1> DEFINE n == Len(slot_of) + 1
           s == Len(slot_deaths) + 1
<1>1. /\ slot_deaths \in Seq(Nat) /\ slot_bytes \in Seq(Nat)
      /\ slot_of \in Seq(Nat) /\ Len(slot_bytes) = Len(slot_deaths)
      /\ \A i \in Placed : slot_of[i] \in SlotsInUse
  BY DEF SlotsTyped, Placed, SlotsInUse
<1>2. /\ slot_deaths' \in Seq(Nat) /\ Len(slot_deaths') = s /\ slot_deaths'[s] = Upcoming.death
      /\ \A u \in SlotsInUse : slot_deaths'[u] = slot_deaths[u]
  BY <1>0, <1>1, UpcomingFacts DEF OpenSlot, SlotsInUse
<1>3. /\ slot_bytes' \in Seq(Nat) /\ Len(slot_bytes') = s /\ slot_bytes'[s] = Upcoming.size
      /\ \A u \in SlotsInUse : slot_bytes'[u] = slot_bytes[u]
  BY <1>0, <1>1, UpcomingFacts DEF OpenSlot, SlotsInUse
<1>4. /\ Len(slot_of') = n /\ slot_of'[n] = s /\ slot_of' \in Seq(Nat)
      /\ \A i \in Placed : slot_of'[i] = slot_of[i]
  BY <1>1 DEF OpenSlot, Placed
<1>5. Placed' = Placed \cup {n} /\ n \notin Placed /\ SlotsInUse' = 1..s
      /\ s \notin SlotsInUse
  <2>1. Len(slot_of) \in Nat /\ Len(slot_of') = Len(slot_of) + 1
    BY <1>1, <1>4
  <2>2. Placed' = Placed \cup {n} /\ n \notin Placed
    BY <2>1 DEF Placed
  <2>3. SlotsInUse' = 1..s
    BY <1>2 DEF SlotsInUse
  <2>4. s \notin SlotsInUse
    BY <1>1 DEF SlotsInUse
  <2> QED
    BY <2>2, <2>3, <2>4
<1>6. SlotsTyped'
  <2>1. WellFormed(intervals)'
    BY <1>0 DEF SlotsTyped, WellFormed
  <2>2. \A i \in Placed' : slot_of'[i] \in SlotsInUse'
    BY <1>1, <1>4, <1>5 DEF SlotsInUse
  <2>3. Len(slot_of') <= Len(intervals')
    <3>1. Len(slot_of) \in Nat /\ Len(intervals) \in Nat
      BY DEF SlotsTyped, WellFormed
    <3> QED
      BY <3>1, <1>0, <1>4
  <2> QED
    BY <2>1, <2>2, <2>3, <1>1, <1>2, <1>3, <1>4 DEF SlotsTyped
<1>7. DeathsAreBounds'
  <2> SUFFICES ASSUME NEW i \in Placed' PROVE intervals[i].death <= slot_deaths'[slot_of'[i]]
    BY <1>0 DEF DeathsAreBounds
  <2>1. CASE i = n
    BY <2>1, <1>0, <1>2, <1>4, UpcomingFacts DEF Upcoming
  <2>2. CASE i \in Placed
    BY <2>2, <1>1, <1>2, <1>4 DEF DeathsAreBounds
  <2> QED
    BY <2>1, <2>2, <1>5
<1>8. TenantsFit'
  <2> SUFFICES ASSUME NEW i \in Placed' PROVE intervals[i].size <= slot_bytes'[slot_of'[i]]
    BY <1>0 DEF TenantsFit
  <2>1. CASE i = n
    BY <2>1, <1>0, <1>3, <1>4, UpcomingFacts DEF Upcoming
  <2>2. CASE i \in Placed
    BY <2>2, <1>1, <1>3, <1>4 DEF TenantsFit
  <2> QED
    BY <2>1, <2>2, <1>5
<1>9. TenantsDoNotMeet'
  <2> SUFFICES ASSUME NEW i \in Placed', NEW j \in Placed', i < j, slot_of'[i] = slot_of'[j]
               PROVE intervals[i].death < intervals[j].birth
    BY <1>0 DEF TenantsDoNotMeet
  <2>1. CASE j \in Placed
    <3>1. i \in Placed
      BY <2>1, <1>1, <1>5 DEF Placed
    <3> QED
      BY <2>1, <3>1, <1>4 DEF TenantsDoNotMeet
  <2>2. CASE j = n  \* the new tenant is alone in its slot
    <3>1. i \in Placed
      BY <2>2, <1>1, <1>5 DEF Placed
    <3> QED
      BY <2>2, <3>1, <1>1, <1>4, <1>5
  <2> QED
    BY <2>1, <2>2, <1>5
<1> QED
  BY <1>6, <1>7, <1>8, <1>9

LEMMA ReuseSlotInv == SlotsInv /\ ReuseSlot => SlotsInv'
<1> SUFFICES ASSUME SlotsInv, ReuseSlot PROVE SlotsInv'
  OBVIOUS
<1> USE DEF SlotsInv
<1>0. Len(slot_of) < Len(intervals) /\ intervals' = intervals
  BY DEF ReuseSlot
<1> DEFINE n == Len(slot_of) + 1
           larger(a, b) == IF a >= b THEN a ELSE b
<1>s. PICK s \in SlotsInUse :
        /\ slot_deaths[s] < Upcoming.birth
        /\ slot_deaths' = [slot_deaths EXCEPT ![s] = Upcoming.death]
        /\ slot_bytes' = [slot_bytes EXCEPT ![s] =
                            IF @ >= Upcoming.size THEN @ ELSE Upcoming.size]
        /\ slot_of' = Append(slot_of, s)
  BY DEF ReuseSlot, FirstFree, Free
<1>1. /\ slot_deaths \in Seq(Nat) /\ slot_bytes \in Seq(Nat)
      /\ slot_of \in Seq(Nat) /\ Len(slot_bytes) = Len(slot_deaths)
      /\ \A i \in Placed : slot_of[i] \in SlotsInUse
      /\ \A u \in SlotsInUse : slot_deaths[u] \in Nat /\ slot_bytes[u] \in Nat
  BY DEF SlotsTyped, Placed, SlotsInUse
<1>2. /\ slot_deaths' \in Seq(Nat) /\ Len(slot_deaths') = Len(slot_deaths)
      /\ slot_deaths'[s] = Upcoming.death
      /\ \A u \in SlotsInUse : u # s => slot_deaths'[u] = slot_deaths[u]
  BY <1>s, <1>0, <1>1, UpcomingFacts DEF SlotsInUse
<1>3. /\ slot_bytes' \in Seq(Nat) /\ Len(slot_bytes') = Len(slot_bytes)
      /\ slot_bytes'[s] = larger(slot_bytes[s], Upcoming.size)
      /\ \A u \in SlotsInUse : u # s => slot_bytes'[u] = slot_bytes[u]
  BY <1>s, <1>0, <1>1, UpcomingFacts DEF SlotsInUse
<1>4. /\ Len(slot_of') = n /\ slot_of'[n] = s /\ slot_of' \in Seq(Nat)
      /\ \A i \in Placed : slot_of'[i] = slot_of[i]
  BY <1>s, <1>1 DEF Placed, SlotsInUse
<1>5. Placed' = Placed \cup {n} /\ n \notin Placed /\ SlotsInUse' = SlotsInUse
  <2>1. Len(slot_of) \in Nat /\ Len(slot_of') = Len(slot_of) + 1
    BY <1>1, <1>4
  <2>2. Placed' = Placed \cup {n} /\ n \notin Placed
    BY <2>1 DEF Placed
  <2>3. SlotsInUse' = SlotsInUse
    BY <1>2 DEF SlotsInUse
  <2> QED
    BY <2>2, <2>3
<1>6. SlotsTyped'
  <2>1. WellFormed(intervals)'
    BY <1>0 DEF SlotsTyped, WellFormed
  <2>2. \A i \in Placed' : slot_of'[i] \in SlotsInUse'
    BY <1>1, <1>4, <1>5 DEF SlotsInUse
  <2>3. Len(slot_of') <= Len(intervals')
    <3>1. Len(slot_of) \in Nat /\ Len(intervals) \in Nat
      BY DEF SlotsTyped, WellFormed
    <3> QED
      BY <3>1, <1>0, <1>4
  <2> QED
    BY <2>1, <2>2, <2>3, <1>1, <1>2, <1>3, <1>4 DEF SlotsTyped
<1>7. \A i \in Placed : slot_of[i] = s => intervals[i].death < Upcoming.birth
  <2> SUFFICES ASSUME NEW i \in Placed, slot_of[i] = s
               PROVE  intervals[i].death < Upcoming.birth
    OBVIOUS
  <2>1. intervals[i].death <= slot_deaths[s]
    BY DEF DeathsAreBounds
  <2>2. slot_deaths[s] < Upcoming.birth
    BY <1>s
  <2>3. slot_deaths[s] \in Nat /\ Upcoming.birth \in Nat /\ intervals[i].death \in Nat
    BY <1>0, <1>1, UpcomingFacts
  <2> QED
    BY <2>1, <2>2, <2>3
<1>8. DeathsAreBounds'
  <2> SUFFICES ASSUME NEW i \in Placed' PROVE intervals[i].death <= slot_deaths'[slot_of'[i]]
    BY <1>0 DEF DeathsAreBounds
  <2>1. CASE i = n
    BY <2>1, <1>0, <1>2, <1>4, UpcomingFacts DEF Upcoming
  <2>2. CASE i \in Placed /\ slot_of[i] = s
    <3>1. slot_deaths'[slot_of'[i]] = Upcoming.death
      BY <2>2, <1>2, <1>4
    <3>2. intervals[i].death < Upcoming.birth
      BY <2>2, <1>7
    <3>3. /\ Upcoming.birth <= Upcoming.death
          /\ Upcoming.birth \in Nat /\ Upcoming.death \in Nat
          /\ intervals[i].death \in Nat
      BY <2>2, <1>0, UpcomingFacts
    <3> QED
      BY <3>1, <3>2, <3>3
  <2>3. CASE i \in Placed /\ slot_of[i] # s
    BY <2>3, <1>1, <1>2, <1>4 DEF DeathsAreBounds
  <2> QED
    BY <2>1, <2>2, <2>3, <1>5
<1>9. TenantsFit'
  <2> SUFFICES ASSUME NEW i \in Placed' PROVE intervals[i].size <= slot_bytes'[slot_of'[i]]
    BY <1>0 DEF TenantsFit
  <2>1. CASE i = n
    BY <2>1, <1>0, <1>1, <1>3, <1>4, UpcomingFacts DEF Upcoming
  <2>2. CASE i \in Placed /\ slot_of[i] = s
    <3>1. intervals[i].size <= slot_bytes[s]
      BY <2>2 DEF TenantsFit
    <3> QED
      <4>1. intervals[i].size \in Nat /\ slot_bytes[s] \in Nat /\ Upcoming.size \in Nat
        BY <2>2, <1>0, <1>1, UpcomingFacts
      <4>2. slot_bytes[s] <= larger(slot_bytes[s], Upcoming.size)
        BY <4>1
      <4>3. slot_bytes'[slot_of'[i]] = larger(slot_bytes[s], Upcoming.size)
        BY <2>2, <1>3, <1>4
      <4>4. larger(slot_bytes[s], Upcoming.size) \in Nat
        BY <4>1
      <4> HIDE DEF larger
      <4> QED
        BY <3>1, <4>1, <4>2, <4>3, <4>4
  <2>3. CASE i \in Placed /\ slot_of[i] # s
    BY <2>3, <1>1, <1>3, <1>4 DEF TenantsFit
  <2> QED
    BY <2>1, <2>2, <2>3, <1>5
<1>10. TenantsDoNotMeet'
  <2> SUFFICES ASSUME NEW i \in Placed', NEW j \in Placed', i < j, slot_of'[i] = slot_of'[j]
               PROVE intervals[i].death < intervals[j].birth
    BY <1>0 DEF TenantsDoNotMeet
  <2>1. CASE j \in Placed
    <3>1. i \in Placed
      BY <2>1, <1>1, <1>5 DEF Placed
    <3> QED
      BY <2>1, <3>1, <1>4 DEF TenantsDoNotMeet
  <2>2. CASE j = n  \* every earlier tenant of s is dead by then
    <3>1. i \in Placed
      BY <2>2, <1>1, <1>5 DEF Placed
    <3> QED
      BY <2>2, <3>1, <1>0, <1>4, <1>7 DEF Upcoming
  <2> QED
    BY <2>1, <2>2, <1>5
<1> QED
  BY <1>6, <1>8, <1>9, <1>10

-----------------------------------------------------------------------------
(***************************************************************************)
(* memory_planner.cpp:94-110: whatever results are to be placed, and       *)
(* whatever their lifetimes and sizes, no two that are alive at one node   *)
(* are ever given one slot and each slot is as large as all its tenants.   *)
(***************************************************************************)
THEOREM SlotsKeepTenantsApart == SlotsSpec => []TenantsKeepApart
<1>1. SlotsInit => SlotsInv
  BY SlotsInitInv
<1>2. SlotsInv /\ [PlaceInterval]_slotVars => SlotsInv'
  <2> SUFFICES ASSUME SlotsInv, [PlaceInterval]_slotVars PROVE SlotsInv'
    OBVIOUS
  <2>1. CASE OpenSlot
    BY <2>1, OpenSlotInv
  <2>2. CASE ReuseSlot
    BY <2>2, ReuseSlotInv
  <2>3. CASE UNCHANGED slotVars
    BY <2>3 DEF slotVars, SlotsInv, SlotsTyped, DeathsAreBounds, TenantsDoNotMeet,
                TenantsFit, Placed, SlotsInUse, WellFormed
  <2> QED
    BY <2>1, <2>2, <2>3 DEF PlaceInterval
<1>3. SlotsInv => TenantsKeepApart
  BY DEF SlotsInv, TenantsKeepApart
<1> QED
  BY <1>1, <1>2, <1>3, PTL DEF SlotsSpec

-----------------------------------------------------------------------------
\* What the constructor knows at each of its calls.
PlannerInv ==
  /\ Manifest(graph)
  /\ stage # "ready" => mode = "idle"
  /\ stage = "slices" => /\ arena = PlanArena(graph).at
                         /\ capacity[Arena] = PlanArena(graph).end
  /\ stage \in {"slices", "epilogues"} =>
       slot_of = <<>> /\ slot_deaths = <<>> /\ slot_bytes = <<>>
  /\ SlotsInv

LEMMA NoTenants ==
  ASSUME WellFormed(intervals), slot_of = <<>>, slot_deaths = <<>>, slot_bytes = <<>>
  PROVE  SlotsInv
  BY SlotsInitInv DEF SlotsInit

LEMMA SlotsStay ==
  ASSUME SlotsInv, UNCHANGED slotVars
  PROVE  SlotsInv'
  BY DEF slotVars, SlotsInv, SlotsTyped, DeathsAreBounds, TenantsDoNotMeet,
         TenantsFit, Placed, SlotsInUse, WellFormed

LEMMA PlannerInit == Init => PlannerInv
<1> SUFFICES ASSUME Init PROVE PlannerInv
  OBVIOUS
<1>1. PICK g \in Graphs : LoadModel([graph |-> g, plan |-> PlanArena(g), origin |-> Origins(g)])
  BY DEF Init, PlanInit, Bundles
<1>2. graph = g /\ arena = PlanArena(g).at /\ capacity[Arena] = PlanArena(g).end
  BY <1>1 DEF LoadModel
<1>3. Manifest(graph)
  BY <1>2, GraphsAssumption
<1>4. /\ stage = "slices" /\ mode = "idle" /\ intervals = <<>>
      /\ slot_of = <<>> /\ slot_deaths = <<>> /\ slot_bytes = <<>>
  BY DEF Init, PlanInit
<1>5. WellFormed(intervals)
  BY <1>4 DEF WellFormed
<1>6. SlotsInv
  BY <1>4, <1>5, NoTenants
<1> QED BY <1>2, <1>3, <1>4, <1>6 DEF PlannerInv

\* The results of epilogues come in node order and die no earlier than
\* they are born: what the dealing of slots needs.
LEMMA CollectedAreWellFormed ==
  ASSUME Manifest(graph),
         intervals' = [i \in 1..Len(Epilogues) |-> EpilogueInterval(Epilogues[i])]
  PROVE  WellFormed(intervals)'
<1> DEFINE n == Len(Nodes)
           l == Len(Epilogues)
           ivs == [i \in 1..l |-> EpilogueInterval(Epilogues[i])]
<1>1. /\ n \in Nat
      /\ \A k \in 1..n : Size(graph, k) \in Nat /\ Death(graph, k) \in Nat /\ k <= Death(graph, k)
  BY ManifestFacts DEF Nodes
<1>2. InOrder(Epilogues, n)
  BY <1>1, EpiloguesInOrder
<1>3. l \in Nat /\ \A i \in 1..l : Epilogues[i] \in 1..n /\ HasEpilogue(Epilogues[i])
  BY <1>2 DEF InOrder
<1>4. \A i, j \in 1..l : i < j => Epilogues[i] < Epilogues[j]
  BY <1>2 DEF InOrder
<1>5. ASSUME NEW i \in 1..l
      PROVE  /\ ivs[i] \in Interval
             /\ ivs[i].birth = Epilogues[i] + 1
             /\ ivs[i].birth <= ivs[i].death
  <2> DEFINE k == Epilogues[i]
  <2>1. k \in Nat /\ k + 1 \in 1..n
    BY <1>1, <1>3 DEF HasEpilogue, NodeIds
  <2>2. ivs[i] = EpilogueInterval(k)
    OBVIOUS
  <2> HIDE DEF k, ivs
  <2>3. /\ Death(graph, k + 1) \in Nat /\ k + 1 <= Death(graph, k + 1)
        /\ Ch(Node(k + 1).out) \in Nat
    BY <1>1, <2>1 DEF Size, Ch, Node, Nodes
  <2> QED BY <2>1, <2>2, <2>3 DEF EpilogueInterval, Interval, k
<1>6. ASSUME NEW i \in 1..l, NEW j \in 1..l, i < j
      PROVE  ivs[i].birth <= ivs[j].birth
  <2> HIDE DEF ivs
  <2>1. Epilogues[i] < Epilogues[j] /\ Epilogues[i] \in Int /\ Epilogues[j] \in Int
    BY <1>3, <1>4, <1>6
  <2> QED BY <1>5, <2>1
<1>7. ivs \in Seq(Interval) /\ Len(ivs) = l
  <2>1. ivs \in [1..l -> Interval]
    BY <1>5
  <2> QED BY <1>3, <2>1
<1>8. intervals' = ivs
  OBVIOUS
<1> HIDE DEF ivs, l
<1> QED BY <1>5, <1>6, <1>7, <1>8 DEF WellFormed

LEMMA PlanStepInv ==
  ASSUME PlannerInv, PlanStep
  PROVE  PlannerInv'
<1> USE DEF PlanStep, runVars, planVars, modelVars
<1>1. UNCHANGED <<graph, arena, mode>>
  BY DEF Plan, PlanInputSliceAliases, CollectEpilogues, PlaceEpilogue, AllocateEpilogues,
         PlanSharedBuffers, PlanDirectConcatBuffers, ConfigureState
<1>2. Manifest(graph)'
  BY <1>1 DEF PlannerInv
<1>3. CASE PlanInputSliceAliases
  <2>1. /\ stage = "slices" /\ stage' = "epilogues" /\ UNCHANGED slotVars
    BY <1>3 DEF PlanInputSliceAliases
  <2>2. SlotsInv'
    BY <2>1, SlotsStay DEF PlannerInv
  <2> QED BY <1>1, <1>2, <2>1, <2>2 DEF PlannerInv, slotVars
<1>4. CASE CollectEpilogues
  <2>1. /\ stage = "epilogues" /\ stage' \in {"slots", "buffers"}
        /\ UNCHANGED <<slot_deaths, slot_bytes, slot_of>>
    BY <1>4 DEF CollectEpilogues
  <2>2. WellFormed(intervals)'
    <3>1. CASE UNCHANGED intervals
      <4>1. WellFormed(intervals)
        BY DEF PlannerInv, SlotsInv, SlotsTyped
      <4> QED BY <3>1, <4>1 DEF WellFormed
    <3>2. CASE intervals' = [i \in 1..Len(Epilogues) |-> EpilogueInterval(Epilogues[i])]
      BY <3>2, CollectedAreWellFormed DEF PlannerInv
    <3> QED BY <1>4, <3>1, <3>2 DEF CollectEpilogues
  <2>3. slot_of' = <<>> /\ slot_deaths' = <<>> /\ slot_bytes' = <<>>
    BY <2>1 DEF PlannerInv
  <2>4. SlotsInv'
    BY <2>2, <2>3 DEF SlotsInv, SlotsTyped, DeathsAreBounds, TenantsDoNotMeet, TenantsFit,
                      Placed, SlotsInUse
  <2> QED BY <1>1, <1>2, <2>1, <2>4 DEF PlannerInv
<1>5. CASE PlaceEpilogue
  <2>1. stage = "slots" /\ stage' = "slots" /\ PlaceInterval
    BY <1>5 DEF PlaceEpilogue
  <2>2. SlotsInv'
    BY <2>1, OpenSlotInv, ReuseSlotInv DEF PlaceInterval, PlannerInv
  <2> QED BY <1>1, <1>2, <2>1, <2>2 DEF PlannerInv
<1>6. CASE AllocateEpilogues \/ PlanSharedBuffers \/ PlanDirectConcatBuffers \/ ConfigureState
  <2>1. /\ stage \in {"slots", "buffers", "concats", "state"}
        /\ stage' \in {"buffers", "concats", "state", "ready", "refused"}
        /\ UNCHANGED slotVars
    BY <1>6 DEF AllocateEpilogues, PlanSharedBuffers, PlanDirectConcatBuffers, ConfigureState
  <2>2. SlotsInv'
    BY <2>1, SlotsStay DEF PlannerInv
  <2> QED BY <1>1, <1>2, <2>1, <2>2 DEF PlannerInv
<1> QED BY <1>3, <1>4, <1>5, <1>6 DEF Plan

LEMMA RunStepInv ==
  ASSUME PlannerInv,
         StartRun \/ LaunchStep \/ EndSchedule \/ RecordStep \/ EndCapture \/ LaunchGraph
  PROVE  PlannerInv'
<1>1. stage = "ready" /\ UNCHANGED <<modelVars, slotVars, planVars>>
  BY DEF PlannerInv, StartRun, LaunchStep, EndSchedule, RecordStep, EndCapture, LaunchGraph,
         Advance
<1>2. SlotsInv'
  BY <1>1, SlotsStay DEF PlannerInv
<1> QED BY <1>1, <1>2 DEF PlannerInv, modelVars, planVars

LEMMA PlannerInductive == Spec => []PlannerInv
<1>1. PlannerInv /\ [Next]_vars => PlannerInv'
  <2> SUFFICES ASSUME PlannerInv, [Next]_vars PROVE PlannerInv'
    OBVIOUS
  <2>1. CASE PlanStep
    BY <2>1, PlanStepInv
  <2>2. CASE StartRun \/ LaunchStep \/ EndSchedule \/ RecordStep \/ EndCapture \/ LaunchGraph
    BY <2>2, RunStepInv
  <2>3. CASE UNCHANGED vars
    <3>1. SlotsInv'
      BY <2>3, SlotsStay DEF PlannerInv, vars
    <3> QED BY <2>3, <3>1 DEF PlannerInv, vars, modelVars, slotVars, planVars, runVars
  <2> QED BY <2>1, <2>2, <2>3 DEF Next
<1> QED BY <1>1, PlannerInit, PTL DEF Spec

(***************************************************************************)
(* tools/model_aot.py:126-177: in every bundle, whatever its graph and the *)
(* sizes of its tensors, results that are alive at one node have different *)
(* memory in the arena, and the arena has room for all of them.            *)
(***************************************************************************)
THEOREM ArenaIsSound == Spec => []ArenaKeepsApart
<1>1. PlannerInv => ArenaKeepsApart
  <2> SUFFICES ASSUME PlannerInv, stage = "slices" PROVE ArenaKeepsApart
    BY DEF ArenaKeepsApart
  <2> DEFINE plan == PlanArena(graph)
             n == Len(Nodes)
  <2>1. n \in Nat /\ \A k \in 1..n : Size(graph, k) \in Nat
    BY ManifestFacts DEF PlannerInv, Nodes
  <2>2. PlannedTo(graph, plan, n)
    BY <2>1, ArenaPlanned DEF Nodes
  <2>3. arena = plan.at /\ capacity[Arena] = plan.end
    BY DEF PlannerInv
  <2> HIDE DEF plan, n
  <2>4. ASSUME NEW k \in 1..n
        PROVE  /\ ArenaRoom(k) = Room(graph, plan.at, k)
               /\ ArenaRoom(k) \subseteq 0..(capacity[Arena] - 1)
    <3> DEFINE a == plan.at[k]
               s == Size(graph, k)
               e == plan.end
    <3>1. ArenaRoom(k) = a..(a + s - 1) /\ ArenaRoom(k) = Room(graph, plan.at, k)
      BY <2>3 DEF ArenaRoom, Room, Size, Ch, Node, Nodes
    <3>2. a \in Nat /\ s \in Nat /\ e \in Nat /\ a + s <= e
      BY <2>1, <2>2 DEF PlannedTo, Arenas
    <3> HIDE DEF a, s, e
    <3>3. a..(a + s - 1) \subseteq 0..(e - 1)
      BY <3>2
    <3> QED BY <2>3, <3>1, <3>3 DEF e
  <2>5. ASSUME NEW k \in 1..n, NEW j \in 1..(k - 1), Death(graph, j) >= k
        PROVE  ArenaRoom(j) \cap ArenaRoom(k) = {}
    <3>1. j \in 1..n
      BY <2>1
    <3>2. Room(graph, plan.at, j) \cap Room(graph, plan.at, k) = {}
      BY <2>2, <2>5 DEF PlannedTo
    <3> QED BY <2>4, <3>1, <3>2
  <2> QED BY <2>4, <2>5 DEF ArenaKeepsApart, NodeIds, n
<1> QED BY <1>1, PlannerInductive, PTL

(***************************************************************************)
(* memory_planner.cpp:51-110: for every graph and device, the constructor  *)
(* collects its intervals in the order the dealing of slots relies on, so  *)
(* that epilogues alive at one node never share a buffer.                  *)
(***************************************************************************)
THEOREM EpiloguesKeepApart == Spec => []TenantsKeepApart
<1>1. PlannerInv => TenantsKeepApart
  BY DEF PlannerInv, SlotsInv, TenantsKeepApart
<1> QED BY <1>1, PlannerInductive, PTL

-----------------------------------------------------------------------------
\* What holds at 0 and is passed on at every step holds up to n.
LEMMA UpTo ==
  ASSUME NEW n \in Nat, NEW T, 0 \in T, \A m \in 1..n : m - 1 \in T => m \in T
  PROVE  0..n \subseteq T
<1> DEFINE R == {m \in 0..n : m \notin T}
<1>1. ASSUME R # {} PROVE FALSE
  <2>1. PICK m \in R : \A l \in R : m <= l
    <3>1. R \subseteq Nat
      OBVIOUS
    <3> HIDE DEF R
    <3> QED BY <1>1, <3>1, Least
  <2>2. m \in 0..n /\ m \notin T /\ m # 0
    BY <2>1
  <2>3. m \in 1..n /\ m - 1 \in 0..n /\ ~(m <= m - 1)
    BY <2>2
  <2>4. m - 1 \in T
    BY <2>1, <2>3
  <2> QED BY <2>2, <2>3, <2>4
<1> QED BY <1>1

\* Finitely many numbers have a bound.
LEMMA Bounded ==
  ASSUME NEW n \in Nat, NEW f \in [1..n -> Nat]
  PROVE  \E b \in Nat : \A k \in 1..n : f[k] <= b
<1> DEFINE T == {m \in 0..n : \E b \in Nat : \A k \in 1..m : f[k] <= b}
<1>1. 0 \in T
  OBVIOUS
<1>2. ASSUME NEW m \in 1..n, m - 1 \in T PROVE m \in T
  <2>1. PICK b \in Nat : \A k \in 1..(m - 1) : f[k] <= b
    BY <1>2
  <2>2. PICK c \in Nat : b <= c /\ f[m] <= c
    <3>1. f[m] \in Nat
      OBVIOUS
    <3>2. CASE b <= f[m]
      BY <3>1, <3>2
    <3>3. CASE f[m] <= b
      BY <3>1, <3>3
    <3> QED BY <3>1, <3>2, <3>3
  <2>3. ASSUME NEW k \in 1..m PROVE f[k] <= c
    <3>1. f[k] \in Nat /\ (k = m \/ k \in 1..(m - 1))
      OBVIOUS
    <3>2. CASE k = m
      BY <2>2, <3>2
    <3>3. CASE k \in 1..(m - 1)
      <4>1. f[k] <= b
        BY <2>1, <3>3
      <4> QED BY <2>2, <3>1, <4>1
    <3> QED BY <3>1, <3>2, <3>3
  <2> QED BY <2>3
<1> HIDE DEF T
<1>3. 0..n \subseteq T
  BY <1>1, <1>2, UpTo
<1>4. n \in T
  BY <1>3
<1> QED BY <1>4 DEF T

-----------------------------------------------------------------------------
(***************************************************************************)
(* The parts of a Concat lie one behind the other and fill it.             *)
(***************************************************************************)
AddUp(h, g, node, n) ==
  /\ h \in [0..n -> Nat]
  /\ \A j \in 1..n : h[j] = h[j - 1] + g.channels[node.in[j]]
  /\ \A i \in 1..(n + 1) : ChannelsBefore(g, node, i) = h[i - 1]

LEMMA Offsets ==
  ASSUME NEW g, NEW node, NEW n \in Nat,
         \A j \in 1..n : g.channels[node.in[j]] \in Nat
  PROVE  \E h : AddUp(h, g, node, n)
<1> DEFINE size(j) == g.channels[node.in[j]]
           next == [p \in (1..n) \X Nat |-> p[2] + size(p[1])]
<1>1. next \in [(1..n) \X Nat -> Nat] /\ \A k \in 1..n, s \in Nat : next[<<k, s>>] = s + size(k)
  OBVIOUS
<1> HIDE DEF next
<1>2. PICK h : Recursive(h, n, Nat, 0, next)
  BY <1>1, Recursion
<1>3. h \in [0..n -> Nat] /\ \A k \in 0..n : h[k] = IF k = 0 THEN 0 ELSE next[<<k, h[k - 1]>>]
  BY <1>2 DEF Recursive
<1>4. ASSUME NEW k \in 1..n PROVE h[k] = h[k - 1] + size(k)
  <2>1. k \in 0..n /\ k # 0 /\ k - 1 \in 0..n
    OBVIOUS
  <2> QED BY <1>1, <1>3, <2>1
<1>5. ASSUME NEW i \in 1..(n + 1)
      PROVE  ChannelsBefore(g, node, i) = h[i - 1]
  <2> DEFINE Is(f) == f = [j \in 0..(i - 1) |-> IF j = 0 THEN 0 ELSE f[j - 1] + size(j)]
             before == CHOOSE f : Is(f)
             f0 == [j \in 0..(i - 1) |-> h[j]]
  <2>1. ChannelsBefore(g, node, i) = before[i - 1]
    BY DEF ChannelsBefore
  <2>2. Is(f0)
    <3>1. ASSUME NEW j \in 0..(i - 1)
          PROVE  h[j] = IF j = 0 THEN 0 ELSE f0[j - 1] + size(j)
      <4>1. CASE j = 0
        <5>1. 0 \in 0..n
          OBVIOUS
        <5> HIDE DEF f0
        <5> QED BY <1>3, <4>1, <5>1
      <4>2. CASE j # 0
        <5>1. j \in 1..n /\ j - 1 \in 0..(i - 1)
          BY <4>2
        <5>2. f0[j - 1] = h[j - 1]
          BY <5>1
        <5>3. h[j] = h[j - 1] + size(j)
          BY <1>4, <5>1
        <5> HIDE DEF f0, size
        <5> QED BY <4>2, <5>2, <5>3
      <4> QED BY <4>1, <4>2
    <3> QED BY <3>1
  <2>3. Is(before)
    BY <2>2
  <2>4. before = [j \in 0..(i - 1) |-> IF j = 0 THEN 0 ELSE before[j - 1] + size(j)]
    BY <2>3
  <2> HIDE DEF before, f0, Is
  <2> DEFINE T == {j \in 0..(i - 1) : before[j] = h[j]}
  <2>5. 0 \in T
    <3>1. 0 \in 0..(i - 1) /\ 0 \in 0..n
      OBVIOUS
    <3> QED BY <1>3, <2>4, <3>1
  <2>6. ASSUME NEW m \in 1..(i - 1), m - 1 \in T PROVE m \in T
    <3>1. m \in 1..n /\ m \in 0..(i - 1) /\ m # 0
      OBVIOUS
    <3>2. before[m] = before[m - 1] + size(m)
      BY <2>4, <3>1
    <3> QED BY <1>4, <2>6, <3>1, <3>2
  <2>7. i - 1 \in Nat /\ i - 1 \in 0..(i - 1)
    OBVIOUS
  <2> HIDE DEF T
  <2>8. 0..(i - 1) \subseteq T
    BY <2>5, <2>6, <2>7, UpTo
  <2>9. i - 1 \in T
    BY <2>7, <2>8
  <2> QED BY <2>1, <2>9 DEF T
<1> QED BY <1>3, <1>4, <1>5 DEF AddUp

LEMMA PartsFit ==
  ASSUME NEW g, Manifest(g), NEW k \in 1..Len(g.nodes), g.nodes[k].op = "Concat",
         NEW i \in 1..Len(g.nodes[k].in)
  PROVE  /\ ChannelsBefore(g, g.nodes[k], i) \in Nat
         /\ ChannelsBefore(g, g.nodes[k], i) + g.channels[g.nodes[k].in[i]]
              <= g.channels[g.nodes[k].out]
<1> DEFINE node == g.nodes[k]
           n == Len(node.in)
           size(j) == g.channels[node.in[j]]
<1>1. /\ node.in \in Seq(Tensors(g)) /\ g.channels \in [Tensors(g) -> Nat \ {0}]
      /\ ChannelsBefore(g, node, n + 1) = g.channels[node.out]
  BY DEF Manifest
<1>2. n \in Nat /\ \A j \in 1..n : size(j) \in Nat
  BY <1>1
<1>3. i \in 1..n
  OBVIOUS
<1> HIDE DEF node, n
<1>4. \E h : AddUp(h, g, node, n)
  BY <1>2, Offsets
<1>5. PICK h \in [0..n -> Nat] :
        /\ \A j \in 1..n : h[j] = h[j - 1] + size(j)
        /\ \A j \in 1..(n + 1) : ChannelsBefore(g, node, j) = h[j - 1]
  BY <1>4 DEF AddUp
<1> HIDE DEF size
<1> DEFINE T == {m \in 0..n : m < i \/ h[i] <= h[m]}
<1>6. 0 \in T
  BY <1>2, <1>3
<1>7. ASSUME NEW m \in 1..n, m - 1 \in T PROVE m \in T
  <2>1. h[m] = h[m - 1] + size(m) /\ h[m] \in Nat /\ h[m - 1] \in Nat /\ size(m) \in Nat
    BY <1>2, <1>5
  <2>2. h[i] \in Nat
    BY <1>3, <1>5
  <2>3. CASE m < i
    BY <2>3
  <2>4. CASE m = i
    BY <2>2, <2>4
  <2>5. CASE m > i
    <3>1. h[i] <= h[m - 1]
      BY <1>7, <2>5, <1>3
    <3> QED BY <2>1, <2>2, <3>1
  <2> QED BY <1>3, <2>3, <2>4, <2>5
<1> HIDE DEF T
<1>8. n \in T
  <2>1. 0..n \subseteq T
    BY <1>2, <1>6, <1>7, UpTo
  <2> QED BY <1>2, <2>1
<1>9. h[i] <= h[n]
  BY <1>2, <1>3, <1>8 DEF T
<1>10. h[n] = g.channels[node.out]
  <2>1. n + 1 \in 1..(n + 1) /\ (n + 1) - 1 = n
    BY <1>2
  <2> QED BY <1>1, <1>5, <2>1
<1>11. /\ ChannelsBefore(g, node, i) = h[i - 1] /\ h[i - 1] \in Nat
       /\ h[i] = h[i - 1] + size(i)
  BY <1>2, <1>3, <1>5
<1> QED BY <1>9, <1>10, <1>11 DEF node, size

-----------------------------------------------------------------------------
(***************************************************************************)
(* The allocations: how large each one is follows from what it is for.     *)
(***************************************************************************)
Spatial == IF major >= 8 THEN SpatialConvolutions ELSE {}

Extent(a) ==
  IF a[1] = "arena" THEN PlanArena(graph).end
  ELSE IF a[1] = "input" THEN Ch(graph.inputs[a[2]])
  ELSE IF a[1] = "weights" THEN Ch(a[2])
  ELSE IF a[1] = "epilogue" THEN slot_bytes[a[2]]
  ELSE IF a[1] = "reglu" THEN Largest(RegluResults)
  ELSE IF a[1] = "nhwc_in" THEN Largest({Node(k).in[1] : k \in Spatial})
  ELSE IF a[1] = "nhwc_out" THEN Largest({Node(k).out : k \in Spatial})
  ELSE Ch(Node(a[2]).out)

SharedBuffers == {Buffer("reglu", 0), Buffer("nhwc_in", 0), Buffer("nhwc_out", 0)}

\* The allocations there are have their size, and no other.
Extents(cap) == \A a \in DOMAIN cap : cap[a] = Extent(a)

Allocations ==
  /\ Extents(capacity)
  /\ stage \in {"slices", "epilogues", "slots"} => \A a \in DOMAIN capacity : a[1] # "epilogue"
  /\ \A i \in 1..Len(graph.inputs) : Buffer("input", i) \in DOMAIN capacity
  /\ stage \in {"concats", "state", "ready", "refused"} => SharedBuffers \subseteq DOMAIN capacity

\* So many channels from the address on, a cell: inside an allocation.
Fits(cap, address, size) ==
  /\ address.in \in DOMAIN cap
  /\ cap[address.in] \in Nat
  /\ address.off \in Nat
  /\ address.off + size <= cap[address.in]

CellFits(cap, cell) == cell[1] \in DOMAIN cap /\ cell[2] \in 0..(cap[cell[1]] - 1)

TensorsFit(cap, at) ==
  /\ DOMAIN at = Tensors(graph)
  /\ \A t \in Tensors(graph) : Fits(cap, at[t], Ch(t))

\* The results in the parameters of the library's kernels.
PointersFit(cap, pointers) ==
  \A k \in DOMAIN pointers : k \in NodeIds /\ Fits(cap, pointers[k].result, Ch(Node(k).out))

LaunchFits(cap, launch) == \A item \in launch : \A u \in item.writes : CellFits(cap, u[1])
LaunchesFit(cap, launches) ==
  \E S : launches \in Seq(S) /\ \A launch \in S : LaunchFits(cap, launch)

MemoryFits(cap, mem) == \A cell \in DOMAIN mem : CellFits(cap, cell)

MemoryInv ==
  /\ Allocations
  /\ TensorsFit(capacity, values)
  /\ PointersFit(capacity, baked)
  /\ LaunchesFit(capacity, recorded)
  /\ MemoryFits(capacity, memory)
  /\ stage = "slots" => intervals = [i \in 1..Len(Epilogues) |-> EpilogueInterval(Epilogues[i])]

\* Memory is not taken back.
Grows(cap, more) ==
  /\ DOMAIN cap \subseteq DOMAIN more
  /\ \A a \in DOMAIN cap : more[a] = cap[a]

LEMMA ExtentsGrow ==
  ASSUME NEW cap, NEW more, Extents(cap), Extents(more), DOMAIN cap \subseteq DOMAIN more
  PROVE  Grows(cap, more)
BY DEF Extents, Grows

LEMMA FitsStill ==
  ASSUME NEW cap, NEW more, Grows(cap, more)
  PROVE  /\ \A address, size : Fits(cap, address, size) => Fits(more, address, size)
         /\ \A cell : CellFits(cap, cell) => CellFits(more, cell)
BY DEF Grows, Fits, CellFits

LEMMA AllFitStill ==
  ASSUME NEW cap, NEW more, Grows(cap, more)
  PROVE  /\ \A at : TensorsFit(cap, at) => TensorsFit(more, at)
         /\ \A pointers : PointersFit(cap, pointers) => PointersFit(more, pointers)
         /\ \A launches : LaunchesFit(cap, launches) => LaunchesFit(more, launches)
         /\ \A mem : MemoryFits(cap, mem) => MemoryFits(more, mem)
<1> USE FitsStill
<1>1. \A at : TensorsFit(cap, at) => TensorsFit(more, at)
  BY DEF TensorsFit
<1>2. \A pointers : PointersFit(cap, pointers) => PointersFit(more, pointers)
  BY DEF PointersFit
<1>3. \A launch : LaunchFits(cap, launch) => LaunchFits(more, launch)
  BY DEF LaunchFits
<1>4. \A launches : LaunchesFit(cap, launches) => LaunchesFit(more, launches)
  BY <1>3 DEF LaunchesFit
<1>5. \A mem : MemoryFits(cap, mem) => MemoryFits(more, mem)
  BY DEF MemoryFits
<1> QED BY <1>1, <1>2, <1>4, <1>5

\* What a manifest says of the tensors of a node.
LEMMA TensorFacts ==
  ASSUME Manifest(graph)
  PROVE  /\ Len(Nodes) \in Nat \ {0}
         /\ \A t \in Tensors(graph) : Ch(t) \in Nat \ {0}
         /\ \A k \in NodeIds : Node(k).out \in Tensors(graph)
         /\ \A k \in NodeIds : Node(k).in \in Seq(Tensors(graph)) /\ Node(k).in # <<>>
         /\ \A k \in NodeIds : \A i \in 1..Len(Node(k).in) : Node(k).in[i] \in Tensors(graph)
         /\ \A k \in NodeIds : Node(k).in[1] \in Tensors(graph)
         /\ Inputs \subseteq Tensors(graph)
<1>1. Len(Nodes) \in Nat \ {0}
  BY DEF Manifest, Nodes
<1>2. \A t \in Tensors(graph) : Ch(t) \in Nat \ {0}
  BY DEF Manifest, Ch
<1>3. \A k \in NodeIds : Node(k).out \in Tensors(graph)
  BY DEF Manifest, Nodes, Node, NodeIds
<1>4. ASSUME NEW k \in NodeIds
      PROVE  Node(k).in \in Seq(Tensors(graph)) /\ Node(k).in # <<>>
  BY DEF Manifest, Nodes, Node, NodeIds
<1>5. ASSUME NEW k \in NodeIds, NEW i \in 1..Len(Node(k).in)
      PROVE  Node(k).in[i] \in Tensors(graph)
  BY <1>4
<1>6. ASSUME NEW k \in NodeIds PROVE Node(k).in[1] \in Tensors(graph)
  <2>1. Len(Node(k).in) \in Nat /\ Len(Node(k).in) # 0
    BY <1>4
  <2>2. 1 \in 1..Len(Node(k).in)
    BY <2>1
  <2> QED BY <1>5, <2>2
<1>7. Inputs \subseteq Tensors(graph)
  BY DEF Manifest, Inputs
<1> QED BY <1>1, <1>2, <1>3, <1>4, <1>5, <1>6, <1>7

\* The largest of some tensors of the graph, each of which belongs to a node.
LEMMA LargestBounds ==
  ASSUME Manifest(graph), NEW of \in [NodeIds -> Tensors(graph)],
         NEW S, S \subseteq {of[k] : k \in NodeIds}
  PROVE  Largest(S) \in Nat /\ \A t \in S : Ch(t) <= Largest(S)
<1> DEFINE n == Len(Nodes)
           sizes == {Ch(t) : t \in S}
<1>1. n \in Nat /\ NodeIds = 1..n
  BY TensorFacts DEF NodeIds
<1>2. [k \in 1..n |-> Ch(of[k])] \in [1..n -> Nat]
  BY <1>1, TensorFacts
<1> HIDE DEF n
<1>3. PICK b \in Nat : \A k \in 1..n : [j \in 1..n |-> Ch(of[j])][k] <= b
  BY <1>1, <1>2, Bounded
<1>4. ASSUME NEW t \in S PROVE Ch(t) \in 0..b
  <2>1. PICK k \in NodeIds : t = of[k]
    OBVIOUS
  <2>2. Ch(of[k]) \in Nat /\ Ch(of[k]) <= b
    BY <1>1, <1>3, TensorFacts
  <2> QED BY <2>1, <2>2
<1>5. CASE S = {}
  BY <1>5 DEF Largest
<1>6. CASE S # {}
  <2>1. sizes \subseteq 0..b /\ sizes # {} /\ Largest(S) = Max(sizes)
    BY <1>4, <1>6 DEF Largest
  <2>2. \A t \in S : Ch(t) \in sizes
    OBVIOUS
  <2> HIDE DEF sizes
  <2>3. Max(sizes) \in sizes /\ \A m \in sizes : m <= Max(sizes)
    BY <2>1, Greatest
  <2>4. Max(sizes) \in Nat
    <3>1. 0..b \subseteq Nat
      OBVIOUS
    <3> QED BY <2>1, <2>3, <3>1
  <2>5. \A t \in S : Ch(t) <= Max(sizes)
    BY <2>2, <2>3
  <2> QED BY <2>1, <2>4, <2>5
<1> QED BY <1>5, <1>6

LEMMA SharedBounds ==
  ASSUME Manifest(graph)
  PROVE  /\ Largest(RegluResults) \in Nat
         /\ \A t \in RegluResults : Ch(t) <= Largest(RegluResults)
         /\ Largest({Node(k).in[1] : k \in Spatial}) \in Nat
         /\ Largest({Node(k).out : k \in Spatial}) \in Nat
         /\ \A k \in Spatial : /\ Ch(Node(k).in[1]) <= Largest({Node(j).in[1] : j \in Spatial})
                               /\ Ch(Node(k).out) <= Largest({Node(j).out : j \in Spatial})
<1> DEFINE results == [k \in NodeIds |-> Node(k).out]
           operands == [k \in NodeIds |-> Node(k).in[1]]
           into == {Node(k).in[1] : k \in Spatial}
           from == {Node(k).out : k \in Spatial}
<1>1. results \in [NodeIds -> Tensors(graph)] /\ operands \in [NodeIds -> Tensors(graph)]
  BY TensorFacts
<1>2. Spatial \subseteq NodeIds
  BY DEF Spatial, SpatialConvolutions
<1>3. RegluResults \subseteq {results[k] : k \in NodeIds}
  <2>1. ASSUME NEW t \in RegluResults PROVE t \in {results[k] : k \in NodeIds}
    <3>1. PICK k \in NodeIds : OpsAt(k, RegluOps) /\ t = Node(k + 3).out
      BY DEF RegluResults
    <3>2. k + 3 \in NodeIds
      <4>1. k + Len(RegluOps) - 1 \in NodeIds /\ Len(RegluOps) = 4
        BY <3>1 DEF OpsAt, RegluOps
      <4>2. k \in Nat
        BY TensorFacts DEF NodeIds
      <4>3. k + 4 - 1 = k + 3
        BY <4>2
      <4> QED BY <4>1, <4>3
    <3> QED BY <3>1, <3>2
  <2> QED BY <2>1
<1>4. into \subseteq {operands[k] : k \in NodeIds} /\ from \subseteq {results[k] : k \in NodeIds}
  BY <1>2
<1>5. (\A k \in Spatial : Node(k).in[1] \in into) /\ (\A k \in Spatial : Node(k).out \in from)
  OBVIOUS
<1> HIDE DEF results, operands, into, from
<1>6. Largest(RegluResults) \in Nat /\ \A t \in RegluResults : Ch(t) <= Largest(RegluResults)
  BY <1>1, <1>3, LargestBounds
<1>7. Largest(into) \in Nat /\ \A t \in into : Ch(t) <= Largest(into)
  BY <1>1, <1>4, LargestBounds
<1>8. Largest(from) \in Nat /\ \A t \in from : Ch(t) <= Largest(from)
  BY <1>1, <1>4, LargestBounds
<1> QED BY <1>5, <1>6, <1>7, <1>8 DEF into, from

LEMMA CellInside ==
  ASSUME NEW cap, NEW address, NEW size \in Nat, Fits(cap, address, size), NEW c \in 1..size
  PROVE  CellFits(cap, Cell(address, c))
<1>1. Cell(address, c)[1] = address.in /\ Cell(address, c)[2] = address.off + c - 1
  BY DEF Cell
<1> DEFINE off == address.off
           room == cap[address.in]
<1>2. address.in \in DOMAIN cap /\ off \in Nat /\ room \in Nat /\ off + size <= room
  BY DEF Fits
<1> HIDE DEF off, room
<1>3. off + c - 1 \in 0..(room - 1)
  BY <1>2
<1> QED BY <1>1, <1>2, <1>3 DEF CellFits, off, room

\* One more allocation, of its size.
LEMMA AddedExtents ==
  ASSUME NEW cap, Extents(cap), NEW a
  PROVE  /\ Extents(With(cap, a, Extent(a)))
         /\ DOMAIN With(cap, a, Extent(a)) = DOMAIN cap \cup {a}
<1> DEFINE more == With(cap, a, Extent(a))
<1>1. /\ DOMAIN more = DOMAIN cap \cup {a}
      /\ more[a] = Extent(a)
      /\ \A x \in DOMAIN cap : x # a => more[x] = cap[x]
  BY DEF With
<1> HIDE DEF more
<1>2. Extents(more)
  BY <1>1 DEF Extents
<1> QED BY <1>1, <1>2 DEF more

LEMMA FilledFits ==
  ASSUME Manifest(graph), NEW cap, TensorsFit(cap, values), NEW S, S \subseteq Tensors(graph), NEW r
  PROVE  MemoryFits(cap, Filled(S, r))
<1> DEFINE filled == UNION {{t} \X (1..Ch(t)) : t \in S}
<1>1. DOMAIN Filled(S, r) = {Cell(values[p[1]], p[2]) : p \in filled}
  BY DEF Filled
<1>2. ASSUME NEW p \in filled PROVE CellFits(cap, Cell(values[p[1]], p[2]))
  <2>1. PICK t \in S : p \in {t} \X (1..Ch(t))
    OBVIOUS
  <2>2. t \in Tensors(graph) /\ Ch(t) \in Nat /\ p[1] = t /\ p[2] \in 1..Ch(t)
    BY <2>1, TensorFacts
  <2>3. Fits(cap, values[t], Ch(t))
    BY <2>2 DEF TensorsFit
  <2> QED BY <2>2, <2>3, CellInside
<1> HIDE DEF filled
<1> QED BY <1>1, <1>2 DEF MemoryFits

LEMMA MemoryInit == Init => MemoryInv
<1> SUFFICES ASSUME Init PROVE MemoryInv
  OBVIOUS
<1>1. PICK g \in Graphs : LoadModel([graph |-> g, plan |-> PlanArena(g), origin |-> Origins(g)])
  BY DEF Init, PlanInit, Bundles
<1> DEFINE plan == PlanArena(graph)
           n == Len(Nodes)
           weights == {Buffer("weights", t) : t \in graph.weights}
           inputs == {Buffer("input", i) : i \in 1..Len(graph.inputs)}
<1>2. /\ graph = g
      /\ values = [t \in Tensors(graph) |-> FirstAddress(graph, plan, t)]
      /\ capacity = [a \in {Arena} \cup weights \cup inputs |->
                       IF a = Arena THEN plan.end
                       ELSE IF a[1] = "input" THEN graph.channels[graph.inputs[a[2]]]
                       ELSE graph.channels[a[2]]]
  BY <1>1 DEF LoadModel
<1>3. Manifest(graph)
  BY <1>2, GraphsAssumption
<1>4. /\ n \in Nat /\ \A k \in NodeIds : Size(graph, k) \in Nat
      /\ PlannedTo(graph, plan, n)
  <2>1. n \in Nat /\ \A k \in 1..n : Size(graph, k) \in Nat
    BY <1>3, ManifestFacts DEF Nodes
  <2> QED BY <2>1, ArenaPlanned DEF Nodes, NodeIds
<1>5. /\ DOMAIN capacity = {Arena} \cup weights \cup inputs
      /\ capacity[Arena] = plan.end /\ plan.end \in Nat
  BY <1>2, <1>4 DEF PlannedTo, Arenas
<1>6. ASSUME NEW t \in graph.weights
      PROVE  LET a == Buffer("weights", t)
             IN a \in DOMAIN capacity /\ capacity[a] = Ch(t) /\ a[1] = "weights" /\ a[2] = t
  <2>1. Buffer("weights", t) # Arena
    BY DEF Buffer, Arena
  <2>2. Buffer("weights", t)[1] = "weights" /\ Buffer("weights", t)[2] = t
    BY DEF Buffer
  <2> QED BY <1>2, <2>1, <2>2 DEF Ch
<1>7. ASSUME NEW i \in 1..Len(graph.inputs)
      PROVE  LET a == Buffer("input", i)
             IN /\ a \in DOMAIN capacity /\ capacity[a] = Ch(graph.inputs[i])
                /\ a[1] = "input" /\ a[2] = i
  <2>1. Buffer("input", i) # Arena
    BY DEF Buffer, Arena
  <2>2. Buffer("input", i)[1] = "input" /\ Buffer("input", i)[2] = i
    BY DEF Buffer
  <2> QED BY <1>2, <2>1, <2>2 DEF Ch
<1> HIDE DEF plan
<1>8. ASSUME NEW a \in DOMAIN capacity
      PROVE  capacity[a] = Extent(a) /\ a[1] # "epilogue"
  <2>1. CASE a = Arena
    BY <1>5, <2>1 DEF Extent, Arena, plan
  <2>2. CASE a \in weights
    BY <1>6, <2>2 DEF Extent
  <2>3. CASE a \in inputs
    BY <1>7, <2>3 DEF Extent
  <2> QED BY <1>5, <2>1, <2>2, <2>3
<1>9. ASSUME NEW t \in Tensors(graph)
      PROVE  Fits(capacity, values[t], Ch(t))
  <2>1. values[t] = FirstAddress(graph, plan, t) /\ Ch(t) \in Nat
    BY <1>2, <1>3, TensorFacts
  <2>2. CASE t \in Inputs
    <3> DEFINE i == CHOOSE j \in 1..Len(graph.inputs) : graph.inputs[j] = t
    <3>1. graph.inputs \in Seq(Tensors(graph))
      BY <1>3 DEF Manifest
    <3>2. \E j \in 1..Len(graph.inputs) : graph.inputs[j] = t
      BY <2>2, <3>1 DEF Inputs, ToSet
    <3>3. i \in 1..Len(graph.inputs) /\ graph.inputs[i] = t
      BY <3>2
    <3>4. values[t] = Address(Buffer("input", i), 0)
      BY <2>1, <2>2 DEF FirstAddress, Inputs
    <3> HIDE DEF i
    <3> QED BY <1>7, <2>1, <3>3, <3>4 DEF Fits, Address
  <2>3. CASE t \notin Inputs /\ t \in graph.weights
    <3>1. values[t] = Address(Buffer("weights", t), 0)
      BY <2>1, <2>3 DEF FirstAddress, Inputs
    <3> QED BY <1>6, <2>1, <2>3, <3>1 DEF Fits, Address
  <2>4. CASE t \notin Inputs /\ t \notin graph.weights
    <3> DEFINE k == CHOOSE j \in 1..Len(graph.nodes) : graph.nodes[j].out = t
    <3>1. \E j \in 1..Len(graph.nodes) : graph.nodes[j].out = t
      <4>1. t \in {m.out : m \in ToSet(graph.nodes)}
        BY <1>3, <2>4 DEF Manifest, Inputs
      <4> QED BY <4>1 DEF ToSet
    <3>2. k \in 1..n /\ graph.nodes[k].out = t
      BY <3>1 DEF Nodes
    <3>3. values[t] = Address(Arena, plan.at[k])
      BY <2>1, <2>4 DEF FirstAddress, Inputs
    <3> HIDE DEF k
    <3>4. Size(graph, k) = Ch(t)
      BY <3>2 DEF Size, Ch
    <3>5. plan.at[k] \in Nat /\ plan.at[k] + Size(graph, k) <= plan.end
      BY <1>4, <3>2 DEF PlannedTo, Arenas
    <3> QED BY <1>5, <3>3, <3>4, <3>5 DEF Fits, Address
  <2> QED BY <2>2, <2>3, <2>4
<1>10. TensorsFit(capacity, values)
  BY <1>2, <1>9 DEF TensorsFit
<1>11. graph.weights \subseteq Tensors(graph)
  BY <1>3 DEF Manifest
<1>12. /\ stage = "slices" /\ baked = <<>> /\ recorded = <<>> /\ intervals = <<>>
       /\ memory = Filled(graph.weights, 0)
  BY DEF Init, PlanInit
<1>13. MemoryFits(capacity, memory)
  BY <1>3, <1>10, <1>11, <1>12, FilledFits
<1>14. PointersFit(capacity, baked)
  BY <1>12 DEF PointersFit
<1>15. LaunchesFit(capacity, recorded)
  <2>1. <<>> \in Seq({})
    OBVIOUS
  <2> QED BY <1>12, <2>1 DEF LaunchesFit
<1>16. Allocations
  BY <1>7, <1>8, <1>12 DEF Allocations, Extents
<1> QED BY <1>10, <1>12, <1>13, <1>14, <1>15, <1>16 DEF MemoryInv

-----------------------------------------------------------------------------
\* The allocations of the next state, and what is in them.
LEMMA SameModel ==
  ASSUME UNCHANGED graph,
         TensorsFit(capacity', values'), PointersFit(capacity', baked'),
         LaunchesFit(capacity', recorded'), MemoryFits(capacity', memory')
  PROVE  /\ TensorsFit(capacity, values)'
         /\ PointersFit(capacity, baked)'
         /\ LaunchesFit(capacity, recorded)'
         /\ MemoryFits(capacity, memory)'
BY DEF TensorsFit, PointersFit, LaunchesFit, LaunchFits, MemoryFits, CellFits, Fits, Ch, Node,
       Nodes, NodeIds, Tensors

LEMMA SameExtents ==
  ASSUME UNCHANGED <<graph, major, slot_bytes>>, Extents(capacity')
  PROVE  Extents(capacity)'
<1>1. Largest(RegluResults)' = Largest(RegluResults)
  BY DEF Largest, RegluResults, OpsAt, RegluOps, Node, Nodes, NodeIds, Ch
<1>2. /\ Largest({Node(k).in[1] : k \in Spatial})' = Largest({Node(k).in[1] : k \in Spatial})
      /\ Largest({Node(k).out : k \in Spatial})' = Largest({Node(k).out : k \in Spatial})
  BY DEF Largest, Spatial, SpatialConvolutions, Node, Nodes, NodeIds, Ch
<1>3. \A a \in DOMAIN capacity' : Extent(a)' = Extent(a)
  BY <1>1, <1>2 DEF Extent, Ch, Node, Nodes
<1> QED BY <1>3 DEF Extents

LEMMA SameEpilogues ==
  ASSUME UNCHANGED <<graph, intervals>>,
         intervals = [i \in 1..Len(Epilogues) |-> EpilogueInterval(Epilogues[i])]
  PROVE  (intervals = [i \in 1..Len(Epilogues) |-> EpilogueInterval(Epilogues[i])])'
<1>1. Epilogues' = Epilogues
  BY DEF Epilogues, HasEpilogue, Node, Nodes, NodeIds
<1>2. \A i : EpilogueInterval(i)' = EpilogueInterval(i)
  BY DEF EpilogueInterval, Ch, Node, Nodes
<1> QED BY <1>1, <1>2

\* What is in the allocations stays there when a call of the constructor adds
\* to them.
LEMMA PlanFrame ==
  ASSUME MemoryInv,
         UNCHANGED <<graph, major, slot_bytes, baked, recorded, memory>>,
         Extents(capacity'), DOMAIN capacity \subseteq DOMAIN capacity',
         TensorsFit(capacity', values'),
         stage' \in {"slices", "epilogues", "slots"} =>
           \A a \in DOMAIN capacity' : a[1] # "epilogue",
         stage' \in {"concats", "state", "ready", "refused"} =>
           SharedBuffers \subseteq DOMAIN capacity',
         (stage = "slots" =>
           intervals = [i \in 1..Len(Epilogues) |-> EpilogueInterval(Epilogues[i])])'
  PROVE  MemoryInv'
<1>1. Grows(capacity, capacity')
  BY ExtentsGrow DEF MemoryInv, Allocations
<1>2. /\ PointersFit(capacity', baked') /\ LaunchesFit(capacity', recorded')
      /\ MemoryFits(capacity', memory')
  BY <1>1, AllFitStill DEF MemoryInv
<1>3. /\ TensorsFit(capacity, values)' /\ PointersFit(capacity, baked)'
      /\ LaunchesFit(capacity, recorded)' /\ MemoryFits(capacity, memory)'
  BY <1>2, SameModel
<1>4. Extents(capacity)'
  BY SameExtents
<1>5. \A i \in 1..Len(graph.inputs)' : Buffer("input", i) \in DOMAIN capacity'
  BY DEF MemoryInv, Allocations
<1>6. Allocations'
  BY <1>4, <1>5 DEF Allocations, SharedBuffers, Buffer
<1> QED BY <1>3, <1>6 DEF MemoryInv

LEMMA SlicesFit ==
  ASSUME Manifest(graph), MemoryInv, PlanInputSliceAliases,
         UNCHANGED <<baked, recorded, memory>>
  PROVE  MemoryInv'
<1> DEFINE view(k) == Address(values[Node(k).in[1]].in, values[Node(k).in[1]].off + Node(k).start)
           slice(t) == CHOOSE k \in InputSlices : Node(k).out = t
<1>1. /\ stage = "slices" /\ stage' = "epilogues"
      /\ UNCHANGED <<graph, major, slot_bytes, intervals, capacity>>
      /\ values' = [t \in DOMAIN values |->
           IF \E k \in InputSlices : Node(k).out = t THEN view(slice(t)) ELSE values[t]]
  BY DEF PlanInputSliceAliases, modelVars, slotVars
<1>2. TensorsFit(capacity, values)
  BY DEF MemoryInv
<1>3. ASSUME NEW k \in InputSlices
      PROVE  Fits(capacity, view(k), Ch(Node(k).out))
  <2> DEFINE x == Node(k).in[1]
             y == Node(k).out
             at == values[x]
  <2>1. /\ k \in NodeIds /\ x \in Inputs /\ Node(k).start \in 0..(Ch(x) - Ch(y))
    BY DEF InputSlices
  <2>2. x \in Tensors(graph) /\ Ch(x) \in Nat /\ Ch(y) \in Nat
    BY <2>1, TensorFacts
  <2>3. Fits(capacity, at, Ch(x))
    BY <1>2, <2>2 DEF TensorsFit
  <2>4. view(k).in = at.in /\ view(k).off = at.off + Node(k).start
    BY DEF Address
  <2>5. /\ at.in \in DOMAIN capacity /\ capacity[at.in] \in Nat /\ at.off \in Nat
        /\ at.off + Ch(x) <= capacity[at.in]
    BY <2>3 DEF Fits
  <2> DEFINE start == Node(k).start
             off == at.off
             room == capacity[at.in]
             m == Ch(x)
             n == Ch(y)
  <2>6. start \in 0..(m - n) /\ m \in Nat /\ n \in Nat /\ off \in Nat /\ room \in Nat /\ off + m <= room
    BY <2>1, <2>2, <2>5
  <2> HIDE DEF start, off, room, m, n
  <2>7. off + start \in Nat /\ (off + start) + n <= room
    BY <2>6
  <2> HIDE DEF view
  <2> QED BY <2>4, <2>5, <2>7 DEF Fits, start, off, room, m, n
<1>4. ASSUME NEW t \in Tensors(graph)
      PROVE  Fits(capacity, values'[t], Ch(t))
  <2>1. t \in DOMAIN values
    BY <1>2 DEF TensorsFit
  <2>2. CASE \E k \in InputSlices : Node(k).out = t
    <3>1. slice(t) \in InputSlices /\ Node(slice(t)).out = t
      BY <2>2
    <3>2. values'[t] = view(slice(t))
      BY <1>1, <2>1, <2>2
    <3> HIDE DEF view, slice
    <3> QED BY <1>3, <3>1, <3>2
  <2>3. CASE ~\E k \in InputSlices : Node(k).out = t
    <3>1. values'[t] = values[t]
      BY <1>1, <2>1, <2>3
    <3> QED BY <1>2, <3>1 DEF TensorsFit
  <2> QED BY <2>2, <2>3
<1> HIDE DEF view, slice
<1>5. TensorsFit(capacity', values')
  BY <1>1, <1>2, <1>4 DEF TensorsFit
<1>6. Extents(capacity') /\ \A a \in DOMAIN capacity' : a[1] # "epilogue"
  BY <1>1 DEF MemoryInv, Allocations
<1> QED BY <1>1, <1>5, <1>6, PlanFrame

LEMMA CollectFits ==
  ASSUME MemoryInv, CollectEpilogues, UNCHANGED <<baked, recorded, memory>>
  PROVE  MemoryInv'
<1>1. /\ stage = "epilogues" /\ stage' \in {"slots", "buffers"}
      /\ UNCHANGED <<graph, major, slot_bytes, values, capacity>>
  BY DEF CollectEpilogues, modelVars
<1>2. stage' = "slots" => intervals' = [i \in 1..Len(Epilogues) |-> EpilogueInterval(Epilogues[i])]
  BY DEF CollectEpilogues
<1>3. (stage = "slots" =>
         intervals = [i \in 1..Len(Epilogues) |-> EpilogueInterval(Epilogues[i])])'
  <2>1. Epilogues' = Epilogues
    BY <1>1 DEF Epilogues, HasEpilogue, Node, Nodes, NodeIds
  <2>2. \A i : EpilogueInterval(i)' = EpilogueInterval(i)
    BY <1>1 DEF EpilogueInterval, Ch, Node, Nodes
  <2> QED BY <1>2, <2>1, <2>2
<1>4. /\ Extents(capacity') /\ TensorsFit(capacity', values')
      /\ \A a \in DOMAIN capacity' : a[1] # "epilogue"
  BY <1>1 DEF MemoryInv, Allocations
<1> QED BY <1>1, <1>3, <1>4, PlanFrame

\* The sizes of the slots may still change: there is no buffer for them yet.
LEMMA PlaceFits ==
  ASSUME MemoryInv, PlaceEpilogue, UNCHANGED <<baked, recorded, memory>>
  PROVE  MemoryInv'
<1>1. /\ stage = "slots" /\ stage' = "slots"
      /\ UNCHANGED <<graph, major, intervals, values, capacity>>
  BY DEF PlaceEpilogue, PlaceInterval, OpenSlot, ReuseSlot, modelVars, planVars
<1>2. ASSUME NEW a \in DOMAIN capacity PROVE Extent(a)' = Extent(a)
  <2>1. a[1] # "epilogue"
    BY <1>1 DEF MemoryInv, Allocations
  <2>2. Largest(RegluResults)' = Largest(RegluResults)
    BY <1>1 DEF Largest, RegluResults, OpsAt, RegluOps, Node, Nodes, NodeIds, Ch
  <2>3. /\ Largest({Node(k).in[1] : k \in Spatial})' = Largest({Node(k).in[1] : k \in Spatial})
        /\ Largest({Node(k).out : k \in Spatial})' = Largest({Node(k).out : k \in Spatial})
    BY <1>1 DEF Largest, Spatial, SpatialConvolutions, Node, Nodes, NodeIds, Ch
  <2> QED BY <1>1, <2>1, <2>2, <2>3 DEF Extent, Ch, Node, Nodes
<1>3. Extents(capacity)'
  BY <1>1, <1>2 DEF Extents, MemoryInv, Allocations
<1>4. Allocations'
  BY <1>1, <1>3 DEF Allocations, MemoryInv
<1>5. /\ TensorsFit(capacity, values)' /\ PointersFit(capacity, baked)'
      /\ LaunchesFit(capacity, recorded)' /\ MemoryFits(capacity, memory)'
  BY <1>1, SameModel DEF MemoryInv
<1>6. (intervals = [i \in 1..Len(Epilogues) |-> EpilogueInterval(Epilogues[i])])'
  BY <1>1, SameEpilogues DEF MemoryInv
<1> QED BY <1>4, <1>5, <1>6 DEF MemoryInv

LEMMA AllocateFits ==
  ASSUME PlannerInv, MemoryInv, AllocateEpilogues, UNCHANGED <<baked, recorded, memory>>
  PROVE  MemoryInv'
<1> DEFINE result(i) == Node(Epilogues[i] + 1).out
           tenant(t) == CHOOSE i \in Placed : result(i) = t
           slots == {Buffer("epilogue", n) : n \in SlotsInUse}
           rooms == [s \in slots |-> slot_bytes[s[2]]]
<1>1. /\ stage = "slots" /\ Len(slot_of) = Len(intervals) /\ stage' = "buffers"
      /\ UNCHANGED <<graph, major, slot_bytes>>
      /\ capacity' = Over(rooms, capacity)
      /\ values' = [t \in DOMAIN values |->
           IF \E i \in Placed : result(i) = t
           THEN Address(Buffer("epilogue", slot_of[tenant(t)]), 0) ELSE values[t]]
  BY DEF AllocateEpilogues, modelVars, slotVars
<1>2. ASSUME NEW n \in SlotsInUse
      PROVE  LET a == Buffer("epilogue", n)
             IN a \in slots /\ rooms[a] = slot_bytes[n] /\ Extent(a) = slot_bytes[n]
  <2>1. Buffer("epilogue", n) \in slots
    OBVIOUS
  <2>2. Buffer("epilogue", n)[1] = "epilogue" /\ Buffer("epilogue", n)[2] = n
    BY DEF Buffer
  <2>3. Extent(Buffer("epilogue", n)) = slot_bytes[n]
    BY <2>2 DEF Extent
  <2> QED BY <2>1, <2>2, <2>3
<1>3. /\ DOMAIN capacity' = slots \cup DOMAIN capacity
      /\ \A a \in slots : capacity'[a] = rooms[a]
      /\ \A a \in DOMAIN capacity : a \notin slots => capacity'[a] = capacity[a]
  BY <1>1 DEF Over
<1>4. Extents(capacity) /\ TensorsFit(capacity, values)
  BY DEF MemoryInv, Allocations
<1>5. Extents(capacity')
  <2>1. ASSUME NEW a \in slots PROVE capacity'[a] = Extent(a)
    <3>1. PICK n \in SlotsInUse : a = Buffer("epilogue", n)
      OBVIOUS
    <3> QED BY <1>2, <1>3, <3>1
  <2> HIDE DEF slots
  <2> QED BY <1>3, <1>4, <2>1 DEF Extents
<1>6. Grows(capacity, capacity')
  BY <1>3, <1>4, <1>5, ExtentsGrow
<1>7. ASSUME NEW i \in Placed
      PROVE  Fits(capacity', Address(Buffer("epilogue", slot_of[i]), 0), Ch(result(i)))
  <2> DEFINE s == slot_of[i]
  <2>1. /\ s \in SlotsInUse /\ slot_bytes \in Seq(Nat) /\ Len(slot_bytes) = Len(slot_deaths)
        /\ intervals[i].size <= slot_bytes[s] /\ intervals \in Seq(Interval)
    BY DEF PlannerInv, SlotsInv, SlotsTyped, TenantsFit, WellFormed
  <2>2. i \in 1..Len(Epilogues)
    <3>1. intervals = [j \in 1..Len(Epilogues) |-> EpilogueInterval(Epilogues[j])]
      BY <1>1 DEF MemoryInv
    <3>2. DOMAIN intervals = 1..Len(intervals)
      BY <2>1
    <3> QED BY <1>1, <3>1, <3>2 DEF Placed
  <2>3. intervals[i] = EpilogueInterval(Epilogues[i])
    BY <1>1, <2>2 DEF MemoryInv
  <2>4. intervals[i].size = Ch(result(i))
    BY <2>3 DEF EpilogueInterval
  <2>5. slot_bytes[s] \in Nat
    BY <2>1 DEF SlotsInUse
  <2>6. Ch(result(i)) \in Nat
    <3>1. intervals[i] \in Interval
      BY <1>1, <2>1 DEF Placed
    <3> QED BY <2>4, <3>1 DEF Interval
  <2> DEFINE a == Buffer("epilogue", s)
  <2>7. a \in DOMAIN capacity' /\ capacity'[a] = slot_bytes[s]
    BY <1>2, <1>3, <2>1
  <2>8. Address(a, 0).in = a /\ Address(a, 0).off = 0
    BY DEF Address
  <2> HIDE DEF a, s, result
  <2> QED BY <2>1, <2>4, <2>5, <2>6, <2>7, <2>8 DEF Fits, a, s
<1>8. ASSUME NEW t \in Tensors(graph)
      PROVE  Fits(capacity', values'[t], Ch(t))
  <2>1. t \in DOMAIN values
    BY <1>4 DEF TensorsFit
  <2>2. CASE \E i \in Placed : result(i) = t
    <3>1. tenant(t) \in Placed /\ result(tenant(t)) = t
      BY <2>2
    <3>2. values'[t] = Address(Buffer("epilogue", slot_of[tenant(t)]), 0)
      BY <1>1, <2>1, <2>2
    <3> HIDE DEF tenant, result
    <3> QED BY <1>7, <3>1, <3>2
  <2>3. CASE ~\E i \in Placed : result(i) = t
    <3>1. values'[t] = values[t]
      BY <1>1, <2>1, <2>3
    <3>2. Fits(capacity, values[t], Ch(t))
      BY <1>4 DEF TensorsFit
    <3> QED BY <1>6, <3>1, <3>2, FitsStill
  <2> QED BY <2>2, <2>3
<1> HIDE DEF result, tenant, slots, rooms
<1>9. TensorsFit(capacity', values')
  BY <1>1, <1>4, <1>8 DEF TensorsFit
<1> QED BY <1>1, <1>3, <1>5, <1>9, PlanFrame

LEMMA SharedFits ==
  ASSUME Manifest(graph), MemoryInv, PlanSharedBuffers, UNCHANGED <<baked, recorded, memory>>
  PROVE  MemoryInv'
<1> DEFINE reglu == Buffer("reglu", 0)
           into == Buffer("nhwc_in", 0)
           from == Buffer("nhwc_out", 0)
           gates == With(capacity, reglu, Extent(reglu))
           inputs == With(gates, into, Extent(into))
           all == With(inputs, from, Extent(from))
<1>1. /\ Extent(reglu) = Largest(RegluResults)
      /\ Extent(into) = Largest({Node(k).in[1] : k \in Spatial})
      /\ Extent(from) = Largest({Node(k).out : k \in Spatial})
  <2>1. reglu[1] = "reglu" /\ into[1] = "nhwc_in" /\ from[1] = "nhwc_out"
    BY DEF Buffer
  <2> HIDE DEF reglu, into, from
  <2> QED BY <2>1 DEF Extent
<1>2. /\ stage = "buffers" /\ stage' = "concats"
      /\ UNCHANGED <<graph, major, slot_bytes, values>>
      /\ capacity' = all
  BY <1>1 DEF PlanSharedBuffers, modelVars, slotVars, Spatial
<1>3. Extents(capacity) /\ TensorsFit(capacity, values)
  BY DEF MemoryInv, Allocations
<1> HIDE DEF reglu, into, from
<1>4. Extents(gates) /\ DOMAIN gates = DOMAIN capacity \cup {reglu}
  BY <1>3, AddedExtents
<1> HIDE DEF gates
<1>5. Extents(inputs) /\ DOMAIN inputs = DOMAIN gates \cup {into}
  BY <1>4, AddedExtents
<1> HIDE DEF inputs
<1>6. Extents(all) /\ DOMAIN all = DOMAIN inputs \cup {from}
  BY <1>5, AddedExtents
<1>7. /\ Extents(capacity') /\ DOMAIN capacity \subseteq DOMAIN capacity'
      /\ SharedBuffers \subseteq DOMAIN capacity'
  BY <1>2, <1>4, <1>5, <1>6 DEF SharedBuffers, reglu, into, from
<1> HIDE DEF all
<1>8. TensorsFit(capacity', values')
  BY <1>2, <1>3, <1>7, ExtentsGrow, AllFitStill
<1> QED BY <1>2, <1>7, <1>8, PlanFrame

LEMMA ConfigureFits ==
  ASSUME Manifest(graph), MemoryInv, ConfigureState, UNCHANGED <<baked, recorded, memory>>
  PROVE  MemoryInv'
<1> DEFINE binding(t) == CHOOSE b \in graph.bindings : b[2] = t
<1>1. /\ stage = "state" /\ stage' \in {"ready", "refused"}
      /\ UNCHANGED <<graph, major, slot_bytes, capacity>>
  BY DEF ConfigureState, modelVars, slotVars
<1>2. Extents(capacity) /\ TensorsFit(capacity, values)
  BY DEF MemoryInv, Allocations
<1>3. SharedBuffers \subseteq DOMAIN capacity'
  BY <1>1 DEF MemoryInv, Allocations
<1>4. TensorsFit(capacity, values')
  <2>1. CASE ~Bindable
    BY <1>2, <2>1 DEF ConfigureState
  <2>2. CASE Bindable
    <3>1. values' = [t \in DOMAIN values |->
             IF t \in FedBackOutputs THEN InputBuffer(binding(t)[1]) ELSE values[t]]
      BY <2>2 DEF ConfigureState
    <3>2. ASSUME NEW t \in Tensors(graph)
          PROVE  Fits(capacity, values'[t], Ch(t))
      <4>1. t \in DOMAIN values /\ Ch(t) \in Nat
        BY <1>2, TensorFacts DEF TensorsFit
      <4>2. CASE t \notin FedBackOutputs
        <5>1. values'[t] = values[t]
          BY <3>1, <4>1, <4>2
        <5> QED BY <1>2, <5>1 DEF TensorsFit
      <4>3. CASE t \in FedBackOutputs
        <5> DEFINE b == binding(t)
                   i == InputIndex(b[1])
                   a == Buffer("input", i)
        <5>1. b \in graph.bindings /\ b[2] = t
          BY <4>3 DEF FedBackOutputs
        <5>2. b[1] \in Inputs /\ Ch(b[1]) = Ch(t)
          BY <2>2, <5>1 DEF Bindable
        <5>3. values'[t] = Address(a, 0)
          BY <3>1, <4>1, <4>3 DEF InputBuffer
        <5> HIDE DEF b
        <5>4. i \in 1..Len(graph.inputs) /\ graph.inputs[i] = b[1]
          <6>1. graph.inputs \in Seq(Tensors(graph))
            BY DEF Manifest
          <6>2. \E j \in 1..Len(graph.inputs) : graph.inputs[j] = b[1]
            BY <5>2, <6>1 DEF Inputs, ToSet
          <6> QED BY <6>2 DEF InputIndex
        <5> HIDE DEF i
        <5>5. a \in DOMAIN capacity
          BY <5>4 DEF MemoryInv, Allocations
        <5>6. a[1] = "input" /\ a[2] = i
          BY DEF Buffer
        <5> HIDE DEF a
        <5>7. Extent(a) = Ch(t)
          BY <5>2, <5>4, <5>6 DEF Extent
        <5>8. capacity[a] = Ch(t)
          BY <1>2, <5>5, <5>7 DEF Extents
        <5>9. Address(a, 0).in = a /\ Address(a, 0).off = 0
          BY DEF Address
        <5> QED BY <4>1, <5>3, <5>5, <5>8, <5>9 DEF Fits
      <4> QED BY <4>2, <4>3
    <3>3. DOMAIN values' = DOMAIN values
      BY <3>1
    <3> QED BY <1>2, <3>2, <3>3 DEF TensorsFit
  <2> QED BY <2>1, <2>2
<1> QED BY <1>1, <1>2, <1>3, <1>4, PlanFrame

-----------------------------------------------------------------------------
\* What a step of the plan leaves: allocations of their size, tensors in them.
PlanFits(plan) ==
  /\ Extents(plan.capacity)
  /\ DOMAIN capacity \subseteq DOMAIN plan.capacity
  /\ TensorsFit(plan.capacity, plan.values)

LEMMA RedirectFits ==
  ASSUME Manifest(graph), NEW plan, PlanFits(plan), NEW k \in NodeIds
  PROVE  PlanFits(RedirectParts(plan, k))
<1> DEFINE node == Node(k)
           parts == {i \in 1..Len(node.in) : IsRedirected(node.in[i])}
           buffer == Buffer("concat", k)
           part(t) == CHOOSE i \in parts : node.in[i] = t
           more == With(plan.capacity, buffer, Ch(node.out))
           at == [t \in DOMAIN plan.values |->
                   IF \E i \in parts : node.in[i] = t
                   THEN Address(buffer, ChannelOffset(node, part(t)))
                   ELSE IF t = node.out THEN Address(buffer, 0) ELSE plan.values[t]]
<1>1. CASE node.op # "Concat" \/ parts = {}
  <2>1. RedirectParts(plan, k) = plan
    BY <1>1 DEF RedirectParts
  <2> QED BY <2>1
<1>2. CASE node.op = "Concat" /\ parts # {}
  <2>1. /\ RedirectParts(plan, k).values = at
        /\ RedirectParts(plan, k).capacity = more
    BY <1>2 DEF RedirectParts
  <2>2. Extent(buffer) = Ch(node.out)
    <3>1. buffer[1] = "concat" /\ buffer[2] = k
      BY DEF Buffer
    <3> HIDE DEF buffer
    <3> QED BY <3>1 DEF Extent
  <2> HIDE DEF buffer
  <2>3. Extents(more) /\ DOMAIN more = DOMAIN plan.capacity \cup {buffer}
    BY <2>2, AddedExtents DEF PlanFits
  <2>4. more[buffer] = Ch(node.out) /\ Ch(node.out) \in Nat
    BY TensorFacts DEF With
  <2>5. Grows(plan.capacity, more)
    BY <2>3, ExtentsGrow DEF PlanFits
  <2> HIDE DEF more
  <2>6. ASSUME NEW offset \in Nat, NEW size \in Nat, offset + size <= Ch(node.out)
        PROVE  Fits(more, Address(buffer, offset), size)
    <3>1. Address(buffer, offset).in = buffer /\ Address(buffer, offset).off = offset
      BY DEF Address
    <3> HIDE DEF node
    <3> QED BY <2>3, <2>4, <2>6, <3>1 DEF Fits
  <2>7. ASSUME NEW i \in parts
        PROVE  Fits(more, Address(buffer, ChannelOffset(node, i)), Ch(node.in[i]))
    <3>1. k \in 1..Len(graph.nodes) /\ graph.nodes[k] = node
      BY DEF NodeIds, Nodes, Node
    <3>2. i \in 1..Len(node.in) /\ node.in[i] \in Tensors(graph)
      BY TensorFacts
    <3>3. ChannelOffset(node, i) \in Nat /\ Ch(node.in[i]) \in Nat
      BY <1>2, <3>1, <3>2, PartsFit, TensorFacts DEF ChannelOffset
    <3>4. ChannelOffset(node, i) + Ch(node.in[i]) <= Ch(node.out)
      BY <1>2, <3>1, <3>2, PartsFit DEF ChannelOffset, Ch
    <3> QED BY <2>6, <3>3, <3>4
  <2>8. ASSUME NEW t \in Tensors(graph) PROVE Fits(more, at[t], Ch(t))
    <3>1. t \in DOMAIN plan.values /\ Fits(plan.capacity, plan.values[t], Ch(t))
      BY DEF PlanFits, TensorsFit
    <3>2. CASE \E i \in parts : node.in[i] = t
      <4>1. part(t) \in parts /\ node.in[part(t)] = t
        BY <3>2
      <4>2. at[t] = Address(buffer, ChannelOffset(node, part(t)))
        BY <3>1, <3>2
      <4> HIDE DEF part, parts, at
      <4> QED BY <2>7, <4>1, <4>2
    <3>3. CASE (~\E i \in parts : node.in[i] = t) /\ t = node.out
      <4>1. at[t] = Address(buffer, 0)
        BY <3>1, <3>3
      <4> QED BY <2>4, <2>6, <3>3, <4>1
    <3>4. CASE (~\E i \in parts : node.in[i] = t) /\ t # node.out
      <4>1. at[t] = plan.values[t]
        BY <3>1, <3>4
      <4> QED BY <2>5, <3>1, <4>1, FitsStill
    <3> QED BY <3>2, <3>3, <3>4
  <2>9. DOMAIN at = Tensors(graph)
    BY DEF PlanFits, TensorsFit
  <2> HIDE DEF at
  <2>10. TensorsFit(more, at)
    BY <2>8, <2>9 DEF TensorsFit
  <2>11. DOMAIN capacity \subseteq DOMAIN more
    BY <2>3 DEF PlanFits
  <2> QED BY <2>1, <2>3, <2>10, <2>11 DEF PlanFits
<1> QED BY <1>1, <1>2

\* The plan after each of the first m nodes from the end.
FirstPlan == [values |-> values, capacity |-> capacity, direct |-> {}]
Redirections(f, m) ==
  f = [j \in 0..m |-> IF j = 0 THEN FirstPlan ELSE RedirectParts(f[j - 1], Len(Nodes) + 1 - j)]

LEMMA RedirectionsExist ==
  ASSUME Len(Nodes) \in Nat
  PROVE  \E f : Redirections(f, Len(Nodes))
<1> DEFINE n == Len(Nodes)
           T == {m \in 0..n : \E f : Redirections(f, m)}
<1>1. 0 \in T
  <2> DEFINE f == [j \in 0..0 |-> FirstPlan]
  <2>1. Redirections(f, 0)
    BY DEF Redirections
  <2> QED BY <2>1
<1>2. ASSUME NEW m \in 1..n, m - 1 \in T PROVE m \in T
  <2>1. PICK f : Redirections(f, m - 1)
    BY <1>2
  <2> DEFINE g == [j \in 0..m |-> IF j = m THEN RedirectParts(f[m - 1], n + 1 - m) ELSE f[j]]
             R(j, p) == IF j = 0 THEN FirstPlan ELSE RedirectParts(p, n + 1 - j)
  <2>2. \A j \in 0..(m - 1) : f[j] = IF j = 0 THEN FirstPlan ELSE RedirectParts(f[j - 1], n + 1 - j)
    BY <2>1 DEF Redirections
  <2>3. ASSUME NEW j \in 0..m PROVE g[j] = IF j = 0 THEN FirstPlan ELSE RedirectParts(g[j - 1], n + 1 - j)
    <3>1. CASE j = m
      <4>1. m - 1 \in 0..m /\ m - 1 # m /\ j # 0
        BY <3>1
      <4>2. g[m - 1] = f[m - 1]
        BY <4>1
      <4>3. g[j] = RedirectParts(f[m - 1], n + 1 - m)
        BY <3>1
      <4> HIDE DEF g, n
      <4> QED BY <3>1, <4>1, <4>2, <4>3
    <3>2. CASE j # m
      <4>1. j \in 0..(m - 1) /\ (j # 0 => j - 1 \in 0..m /\ j - 1 # m)
        BY <3>2
      <4>2. g[j] = f[j] /\ (j # 0 => g[j - 1] = f[j - 1])
        BY <3>2, <4>1
      <4> HIDE DEF g, n
      <4> QED BY <2>2, <4>1, <4>2
    <3> QED BY <3>1, <3>2
  <2>4. Redirections(g, m)
    <3>1. g = [j \in 0..m |-> g[j]]
      OBVIOUS
    <3> HIDE DEF g
    <3> QED BY <2>3, <3>1 DEF Redirections
  <2> QED BY <2>4
<1> HIDE DEF T
<1>3. 0..n \subseteq T
  BY <1>1, <1>2, UpTo
<1>4. n \in T
  BY <1>3
<1> QED BY <1>4 DEF T

LEMMA ConcatsFit ==
  ASSUME Manifest(graph), MemoryInv, PlanDirectConcatBuffers, UNCHANGED <<baked, recorded, memory>>
  PROVE  MemoryInv'
<1> DEFINE n == Len(Nodes)
           after == CHOOSE f : Redirections(f, n)
<1>1. /\ stage = "concats" /\ stage' = "state"
      /\ UNCHANGED <<graph, major, slot_bytes>>
      /\ values' = after[n].values /\ capacity' = after[n].capacity
  BY DEF PlanDirectConcatBuffers, Redirections, FirstPlan, modelVars, slotVars
<1>2. n \in Nat /\ NodeIds = 1..n
  BY TensorFacts DEF NodeIds
<1>3. Redirections(after, n)
  BY <1>2, RedirectionsExist
<1> HIDE DEF after
<1>4. \A j \in 0..n : after[j] = IF j = 0 THEN FirstPlan ELSE RedirectParts(after[j - 1], n + 1 - j)
  BY <1>3 DEF Redirections
<1> DEFINE T == {m \in 0..n : PlanFits(after[m])}
<1>5. 0 \in T
  <2>1. 0 \in 0..n
    BY <1>2
  <2>2. after[0] = FirstPlan
    BY <1>4, <2>1
  <2>3. PlanFits(FirstPlan)
    BY DEF PlanFits, FirstPlan, MemoryInv, Allocations
  <2> QED BY <2>1, <2>2, <2>3
<1>6. ASSUME NEW m \in 1..n, m - 1 \in T PROVE m \in T
  <2>1. m \in 0..n /\ m # 0 /\ n + 1 - m \in NodeIds
    BY <1>2
  <2>2. after[m] = RedirectParts(after[m - 1], n + 1 - m)
    BY <1>4, <2>1
  <2>3. PlanFits(after[m - 1])
    BY <1>6
  <2> QED BY <2>1, <2>2, <2>3, RedirectFits
<1> HIDE DEF T, n
<1>7. 0..n \subseteq T
  BY <1>2, <1>5, <1>6, UpTo
<1>8. PlanFits(after[n])
  BY <1>2, <1>7 DEF T
<1>9. /\ Extents(capacity') /\ DOMAIN capacity \subseteq DOMAIN capacity'
      /\ TensorsFit(capacity', values')
  BY <1>1, <1>8 DEF PlanFits
<1>10. SharedBuffers \subseteq DOMAIN capacity'
  BY <1>1, <1>9 DEF MemoryInv, Allocations
<1> QED BY <1>1, <1>9, <1>10, PlanFrame

-----------------------------------------------------------------------------
(***************************************************************************)
(* The launches of the schedule write inside the tensors they are given.   *)
(***************************************************************************)
WritesFit(cap, uses) == \A u \in uses : CellFits(cap, u[1])

StepFits(taken) ==
  /\ PlanFits(taken)
  /\ PointersFit(taken.capacity, taken.baked)
  /\ LaunchesFit(taken.capacity, taken.launches)

\* The sizes and the addresses of all tensors, in the plan as it is.
Laid == Manifest(graph) /\ MemoryInv

LEMMA UseFits ==
  ASSUME Manifest(graph), NEW cap, NEW at, TensorsFit(cap, at),
         NEW t \in Tensors(graph), NEW c \in 1..Ch(t)
  PROVE  CellFits(cap, Use(at, t, c)[1])
<1>1. Ch(t) \in Nat /\ Fits(cap, at[t], Ch(t))
  BY TensorFacts DEF TensorsFit
<1>2. Use(at, t, c)[1] = Cell(at[t], c)
  BY DEF Use
<1> QED BY <1>1, <1>2, CellInside

LEMMA UsesFit ==
  ASSUME Manifest(graph), NEW cap, NEW at, TensorsFit(cap, at), NEW t \in Tensors(graph)
  PROVE  WritesFit(cap, Uses(at, t))
BY UseFits DEF WritesFit, Uses

LEMMA UsesAtFit ==
  ASSUME NEW cap, NEW address, NEW t, Ch(t) \in Nat, Fits(cap, address, Ch(t))
  PROVE  WritesFit(cap, UsesAt(address, t))
<1>1. ASSUME NEW c \in 1..Ch(t) PROVE CellFits(cap, <<Cell(address, c), <<t, c>>>>[1])
  BY CellInside
<1> QED BY <1>1 DEF WritesFit, UsesAt

LEMMA MixingFits ==
  ASSUME NEW cap, NEW reads, NEW writes, WritesFit(cap, writes)
  PROVE  LaunchFits(cap, Mixing(reads, writes))
BY DEF LaunchFits, Mixing, Item, WritesFit

LEMMA NoLaunchFits ==
  ASSUME NEW cap
  PROVE  LaunchesFit(cap, <<>>)
<1> DEFINE S == {}
           launches == <<>>
<1>1. launches \in Seq(S)
  OBVIOUS
<1>2. \A launch \in S : LaunchFits(cap, launch)
  OBVIOUS
<1> HIDE DEF S, launches
<1>3. LaunchesFit(cap, launches)
  BY <1>1, <1>2 DEF LaunchesFit
<1> QED BY <1>3 DEF launches

LEMMA OneLaunchFits ==
  ASSUME NEW cap, NEW launch, LaunchFits(cap, launch)
  PROVE  LaunchesFit(cap, <<launch>>)
<1> DEFINE S == {launch}
           launches == <<launch>>
<1>1. launches \in Seq(S)
  OBVIOUS
<1>2. \A l \in S : LaunchFits(cap, l)
  OBVIOUS
<1> HIDE DEF S, launches
<1>3. LaunchesFit(cap, launches)
  BY <1>1, <1>2 DEF LaunchesFit
<1> QED BY <1>3 DEF launches

LEMMA AppendedFits ==
  ASSUME NEW cap, NEW launches, LaunchesFit(cap, launches), NEW launch, LaunchFits(cap, launch)
  PROVE  LaunchesFit(cap, Append(launches, launch))
<1>1. PICK S : launches \in Seq(S) /\ \A l \in S : LaunchFits(cap, l)
  BY DEF LaunchesFit
<1>2. launches \in Seq(S \cup {launch})
  BY <1>1
<1>3. Append(launches, launch) \in Seq(S \cup {launch})
  BY <1>2
<1>4. \A l \in S \cup {launch} : LaunchFits(cap, l)
  BY <1>1
<1> QED BY <1>3, <1>4 DEF LaunchesFit

LEMMA JoinedFits ==
  ASSUME NEW cap, NEW first, NEW second, LaunchesFit(cap, first), LaunchesFit(cap, second)
  PROVE  LaunchesFit(cap, first \o second)
<1>1. PICK S : first \in Seq(S) /\ \A l \in S : LaunchFits(cap, l)
  BY DEF LaunchesFit
<1>2. PICK T : second \in Seq(T) /\ \A l \in T : LaunchFits(cap, l)
  BY DEF LaunchesFit
<1>3. first \in Seq(S \cup T) /\ second \in Seq(S \cup T)
  BY <1>1, <1>2
<1>4. first \o second \in Seq(S \cup T)
  BY <1>3
<1>5. \A l \in S \cup T : LaunchFits(cap, l)
  BY <1>1, <1>2
<1> QED BY <1>4, <1>5 DEF LaunchesFit

\* A step that moves nothing.
LEMMA PlainStepFits ==
  ASSUME MemoryInv, NEW length, NEW launches, LaunchesFit(capacity, launches)
  PROVE  StepFits(Step(length, launches))
<1>1. /\ Step(length, launches).values = values /\ Step(length, launches).capacity = capacity
      /\ Step(length, launches).baked = baked /\ Step(length, launches).launches = launches
  BY DEF Step
<1> QED BY <1>1 DEF StepFits, PlanFits, MemoryInv, Allocations

\* The nodes of a chain are there.
LEMMA ChainNodes ==
  ASSUME Manifest(graph), NEW k \in NodeIds, NEW ops, NEW n \in Nat, Len(ops) = n, OpsAt(k, ops)
  PROVE  \A j \in 0..(n - 1) : k + j \in NodeIds /\ Node(k + j).out \in Tensors(graph)
                                /\ Ch(Node(k + j).out) \in Nat
<1>1. /\ k \in Nat /\ k >= 1 /\ Len(Nodes) \in Nat /\ NodeIds = 1..Len(Nodes)
  BY TensorFacts DEF NodeIds
<1>2. k + n - 1 <= Len(Nodes)
  BY <1>1 DEF OpsAt
<1>3. \A j \in 0..(n - 1) : k + j \in NodeIds
  BY <1>1, <1>2
<1> QED BY <1>3, TensorFacts

LEMMA Y0TailFits ==
  ASSUME Laid, NEW k \in NodeIds, MatchesY0Tail(k)
  PROVE  StepFits(Y0Tail(k))
<1> DEFINE size == Ch(Node(k + 10).out)
           o(j) == Node(k + j).out
           u(t, c) == Use(values, t, c)
           both(t, c) == {u(t, c), u(t, size + c)}
           concat3 == Node(k + 18).out
<1>1. TensorsFit(capacity, values) /\ Manifest(graph)
  BY DEF Laid, MemoryInv
<1>2. \A j \in 0..18 : o(j) \in Tensors(graph) /\ Ch(o(j)) \in Nat
  <2>1. Len(Y0Ops) = 19
    BY DEF Y0Ops
  <2>2. OpsAt(k, Y0Ops)
    BY DEF MatchesY0Tail
  <2>3. \A j \in 0..(19 - 1) : k + j \in NodeIds /\ o(j) \in Tensors(graph) /\ Ch(o(j)) \in Nat
    BY <1>1, <2>1, <2>2, ChainNodes
  <2> QED BY <2>3
<1>3. /\ size \in Nat /\ Ch(o(10)) = size
      /\ Ch(o(4)) = 2 * size /\ Ch(o(2)) = 2 * size /\ Ch(o(17)) = 2 * size /\ Ch(o(18)) = 6 * size
  BY <1>2 DEF MatchesY0Tail, Y0Shapes, SizesAre
<1>4. /\ o(2) \in Tensors(graph) /\ o(4) \in Tensors(graph) /\ o(10) \in Tensors(graph)
      /\ o(17) \in Tensors(graph) /\ o(18) \in Tensors(graph)
  BY <1>2
<1> HIDE DEF size
<1>5. ASSUME NEW t \in {o(2), o(4), o(17), o(18)}, NEW c \in 1..size
      PROVE  WritesFit(capacity, both(t, c))
  <2>1. t \in Tensors(graph) /\ c \in 1..Ch(t) /\ size + c \in 1..Ch(t)
    BY <1>3, <1>4
  <2> QED BY <1>1, <2>1, UseFits DEF WritesFit
<1>6. ASSUME NEW c \in 1..size PROVE CellFits(capacity, u(o(10), c)[1])
  BY <1>1, <1>3, <1>4, UseFits
<1>7. ASSUME NEW c \in 1..(4 * size) PROVE CellFits(capacity, u(o(18), 2 * size + c)[1])
  <2>1. 2 * size + c \in 1..Ch(o(18))
    BY <1>3
  <2> QED BY <1>1, <1>4, <2>1, UseFits
<1>8. ASSUME NEW item \in Y0Launch(k) PROVE WritesFit(capacity, item.writes)
  <2>1. CASE \E c \in 1..size :
               item.writes = both(o(4), c) \cup both(o(2), c) \cup both(o(17), c)
                               \cup both(o(18), c) \cup {u(o(10), c)}
    <3>1. PICK c \in 1..size :
             item.writes = both(o(4), c) \cup both(o(2), c) \cup both(o(17), c)
                             \cup both(o(18), c) \cup {u(o(10), c)}
      BY <2>1
    <3>2. /\ WritesFit(capacity, both(o(4), c)) /\ WritesFit(capacity, both(o(2), c))
          /\ WritesFit(capacity, both(o(17), c)) /\ WritesFit(capacity, both(o(18), c))
          /\ CellFits(capacity, u(o(10), c)[1])
      BY <1>5, <1>6
    <3> HIDE DEF both, u, o
    <3> QED BY <3>1, <3>2 DEF WritesFit
  <2>2. CASE \E c \in 1..(4 * size) : item.writes = {u(o(18), 2 * size + c)}
    BY <1>7, <2>2 DEF WritesFit
  <2>3. \/ \E c \in 1..size :
             item.writes = both(o(4), c) \cup both(o(2), c) \cup both(o(17), c)
                             \cup both(o(18), c) \cup {u(o(10), c)}
        \/ \E c \in 1..(4 * size) : item.writes = {u(o(18), 2 * size + c)}
    BY DEF Y0Launch, Item, size
  <2> QED BY <2>1, <2>2, <2>3
<1>9. LaunchFits(capacity, Y0Launch(k))
  BY <1>8 DEF LaunchFits, WritesFit
<1> QED BY <1>9, OneLaunchFits, PlainStepFits DEF Y0Tail, Laid

LEMMA Y1TailFits ==
  ASSUME Laid, NEW k \in NodeIds, MatchesY1Tail(k)
  PROVE  StepFits(Y1Tail(k))
<1> DEFINE size == Ch(Node(k + 5).out)
           o(j) == Node(k + j).out
           u(t, c) == Use(values, t, c)
<1>1. TensorsFit(capacity, values) /\ Manifest(graph)
  BY DEF Laid, MemoryInv
<1>2. \A j \in 0..14 : o(j) \in Tensors(graph) /\ Ch(o(j)) \in Nat
  <2>1. Len(Y1Ops) = 15
    BY DEF Y1Ops
  <2>2. OpsAt(k, Y1Ops)
    BY DEF MatchesY1Tail
  <2>3. \A j \in 0..(15 - 1) : k + j \in NodeIds /\ o(j) \in Tensors(graph) /\ Ch(o(j)) \in Nat
    BY <1>1, <2>1, <2>2, ChainNodes
  <2> QED BY <2>3
<1>3. size \in Nat /\ Ch(o(5)) = size /\ Ch(o(14)) = 2 * size
  BY <1>2 DEF MatchesY1Tail, Y1Shapes, SizesAre
<1>4. o(5) \in Tensors(graph) /\ o(14) \in Tensors(graph)
  BY <1>2
<1> HIDE DEF size
<1>5. ASSUME NEW item \in Y1Launch(k) PROVE WritesFit(capacity, item.writes)
  <2>1. PICK c \in 1..size :
          item.writes = {u(o(14), c), u(o(14), size + c)} \cup {u(o(5), c)}
    BY DEF Y1Launch, Item, size
  <2>2. c \in 1..Ch(o(14)) /\ size + c \in 1..Ch(o(14)) /\ c \in 1..Ch(o(5))
    BY <1>3
  <2>3. /\ CellFits(capacity, u(o(14), c)[1]) /\ CellFits(capacity, u(o(14), size + c)[1])
        /\ CellFits(capacity, u(o(5), c)[1])
    BY <1>1, <1>4, <2>2, UseFits
  <2> HIDE DEF u, o
  <2> QED BY <2>1, <2>3 DEF WritesFit
<1>6. LaunchFits(capacity, Y1Launch(k))
  BY <1>5 DEF LaunchFits, WritesFit
<1> QED BY <1>6, OneLaunchFits, PlainStepFits DEF Y1Tail, Laid

LEMMA FeatureUpdateFits ==
  ASSUME Laid, NEW k \in NodeIds, MatchesFeatureUpdate(k)
  PROVE  StepFits(FeatureUpdate(k))
<1> DEFINE size == Ch(Node(k).out)
           o(j) == Node(k + j).out
           u(t, c) == Use(values, t, c)
           launch == {FeatureItem(k, c, {u(o(11), c), u(o(11), size + c)}) : c \in 1..size}
<1>1. TensorsFit(capacity, values) /\ Manifest(graph)
  BY DEF Laid, MemoryInv
<1>2. o(11) \in Tensors(graph) /\ size \in Nat
  <2> DEFINE ops == FeatureOps \o <<"Concat">>
  <2>1. Len(ops) = 12
    BY DEF FeatureOps
  <2>2. OpsAt(k, ops)
    BY DEF MatchesFeatureUpdate
  <2> HIDE DEF ops
  <2>3. \A j \in 0..(12 - 1) : Node(k + j).out \in Tensors(graph)
    BY <1>1, <2>1, <2>2, ChainNodes
  <2>4. 11 \in 0..(12 - 1)
    OBVIOUS
  <2>5. Node(k).out \in Tensors(graph)
    BY <1>1, TensorFacts
  <2> QED BY <1>1, <2>3, <2>4, <2>5, TensorFacts
<1>3. Ch(o(11)) = 2 * size
  BY DEF MatchesFeatureUpdate, FeatureShapes, SizesAre
<1> HIDE DEF size
<1>4. ASSUME NEW item \in launch PROVE WritesFit(capacity, item.writes)
  <2>1. PICK c \in 1..size : item.writes = {u(o(11), c), u(o(11), size + c)}
    BY DEF FeatureItem, Item
  <2>2. c \in 1..Ch(o(11)) /\ size + c \in 1..Ch(o(11))
    BY <1>2, <1>3
  <2>3. CellFits(capacity, u(o(11), c)[1]) /\ CellFits(capacity, u(o(11), size + c)[1])
    BY <1>1, <1>2, <2>2, UseFits
  <2> HIDE DEF u, o
  <2> QED BY <2>1, <2>3 DEF WritesFit
<1>5. LaunchFits(capacity, launch)
  BY <1>4 DEF LaunchFits, WritesFit
<1>6. FeatureUpdate(k) = Step(12, <<launch>>)
  BY DEF FeatureUpdate, size
<1> HIDE DEF launch
<1> QED BY <1>5, <1>6, OneLaunchFits, PlainStepFits DEF Laid

\* A result that gets an address of its own.
LEMMA MovedFits ==
  ASSUME NEW cap, TensorsFit(cap, values), NEW result, NEW address,
         result \in Tensors(graph) => Fits(cap, address, Ch(result))
  PROVE  TensorsFit(cap, [values EXCEPT ![result] = address])
BY DEF TensorsFit

LEMMA FeatureOutputsFits ==
  ASSUME Laid, NEW k \in NodeIds, MatchesFeatureOutputs(k)
  PROVE  StepFits(FeatureOutputs(k))
<1> DEFINE n == CHOOSE m \in FeatureConcats(k) : TRUE
           result == Node(n).out
           at == [values EXCEPT ![result] = FeatureAddress(n)]
           scaled == Node(k + 10).out
           blended == Node(k + 8).out
           size == Ch(scaled)
           a == Buffer("feature", n)
           more == IF result \in FedBackOutputs THEN capacity
                   ELSE With(capacity, at[result].in, Ch(result))
           launch == FeatureOutputsItems(k, result, at)
<1>1. TensorsFit(capacity, values) /\ Extents(capacity) /\ Manifest(graph)
  BY DEF Laid, MemoryInv, Allocations
<1>2. n \in NodeIds /\ result \in Tensors(graph) /\ Ch(result) \in Nat /\ FeatureShapes(k, result)
  <2>1. n \in FeatureConcats(k) /\ FeatureShapes(k, result)
    BY DEF MatchesFeatureOutputs
  <2>2. n \in NodeIds
    BY <2>1 DEF FeatureConcats
  <2> QED BY <1>1, <2>1, <2>2, TensorFacts
<1>3. /\ scaled \in Tensors(graph) /\ blended \in Tensors(graph) /\ size \in Nat
  <2>1. Len(FeatureOps) = 11
    BY DEF FeatureOps
  <2>2. OpsAt(k, FeatureOps)
    BY DEF MatchesFeatureOutputs
  <2>3. \A j \in 0..(11 - 1) : Node(k + j).out \in Tensors(graph)
    BY <1>1, <2>1, <2>2, ChainNodes
  <2>4. 10 \in 0..(11 - 1) /\ 8 \in 0..(11 - 1)
    OBVIOUS
  <2>5. scaled \in Tensors(graph) /\ blended \in Tensors(graph)
    BY <2>3, <2>4
  <2> QED BY <1>1, <2>5, TensorFacts
<1>4. Ch(blended) = size /\ Ch(result) = 2 * size
  <2>1. /\ \A j \in 0..10 : Ch(Node(k + j).out) = Ch(Node(k).out)
        /\ Ch(result) = 2 * Ch(Node(k).out)
    BY <1>2 DEF FeatureShapes, SizesAre
  <2> QED BY <2>1
<1>5. /\ FeatureOutputs(k).values = at
      /\ FeatureOutputs(k).capacity = more
      /\ FeatureOutputs(k).baked = baked
      /\ FeatureOutputs(k).launches = <<launch>>
  BY DEF FeatureOutputs, Step
<1> HIDE DEF n
<1>6. at[result] = FeatureAddress(n)
  BY <1>1, <1>2 DEF TensorsFit
<1>7. /\ Extents(more) /\ DOMAIN capacity \subseteq DOMAIN more
      /\ Fits(more, FeatureAddress(n), Ch(result))
  <2>1. CASE result \in FedBackOutputs
    <3>1. FeatureAddress(n) = values[result] /\ more = capacity
      BY <2>1 DEF FeatureAddress
    <3> HIDE DEF more
    <3> QED BY <1>1, <1>2, <3>1 DEF TensorsFit
  <2>2. CASE result \notin FedBackOutputs
    <3>1. FeatureAddress(n).in = a /\ FeatureAddress(n).off = 0
      BY <2>2 DEF FeatureAddress, Address
    <3>2. Extent(a) = Ch(result)
      <4>1. a[1] = "feature" /\ a[2] = n
        BY DEF Buffer
      <4> HIDE DEF a
      <4> QED BY <4>1 DEF Extent
    <3>3. more = With(capacity, a, Extent(a))
      BY <1>6, <2>2, <3>1, <3>2
    <3> HIDE DEF a, at, more
    <3>4. Extents(more) /\ DOMAIN more = DOMAIN capacity \cup {a}
      BY <1>1, <3>3, AddedExtents
    <3>5. more[a] = Ch(result)
      BY <3>2, <3>4 DEF Extents
    <3> QED BY <1>2, <3>1, <3>4, <3>5 DEF Fits
  <2> QED BY <2>1, <2>2
<1> HIDE DEF more
<1>8. Grows(capacity, more)
  BY <1>1, <1>7, ExtentsGrow
<1>9. TensorsFit(more, values) /\ PointersFit(more, baked)
  BY <1>1, <1>8, AllFitStill DEF Laid, MemoryInv
<1>10. TensorsFit(more, at)
  BY <1>7, <1>9, MovedFits
<1> HIDE DEF at
<1>11. LaunchFits(more, launch)
  <2> DEFINE u(t, c) == Use(at, t, c)
  <2>1. ASSUME NEW item \in launch PROVE WritesFit(more, item.writes)
    <3>1. PICK c \in 1..size :
            item.writes = {u(scaled, c), u(blended, c), u(result, c), u(result, size + c)}
      BY DEF FeatureOutputsItems, FeatureItem, Item
    <3> HIDE DEF scaled, blended, result, size
    <3>2. /\ c \in 1..Ch(scaled) /\ c \in 1..Ch(blended)
          /\ c \in 1..Ch(result) /\ size + c \in 1..Ch(result)
      BY <1>3, <1>4 DEF size
    <3>3. /\ CellFits(more, u(scaled, c)[1]) /\ CellFits(more, u(blended, c)[1])
          /\ CellFits(more, u(result, c)[1]) /\ CellFits(more, u(result, size + c)[1])
      BY <1>1, <1>2, <1>3, <1>10, <3>2, UseFits
    <3> HIDE DEF u
    <3> QED BY <3>1, <3>3 DEF WritesFit
  <2> HIDE DEF launch
  <2> QED BY <2>1 DEF LaunchFits, WritesFit
<1> HIDE DEF launch
<1> QED BY <1>5, <1>7, <1>9, <1>10, <1>11, OneLaunchFits DEF StepFits, PlanFits

\* A matrix product: its result is where the parameters say.
LEMMA PointwiseStepFits ==
  ASSUME Laid, NEW k \in NodeIds, NEW length, NEW operands, NEW result \in Tensors(graph),
         Ch(result) = Ch(Node(k).out)
  PROVE  StepFits(PointwiseStep(k, length, operands, result))
<1> DEFINE at == IF Node(k).kind = "gemm" THEN Parameters(k, operands, result)
                 ELSE Pointers(operands, result)
           reads == UNION {UsesAt(at.operands[i], operands[i]) : i \in DOMAIN operands}
           kept == IF Node(k).kind = "gemm" THEN With(baked, k, at) ELSE baked
           taken == PointwiseStep(k, length, operands, result)
           launch == Mixing(reads, UsesAt(at.result, result))
<1>1. /\ TensorsFit(capacity, values) /\ PointersFit(capacity, baked) /\ Extents(capacity)
      /\ Manifest(graph) /\ Ch(result) \in Nat
  BY TensorFacts DEF Laid, MemoryInv, Allocations
<1>2. /\ taken.values = values /\ taken.capacity = capacity
      /\ taken.baked = kept /\ taken.launches = <<launch>>
  BY DEF PointwiseStep, Step
<1>3. Fits(capacity, at.result, Ch(result))
  <2>1. Pointers(operands, result).result = values[result]
    BY DEF Pointers
  <2>2. Fits(capacity, values[result], Ch(result))
    BY <1>1 DEF TensorsFit
  <2>3. CASE Node(k).kind = "gemm" /\ k \in DOMAIN baked
    <3>1. at = baked[k]
      BY <2>3 DEF Parameters
    <3> QED BY <1>1, <2>3, <3>1 DEF PointersFit
  <2>4. CASE ~(Node(k).kind = "gemm" /\ k \in DOMAIN baked)
    <3>1. at = Pointers(operands, result)
      BY <2>4 DEF Parameters
    <3> QED BY <2>1, <2>2, <3>1
  <2> QED BY <2>3, <2>4
<1> HIDE DEF at, taken
<1>4. PointersFit(capacity, kept)
  <2>1. CASE Node(k).kind # "gemm"
    BY <1>1, <2>1
  <2>2. CASE Node(k).kind = "gemm"
    <3>1. kept = With(baked, k, at)
      BY <2>2
    <3>2. DOMAIN kept = DOMAIN baked \cup {k} /\ kept[k] = at
          /\ \A j \in DOMAIN baked : j # k => kept[j] = baked[j]
      BY <3>1 DEF With
    <3> HIDE DEF kept
    <3> QED BY <1>1, <1>3, <3>2 DEF PointersFit
  <2> QED BY <2>1, <2>2
<1>5. LaunchFits(capacity, launch)
  BY <1>1, <1>3, UsesAtFit, MixingFits
<1> HIDE DEF launch, kept
<1>6. LaunchesFit(capacity, taken.launches)
  BY <1>2, <1>5, OneLaunchFits
<1>7. StepFits(taken)
  BY <1>1, <1>2, <1>4, <1>6 DEF StepFits, PlanFits
<1> QED BY <1>7 DEF taken

LEMMA PointwiseEpilogueFits ==
  ASSUME Laid, NEW k \in NodeIds, MatchesEpilogue(k)
  PROVE  StepFits(PointwiseEpilogue(k))
<1>1. k + 1 \in NodeIds
  BY DEF MatchesEpilogue, HasEpilogue
<1>2. Node(k + 1).out \in Tensors(graph)
  BY <1>1, TensorFacts DEF Laid
<1>3. Ch(Node(k + 1).out) = Ch(Node(k).out)
  BY DEF MatchesEpilogue, SizesAre
<1> QED BY <1>2, <1>3, PointwiseStepFits DEF PointwiseEpilogue

\* A tensor at the start of a buffer of all.
LEMMA BufferFits ==
  ASSUME MemoryInv, NEW a \in DOMAIN capacity, Extent(a) \in Nat,
         NEW size \in Nat, size <= Extent(a)
  PROVE  Fits(capacity, Address(a, 0), size)
<1>1. capacity[a] = Extent(a)
  BY DEF MemoryInv, Allocations, Extents
<1>2. Address(a, 0).in = a /\ Address(a, 0).off = 0
  BY DEF Address
<1> QED BY <1>1, <1>2 DEF Fits

LEMMA RegluAddressesFit ==
  ASSUME Laid, stage = "ready", NEW result \in RegluResults
  PROVE  TensorsFit(capacity, RegluAddresses(result))
<1> DEFINE a == Buffer("reglu", 0)
<1>1. TensorsFit(capacity, values) /\ Manifest(graph) /\ a \in DOMAIN capacity
  BY DEF Laid, MemoryInv, Allocations, SharedBuffers
<1>2. Extent(a) = Largest(RegluResults)
  <2>1. a[1] = "reglu"
    BY DEF Buffer
  <2> HIDE DEF a
  <2> QED BY <2>1 DEF Extent
<1>3. Extent(a) \in Nat /\ Ch(result) <= Extent(a)
  BY <1>1, <1>2, SharedBounds
<1>4. ASSUME result \in Tensors(graph) PROVE Fits(capacity, Address(a, 0), Ch(result))
  <2>1. Ch(result) \in Nat
    BY <1>1, <1>4, TensorFacts
  <2> HIDE DEF a
  <2> QED BY <1>1, <1>3, <2>1, BufferFits DEF Laid
<1>5. TensorsFit(capacity, [values EXCEPT ![result] = Address(a, 0)])
  BY <1>1, <1>4, MovedFits
<1> QED BY <1>1, <1>5 DEF RegluAddresses

\* The results of a ReGLU found at node k.
LEMMA RegluFacts ==
  ASSUME Manifest(graph), NEW k \in NodeIds, IsReglu(k)
  PROVE  /\ Node(k + 3).out \in RegluResults
         /\ Node(k + 3).out \in Tensors(graph)
         /\ Ch(Node(k + 3).out) \in Nat
<1>1. OpsAt(k, RegluOps)
  BY DEF IsReglu
<1>2. Len(RegluOps) = 4
  BY DEF RegluOps
<1>3. \A j \in 0..(4 - 1) : Node(k + j).out \in Tensors(graph)
  BY <1>1, <1>2, ChainNodes
<1>4. 3 \in 0..(4 - 1)
  OBVIOUS
<1>5. Node(k + 3).out \in Tensors(graph)
  BY <1>3, <1>4
<1> QED BY <1>1, <1>5, TensorFacts DEF RegluResults

LEMMA RegluLaunchFits ==
  ASSUME Manifest(graph), NEW cap, NEW at, TensorsFit(cap, at), NEW k, Node(k + 3).out \in Tensors(graph)
  PROVE  LaunchFits(cap, RegluLaunch(k, at))
<1> DEFINE result == Node(k + 3).out
           use(c) == Use(at, result, c)
<1>1. ASSUME NEW item \in RegluLaunch(k, at) PROVE WritesFit(cap, item.writes)
  <2>1. PICK c \in 1..Ch(result) : item.writes = {use(c)}
    BY DEF RegluLaunch, Item
  <2>2. CellFits(cap, use(c)[1])
    BY UseFits
  <2> HIDE DEF use, result
  <2> QED BY <2>1, <2>2 DEF WritesFit
<1> QED BY <1>1 DEF LaunchFits, WritesFit

LEMMA RegluFits ==
  ASSUME Laid, stage = "ready", NEW k \in NodeIds, IsReglu(k)
  PROVE  StepFits(Reglu(k))
<1> DEFINE result == Node(k + 3).out
           at == RegluAddresses(result)
           launch == RegluLaunch(k, at)
<1>1. TensorsFit(capacity, at)
  BY RegluFacts, RegluAddressesFit DEF Laid
<1>2. LaunchFits(capacity, launch)
  BY <1>1, RegluFacts, RegluLaunchFits DEF Laid
<1>3. /\ Reglu(k).values = at /\ Reglu(k).capacity = capacity
      /\ Reglu(k).baked = baked /\ Reglu(k).launches = <<launch>>
  BY DEF Reglu, Step
<1> HIDE DEF at, launch
<1> QED BY <1>1, <1>2, <1>3, OneLaunchFits DEF StepFits, PlanFits, Laid, MemoryInv, Allocations

LEMMA PointwiseRegluFits ==
  ASSUME Laid, stage = "ready", NEW k \in NodeIds, MatchesPointwiseReglu(k)
  PROVE  StepFits(PointwiseReglu(k))
<1> DEFINE result == Node(k + 4).out
           at == RegluAddresses(result)
           x == PointwiseStep(k, 5, Node(k).in, Node(k).out)
           taken == PointwiseReglu(k)
           own == Mixing(Uses(at, Node(k).in[1]), Uses(at, result))
           gate == RegluLaunch(k + 1, at)
<1>1. Manifest(graph)
  BY DEF Laid
<1>2. k + 1 \in NodeIds /\ IsReglu(k + 1) /\ (k + 1) + 3 = k + 4
  <2>1. k \in Nat
    BY <1>1, TensorFacts DEF NodeIds
  <2> QED BY <2>1 DEF MatchesPointwiseReglu
<1>3. result \in RegluResults /\ result \in Tensors(graph)
  <2>1. Node((k + 1) + 3).out = result
    BY <1>2
  <2>2. /\ Node((k + 1) + 3).out \in RegluResults
        /\ Node((k + 1) + 3).out \in Tensors(graph)
    BY <1>1, <1>2, RegluFacts
  <2> QED BY <2>1, <2>2
<1>4. TensorsFit(capacity, at)
  BY <1>3, RegluAddressesFit
<1>5. LaunchFits(capacity, gate)
  <2>1. Node((k + 1) + 3).out \in Tensors(graph)
    BY <1>2, <1>3
  <2> HIDE DEF at
  <2> QED BY <1>1, <1>4, <2>1, RegluLaunchFits
<1>6. LaunchFits(capacity, own)
  BY <1>1, <1>3, <1>4, UsesFit, MixingFits
<1>7. StepFits(x)
  BY <1>1, PointwiseStepFits, TensorFacts
<1>8. x.capacity = capacity
  BY DEF PointwiseStep, Step
<1>9. CASE Node(k).kind = "gemm"
  <2>1. /\ taken.values = at /\ taken.capacity = x.capacity
        /\ taken.baked = x.baked /\ taken.launches = Append(x.launches, gate)
    BY <1>9 DEF PointwiseReglu, PointwiseStep, Step
  <2> HIDE DEF at, x, gate, taken
  <2>2. LaunchesFit(capacity, Append(x.launches, gate))
    BY <1>5, <1>7, <1>8, AppendedFits DEF StepFits
  <2>3. StepFits(taken)
    BY <1>4, <1>7, <1>8, <2>1, <2>2 DEF StepFits, PlanFits
  <2> QED BY <2>3 DEF taken
<1>10. CASE Node(k).kind # "gemm"
  <2>1. /\ taken.values = at /\ taken.capacity = capacity
        /\ taken.baked = baked /\ taken.launches = <<own>>
    BY <1>10 DEF PointwiseReglu, Step
  <2> HIDE DEF at, x, own, taken
  <2>2. LaunchesFit(capacity, <<own>>)
    BY <1>6, OneLaunchFits
  <2>3. StepFits(taken)
    BY <1>4, <2>1, <2>2 DEF StepFits, PlanFits, Laid, MemoryInv, Allocations
  <2> QED BY <2>3 DEF taken
<1> QED BY <1>9, <1>10

-----------------------------------------------------------------------------
LEMMA ConcatLaunchesFit ==
  ASSUME Laid, NEW k \in NodeIds, Node(k).op = "Concat"
  PROVE  LaunchesFit(capacity, ConcatLaunches(k))
<1> DEFINE node == Node(k)
           n == Len(node.in)
           S == {ConcatItems(node, i) : i \in 1..n}
<1>1. TensorsFit(capacity, values) /\ Manifest(graph)
  BY DEF Laid, MemoryInv
<1>2. n \in Nat /\ node.out \in Tensors(graph) /\ Ch(node.out) \in Nat
  BY <1>1, TensorFacts
<1>3. ASSUME NEW i \in 1..n PROVE LaunchFits(capacity, ConcatItems(node, i))
  <2> DEFINE use(c) == Use(values, node.out, ChannelOffset(node, i) + c)
  <2>1. k \in 1..Len(graph.nodes) /\ graph.nodes[k] = node
    BY DEF NodeIds, Nodes, Node
  <2>2. Ch(node.in[i]) \in Nat /\ ChannelOffset(node, i) \in Nat
    BY <1>1, <2>1, PartsFit, TensorFacts DEF ChannelOffset
  <2>3. ChannelOffset(node, i) + Ch(node.in[i]) <= Ch(node.out)
    BY <1>1, <2>1, PartsFit DEF ChannelOffset, Ch
  <2>4. ASSUME NEW item \in ConcatItems(node, i) PROVE WritesFit(capacity, item.writes)
    <3>1. PICK c \in 1..Ch(node.in[i]) : item.writes = {use(c)}
      BY DEF ConcatItems, Item
    <3>2. ChannelOffset(node, i) + c \in 1..Ch(node.out)
      <4> HIDE DEF node
      <4> QED BY <1>2, <2>2, <2>3
    <3>3. CellFits(capacity, use(c)[1])
      BY <1>1, <1>2, <3>2, UseFits
    <3> HIDE DEF use
    <3> QED BY <3>1, <3>3 DEF WritesFit
  <2> QED BY <2>4 DEF LaunchFits, WritesFit
<1>4. ConcatLaunches(k) = [i \in 1..n |-> ConcatItems(node, i)]
  BY DEF ConcatLaunches
<1> HIDE DEF n
<1>5. ConcatLaunches(k) \in Seq(S)
  BY <1>2, <1>4
<1>6. \A launch \in S : LaunchFits(capacity, launch)
  BY <1>3
<1> QED BY <1>5, <1>6 DEF LaunchesFit

LEMMA SpatialLaunchesFit ==
  ASSUME Laid, stage = "ready", NEW k \in Spatial
  PROVE  LaunchesFit(capacity, SpatialLaunches(k))
<1> DEFINE x == Node(k).in[1]
           result == Node(k).out
           into == Buffer("nhwc_in", 0)
           from == Buffer("nhwc_out", 0)
           in == UsesAt(Address(into, 0), x)
           out == UsesAt(Address(from, 0), result)
           first == Mixing(Uses(values, x), in)
           second == Mixing(in, out)
           third == Mixing(out, Uses(values, result))
<1>1. /\ TensorsFit(capacity, values) /\ Manifest(graph) /\ MemoryInv
      /\ into \in DOMAIN capacity /\ from \in DOMAIN capacity
  BY DEF Laid, MemoryInv, Allocations, SharedBuffers
<1>2. /\ x \in Tensors(graph) /\ Ch(x) \in Nat /\ result \in Tensors(graph) /\ Ch(result) \in Nat
  <2>1. k \in NodeIds
    BY DEF Spatial, SpatialConvolutions
  <2> QED BY <1>1, <2>1, TensorFacts
<1>3. /\ Extent(into) \in Nat /\ Ch(x) <= Extent(into)
      /\ Extent(from) \in Nat /\ Ch(result) <= Extent(from)
  <2>1. into[1] = "nhwc_in" /\ from[1] = "nhwc_out"
    BY DEF Buffer
  <2> HIDE DEF into, from
  <2>2. /\ Extent(into) = Largest({Node(j).in[1] : j \in Spatial})
        /\ Extent(from) = Largest({Node(j).out : j \in Spatial})
    BY <2>1 DEF Extent
  <2> QED BY <1>1, <2>2, SharedBounds
<1> HIDE DEF x, result, into, from
<1>4. /\ Fits(capacity, Address(into, 0), Ch(x))
      /\ Fits(capacity, Address(from, 0), Ch(result))
  BY <1>1, <1>2, <1>3, BufferFits
<1>5. WritesFit(capacity, in) /\ WritesFit(capacity, out) /\ WritesFit(capacity, Uses(values, result))
  BY <1>1, <1>2, <1>4, UsesAtFit, UsesFit
<1>6. LaunchFits(capacity, first) /\ LaunchFits(capacity, second) /\ LaunchFits(capacity, third)
  BY <1>5, MixingFits
<1>7. SpatialLaunches(k) = Append(Append(<<first>>, second), third)
  BY DEF SpatialLaunches, x, result, into, from
<1> HIDE DEF first, second, third
<1>8. LaunchesFit(capacity, Append(<<first>>, second))
  BY <1>6, OneLaunchFits, AppendedFits
<1> QED BY <1>6, <1>7, <1>8, AppendedFits

LEMMA ExecuteFits ==
  ASSUME Laid, stage = "ready", NEW k \in NodeIds
  PROVE  StepFits(Execute(k))
<1> DEFINE result == Node(k).out
<1>1. TensorsFit(capacity, values) /\ Manifest(graph) /\ MemoryInv
  BY DEF Laid, MemoryInv
<1>2. result \in Tensors(graph) /\ WritesFit(capacity, Uses(values, result))
  BY <1>1, TensorFacts, UsesFit
<1>3. ASSUME NEW launch,
             \A item \in launch : \E c \in 1..Ch(result) : item.writes = {Use(values, result, c)}
      PROVE  LaunchesFit(capacity, <<launch>>)
  <2>1. ASSUME NEW item \in launch PROVE WritesFit(capacity, item.writes)
    <3>1. PICK c \in 1..Ch(result) : item.writes = {Use(values, result, c)}
      BY <1>3
    <3>2. CellFits(capacity, Use(values, result, c)[1])
      BY <1>1, <1>2, UseFits
    <3> QED BY <3>1, <3>2 DEF WritesFit
  <2>2. LaunchFits(capacity, launch)
    BY <2>1 DEF LaunchFits, WritesFit
  <2> QED BY <2>2, OneLaunchFits
<1>4. LaunchesFit(capacity, <<ElementItems(k)>>)
  <2>1. \A item \in ElementItems(k) :
          \E c \in 1..Ch(result) : item.writes = {Use(values, result, c)}
    BY DEF ElementItems, Item
  <2> QED BY <1>3, <2>1
<1>5. LaunchesFit(capacity, SliceLaunches(k))
  <2>1. \A item \in SliceItems(k) :
          \E c \in 1..Ch(result) : item.writes = {Use(values, result, c)}
    BY DEF SliceItems, Item
  <2>2. LaunchesFit(capacity, <<SliceItems(k)>>)
    BY <1>3, <2>1
  <2> QED BY <2>2, NoLaunchFits DEF SliceLaunches
<1>6. LaunchesFit(capacity, MixingLaunches(k))
  BY <1>2, MixingFits, OneLaunchFits DEF MixingLaunches
<1>7. Node(k).op = "Concat" => LaunchesFit(capacity, ConcatLaunches(k))
  BY ConcatLaunchesFit
<1>8. Node(k).op = "Conv" /\ Node(k).kind = "spatial" /\ major >= 8
        => LaunchesFit(capacity, SpatialLaunches(k))
  BY SpatialLaunchesFit DEF Spatial, SpatialConvolutions
<1>9. LaunchesFit(capacity, Launches(k))
  <2> DEFINE elementwise == Node(k).op \in {"Add", "Mul", "Sub", "LeakyRelu", "Clip", "Sigmoid",
                                            "Reciprocal", "Round"}
             spatial == Node(k).op = "Conv" /\ Node(k).kind = "spatial" /\ major >= 8
  <2>1. CASE elementwise
    BY <1>4, <2>1 DEF Launches
  <2>2. CASE Node(k).op = "Slice"
    BY <1>5, <2>2 DEF Launches
  <2>3. CASE Node(k).op = "Concat"
    BY <1>7, <2>3 DEF Launches
  <2>4. CASE spatial
    BY <1>8, <2>4 DEF Launches
  <2>5. CASE ~elementwise /\ Node(k).op # "Slice" /\ Node(k).op # "Concat" /\ ~spatial
    BY <1>6, <2>5 DEF Launches
  <2> QED BY <2>1, <2>2, <2>3, <2>4, <2>5
<1>10. StepFits(Step(1, Launches(k)))
  BY <1>1, <1>9, PlainStepFits
<1>11. StepFits(PointwiseStep(k, 1, Node(k).in, result))
  BY <1>2, PointwiseStepFits
<1> QED BY <1>10, <1>11 DEF Execute

(***************************************************************************)
(* Whatever the schedule does at a node, alone or with a chain, it writes  *)
(* inside what is allocated.                                               *)
(***************************************************************************)
LEMMA ScheduleFits ==
  ASSUME Laid, stage = "ready", NEW k \in NodeIds
  PROVE  StepFits(ScheduleAt(k))
<1>1. StepFits(Step(1, <<>>))
  BY NoLaunchFits, PlainStepFits DEF Laid
<1>2. MatchesY0Tail(k) => StepFits(Y0Tail(k))
  BY Y0TailFits
<1>3. MatchesY1Tail(k) => StepFits(Y1Tail(k))
  BY Y1TailFits
<1>4. MatchesFeatureOutputs(k) => StepFits(FeatureOutputs(k))
  BY FeatureOutputsFits
<1>5. MatchesFeatureUpdate(k) => StepFits(FeatureUpdate(k))
  BY FeatureUpdateFits
<1>6. MatchesPointwiseReglu(k) => StepFits(PointwiseReglu(k))
  BY PointwiseRegluFits
<1>7. MatchesEpilogue(k) => StepFits(PointwiseEpilogue(k))
  BY PointwiseEpilogueFits
<1>8. IsReglu(k) => StepFits(Reglu(k))
  BY RegluFits
<1>9. StepFits(Execute(k))
  BY ExecuteFits
<1> QED BY <1>1, <1>2, <1>3, <1>4, <1>5, <1>6, <1>7, <1>8, <1>9 DEF ScheduleAt

-----------------------------------------------------------------------------
LEMMA PerformFits ==
  ASSUME NEW cap, NEW mem, MemoryFits(cap, mem), NEW launch, LaunchFits(cap, launch), NEW r
  PROVE  MemoryFits(cap, Perform(mem, launch, r))
<1> DEFINE written == UNION {i.writes : i \in launch}
<1>1. DOMAIN Perform(mem, launch, r) = CellsOf(written) \cup DOMAIN mem
  BY DEF Perform, Over
<1>2. ASSUME NEW cell \in CellsOf(written) PROVE CellFits(cap, cell)
  <2>1. PICK u \in written : cell = u[1]
    BY DEF CellsOf
  <2>2. PICK i \in launch : u \in i.writes
    BY <2>1
  <2> QED BY <2>1, <2>2 DEF LaunchFits
<1> HIDE DEF written
<1> QED BY <1>1, <1>2 DEF MemoryFits

\* The memory after each of the first m launches.
Performed(f, m, mem, launches, r) ==
  f = [i \in 0..m |-> IF i = 0 THEN mem ELSE Perform(f[i - 1], launches[i], r)]

LEMMA PerformedExists ==
  ASSUME NEW n \in Nat, NEW mem, NEW launches, NEW r
  PROVE  \E f : Performed(f, n, mem, launches, r)
<1> DEFINE T == {m \in 0..n : \E f : Performed(f, m, mem, launches, r)}
<1>1. 0 \in T
  <2> DEFINE f == [i \in 0..0 |-> mem]
  <2>1. Performed(f, 0, mem, launches, r)
    BY DEF Performed
  <2> QED BY <2>1
<1>2. ASSUME NEW m \in 1..n, m - 1 \in T PROVE m \in T
  <2>1. PICK f : Performed(f, m - 1, mem, launches, r)
    BY <1>2
  <2> DEFINE g == [i \in 0..m |-> IF i = m THEN Perform(f[m - 1], launches[m], r) ELSE f[i]]
  <2>2. \A i \in 0..(m - 1) : f[i] = IF i = 0 THEN mem ELSE Perform(f[i - 1], launches[i], r)
    BY <2>1 DEF Performed
  <2>3. ASSUME NEW i \in 0..m
        PROVE  g[i] = IF i = 0 THEN mem ELSE Perform(g[i - 1], launches[i], r)
    <3>1. CASE i = m
      <4>1. m - 1 \in 0..m /\ m - 1 # m /\ i # 0
        BY <3>1
      <4>2. g[m - 1] = f[m - 1]
        BY <4>1
      <4>3. g[i] = Perform(f[m - 1], launches[m], r)
        BY <3>1
      <4> HIDE DEF g
      <4> QED BY <3>1, <4>1, <4>2, <4>3
    <3>2. CASE i # m
      <4>1. i \in 0..(m - 1) /\ (i # 0 => i - 1 \in 0..m /\ i - 1 # m)
        BY <3>2
      <4>2. g[i] = f[i] /\ (i # 0 => g[i - 1] = f[i - 1])
        BY <3>2, <4>1
      <4> HIDE DEF g
      <4> QED BY <2>2, <4>1, <4>2
    <3> QED BY <3>1, <3>2
  <2>4. Performed(g, m, mem, launches, r)
    <3>1. g = [i \in 0..m |-> g[i]]
      OBVIOUS
    <3> HIDE DEF g
    <3> QED BY <2>3, <3>1 DEF Performed
  <2> QED BY <2>4
<1> HIDE DEF T
<1>3. 0..n \subseteq T
  BY <1>1, <1>2, UpTo
<1>4. n \in T
  BY <1>3
<1> QED BY <1>4 DEF T

LEMMA PerformAllFits ==
  ASSUME NEW cap, NEW mem, MemoryFits(cap, mem), NEW launches, LaunchesFit(cap, launches), NEW r
  PROVE  MemoryFits(cap, PerformAll(mem, launches, r))
<1> DEFINE n == Len(launches)
           after == CHOOSE f : Performed(f, n, mem, launches, r)
<1>1. n \in Nat /\ \A i \in 1..n : LaunchFits(cap, launches[i])
  BY DEF LaunchesFit
<1>2. PerformAll(mem, launches, r) = after[n]
  BY DEF PerformAll, Performed
<1>3. Performed(after, n, mem, launches, r)
  BY <1>1, PerformedExists
<1> HIDE DEF after, n
<1>4. \A i \in 0..n : after[i] = IF i = 0 THEN mem ELSE Perform(after[i - 1], launches[i], r)
  BY <1>3 DEF Performed
<1> DEFINE T == {m \in 0..n : MemoryFits(cap, after[m])}
<1>5. 0 \in T
  <2>1. 0 \in 0..n
    BY <1>1
  <2>2. after[0] = mem
    BY <1>4, <2>1
  <2> QED BY <2>1, <2>2
<1>6. ASSUME NEW m \in 1..n, m - 1 \in T PROVE m \in T
  <2>1. m \in 0..n /\ m # 0
    BY <1>1
  <2>2. after[m] = Perform(after[m - 1], launches[m], r)
    BY <1>4, <2>1
  <2>3. MemoryFits(cap, after[m - 1]) /\ LaunchFits(cap, launches[m])
    BY <1>1, <1>6
  <2> QED BY <2>1, <2>2, <2>3, PerformFits
<1> HIDE DEF T
<1>7. 0..n \subseteq T
  BY <1>1, <1>5, <1>6, UpTo
<1>8. n \in T
  BY <1>1, <1>7
<1> QED BY <1>2, <1>8 DEF T

\* A run adds to the allocations, and to what lies in them.
LEMMA RunFrame ==
  ASSUME MemoryInv, stage = "ready", UNCHANGED <<modelVars, slotVars, planVars>>,
         Extents(capacity'), DOMAIN capacity \subseteq DOMAIN capacity',
         TensorsFit(capacity', values'), PointersFit(capacity', baked'),
         LaunchesFit(capacity', recorded'), MemoryFits(capacity', memory')
  PROVE  MemoryInv'
<1>1. UNCHANGED <<graph, major, slot_bytes, stage>>
  BY DEF modelVars, slotVars, planVars
<1>2. /\ TensorsFit(capacity, values)' /\ PointersFit(capacity, baked)'
      /\ LaunchesFit(capacity, recorded)' /\ MemoryFits(capacity, memory)'
  BY <1>1, SameModel
<1>3. Extents(capacity)'
  BY <1>1, SameExtents
<1>4. Allocations'
  BY <1>1, <1>3 DEF MemoryInv, Allocations, SharedBuffers, Buffer
<1> QED BY <1>1, <1>2, <1>4 DEF MemoryInv

LEMMA StartFits ==
  ASSUME Laid, StartRun
  PROVE  MemoryInv'
<1> DEFINE filled == Filled(IF run = 0 THEN Inputs ELSE Inputs \ StateInputs, run + 1)
<1>1. /\ stage = "ready" /\ memory' = Over(filled, memory)
      /\ UNCHANGED <<modelVars, slotVars, planVars, capacity, values, baked, recorded>>
  BY DEF StartRun, fusionVars
<1>2. MemoryFits(capacity, filled)
  BY FilledFits, TensorFacts DEF Laid, MemoryInv
<1>3. MemoryFits(capacity, memory')
  <2>1. DOMAIN memory' = DOMAIN filled \cup DOMAIN memory
    BY <1>1 DEF Over
  <2> HIDE DEF filled
  <2> QED BY <1>2, <2>1 DEF MemoryFits, Laid, MemoryInv
<1> HIDE DEF filled
<1> QED BY <1>1, <1>3, RunFrame DEF Laid, MemoryInv, Allocations

\* A step of the schedule, launched or recorded.
LEMMA ScheduleStepFits ==
  ASSUME Laid, stage = "ready", index \in NodeIds, Advance(ScheduleAt(index)),
         \/ /\ memory' = PerformAll(memory, ScheduleAt(index).launches, run)
            /\ recorded' = recorded
         \/ /\ recorded' = recorded \o ScheduleAt(index).launches
            /\ memory' = memory
  PROVE  MemoryInv'
<1> DEFINE taken == ScheduleAt(index)
<1>1. StepFits(taken)
  BY ScheduleFits
<1>2. /\ values' = taken.values /\ capacity' = taken.capacity /\ baked' = taken.baked
      /\ UNCHANGED <<modelVars, slotVars, planVars>>
  BY DEF Advance
<1> HIDE DEF taken
<1>3. /\ Extents(capacity') /\ DOMAIN capacity \subseteq DOMAIN capacity'
      /\ TensorsFit(capacity', values') /\ PointersFit(capacity', baked')
      /\ LaunchesFit(capacity', taken.launches)
  BY <1>1, <1>2 DEF StepFits, PlanFits
<1>4. LaunchesFit(capacity', recorded) /\ MemoryFits(capacity', memory)
  BY <1>3, ExtentsGrow, AllFitStill DEF Laid, MemoryInv, Allocations
<1>5. MemoryFits(capacity', PerformAll(memory, taken.launches, run))
  BY <1>3, <1>4, PerformAllFits
<1>6. LaunchesFit(capacity', recorded \o taken.launches)
  BY <1>3, <1>4, JoinedFits
<1>7. LaunchesFit(capacity', recorded') /\ MemoryFits(capacity', memory')
  BY <1>4, <1>5, <1>6 DEF taken
<1> QED BY <1>2, <1>3, <1>7, RunFrame DEF Laid

LEMMA ReplayFits ==
  ASSUME Laid, stage = "ready", LaunchGraph
  PROVE  MemoryInv'
<1>1. /\ memory' = PerformAll(memory, recorded, run)
      /\ UNCHANGED <<modelVars, slotVars, planVars, capacity, values, baked, recorded>>
  BY DEF LaunchGraph, fusionVars
<1>2. MemoryFits(capacity, memory')
  BY <1>1, PerformAllFits DEF Laid, MemoryInv
<1> QED BY <1>1, <1>2, RunFrame DEF Laid, MemoryInv, Allocations

LEMMA MemoryStays ==
  ASSUME MemoryInv,
         UNCHANGED <<modelVars, slotVars, stage, capacity, values, baked, recorded, memory>>
  PROVE  MemoryInv'
<1>1. UNCHANGED <<graph, major, slot_bytes, intervals>>
  BY DEF modelVars, slotVars
<1>2. /\ TensorsFit(capacity, values)' /\ PointersFit(capacity, baked)'
      /\ LaunchesFit(capacity, recorded)' /\ MemoryFits(capacity, memory)'
  BY <1>1, SameModel DEF MemoryInv
<1>3. Extents(capacity)'
  BY <1>1, SameExtents DEF MemoryInv, Allocations
<1>4. Allocations'
  BY <1>1, <1>3 DEF MemoryInv, Allocations, SharedBuffers, Buffer
<1>5. (stage = "slots" =>
         intervals = [i \in 1..Len(Epilogues) |-> EpilogueInterval(Epilogues[i])])'
  BY <1>1, SameEpilogues DEF MemoryInv
<1> QED BY <1>2, <1>4, <1>5 DEF MemoryInv

LEMMA MemoryStep ==
  ASSUME PlannerInv, MemoryInv, [Next]_vars
  PROVE  MemoryInv'
<1>1. Laid
  BY DEF Laid, PlannerInv
<1>2. ASSUME mode # "idle" PROVE stage = "ready"
  BY <1>2 DEF PlannerInv
<1>3. CASE PlanStep
  <2>1. UNCHANGED <<baked, recorded, memory>>
    BY <1>3 DEF PlanStep, fusionVars
  <2>2. Plan
    BY <1>3 DEF PlanStep
  <2> QED BY <1>1, <2>1, <2>2, SlicesFit, CollectFits, PlaceFits, AllocateFits, SharedFits,
             ConcatsFit, ConfigureFits DEF Plan, Laid
<1>4. CASE StartRun
  BY <1>1, <1>4, StartFits
<1>5. CASE LaunchStep
  BY <1>1, <1>2, <1>5, ScheduleStepFits DEF LaunchStep
<1>6. CASE RecordStep
  BY <1>1, <1>2, <1>6, ScheduleStepFits DEF RecordStep
<1>7. CASE EndSchedule \/ EndCapture
  <2>1. UNCHANGED <<modelVars, slotVars, stage, capacity, values, baked, recorded, memory>>
    BY <1>7 DEF EndSchedule, EndCapture, planVars, fusionVars
  <2> QED BY <2>1, MemoryStays
<1>8. CASE LaunchGraph
  <2>1. stage = "ready"
    BY <1>2, <1>8 DEF LaunchGraph
  <2> QED BY <1>1, <1>8, <2>1, ReplayFits
<1>9. CASE UNCHANGED vars
  <2>1. UNCHANGED <<modelVars, slotVars, stage, capacity, values, baked, recorded, memory>>
    BY <1>9 DEF vars, planVars, fusionVars
  <2> QED BY <2>1, MemoryStays
<1> QED BY <1>3, <1>4, <1>5, <1>6, <1>7, <1>8, <1>9 DEF Next

LEMMA MemoryInductive == Spec => []MemoryInv
<1>1. PlannerInv /\ MemoryInv /\ [Next]_vars => MemoryInv'
  BY MemoryStep
<1> QED BY <1>1, MemoryInit, PlannerInductive, PTL DEF Spec

(***************************************************************************)
(* model_loader.cpp, memory_planner.cpp, fusion_registry.cpp: for every    *)
(* graph whose shapes add up and every device, each tensor has an address  *)
(* in an allocation with room for all of it, whether it is still in the    *)
(* arena, a view of an input, in a slot or buffer it shares, a part of a   *)
(* Concat or a bound state.                                                *)
(***************************************************************************)
THEOREM TensorsHaveRoom == Spec => []TensorsFit(capacity, values)
<1>1. MemoryInv => TensorsFit(capacity, values)
  BY DEF MemoryInv
<1> QED BY <1>1, MemoryInductive, PTL

(***************************************************************************)
(* execution_plan.cpp, cuda_graph_executor.cpp: for every graph whose      *)
(* shapes add up and every device, no launch of a schedule, made directly  *)
(* or replayed with the addresses of an earlier run, writes outside of     *)
(* what is allocated.                                                      *)
(***************************************************************************)
THEOREM AllWritesStayInside == Spec => []WritesStayInside
<1>1. MemoryInv => WritesStayInside
  BY DEF MemoryInv, MemoryFits, CellFits, WritesStayInside
<1> QED BY <1>1, MemoryInductive, PTL

-----------------------------------------------------------------------------
\* What Init has picked: a convolution, one of the kernels for it, a block.
Dispatched ==
  /\ shape \in Shapes
  /\ \E cc \in {7, 8} : kernel \in KernelsFor(shape, cc)
  /\ block \in 0..(DivideUp(shape.channels, kernel.block) - 1)

\* The warps that hold different channels, and the channel tiles of each.
Groups == kernel.warps \div kernel.columns
Each == kernel.block \div Groups

Kernels ==
  {Generic, PointwiseFallback, PointwiseMma, PointwiseMmaSmall, PointwiseBalanced,
   SpatialMma}

(***************************************************************************)
(* The work of a block is divided evenly: its warps stand in rows of equal *)
(* length, and its channels are dealt to the rows.                         *)
(***************************************************************************)
LEMMA Quotients ==
  ASSUME NEW n \in Nat, n > 0, NEW d \in Nat
  PROVE  (n * d) \div n = d
<1>1. (n * d + 0) \div n = d
  BY RemainderOf
<1> QED BY <1>1

LEMMA KernelFacts ==
  ASSUME kernel \in Kernels
  PROVE  /\ Groups \in Nat /\ Groups > 0 /\ Each \in Nat /\ Each > 0
         /\ kernel.columns \in Nat /\ kernel.columns > 0
         /\ kernel.warps \in Nat /\ kernel.warps = kernel.columns * Groups
         /\ kernel.block \in Nat /\ kernel.block = Groups * Each
         /\ kernel.warps > 0 /\ kernel.block > 0
<1>1. PICK h \in Nat : BlockTiles = 2 * h /\ h > 0
  <2> DEFINE q == BlockTiles \div 2
  <2>1. BlockTiles \in Nat /\ BlockTiles % 2 = 0 /\ BlockTiles > 0
    BY BlockTilesAssumption
  <2>2. q \in Nat /\ BlockTiles = 2 * q
    BY <2>1
  <2> HIDE DEF q
  <2> QED BY <2>1, <2>2
<1> DEFINE b == BlockTiles
<1>2. /\ b \in Nat /\ b > 0 /\ b = 2 * h
      /\ (1 * b) \div 1 = b /\ (2 * b) \div 2 = b
      /\ (b * 2) \div b = 2 /\ (b * 1) \div b = 1
      /\ (2 * h) \div 2 = h /\ (1 * (2 * b)) \div 1 = 2 * b
      /\ ((2 * b) * 1) \div (2 * b) = 1
  BY <1>1, Quotients
<1>3. CASE kernel \in {Generic, PointwiseFallback}
  <2>1. kernel.warps = b /\ kernel.columns = 1 /\ kernel.block = b
    <3>1. CASE kernel = PointwiseFallback
      BY <3>1 DEF PointwiseFallback
    <3>2. CASE kernel = Generic
      BY <3>2 DEF Generic, PointwiseFallback
    <3> QED BY <1>3, <3>1, <3>2
  <2> HIDE DEF b
  <2>2. Groups = b /\ Each = 1
    BY <1>2, <2>1 DEF Groups, Each
  <2> QED BY <1>2, <2>1, <2>2
<1>4. CASE kernel = PointwiseMma
  <2>1. kernel.warps = b * 2 /\ kernel.columns = b /\ kernel.block = 2 * b
    BY <1>2, <1>4 DEF PointwiseMma
  <2> HIDE DEF b
  <2>2. Groups = 2 /\ Each = b
    BY <1>2, <2>1 DEF Groups, Each
  <2> QED BY <1>2, <2>1, <2>2
<1>5. CASE kernel = PointwiseMmaSmall
  <2>1. kernel.warps = b * 2 /\ kernel.columns = b /\ kernel.block = b
    BY <1>2, <1>5 DEF PointwiseMmaSmall, PointwiseMma
  <2> HIDE DEF b
  <2>2. Groups = 2 /\ Each = h
    BY <1>1, <1>2, <2>1 DEF Groups, Each
  <2> QED BY <1>1, <1>2, <2>1, <2>2
<1>6. CASE kernel = PointwiseBalanced
  <2>1. kernel.warps = 2 * b /\ kernel.columns = 2 /\ kernel.block = b * 2
    BY <1>2, <1>6 DEF PointwiseBalanced, PointwiseMma
  <2> HIDE DEF b
  <2>2. Groups = b /\ Each = 2
    BY <1>2, <2>1 DEF Groups, Each
  <2> QED BY <1>2, <2>1, <2>2
<1>7. CASE kernel = SpatialMma
  <2>1. kernel.warps = 2 * b /\ kernel.columns = 1 /\ kernel.block = 2 * b
    BY <1>2, <1>7 DEF SpatialMma, PointwiseMma
  <2> HIDE DEF b
  <2>2. Groups = 2 * b /\ Each = 1
    BY <1>2, <2>1 DEF Groups, Each
  <2> QED BY <1>2, <2>1, <2>2
<1> QED BY <1>3, <1>4, <1>5, <1>6, <1>7 DEF Kernels

LEMMA KernelKinds ==
  ASSUME kernel \in Kernels
  PROVE  /\ kernel.loaders \in Nat /\ kernel.loaders > 0 /\ kernel.loaders <= kernel.warps
         /\ kernel.tiles \in {1, 2} /\ kernel.depth \in {1, 2}
         /\ kernel.depth = 1 \/ kernel.bounded \/ kernel = SpatialMma
         /\ kernel.bounded <=> kernel = Generic
         /\ kernel.bounded \in BOOLEAN
         /\ kernel.exits \in {"warp", "block", "never"}
         /\ kernel \in {Generic, SpatialMma} => kernel.exits # "warp"
<1>1. BlockTiles \in Nat /\ BlockTiles > 0
  BY BlockTilesAssumption
<1> DEFINE Facts(bounded) ==
      /\ kernel.loaders \in Nat /\ kernel.loaders > 0 /\ kernel.loaders <= kernel.warps
      /\ kernel.tiles \in {1, 2} /\ kernel.depth \in {1, 2}
      /\ kernel.bounded = bounded
      /\ kernel.exits \in {"warp", "block", "never"}
<1>2. ASSUME kernel = PointwiseFallback
      PROVE  Facts(FALSE) /\ kernel.depth = 1
  BY <1>1, <1>2 DEF PointwiseFallback
<1>3. ASSUME kernel = PointwiseMma
      PROVE  Facts(FALSE) /\ kernel.depth = 1
  BY <1>1, <1>3 DEF PointwiseMma
<1>4. ASSUME kernel = PointwiseMmaSmall
      PROVE  Facts(FALSE) /\ kernel.depth = 1
  BY <1>1, <1>4 DEF PointwiseMmaSmall, PointwiseMma
<1>5. ASSUME kernel = PointwiseBalanced
      PROVE  Facts(FALSE) /\ kernel.depth = 1
  BY <1>1, <1>5 DEF PointwiseBalanced, PointwiseMma
<1>6. ASSUME kernel = SpatialMma
      PROVE  Facts(FALSE) /\ kernel.depth = 2 /\ kernel.exits = "block"
  BY <1>1, <1>6 DEF SpatialMma, PointwiseMma
<1>7. ASSUME kernel = Generic
      PROVE  Facts(TRUE) /\ kernel.depth = 2 /\ kernel.exits = "never"
  BY <1>1, <1>7 DEF Generic, PointwiseFallback
<1> QED BY <1>2, <1>3, <1>4, <1>5, <1>6, <1>7 DEF Kernels

(***************************************************************************)
(* execution_plan.cpp:364-435: what a kernel is given.  Only the spatial   *)
(* kernels of compute capability 8 get blocks that are not whole.          *)
(***************************************************************************)
LEMMA DispatchedKernel ==
  ASSUME Dispatched
  PROVE  \/ kernel = Generic
         \/ kernel = SpatialMma
         \/ /\ kernel \in {PointwiseFallback, PointwiseMma, PointwiseMmaSmall, PointwiseBalanced}
            /\ shape.channels % kernel.block = 0
<1>1. PICK cc \in {7, 8} : kernel \in KernelsFor(shape, cc)
  BY DEF Dispatched
<1>2. CASE ~FillsBlocks(shape)
  BY <1>1, <1>2 DEF KernelsFor
<1>3. CASE FillsBlocks(shape) /\ kernel = PointwiseFallback
  BY <1>3 DEF FillsBlocks, PointwiseFallback
<1>4. CASE FillsBlocks(shape) /\ kernel = PointwiseMmaSmall
  BY <1>4 DEF FillsBlocks, PointwiseMmaSmall, PointwiseMma
<1>5. CASE /\ shape.channels % (2 * BlockTiles) = 0
           /\ kernel \in {PointwiseMma, PointwiseBalanced}
  <2>1. CASE kernel = PointwiseMma
    BY <1>5, <2>1 DEF PointwiseMma
  <2>2. CASE kernel = PointwiseBalanced
    BY <1>5, <2>2 DEF PointwiseMma, PointwiseBalanced
  <2> QED BY <1>5, <2>1, <2>2
<1>6. ASSUME FillsBlocks(shape)
      PROVE  \/ kernel \in {SpatialMma, PointwiseFallback, PointwiseMmaSmall}
             \/ /\ shape.channels % (2 * BlockTiles) = 0
                /\ kernel \in {PointwiseMma, PointwiseBalanced}
  BY <1>1, <1>6 DEF KernelsFor, SpatialFallback
<1>7. CASE FillsBlocks(shape)
  BY <1>3, <1>4, <1>5, <1>6, <1>7
<1> QED BY <1>2, <1>7

LEMMA DispatchFacts ==
  ASSUME Dispatched
  PROVE  /\ kernel \in Kernels
         /\ shape.channels \in Nat /\ shape.channels > 0
         /\ shape.reduction \in Nat /\ shape.reduction > 0
         /\ block \in Nat /\ kernel.block * block < shape.channels
         /\ Steps \in Nat /\ Steps > 0
         /\ \A k \in Nat : k < Steps <=> kernel.depth * k < shape.reduction
<1>1. shape \in Shapes
  BY DEF Dispatched
<1>2. /\ shape.channels \in Nat /\ shape.channels > 0
      /\ shape.reduction \in Nat /\ shape.reduction > 0
  BY <1>1, ShapesAssumption DEF Shape
<1>3. kernel \in Kernels
  BY DispatchedKernel DEF Kernels
<1>4. /\ kernel.block \in Nat /\ kernel.block > 0
      /\ kernel.depth \in Nat /\ kernel.depth > 0
  BY <1>3, KernelFacts, KernelKinds
<1>5. DivideUp(shape.channels, kernel.block) \in Nat
  BY <1>2, <1>4, CeilingBounds DEF DivideUp
<1>6. block \in Nat /\ block < DivideUp(shape.channels, kernel.block)
  BY <1>5 DEF Dispatched
<1>7. kernel.block * block < shape.channels
  BY <1>2, <1>4, <1>6, CeilingBounds DEF DivideUp
<1>8. /\ Steps \in Nat /\ Steps > 0
      /\ \A k \in Nat : k < Steps <=> kernel.depth * k < shape.reduction
  <2>1. ASSUME NEW k \in Nat
        PROVE  /\ Steps \in Nat /\ Steps > 0
               /\ k < Steps <=> kernel.depth * k < shape.reduction
    BY <1>2, <1>4, CeilingBounds DEF Steps, DivideUp
  <2> QED BY <2>1
<1> QED BY <1>2, <1>3, <1>6, <1>7, <1>8

(***************************************************************************)
(* The warps of a block hold its channels, all of them and no others.      *)
(***************************************************************************)
LEMMA RowsInBlock ==
  ASSUME Dispatched, NEW w \in Warps, NEW r \in Rows(w)
  PROVE  /\ r \in Nat
         /\ kernel.block * block <= r
         /\ r < kernel.block * block + kernel.block
<1> DEFINE g == w \div kernel.columns
<1>1. /\ Groups \in Nat /\ Each \in Nat /\ kernel.columns \in Nat /\ kernel.columns > 0
      /\ kernel.block \in Nat /\ kernel.block = Groups * Each /\ block \in Nat
      /\ w \in Nat /\ w < kernel.columns * Groups
  BY DispatchFacts, KernelFacts DEF Warps
<1>2. g \in Nat /\ g < Groups
  BY <1>1, Quotient, QuotientBelow
<1>3. PICK i \in 0..(Each - 1) : r = block * kernel.block + g * Each + i
  BY DEF Rows, Groups, Each
<1> HIDE DEF g
<1>4. Each * (g + 1) <= Each * Groups
  BY <1>1, <1>2, ProductMonotone
<1>5. /\ Each * (g + 1) = g * Each + Each /\ Each * Groups = Groups * Each
      /\ g * Each \in Nat /\ block * kernel.block = kernel.block * block
      /\ kernel.block * block \in Nat
  BY <1>1, <1>2
<1>6. i \in Nat /\ i < Each
  BY <1>1, <1>3
<1> QED BY <1>1, <1>3, <1>4, <1>5, <1>6

LEMMA EveryRowHasAWarp ==
  ASSUME Dispatched, NEW r \in 0..(kernel.block - 1)
  PROVE  \E w \in Warps : block * kernel.block + r \in Rows(w)
<1> DEFINE g == r \div Each
           i == r % Each
           w == kernel.columns * g
<1>1. /\ Groups \in Nat /\ Each \in Nat /\ Each > 0
      /\ kernel.columns \in Nat /\ kernel.columns > 0
      /\ kernel.block = Groups * Each /\ kernel.block \in Nat
      /\ kernel.warps = kernel.columns * Groups /\ kernel.warps \in Nat
  BY DispatchFacts, KernelFacts
<1>2. r \in Nat /\ r < Each * Groups
  BY <1>1
<1>3. g \in Nat /\ g < Groups
  BY <1>1, <1>2, Quotient, QuotientBelow
<1>4. i \in 0..(Each - 1) /\ r = Each * g + i
  BY <1>1, <1>2
<1> HIDE DEF g, i
<1>5. w \in Nat /\ w \div kernel.columns = g
  BY <1>1, <1>3, Quotients
<1>6. w < kernel.warps
  <2>1. kernel.columns * (g + 1) <= kernel.columns * Groups
    BY <1>1, <1>3, ProductMonotone
  <2>2. kernel.columns * (g + 1) = w + kernel.columns
    BY <1>1, <1>3
  <2> QED BY <1>1, <1>5, <2>1, <2>2
<1> HIDE DEF w
<1>7. w \in Warps
  BY <1>1, <1>5, <1>6 DEF Warps
<1>8. block * kernel.block + r = block * kernel.block + (w \div kernel.columns) * Each + i
  <2>1. block \in Nat /\ block * kernel.block \in Nat
    BY <1>1, DispatchFacts
  <2> DEFINE p == block * kernel.block
  <2>2. p \in Nat
    BY <2>1
  <2> HIDE DEF p
  <2>3. p + r = p + g * Each + i
    BY <1>1, <1>3, <1>4, <2>2
  <2> QED BY <1>5, <2>3 DEF p
<1>9. block * kernel.block + r \in Rows(w)
  BY <1>4, <1>8 DEF Rows, Groups, Each
<1> QED BY <1>7, <1>9

(***************************************************************************)
(* pointwise_conv.cu:22 and 137, spatial_conv.cu:25: no warp returns in    *)
(* front of a barrier, whichever of its channels exist.                    *)
(***************************************************************************)
LEMMA WholeBlocks ==
  ASSUME Dispatched, shape.channels % kernel.block = 0
  PROVE  kernel.block * block + kernel.block <= shape.channels
<1> DEFINE q == shape.channels \div kernel.block
           b == kernel.block
<1>1. b \in Nat /\ b > 0 /\ block \in Nat /\ shape.channels \in Nat /\ b * block < shape.channels
  BY DispatchFacts, KernelFacts
<1>2. q \in Nat /\ shape.channels = b * q
  <2>1. shape.channels = b * q + (shape.channels % b)
    BY <1>1
  <2>2. q \in Nat
    BY <1>1, Quotient
  <2> QED BY <1>1, <2>1, <2>2
<1> HIDE DEF q, b
<1>3. block < q
  <2>1. q <= block => b * q <= b * block
    BY <1>1, <1>2, ProductMonotone
  <2>2. b * block \in Nat /\ b * q \in Nat
    BY <1>1, <1>2
  <2> QED BY <1>1, <1>2, <2>1, <2>2
<1>4. b * (block + 1) <= b * q
  BY <1>1, <1>2, <1>3, ProductMonotone
<1>5. b * (block + 1) = b * block + b
  BY <1>1
<1> QED BY <1>2, <1>4, <1>5 DEF b

LEMMA NobodyExits ==
  ASSUME Dispatched, NEW w \in Warps
  PROVE  ~Exits(w)
<1>1. kernel \in Kernels /\ block * kernel.block = kernel.block * block
  BY DispatchFacts, KernelFacts
<1>2. CASE kernel.exits = "warp"
  <2>1. shape.channels % kernel.block = 0
    BY <1>1, <1>2, DispatchedKernel, KernelKinds
  <2>2. kernel.block * block + kernel.block <= shape.channels
    BY <2>1, WholeBlocks
  <2>3. \E r : r \in Rows(w)
    <3>1. 0 \in 0..(Each - 1)
      BY <1>1, KernelFacts
    <3> QED BY <3>1 DEF Rows, Each, Groups
  <2>4. PICK r \in Rows(w) : TRUE
    BY <2>3
  <2>5. r \in Nat /\ r < kernel.block * block + kernel.block
    BY RowsInBlock
  <2>6. r < shape.channels
    BY <1>1, <2>2, <2>5, DispatchFacts, KernelFacts
  <2>7. r >= shape.channels => FALSE
    BY <2>5, <2>6, DispatchFacts
  <2> QED BY <1>2, <2>7 DEF Exits
<1>3. CASE kernel.exits # "warp"
  <2>1. kernel.block * block < shape.channels /\ kernel.block * block \in Nat
    BY <1>1, DispatchFacts, KernelFacts
  <2> QED BY <1>1, <1>3, <2>1, DispatchFacts DEF Exits
<1> QED BY <1>2, <1>3

-----------------------------------------------------------------------------
(***************************************************************************)
(* The sum of the first k steps: their slices in order, each once.         *)
(***************************************************************************)
End(k) ==
  IF kernel.bounded /\ k * kernel.depth > shape.reduction
  THEN shape.reduction ELSE k * kernel.depth
Summed(k) == [i \in 1..End(k) |-> i - 1]

LEMMA Consecutive ==
  ASSUME NEW a \in Nat, NEW b \in Nat, a <= b
  PROVE  [i \in 1..a |-> i - 1] \o [i \in 1..(b - a) |-> a + i - 1] = [i \in 1..b |-> i - 1]
OBVIOUS

LEMMA SumGrows ==
  ASSUME Dispatched, NEW k \in Nat, k < Steps
  PROVE  /\ Summed(k) \o SlicesOf(k) = Summed(k + 1)
         /\ Summed(k + 1) \in Seq(Int)
<1> DEFINE d == kernel.depth
           r == shape.reduction
           a == k * d
           b == End(k + 1)
<1>1. /\ d \in {1, 2} /\ r \in Nat /\ kernel.bounded \in BOOLEAN
      /\ d * k < r
  BY DispatchFacts, KernelKinds
<1>2. a \in Nat /\ a < r /\ (k + 1) * d = a + d /\ a + d \in Nat
  BY <1>1
<1>3. End(k) = a
  BY <1>1, <1>2 DEF End
<1>4. b \in Nat /\ a <= b
  BY <1>1, <1>2 DEF End
<1>5. SlicesOf(k) = [i \in 1..(b - a) |-> a + i - 1]
  BY DEF SlicesOf, End
<1> HIDE DEF a, b
<1>6. [i \in 1..a |-> i - 1] \o [i \in 1..(b - a) |-> a + i - 1] = [i \in 1..b |-> i - 1]
  BY <1>2, <1>4, Consecutive
<1>7. [i \in 1..b |-> i - 1] \in Seq(Int)
  BY <1>4
<1> QED BY <1>3, <1>5, <1>6, <1>7 DEF Summed, b

\* execution_plan.cpp:412-435 does not test it; the bundled models meet it.
FillsSpatialMma ==
  kernel = SpatialMma => /\ shape.channels % kernel.block = 0
                         /\ shape.reduction % kernel.depth = 0

LEMMA SumIsComplete ==
  ASSUME Dispatched, FillsSpatialMma
  PROVE  Summed(Steps) = [i \in 1..shape.reduction |-> i - 1]
<1> DEFINE d == kernel.depth
           r == shape.reduction
<1>1. /\ r \in Nat /\ d \in {1, 2} /\ Steps \in Nat /\ Steps > 0
      /\ kernel.bounded \in BOOLEAN
      /\ d = 1 \/ kernel.bounded \/ kernel = SpatialMma
  BY DispatchFacts, KernelKinds
<1>2. d * (Steps - 1) < r /\ d * Steps >= r
  <2>1. Steps - 1 \in Nat /\ Steps - 1 < Steps /\ ~(Steps < Steps)
    BY <1>1
  <2>2. d * (Steps - 1) < r /\ ~(d * Steps < r)
    BY <1>1, <2>1, DispatchFacts
  <2> QED BY <1>1, <2>2
<1>3. kernel.bounded \/ d = 1 \/ (r % 2 = 0 /\ d = 2)
  BY <1>1 DEF FillsSpatialMma
<1>4. End(Steps) = r
  <2> HIDE DEF d, r
  <2>1. CASE d = 1
    BY <1>1, <1>2, <2>1 DEF End, d, r
  <2>2. CASE d = 2 /\ kernel.bounded
    BY <1>1, <1>2, <2>2 DEF End, d, r
  <2>3. CASE d = 2 /\ r % 2 = 0
    <3>1. 2 * Steps = r
      BY <1>1, <1>2, <2>3
    <3>2. Steps * kernel.depth = r
      BY <1>1, <2>3, <3>1 DEF d
    <3> QED BY <1>1, <3>2 DEF End, r
  <2> QED BY <1>1, <1>3, <2>1, <2>2, <2>3
<1> QED BY <1>4 DEF Summed

-----------------------------------------------------------------------------
(***************************************************************************)
(* The inductive invariant: the barriers keep the warps in step, a tile is *)
(* written between the barriers that keep its readers out, and what a copy *)
(* still has to write is its own part of the tile being filled.            *)
(***************************************************************************)
Copy == [tile : 0..(kernel.tiles - 1), step : Nat]

Labels ==
  {"enter", "load", "wait", "arrive", "prefetch", "multiply", "leave", "store", "done"}

PipelineTyped ==
  /\ strict \in BOOLEAN
  /\ pc \in [Warps -> Labels]
  /\ step \in [Warps -> Nat]
  /\ tile \in [0..(kernel.tiles - 1) -> [Loaders -> Int]]
  /\ copies \in [Warps -> SUBSET Copy]
  /\ \A w \in Warps : w \notin Loaders => copies[w] = {}
  /\ sum \in [Warps -> Seq(Int)]
  /\ stored \in [Warps -> SUBSET Nat]

TileOf(k) == k % kernel.tiles
CopyOf(k) == [tile |-> TileOf(k), step |-> k]

\* Warp w has brought in its part of step k, or a copy will when it lands.
Fetched(w, k) ==
  w \in Loaders => tile[TileOf(k)][w] = k \/ CopyOf(k) \in copies[w]

\* In front of the barrier that completes the tile of step k.
Filling(w, k) ==
  /\ pc[w] \in {"enter", "load", "wait", "arrive"}
  /\ step[w] = k
  /\ sum[w] = Summed(k)
  /\ copies[w] \subseteq IF pc[w] = "wait" THEN {CopyOf(k)} ELSE {}
  /\ pc[w] \in {"wait", "arrive"} => Fetched(w, k)

\* Between that barrier and the one behind the multiplication.  Only the
\* other tile can be written.
Using(w, k) ==
  /\ pc[w] \in {"prefetch", "multiply", "leave"}
  /\ pc[w] = "prefetch" => kernel.tiles = 2
  /\ step[w] = k
  /\ w \in Loaders => tile[TileOf(k)][w] = k
  /\ sum[w] = Summed(IF pc[w] = "leave" THEN k + 1 ELSE k)
  /\ copies[w] \subseteq IF kernel.tiles = 2 THEN {CopyOf(k + 1)} ELSE {}
  /\ kernel.tiles = 2 /\ pc[w] # "prefetch" /\ k + 1 < Steps => Fetched(w, k + 1)

Finishing(w) == pc[w] \in {"store", "done"} /\ sum[w] = Summed(Steps)

RowsStored(w) ==
  stored[w] = IF pc[w] = "done"
              THEN {r \in Rows(w) : kernel.bounded => r < shape.channels} ELSE {}

\* The warps move through the steps together, from barrier to barrier.
InStep ==
  \/ \E k \in Nat : k < Steps /\ \A w \in Warps : Filling(w, k)
  \/ \E k \in Nat : k < Steps /\ \A w \in Warps : Using(w, k)
  \/ \A w \in Warps : Finishing(w)

PipelineInv ==
  /\ Dispatched
  /\ PipelineTyped
  /\ \A w \in Warps : RowsStored(w)
  /\ InStep

LEMMA KernelNumbers ==
  ASSUME Dispatched
  PROVE  /\ 0 \in Warps /\ 0 \in Loaders /\ Loaders \subseteq Warps
         /\ \A w \in Warps : w \in Nat
         /\ kernel.tiles \in {1, 2}
         /\ Steps \in Nat /\ Steps > 0
         /\ \A k \in Nat : TileOf(k) \in 0..(kernel.tiles - 1) /\ CopyOf(k) \in Copy
         /\ kernel.tiles = 2 => \A k \in Nat : TileOf(k + 1) # TileOf(k)
<1>1. kernel \in Kernels /\ Steps \in Nat /\ Steps > 0
  BY DispatchFacts
<1>2. /\ kernel.warps \in Nat /\ kernel.warps > 0 /\ kernel.loaders \in Nat
      /\ kernel.loaders > 0 /\ kernel.loaders <= kernel.warps /\ kernel.tiles \in {1, 2}
  BY <1>1, KernelFacts, KernelKinds
<1>3. ASSUME NEW k \in Nat
      PROVE  TileOf(k) \in 0..(kernel.tiles - 1)
  BY <1>2 DEF TileOf
<1>4. ASSUME NEW k \in Nat, kernel.tiles = 2
      PROVE  TileOf(k + 1) # TileOf(k)
  BY <1>4 DEF TileOf
<1> QED BY <1>1, <1>2, <1>3, <1>4 DEF Warps, Loaders, CopyOf, Copy

LEMMA SameLaunch ==
  ASSUME UNCHANGED launchVars
  PROVE  /\ kernel' = kernel /\ shape' = shape /\ block' = block /\ strict' = strict
         /\ Dispatched => Dispatched'
         /\ Warps' = Warps /\ Loaders' = Loaders /\ Steps' = Steps /\ Copy' = Copy
         /\ \A k : Summed(k)' = Summed(k) /\ TileOf(k)' = TileOf(k) /\ CopyOf(k)' = CopyOf(k)
         /\ \A w : Rows(w)' = Rows(w)
<1>1. kernel' = kernel /\ shape' = shape /\ block' = block /\ strict' = strict
  BY DEF launchVars
<1>2. Dispatched => Dispatched'
  BY <1>1 DEF Dispatched
<1>3. Warps' = Warps /\ Loaders' = Loaders /\ Steps' = Steps /\ Copy' = Copy
  BY <1>1 DEF Warps, Loaders, Steps, Copy
<1>4. ASSUME NEW k
      PROVE  Summed(k)' = Summed(k) /\ TileOf(k)' = TileOf(k) /\ CopyOf(k)' = CopyOf(k)
  BY <1>1 DEF Summed, End, TileOf, CopyOf
<1>5. ASSUME NEW w
      PROVE  Rows(w)' = Rows(w)
  BY <1>1 DEF Rows
<1> QED BY <1>1, <1>2, <1>3, <1>4, <1>5

LEMMA PipelineInit == BlockInit => PipelineInv
<1> SUFFICES ASSUME BlockInit PROVE PipelineInv
  OBVIOUS
<1>1. Dispatched
  BY DEF BlockInit, Dispatched
<1>2. End(0) = 0
  <2>1. kernel.depth \in {1, 2} /\ shape.reduction \in Nat
    BY <1>1, DispatchFacts, KernelKinds
  <2> QED BY <2>1 DEF End
<1>3. Summed(0) = <<>>
  BY <1>2 DEF Summed
<1>4. PipelineTyped
  BY <1>1, KernelNumbers DEF BlockInit, PipelineTyped, Labels, Copy, Stale
<1>5. \A w \in Warps : RowsStored(w)
  BY DEF BlockInit, RowsStored
<1>6. \A w \in Warps : Filling(w, 0)
  BY <1>3 DEF BlockInit, Filling
<1>7. InStep
  BY <1>1, <1>6, KernelNumbers DEF InStep
<1> QED BY <1>1, <1>4, <1>5, <1>7 DEF PipelineInv

-----------------------------------------------------------------------------
\* A step of one warp, which leaves the others' state and their parts alone.
StepOf(w) ==
  /\ UNCHANGED launchVars
  /\ step' = step
  /\ \A v \in Warps : v # w =>
       /\ pc'[v] = pc[v] /\ sum'[v] = sum[v] /\ copies'[v] = copies[v] /\ stored'[v] = stored[v]
       /\ v \in Loaders => \A t \in 0..(kernel.tiles - 1) : tile'[t][v] = tile[t][v]

LEMMA OthersKeep ==
  ASSUME PipelineInv, NEW w \in Warps, StepOf(w), NEW v \in Warps, v # w
  PROVE  /\ \A k \in Nat : Filling(v, k) => Filling(v, k)'
         /\ \A k \in Nat : Using(v, k) => Using(v, k)'
         /\ Finishing(v) => Finishing(v)'
         /\ RowsStored(v)'
<1>1. /\ pc'[v] = pc[v] /\ sum'[v] = sum[v] /\ copies'[v] = copies[v] /\ step'[v] = step[v]
      /\ stored'[v] = stored[v]
      /\ v \in Loaders => \A t \in 0..(kernel.tiles - 1) : tile'[t][v] = tile[t][v]
  BY DEF StepOf
<1>2. /\ kernel' = kernel /\ shape' = shape
      /\ Warps' = Warps /\ Loaders' = Loaders /\ Steps' = Steps
      /\ \A k : Summed(k)' = Summed(k) /\ TileOf(k)' = TileOf(k) /\ CopyOf(k)' = CopyOf(k)
      /\ Rows(v)' = Rows(v)
  BY SameLaunch DEF StepOf
<1>3. \A k \in Nat : TileOf(k) \in 0..(kernel.tiles - 1)
  BY KernelNumbers DEF PipelineInv
<1>4. ASSUME NEW k \in Nat
      PROVE  Fetched(v, k)' <=> Fetched(v, k)
  BY <1>1, <1>2, <1>3 DEF Fetched
<1>5. ASSUME NEW k \in Nat, Filling(v, k)
      PROVE  Filling(v, k)'
  BY <1>1, <1>2, <1>4, <1>5 DEF Filling
<1>6. ASSUME NEW k \in Nat, Using(v, k)
      PROVE  Using(v, k)'
  <2>1. k + 1 \in Nat
    OBVIOUS
  <2>2. Fetched(v, k + 1)' <=> Fetched(v, k + 1)
    BY <1>4, <2>1
  <2> QED BY <1>1, <1>2, <1>3, <1>6, <2>2 DEF Using
<1>7. Finishing(v) => Finishing(v)'
  BY <1>1, <1>2 DEF Finishing
<1>8. RowsStored(v)'
  <2>1. RowsStored(v)
    BY DEF PipelineInv
  <2> QED BY <1>1, <1>2, <2>1 DEF RowsStored
<1> QED BY <1>5, <1>6, <1>7, <1>8

\* What is left to show of a step of warp w.
WarpKeeps(w) ==
  /\ PipelineTyped'
  /\ RowsStored(w)'
  /\ \A k \in Nat : k < Steps /\ Filling(w, k) => Filling(w, k)'
  /\ \A k \in Nat : k < Steps /\ Using(w, k) => Using(w, k)'
  /\ Finishing(w) => Finishing(w)'

LEMMA WarpStepInv ==
  ASSUME PipelineInv, NEW w \in Warps, StepOf(w), WarpKeeps(w)
  PROVE  PipelineInv'
<1>1. Dispatched' /\ Warps' = Warps /\ Steps' = Steps
  BY SameLaunch DEF PipelineInv, StepOf
<1>2. \A v \in Warps : RowsStored(v)'
  BY OthersKeep DEF WarpKeeps
<1>3. ASSUME NEW k \in Nat, k < Steps, \A v \in Warps : Filling(v, k)
      PROVE  \A v \in Warps : Filling(v, k)'
  BY <1>3, OthersKeep DEF WarpKeeps
<1>4. ASSUME NEW k \in Nat, k < Steps, \A v \in Warps : Using(v, k)
      PROVE  \A v \in Warps : Using(v, k)'
  BY <1>4, OthersKeep DEF WarpKeeps
<1>5. ASSUME \A v \in Warps : Finishing(v)
      PROVE  \A v \in Warps : Finishing(v)'
  BY <1>5, OthersKeep DEF WarpKeeps
<1>6. InStep'
  <2>1. CASE \E k \in Nat : k < Steps /\ \A v \in Warps : Filling(v, k)
    <3>1. PICK k \in Nat : k < Steps /\ \A v \in Warps : Filling(v, k)
      BY <2>1
    <3> QED BY <1>1, <1>3, <3>1 DEF InStep
  <2>2. CASE \E k \in Nat : k < Steps /\ \A v \in Warps : Using(v, k)
    <3>1. PICK k \in Nat : k < Steps /\ \A v \in Warps : Using(v, k)
      BY <2>2
    <3> QED BY <1>1, <1>4, <3>1 DEF InStep
  <2>3. CASE \A v \in Warps : Finishing(v)
    BY <1>1, <1>5, <2>3 DEF InStep
  <2> QED BY <2>1, <2>2, <2>3 DEF PipelineInv, InStep
<1> QED BY <1>1, <1>2, <1>6 DEF PipelineInv, WarpKeeps

\* The parts of a step that the proofs of the actions share.
LEMMA GotoFacts ==
  ASSUME PipelineTyped, NEW w \in Warps, NEW label \in Labels, Goto(w, label)
  PROVE  /\ pc' \in [Warps -> Labels]
         /\ pc'[w] = label
         /\ \A v \in Warps : v # w => pc'[v] = pc[v]
BY DEF PipelineTyped, Goto

LEMMA SameTypes ==
  ASSUME PipelineTyped, UNCHANGED launchVars, pc' \in [Warps -> Labels],
         step' \in [Warps -> Nat], tile' \in [0..(kernel.tiles - 1) -> [Loaders -> Int]],
         copies' \in [Warps -> SUBSET Copy],
         \A w \in Warps : w \notin Loaders => copies'[w] = {},
         sum' \in [Warps -> Seq(Int)], stored' \in [Warps -> SUBSET Nat]
  PROVE  PipelineTyped'
<1>1. /\ kernel' = kernel /\ strict' = strict /\ Warps' = Warps /\ Loaders' = Loaders /\ Copy' = Copy
  BY SameLaunch
<1> QED BY <1>1 DEF PipelineTyped

-----------------------------------------------------------------------------
(***************************************************************************)
(* One lemma per action.                                                   *)
(***************************************************************************)
LEMMA EnterInv == ASSUME PipelineInv, NEW w \in Warps, Enter(w) PROVE PipelineInv'
<1>1. PipelineTyped /\ Dispatched /\ RowsStored(w)
  BY DEF PipelineInv
<1>2. pc[w] = "enter" /\ UNCHANGED <<launchVars, step, tile, copies, sum, stored>>
  BY DEF Enter
<1>3. Goto(w, "load") /\ "load" \in Labels
  BY <1>1, NobodyExits DEF Enter, Labels
<1>4. StepOf(w)
  BY <1>1, <1>2, <1>3, GotoFacts DEF StepOf
<1>5. PipelineTyped'
  BY <1>1, <1>2, <1>3, GotoFacts, SameTypes DEF PipelineTyped
<1>6. pc'[w] = "load"
  BY <1>1, <1>3, GotoFacts
<1>7. RowsStored(w)'
  BY <1>1, <1>2, <1>6 DEF RowsStored
<1>8. ASSUME NEW k \in Nat, Filling(w, k)
      PROVE  Filling(w, k)'
  BY <1>2, <1>6, <1>8, SameLaunch DEF Filling
<1>9. WarpKeeps(w)
  BY <1>2, <1>5, <1>7, <1>8 DEF WarpKeeps, Using, Finishing
<1> QED BY <1>4, <1>9, WarpStepInv

LEMMA WaitInv == ASSUME PipelineInv, NEW w \in Warps, Wait(w) PROVE PipelineInv'
<1>1. PipelineTyped /\ Dispatched /\ RowsStored(w)
  BY DEF PipelineInv
<1>2. /\ pc[w] = "wait" /\ copies[w] = {} /\ Goto(w, "arrive") /\ "arrive" \in Labels
      /\ UNCHANGED <<launchVars, step, tile, copies, sum, stored>>
  BY DEF Wait, Labels
<1>4. StepOf(w)
  BY <1>1, <1>2, GotoFacts DEF StepOf
<1>5. PipelineTyped'
  BY <1>1, <1>2, GotoFacts, SameTypes DEF PipelineTyped
<1>6. pc'[w] = "arrive"
  BY <1>1, <1>2, GotoFacts
<1>7. RowsStored(w)'
  BY <1>1, <1>2, <1>6, SameLaunch DEF RowsStored
<1>8. ASSUME NEW k \in Nat, Filling(w, k)
      PROVE  Filling(w, k)'
  BY <1>2, <1>6, <1>8, SameLaunch DEF Filling, Fetched
<1>9. WarpKeeps(w)
  BY <1>2, <1>5, <1>7, <1>8 DEF WarpKeeps, Using, Finishing
<1> QED BY <1>4, <1>9, WarpStepInv

(***************************************************************************)
(* A part is loaded at once or by a copy; another warp's never changes.    *)
(***************************************************************************)
LEMMA LoadPartFacts ==
  ASSUME PipelineTyped, Dispatched, NEW w \in Warps, NEW k \in Nat, LoadPart(w, k)
  PROVE  /\ tile' \in [0..(kernel.tiles - 1) -> [Loaders -> Int]]
         /\ copies' \in [Warps -> SUBSET Copy]
         /\ \A v \in Warps : v \notin Loaders => copies'[v] = {}
         /\ copies'[w] \subseteq copies[w] \cup {CopyOf(k)}
         /\ w \in Loaders => \/ tile'[TileOf(k)][w] = k
                             \/ CopyOf(k) \in copies'[w]
         /\ w \in Loaders => \A t \in 0..(kernel.tiles - 1) :
                               t # TileOf(k) => tile'[t][w] = tile[t][w]
         /\ \A v \in Warps : v # w =>
              /\ copies'[v] = copies[v]
              /\ v \in Loaders => \A t \in 0..(kernel.tiles - 1) : tile'[t][v] = tile[t][v]
<1>1. TileOf(k) \in 0..(kernel.tiles - 1) /\ CopyOf(k) \in Copy /\ k \in Int
  BY KernelNumbers
<1>2. CASE /\ w \in Loaders
           /\ copies' = [copies EXCEPT ![w] = @ \cup {CopyOf(k)}] /\ UNCHANGED tile
  BY <1>1, <1>2 DEF PipelineTyped
<1>3. CASE w \in Loaders /\ tile' = [tile EXCEPT ![TileOf(k)][w] = k] /\ UNCHANGED copies
  BY <1>1, <1>3 DEF PipelineTyped
<1>4. CASE w \notin Loaders /\ UNCHANGED <<tile, copies>>
  BY <1>4 DEF PipelineTyped
<1> QED BY <1>2, <1>3, <1>4 DEF LoadPart, TileOf, CopyOf

LEMMA LoadInv == ASSUME PipelineInv, NEW w \in Warps, Load(w) PROVE PipelineInv'
<1>1. PipelineTyped /\ Dispatched /\ RowsStored(w)
  BY DEF PipelineInv
<1>2. /\ pc[w] = "load" /\ LoadPart(w, step[w]) /\ Goto(w, "wait") /\ "wait" \in Labels
      /\ UNCHANGED <<launchVars, step, sum, stored>> /\ step[w] \in Nat
  BY <1>1 DEF Load, Labels, PipelineTyped
<1>3. pc' \in [Warps -> Labels] /\ pc'[w] = "wait" /\ \A v \in Warps : v # w => pc'[v] = pc[v]
  BY <1>1, <1>2, GotoFacts
<1>4. StepOf(w)
  BY <1>1, <1>2, <1>3, LoadPartFacts DEF StepOf
<1>5. PipelineTyped'
  <2>1. /\ tile' \in [0..(kernel.tiles - 1) -> [Loaders -> Int]]
        /\ copies' \in [Warps -> SUBSET Copy]
        /\ \A v \in Warps : v \notin Loaders => copies'[v] = {}
    BY <1>1, <1>2, LoadPartFacts
  <2> QED BY <1>1, <1>2, <1>3, <2>1, SameTypes DEF PipelineTyped
<1>7. RowsStored(w)'
  BY <1>1, <1>2, <1>3, SameLaunch DEF RowsStored
<1>8. ASSUME NEW k \in Nat, Filling(w, k)
      PROVE  Filling(w, k)'
  <2>1. step[w] = k /\ copies[w] = {} /\ sum[w] = Summed(k)
    BY <1>2, <1>8 DEF Filling
  <2>2. /\ copies'[w] \subseteq {CopyOf(k)}
        /\ w \in Loaders => \/ tile'[TileOf(k)][w] = k
                            \/ CopyOf(k) \in copies'[w]
    BY <1>1, <1>2, <2>1, LoadPartFacts
  <2> QED BY <1>2, <1>3, <2>1, <2>2, SameLaunch DEF Filling, Fetched
<1>9. WarpKeeps(w)
  BY <1>2, <1>5, <1>7, <1>8 DEF WarpKeeps, Using, Finishing
<1> QED BY <1>4, <1>9, WarpStepInv

LEMMA PrefetchInv == ASSUME PipelineInv, NEW w \in Warps, Prefetch(w) PROVE PipelineInv'
<1>1. PipelineTyped /\ Dispatched /\ RowsStored(w)
  BY DEF PipelineInv
<1>2. /\ pc[w] = "prefetch" /\ Goto(w, "multiply") /\ "multiply" \in Labels
      /\ UNCHANGED <<launchVars, step, sum, stored>> /\ step[w] \in Nat
      /\ \/ step[w] + 1 < Steps /\ LoadPart(w, step[w] + 1)
         \/ ~(step[w] + 1 < Steps) /\ UNCHANGED <<tile, copies>>
  BY <1>1 DEF Prefetch, Labels, PipelineTyped
<1>3. pc' \in [Warps -> Labels] /\ pc'[w] = "multiply" /\ \A v \in Warps : v # w => pc'[v] = pc[v]
  BY <1>1, <1>2, GotoFacts
<1> DEFINE n == step[w] + 1
<1>4. /\ tile' \in [0..(kernel.tiles - 1) -> [Loaders -> Int]]
      /\ copies' \in [Warps -> SUBSET Copy]
      /\ \A v \in Warps : v \notin Loaders => copies'[v] = {}
      /\ copies'[w] \subseteq copies[w] \cup {CopyOf(n)}
      /\ n < Steps /\ w \in Loaders => \/ tile'[TileOf(n)][w] = n
                                       \/ CopyOf(n) \in copies'[w]
      /\ w \in Loaders => \A t \in 0..(kernel.tiles - 1) :
                            t # TileOf(n) => tile'[t][w] = tile[t][w]
      /\ \A v \in Warps : v # w =>
           /\ copies'[v] = copies[v]
           /\ v \in Loaders => \A t \in 0..(kernel.tiles - 1) : tile'[t][v] = tile[t][v]
  <2>1. CASE n < Steps /\ LoadPart(w, n)
    <3>1. n \in Nat
      BY <1>2
    <3> HIDE DEF n
    <3> QED BY <1>1, <2>1, <3>1, LoadPartFacts
  <2>2. CASE ~(n < Steps) /\ UNCHANGED <<tile, copies>>
    <3> HIDE DEF n
    <3> QED BY <1>1, <2>2 DEF PipelineTyped
  <2> QED BY <1>2, <2>1, <2>2
<1>5. PipelineTyped'
  <2> HIDE DEF n
  <2> QED BY <1>1, <1>2, <1>3, <1>4, SameTypes DEF PipelineTyped
<1>6. StepOf(w)
  <2> HIDE DEF n
  <2> QED BY <1>2, <1>3, <1>4 DEF StepOf
<1>7. RowsStored(w)'
  BY <1>1, <1>2, <1>3, SameLaunch DEF RowsStored
<1>8. ASSUME NEW k \in Nat, Using(w, k)
      PROVE  Using(w, k)'
  <2>1. /\ step[w] = k /\ copies[w] \subseteq {CopyOf(k + 1)} /\ sum[w] = Summed(k)
        /\ kernel.tiles = 2 /\ (w \in Loaders => tile[TileOf(k)][w] = k)
    BY <1>2, <1>8 DEF Using
  <2>2. n = k + 1 /\ TileOf(n) # TileOf(k) /\ TileOf(k) \in 0..(kernel.tiles - 1)
    BY <1>1, <2>1, KernelNumbers
  <2>3. /\ copies'[w] \subseteq {CopyOf(k + 1)}
        /\ k + 1 < Steps /\ w \in Loaders => \/ tile'[TileOf(k + 1)][w] = k + 1
                                             \/ CopyOf(k + 1) \in copies'[w]
    BY <1>4, <2>1, <2>2
  <2>4. w \in Loaders => tile'[TileOf(k)][w] = k
    BY <1>4, <2>1, <2>2
  <2>5. k + 1 < Steps => Fetched(w, k + 1)'
    BY <1>2, <2>3, SameLaunch DEF Fetched
  <2> QED BY <1>2, <1>3, <2>1, <2>3, <2>4, <2>5, SameLaunch DEF Using
<1>9. WarpKeeps(w)
  BY <1>2, <1>5, <1>7, <1>8 DEF WarpKeeps, Filling, Finishing
<1> QED BY <1>6, <1>9, WarpStepInv

LEMMA MultiplyInv == ASSUME PipelineInv, NEW w \in Warps, Multiply(w) PROVE PipelineInv'
<1>1. PipelineTyped /\ Dispatched /\ RowsStored(w)
  BY DEF PipelineInv
<1>2. /\ pc[w] = "multiply" /\ Goto(w, "leave") /\ "leave" \in Labels
      /\ UNCHANGED <<launchVars, step, tile, copies, stored>> /\ step[w] \in Nat
  BY <1>1 DEF Multiply, Labels, PipelineTyped
<1>3. pc' \in [Warps -> Labels] /\ pc'[w] = "leave" /\ \A v \in Warps : v # w => pc'[v] = pc[v]
  BY <1>1, <1>2, GotoFacts
<1>4. PICK k \in Nat : k < Steps /\ \A v \in Warps : Using(v, k)
  BY <1>2 DEF PipelineInv, InStep, Filling, Finishing
<1>5. /\ step[w] = k /\ sum[w] = Summed(k)
      /\ \A p \in Loaders : tile[TileOf(k)][p] = k
  BY <1>1, <1>2, <1>4, KernelNumbers DEF Using
<1>6. {tile[step[w] % kernel.tiles][p] : p \in Loaders} = {k}
  BY <1>1, <1>5, KernelNumbers DEF TileOf
<1>7. sum' = [sum EXCEPT ![w] = @ \o SlicesOf(k)]
  <2> DEFINE parts == {tile[step[w] % kernel.tiles][p] : p \in Loaders}
  <2>1. parts = {k}
    BY <1>6
  <2>2. sum' = [sum EXCEPT ![w] =
          @ \o IF \E j \in parts : parts = {j} /\ j # Stale
               THEN SlicesOf(CHOOSE j \in parts : TRUE) ELSE <<Stale>>]
    BY DEF Multiply
  <2> HIDE DEF parts
  <2>3. (\E j \in parts : parts = {j} /\ j # Stale) /\ (CHOOSE j \in parts : TRUE) = k
    BY <2>1 DEF Stale
  <2> QED BY <2>2, <2>3
<1>8. sum[w] \o SlicesOf(k) = Summed(k + 1) /\ Summed(k + 1) \in Seq(Int)
  BY <1>1, <1>4, <1>5, SumGrows
<1>9. /\ sum' \in [Warps -> Seq(Int)] /\ sum'[w] = Summed(k + 1)
      /\ \A v \in Warps : v # w => sum'[v] = sum[v]
  <2>1. sum' = [sum EXCEPT ![w] = Summed(k + 1)]
    BY <1>7, <1>8
  <2> QED BY <1>1, <1>8, <2>1 DEF PipelineTyped
<1>10. StepOf(w)
  BY <1>2, <1>3, <1>9 DEF StepOf
<1>11. PipelineTyped'
  BY <1>1, <1>2, <1>3, <1>9, SameTypes DEF PipelineTyped
<1>12. RowsStored(w)'
  BY <1>1, <1>2, <1>3, SameLaunch DEF RowsStored
<1>13. ASSUME NEW j \in Nat, Using(w, j)
       PROVE  Using(w, j)'
  <2>1. j = k
    BY <1>5, <1>13 DEF Using
  <2>2. Fetched(w, k + 1)' <=> Fetched(w, k + 1)
    BY <1>2, SameLaunch DEF Fetched
  <2> QED BY <1>2, <1>3, <1>9, <1>13, <2>1, <2>2, SameLaunch DEF Using
<1>14. WarpKeeps(w)
  BY <1>2, <1>11, <1>12, <1>13 DEF WarpKeeps, Filling, Finishing
<1> QED BY <1>10, <1>14, WarpStepInv

LEMMA StoreInv == ASSUME PipelineInv, NEW w \in Warps, Store(w) PROVE PipelineInv'
<1>1. PipelineTyped /\ Dispatched /\ RowsStored(w)
  BY DEF PipelineInv
<1> DEFINE rows == {r \in Rows(w) : kernel.bounded => r < shape.channels}
<1>2. /\ pc[w] = "store" /\ Goto(w, "done") /\ "done" \in Labels
      /\ stored' = [stored EXCEPT ![w] = rows]
      /\ UNCHANGED <<launchVars, step, tile, copies, sum>>
  BY DEF Store, Labels
<1>3. pc' \in [Warps -> Labels] /\ pc'[w] = "done" /\ \A v \in Warps : v # w => pc'[v] = pc[v]
  BY <1>1, <1>2, GotoFacts
<1>4. rows \in SUBSET Nat
  BY <1>1, RowsInBlock
<1>5. rows' = rows
  BY <1>2, SameLaunch
<1> HIDE DEF rows
<1>6. /\ stored' \in [Warps -> SUBSET Nat] /\ stored'[w] = rows
      /\ \A v \in Warps : v # w => stored'[v] = stored[v]
  BY <1>1, <1>2, <1>4 DEF PipelineTyped
<1>7. StepOf(w)
  BY <1>2, <1>3, <1>6 DEF StepOf
<1>8. PipelineTyped'
  BY <1>1, <1>2, <1>3, <1>6, SameTypes DEF PipelineTyped
<1>9. RowsStored(w)'
  BY <1>3, <1>5, <1>6 DEF RowsStored, rows
<1>10. Finishing(w) => Finishing(w)'
  BY <1>2, <1>3, SameLaunch DEF Finishing
<1>11. WarpKeeps(w)
  BY <1>2, <1>8, <1>9, <1>10 DEF WarpKeeps, Filling, Using
<1> QED BY <1>7, <1>11, WarpStepInv

(***************************************************************************)
(* A copy that lands writes its own part, of the step it was issued for.   *)
(***************************************************************************)
LEMMA LandInv == ASSUME PipelineInv, NEW w \in Warps, Land(w) PROVE PipelineInv'
<1>1. PipelineTyped /\ Dispatched /\ RowsStored(w)
  BY DEF PipelineInv
<1>2. PICK c \in copies[w] :
        /\ tile' = [tile EXCEPT ![c.tile][w] = c.step]
        /\ copies' = [copies EXCEPT ![w] = @ \ {c}]
        /\ UNCHANGED <<launchVars, pc, step, sum, stored>>
  BY DEF Land
<1>3. w \in Loaders /\ c.tile \in 0..(kernel.tiles - 1) /\ c.step \in Nat
  BY <1>1, <1>2 DEF PipelineTyped, Copy
<1>4. /\ tile' \in [0..(kernel.tiles - 1) -> [Loaders -> Int]]
      /\ tile'[c.tile][w] = c.step
      /\ \A t \in 0..(kernel.tiles - 1) : t # c.tile => tile'[t][w] = tile[t][w]
      /\ \A v \in Loaders : v # w => \A t \in 0..(kernel.tiles - 1) : tile'[t][v] = tile[t][v]
  BY <1>1, <1>2, <1>3 DEF PipelineTyped
<1>5. /\ copies' \in [Warps -> SUBSET Copy] /\ copies'[w] = copies[w] \ {c}
      /\ \A v \in Warps : v # w => copies'[v] = copies[v]
      /\ \A v \in Warps : v \notin Loaders => copies'[v] = {}
  BY <1>1, <1>2, <1>3 DEF PipelineTyped
<1>6. StepOf(w)
  BY <1>2, <1>4, <1>5 DEF StepOf
<1>7. PipelineTyped'
  BY <1>1, <1>2, <1>4, <1>5, SameTypes DEF PipelineTyped
<1>8. RowsStored(w)'
  BY <1>1, <1>2, SameLaunch DEF RowsStored
<1>9. ASSUME NEW k \in Nat, copies[w] \subseteq {CopyOf(k)}
      PROVE  c.tile = TileOf(k) /\ tile'[TileOf(k)][w] = k
  BY <1>2, <1>4, <1>9 DEF CopyOf
<1>10. ASSUME NEW k \in Nat, Filling(w, k)
       PROVE  Filling(w, k)'
  <2>1. pc[w] = "wait" /\ copies[w] \subseteq {CopyOf(k)}
    BY <1>2, <1>10 DEF Filling
  <2>2. tile'[TileOf(k)][w] = k
    BY <1>9, <2>1
  <2>3. Fetched(w, k)'
    BY <1>2, <2>2, SameLaunch DEF Fetched
  <2> QED BY <1>2, <1>5, <1>10, <2>1, <2>3, SameLaunch DEF Filling
<1>11. ASSUME NEW k \in Nat, Using(w, k)
       PROVE  Using(w, k)'
  <2>1. kernel.tiles = 2 /\ copies[w] \subseteq {CopyOf(k + 1)}
    BY <1>2, <1>11 DEF Using
  <2>2. c.tile = TileOf(k + 1) /\ tile'[TileOf(k + 1)][w] = k + 1
    BY <1>9, <2>1
  <2>3. tile'[TileOf(k)][w] = k
    <3>1. TileOf(k) # TileOf(k + 1) /\ TileOf(k) \in 0..(kernel.tiles - 1)
      BY <1>1, <2>1, KernelNumbers
    <3> QED BY <1>3, <1>4, <1>11, <2>2, <3>1 DEF Using
  <2>4. Fetched(w, k + 1)'
    BY <1>2, <2>2, SameLaunch DEF Fetched
  <2> QED BY <1>2, <1>5, <1>11, <2>1, <2>3, <2>4, SameLaunch DEF Using
<1>12. Finishing(w) => Finishing(w)'
  BY <1>2, SameLaunch DEF Finishing
<1>13. WarpKeeps(w)
  BY <1>7, <1>8, <1>10, <1>11, <1>12 DEF WarpKeeps
<1> QED BY <1>6, <1>13, WarpStepInv

-----------------------------------------------------------------------------
(***************************************************************************)
(* The barrier: no warp has returned and none is behind another, so those  *)
(* that meet are all the warps of the block, at the same place.            *)
(***************************************************************************)
LEMMA MeetInv == ASSUME PipelineInv, Meet PROVE PipelineInv'
<1>1. PipelineTyped /\ Dispatched /\ \A w \in Warps : RowsStored(w)
  BY DEF PipelineInv
<1>2. UNCHANGED <<launchVars, tile, copies, sum, stored>>
  BY DEF Meet
<1>3. /\ Dispatched' /\ Warps' = Warps /\ Loaders' = Loaders /\ Steps' = Steps
      /\ kernel' = kernel /\ shape' = shape
      /\ \A k : Summed(k)' = Summed(k) /\ TileOf(k)' = TileOf(k) /\ CopyOf(k)' = CopyOf(k)
      /\ \A w : Rows(w)' = Rows(w)
  BY <1>1, <1>2, SameLaunch
<1>4. /\ \E w \in Warps : pc[w] \in {"arrive", "leave"}
      /\ \A w \in Warps : pc[w] \in {"arrive", "leave", "returned", "done"}
  BY DEF Meet, AtBarrier
<1>5. \A w \in Warps : /\ pc'[w] = Resume(w)
                       /\ step'[w] = IF pc[w] = "leave" THEN step[w] + 1 ELSE step[w]
  BY DEF Meet
<1>6. /\ pc' \in [Warps -> Labels] /\ step' \in [Warps -> Nat]
  <2>1. \A w \in Warps : Resume(w) \in Labels
    BY <1>1, <1>4 DEF Resume, Labels, PipelineTyped
  <2>2. \A w \in Warps : (IF pc[w] = "leave" THEN step[w] + 1 ELSE step[w]) \in Nat
    BY <1>1 DEF PipelineTyped
  <2> QED BY <2>1, <2>2 DEF Meet
<1>7. PipelineTyped'
  BY <1>1, <1>2, <1>6, SameTypes DEF PipelineTyped
<1>8. ~\A w \in Warps : Finishing(w)
  BY <1>4 DEF Finishing
<1>9. CASE \E k \in Nat : k < Steps /\ \A w \in Warps : Filling(w, k)
  <2>1. PICK k \in Nat : k < Steps /\ \A w \in Warps : Filling(w, k)
    BY <1>9
  <2>2. \A w \in Warps : pc[w] = "arrive"
    BY <1>4, <2>1 DEF Filling
  <2>3. ASSUME NEW w \in Warps
        PROVE  Using(w, k)' /\ RowsStored(w)'
    <3>1. /\ step'[w] = k /\ sum'[w] = Summed(k) /\ copies'[w] = {}
          /\ w \in Loaders => tile'[TileOf(k)][w] = k
      BY <1>2, <1>5, <2>1, <2>2 DEF Filling, Fetched
    <3>2. pc'[w] = IF kernel.tiles = 2 THEN "prefetch" ELSE "multiply"
      BY <1>5, <2>2 DEF Resume
    <3>3. RowsStored(w)'
      BY <1>1, <1>2, <1>3, <2>2, <3>2 DEF RowsStored
    <3> QED BY <1>3, <3>1, <3>2, <3>3 DEF Using
  <2> QED BY <1>3, <1>7, <2>1, <2>3 DEF PipelineInv, InStep
<1>10. CASE \E k \in Nat : k < Steps /\ \A w \in Warps : Using(w, k)
  <2>1. PICK k \in Nat : k < Steps /\ \A w \in Warps : Using(w, k)
    BY <1>10
  <2>2. \A w \in Warps : pc[w] = "leave"
    BY <1>4, <2>1 DEF Using
  <2>3. k + 1 \in Nat /\ k + 1 <= Steps /\ Steps \in Nat
    BY <1>1, <2>1, KernelNumbers
  <2>4. ASSUME NEW w \in Warps
        PROVE  /\ step'[w] = k + 1 /\ sum'[w] = Summed(k + 1) /\ RowsStored(w)'
               /\ copies'[w] \subseteq IF kernel.tiles = 2 THEN {CopyOf(k + 1)} ELSE {}
               /\ pc'[w] = IF k + 1 >= Steps THEN "store"
                           ELSE IF kernel.tiles = 2 THEN "wait" ELSE "load"
               /\ kernel.tiles = 2 /\ k + 1 < Steps => Fetched(w, k + 1)'
    <3>1. step[w] = k /\ step'[w] = k + 1 /\ sum'[w] = Summed(k + 1)
      BY <1>2, <1>5, <2>1, <2>2 DEF Using
    <3>2. copies'[w] \subseteq IF kernel.tiles = 2 THEN {CopyOf(k + 1)} ELSE {}
      BY <1>2, <2>1 DEF Using
    <3>3. pc'[w] = IF k + 1 >= Steps THEN "store"
                   ELSE IF kernel.tiles = 2 THEN "wait" ELSE "load"
      BY <1>5, <2>2, <3>1 DEF Resume
    <3>4. RowsStored(w)'
      BY <1>1, <1>2, <1>3, <2>2, <3>3 DEF RowsStored
    <3>5. kernel.tiles = 2 /\ k + 1 < Steps => Fetched(w, k + 1)'
      <4>1. kernel.tiles = 2 /\ k + 1 < Steps => Fetched(w, k + 1)
        BY <2>1, <2>2 DEF Using
      <4>2. Fetched(w, k + 1)' <=> Fetched(w, k + 1)
        BY <1>2, <1>3 DEF Fetched
      <4> QED BY <4>1, <4>2
    <3> QED BY <3>1, <3>2, <3>3, <3>4, <3>5
  <2>5. CASE k + 1 >= Steps
    <3>1. k + 1 = Steps
      BY <2>3, <2>5
    <3>2. \A w \in Warps : Finishing(w)'
      BY <1>3, <2>4, <2>5, <3>1 DEF Finishing
    <3> QED BY <1>3, <1>7, <2>4, <3>2 DEF PipelineInv, InStep
  <2>6. CASE k + 1 < Steps
    <3>1. ~(k + 1 >= Steps)
      BY <2>3, <2>6
    <3>2. ASSUME NEW w \in Warps
          PROVE  Filling(w, k + 1)'
      BY <1>3, <2>4, <2>6, <3>1, <3>2 DEF Filling
    <3> QED BY <1>3, <1>7, <2>3, <2>4, <2>6, <3>2 DEF PipelineInv, InStep
  <2> QED BY <2>3, <2>5, <2>6
<1> QED BY <1>8, <1>9, <1>10 DEF PipelineInv, InStep

LEMMA PipelineStutter == ASSUME PipelineInv, UNCHANGED blockVars PROVE PipelineInv'
<1>1. /\ UNCHANGED launchVars /\ pc' = pc /\ step' = step /\ tile' = tile
      /\ copies' = copies /\ sum' = sum /\ stored' = stored
  BY DEF blockVars
<1>2. PICK w \in Warps : TRUE
  BY KernelNumbers DEF PipelineInv
<1>3. StepOf(w)
  BY <1>1 DEF StepOf
<1>4. PipelineTyped'
  BY <1>1, SameTypes DEF PipelineInv, PipelineTyped
<1>5. RowsStored(w)'
  BY <1>1, SameLaunch DEF PipelineInv, RowsStored
<1>6. ASSUME NEW k \in Nat PROVE Filling(w, k) => Filling(w, k)'
  BY <1>1, SameLaunch DEF Filling, Fetched
<1>7. ASSUME NEW k \in Nat PROVE Using(w, k) => Using(w, k)'
  BY <1>1, SameLaunch DEF Using, Fetched
<1>8. Finishing(w) => Finishing(w)'
  BY <1>1, SameLaunch DEF Finishing
<1>9. WarpKeeps(w)
  BY <1>4, <1>5, <1>6, <1>7, <1>8 DEF WarpKeeps
<1> QED BY <1>3, <1>9, WarpStepInv

LEMMA PipelineInductive == BlockSpec => []PipelineInv
<1>1. ASSUME PipelineInv, [BlockNext]_blockVars
      PROVE  PipelineInv'
  <2>1. ASSUME NEW w \in Warps, Warp(w)
        PROVE  PipelineInv'
    BY <1>1, <2>1, EnterInv, LoadInv, WaitInv, PrefetchInv, MultiplyInv, StoreInv DEF Warp
  <2>2. ASSUME NEW w \in Warps, Land(w)
        PROVE  PipelineInv'
    BY <1>1, <2>2, LandInv
  <2> QED BY <1>1, <2>1, <2>2, MeetInv, PipelineStutter DEF BlockNext
<1> QED BY <1>1, PipelineInit, PTL DEF BlockSpec

(***************************************************************************)
(* pointwise_conv.cu:160-217, spatial_conv.cu:49-191: for any number of    *)
(* warps and steps, any order of the warps and any delay of the copies,    *)
(* what a warp stores is the sum of the whole reduction, each slice once and *)
(* of its own data, for channels that exist, and no channel is left out.   *)
(* The dispatch guarantees the shape of every kernel but SpatialMma, whose *)
(* shapes are the hypothesis FillsSpatialMma.                              *)
(***************************************************************************)
THEOREM KernelsStoreTheirSums == BlockSpec => [](FillsSpatialMma => StoresItsSums)
<1>1. ASSUME PipelineInv, FillsSpatialMma
      PROVE  StoresItsSums
  <2>1. Dispatched /\ PipelineTyped /\ \A w \in Warps : RowsStored(w)
    BY <1>1 DEF PipelineInv
  <2>2. ASSUME NEW w \in Warps, NEW r \in Rows(w), kernel.bounded => r < shape.channels
        PROVE  r < shape.channels
    <3>1. CASE kernel.bounded
      BY <2>2, <3>1
    <3>2. CASE ~kernel.bounded
      <4>1. kernel # Generic
        BY <2>1, <3>2, DispatchFacts, KernelKinds
      <4>2. shape.channels % kernel.block = 0
        BY <1>1, <2>1, <4>1, DispatchedKernel DEF FillsSpatialMma
      <4> QED
        BY <2>1, <4>2, WholeBlocks, RowsInBlock, DispatchFacts, KernelFacts
    <3> QED BY <3>1, <3>2
  <2>3. ASSUME NEW w \in Warps, stored[w] # {}
        PROVE  /\ sum[w] = [i \in 1..shape.reduction |-> i - 1]
               /\ \A r \in stored[w] : r < shape.channels
    <3>1. pc[w] = "done" /\ stored[w] = {r \in Rows(w) : kernel.bounded => r < shape.channels}
      BY <2>1, <2>3 DEF RowsStored
    <3>2. sum[w] = Summed(Steps)
      BY <1>1, <3>1 DEF PipelineInv, InStep, Filling, Using, Finishing
    <3> QED BY <1>1, <2>1, <2>2, <3>1, <3>2, SumIsComplete
  <2>4. ASSUME Ended, NEW r \in 0..(kernel.block - 1), block * kernel.block + r < shape.channels
        PROVE  \E w \in Warps : block * kernel.block + r \in stored[w]
    <3>1. PICK w \in Warps : block * kernel.block + r \in Rows(w)
      BY <2>1, EveryRowHasAWarp
    <3>2. pc[w] = "done"
      BY <2>1, <2>4 DEF Ended, PipelineTyped, Labels
    <3>3. block * kernel.block + r \in stored[w]
      BY <2>1, <2>4, <3>1, <3>2 DEF RowsStored
    <3> QED BY <3>3
  <2> QED BY <2>3, <2>4 DEF StoresItsSums
<1> QED BY <1>1, PipelineInductive, PTL
=============================================================================
