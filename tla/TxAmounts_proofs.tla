--------------------------- MODULE TxAmounts_proofs ---------------------------
(* Proofs about TxAmounts for every width of amounts and offsets, every     *)
(* bound on the inputs and outputs and every ring size.                      *)
(*                                                                           *)
(* The sums and offset conversions of the code are loops; the model writes  *)
(* them as functions defined by recursion over 0..Len(s).  A definition     *)
(* f[i \in 0..n] == e is the CHOOSE of a function equal to e, so its        *)
(* equations hold only once such a function is shown to exist.  Both that  *)
(* and what the loops compute are proved by induction over 0..n, taken     *)
(* from the well-foundedness of < on Nat (a least counterexample).          *)
EXTENDS TxAmounts, Integers, SequenceTheorems, WellFoundedInduction, TLAPS

-----------------------------------------------------------------------------
(* The order < on Nat as a set of pairs, and its well-foundedness.         *)
LessNat == {ss \in Nat \X Nat : ss[1] < ss[2]}

(* LessNat is well-founded on Nat.                                          *)
LEMMA LessNatWellFounded == IsWellFoundedOn(LessNat, Nat)
  BY NatLessThanWellFounded DEF OpToRel, LessNat

(* Induction over an initial segment of Nat, on a set rather than a         *)
(* predicate so that the provers can instantiate it.                         *)
LEMMA SegmentInduction ==
    ASSUME NEW N \in Nat, NEW U,
           0 \in U,
           \A n \in 0..(N - 1) : n \in U => n + 1 \in U
    PROVE  0..N \subseteq U
<1> DEFINE Bad == {n \in 0..N : n \notin U}
<1> SUFFICES ASSUME Bad # {} PROVE FALSE
  OBVIOUS
<1>1. Bad \subseteq Nat
  OBVIOUS
<1>2. \E x \in Bad : \A y \in Bad : ~(<<y, x>> \in LessNat)
  BY <1>1, LessNatWellFounded, WFMin
<1>3. PICK x \in Bad : \A y \in Bad : ~(y < x)
  BY <1>1, <1>2 DEF LessNat
<1>4. x # 0 /\ x \in 1..N
  BY <1>3
<1>5. x - 1 \in U
  BY <1>3, <1>4
<1> QED
  BY <1>3, <1>4, <1>5

-----------------------------------------------------------------------------
(* The prefix sums of s modulo m, as WrapSum and                             *)
(* relativeOutputOffsetsToAbsolute define them, and without a modulus, as  *)
(* RealSum defines them.                                                    *)
ModPrefix(s, m) ==
    CHOOSE f : f = [i \in 0..Len(s) |-> IF i = 0 THEN 0 ELSE (f[i - 1] + s[i]) % m]

NatPrefix(s) ==
    CHOOSE f : f = [i \in 0..Len(s) |-> IF i = 0 THEN 0 ELSE f[i - 1] + s[i]]

(* WrapSum(s) is the last modular prefix sum of s.                          *)
LEMMA WrapSumPrefix ==
    ASSUME NEW s
    PROVE  WrapSum(s) = ModPrefix(s, AmountMod)[Len(s)]
  BY DEF WrapSum, ModPrefix

(* RealSum(s) is the last prefix sum of s.                                  *)
LEMMA RealSumPrefix ==
    ASSUME NEW s
    PROVE  RealSum(s) = NatPrefix(s)[Len(s)]
  BY DEF RealSum, NatPrefix

(* A remainder by a positive modulus lies in 0..m-1.                       *)
LEMMA ModRange ==
    ASSUME NEW x \in Int, NEW m \in Nat \ {0}
    PROVE  x % m \in 0..(m - 1)
  OBVIOUS

(* A number below the modulus is its own remainder; one below twice the    *)
(* modulus wraps once.                                                      *)
LEMMA ModSmall ==
    ASSUME NEW x \in Int, NEW m \in Nat \ {0}, 0 <= x, x < m
    PROVE  x % m = x
  OBVIOUS

(* A number in m..2m-1 wraps exactly once.                                 *)
LEMMA ModOnce ==
    ASSUME NEW x \in Int, NEW m \in Nat \ {0}, m <= x, x < 2 * m
    PROVE  x % m = x - m
  OBVIOUS

(* One step of the overflow loop.  If the wrapped total w equals the true  *)
(* total a whenever a fits, then after adding an amount x below the modulus *)
(* `a fits and w > x + w fails' holds exactly when a + x fits, and the     *)
(* wrapped sum is then the true one.                                        *)
LEMMA WrapStep ==
    \A m \in Nat \ {0}, a \in Nat, w \in Int, x \in Int :
        /\ w \in 0..(m - 1) /\ x \in 0..(m - 1) /\ (a < m => w = a)
        => /\ (a < m /\ ~(w > (x + w) % m)) <=> a + x < m
           /\ a + x < m => (w + x) % m = a + x
<1> SUFFICES ASSUME NEW m \in Nat \ {0}, NEW a \in Nat, NEW w \in Int, NEW x \in Int,
                    w \in 0..(m - 1), x \in 0..(m - 1), a < m => w = a
             PROVE  /\ (a < m /\ ~(w > (x + w) % m)) <=> a + x < m
                    /\ a + x < m => (w + x) % m = a + x
  OBVIOUS
<1>1. CASE a >= m
  BY <1>1
<1>2. CASE a < m /\ a + x < m
  <2>1. w = a
    BY <1>2
  <2>2. (x + w) % m = x + w /\ (w + x) % m = w + x
    BY <1>2, <2>1, ModSmall
  <2>3. QED
    BY <1>2, <2>1, <2>2
<1>3. CASE a < m /\ a + x >= m
  <2>1. w = a
    BY <1>3
  <2>2. x + w \in Int /\ m <= x + w /\ x + w < 2 * m
    BY <1>3, <2>1
  <2>3. (x + w) % m = (x + w) - m
    BY <2>2, ModOnce
  <2>4. QED
    BY <1>3, <2>1, <2>3
<1>4. QED
  BY <1>1, <1>2, <1>3

(* The functions on 0..k that satisfy ModPrefix's equations up to k.      *)
ModExt(s, m, k) ==
    {g \in [0..k -> Int] :
        \A i \in 0..k : g[i] = IF i = 0 THEN 0 ELSE (g[i - 1] + s[i]) % m}

(* A solution up to k extends to one up to k + 1.                          *)
LEMMA ModExtStep ==
    ASSUME NEW s \in Seq(Int), NEW m \in Nat \ {0}, NEW k \in 0..(Len(s) - 1),
           NEW g \in ModExt(s, m, k)
    PROVE  [i \in 0..(k + 1) |-> IF i <= k THEN g[i] ELSE (g[k] + s[k + 1]) % m]
             \in ModExt(s, m, k + 1)
<1>1. g \in [0..k -> Int]
      /\ \A i \in 0..k : g[i] = IF i = 0 THEN 0 ELSE (g[i - 1] + s[i]) % m
  BY DEF ModExt
<1>2. s[k + 1] \in Int
  OBVIOUS
<1>3. [i \in 0..(k + 1) |-> IF i <= k THEN g[i] ELSE (g[k] + s[k + 1]) % m]
        \in [0..(k + 1) -> Int]
  BY <1>1, <1>2
<1>4. \A i \in 0..(k + 1) :
        [j \in 0..(k + 1) |-> IF j <= k THEN g[j] ELSE (g[k] + s[k + 1]) % m][i]
        = IF i = 0 THEN 0
          ELSE ([j \in 0..(k + 1) |-> IF j <= k THEN g[j] ELSE (g[k] + s[k + 1]) % m][i - 1]
                + s[i]) % m
  BY <1>1
<1>5. QED
  BY <1>3, <1>4 DEF ModExt

(* For a sequence of integers and a positive modulus, a function with the  *)
(* equations of ModPrefix exists, so ModPrefix has them, and its values    *)
(* lie in 0..m-1.                                                           *)
LEMMA ModPrefixDef ==
    ASSUME NEW s \in Seq(Int), NEW m \in Nat \ {0}
    PROVE  /\ ModPrefix(s, m) \in [0..Len(s) -> 0..(m - 1)]
           /\ ModPrefix(s, m)[0] = 0
           /\ \A i \in 1..Len(s) :
                 ModPrefix(s, m)[i] = (ModPrefix(s, m)[i - 1] + s[i]) % m
<1>0. Len(s) \in Nat
  OBVIOUS
<1>1. 0..Len(s) \subseteq {k \in 0..Len(s) : ModExt(s, m, k) # {}}
  <2>1. [i \in 0..0 |-> 0] \in ModExt(s, m, 0)
    BY DEF ModExt
  <2>2. \A k \in 0..(Len(s) - 1) :
          k \in {j \in 0..Len(s) : ModExt(s, m, j) # {}}
          => k + 1 \in {j \in 0..Len(s) : ModExt(s, m, j) # {}}
    <3> SUFFICES ASSUME NEW k \in 0..(Len(s) - 1), ModExt(s, m, k) # {}
                 PROVE  ModExt(s, m, k + 1) # {}
      OBVIOUS
    <3> QED
      BY ModExtStep
  <2>3. 0 \in {j \in 0..Len(s) : ModExt(s, m, j) # {}}
    BY <1>0, <2>1
  <2>4. QED
    BY <1>0, <2>2, <2>3, SegmentInduction
<1>2. PICK g \in ModExt(s, m, Len(s)) : TRUE
  BY <1>0, <1>1
<1>3. g = [i \in 0..Len(s) |-> IF i = 0 THEN 0 ELSE (g[i - 1] + s[i]) % m]
  BY <1>2 DEF ModExt
<1>4. ModPrefix(s, m) = [i \in 0..Len(s) |-> IF i = 0 THEN 0
                                        ELSE (ModPrefix(s, m)[i - 1] + s[i]) % m]
  BY <1>3 DEF ModPrefix
<1>5. 0..Len(s) \subseteq {k \in 0..Len(s) : ModPrefix(s, m)[k] \in 0..(m - 1)}
  <2>1. ModPrefix(s, m)[0] \in 0..(m - 1)
    BY <1>0, <1>4
  <2>2. \A k \in 0..(Len(s) - 1) :
          k \in {j \in 0..Len(s) : ModPrefix(s, m)[j] \in 0..(m - 1)}
          => k + 1 \in {j \in 0..Len(s) : ModPrefix(s, m)[j] \in 0..(m - 1)}
    <3> SUFFICES ASSUME NEW k \in 0..(Len(s) - 1), ModPrefix(s, m)[k] \in 0..(m - 1)
                 PROVE  ModPrefix(s, m)[k + 1] \in 0..(m - 1)
      OBVIOUS
    <3>1. s[k + 1] \in Int
      OBVIOUS
    <3>2. ModPrefix(s, m)[k + 1] = (ModPrefix(s, m)[k] + s[k + 1]) % m
      BY <1>4
    <3>3. ModPrefix(s, m)[k] + s[k + 1] \in Int
      BY <3>1
    <3>4. QED
      BY <3>2, <3>3, ModRange
  <2>3. 0 \in {j \in 0..Len(s) : ModPrefix(s, m)[j] \in 0..(m - 1)}
    BY <1>0, <2>1
  <2>4. QED
    BY <1>0, <2>2, <2>3, SegmentInduction
<1>6. DOMAIN ModPrefix(s, m) = 0..Len(s)
  BY <1>4
<1>7. ModPrefix(s, m) \in [0..Len(s) -> 0..(m - 1)]
  BY <1>4, <1>5, <1>6
<1>8. ModPrefix(s, m)[0] = 0
  BY <1>0, <1>4
<1>9. ASSUME NEW i \in 1..Len(s)
      PROVE  ModPrefix(s, m)[i] = (ModPrefix(s, m)[i - 1] + s[i]) % m
  <2>1. i \in 0..Len(s) /\ i # 0
    BY <1>0
  <2>2. QED
    BY <1>4, <2>1
<1>10. QED
  BY <1>7, <1>8, <1>9

(* The functions on 0..k that satisfy NatPrefix's equations up to k.      *)
NatExt(s, k) ==
    {g \in [0..k -> Nat] :
        \A i \in 0..k : g[i] = IF i = 0 THEN 0 ELSE g[i - 1] + s[i]}

(* A solution up to k extends to one up to k + 1.                          *)
LEMMA NatExtStep ==
    ASSUME NEW s \in Seq(Nat), NEW k \in 0..(Len(s) - 1),
           NEW g \in NatExt(s, k)
    PROVE  [i \in 0..(k + 1) |-> IF i <= k THEN g[i] ELSE g[k] + s[k + 1]]
             \in NatExt(s, k + 1)
<1>1. g \in [0..k -> Nat]
      /\ \A i \in 0..k : g[i] = IF i = 0 THEN 0 ELSE g[i - 1] + s[i]
  BY DEF NatExt
<1>2. s[k + 1] \in Nat
  OBVIOUS
<1>3. [i \in 0..(k + 1) |-> IF i <= k THEN g[i] ELSE g[k] + s[k + 1]]
        \in [0..(k + 1) -> Nat]
  BY <1>1, <1>2
<1>4. \A i \in 0..(k + 1) :
        [j \in 0..(k + 1) |-> IF j <= k THEN g[j] ELSE g[k] + s[k + 1]][i]
        = IF i = 0 THEN 0
          ELSE [j \in 0..(k + 1) |-> IF j <= k THEN g[j] ELSE g[k] + s[k + 1]][i - 1]
               + s[i]
  BY <1>1, SMTT(20)
<1>5. QED
  BY <1>3, <1>4, SMTT(20) DEF NatExt

(* For a sequence of natural numbers a function with the equations of     *)
(* NatPrefix exists, so NatPrefix has them, and its values are natural.   *)
LEMMA NatPrefixDef ==
    ASSUME NEW s \in Seq(Nat)
    PROVE  /\ NatPrefix(s) \in [0..Len(s) -> Nat]
           /\ NatPrefix(s)[0] = 0
           /\ \A i \in 1..Len(s) :
                 NatPrefix(s)[i] = NatPrefix(s)[i - 1] + s[i]
<1>0. Len(s) \in Nat
  OBVIOUS
<1>1. 0..Len(s) \subseteq {k \in 0..Len(s) : NatExt(s, k) # {}}
  <2>1. [i \in 0..0 |-> 0] \in NatExt(s, 0)
    BY DEF NatExt
  <2>2. \A k \in 0..(Len(s) - 1) :
          k \in {j \in 0..Len(s) : NatExt(s, j) # {}}
          => k + 1 \in {j \in 0..Len(s) : NatExt(s, j) # {}}
    <3> SUFFICES ASSUME NEW k \in 0..(Len(s) - 1), NatExt(s, k) # {}
                 PROVE  NatExt(s, k + 1) # {}
      OBVIOUS
    <3> QED
      BY NatExtStep
  <2>3. 0 \in {j \in 0..Len(s) : NatExt(s, j) # {}}
    BY <1>0, <2>1
  <2>4. QED
    BY <1>0, <2>2, <2>3, SegmentInduction
<1>2. PICK g \in NatExt(s, Len(s)) : TRUE
  BY <1>0, <1>1
<1>3. g = [i \in 0..Len(s) |-> IF i = 0 THEN 0 ELSE g[i - 1] + s[i]]
  BY <1>2 DEF NatExt
<1>4. NatPrefix(s) = [i \in 0..Len(s) |-> IF i = 0 THEN 0
                                        ELSE NatPrefix(s)[i - 1] + s[i]]
  BY <1>3 DEF NatPrefix
<1>5. 0..Len(s) \subseteq {k \in 0..Len(s) : NatPrefix(s)[k] \in Nat}
  <2>1. NatPrefix(s)[0] \in Nat
    BY <1>0, <1>4
  <2>2. \A k \in 0..(Len(s) - 1) :
          k \in {j \in 0..Len(s) : NatPrefix(s)[j] \in Nat}
          => k + 1 \in {j \in 0..Len(s) : NatPrefix(s)[j] \in Nat}
    <3> SUFFICES ASSUME NEW k \in 0..(Len(s) - 1), NatPrefix(s)[k] \in Nat
                 PROVE  NatPrefix(s)[k + 1] \in Nat
      OBVIOUS
    <3>1. s[k + 1] \in Nat
      OBVIOUS
    <3>2. NatPrefix(s)[k + 1] = NatPrefix(s)[k] + s[k + 1]
      BY <1>4
    <3>3. NatPrefix(s)[k] + s[k + 1] \in Nat
      BY <3>1
    <3>4. QED
      BY <3>2, <3>3, ModRange
  <2>3. 0 \in {j \in 0..Len(s) : NatPrefix(s)[j] \in Nat}
    BY <1>0, <2>1
  <2>4. QED
    BY <1>0, <2>2, <2>3, SegmentInduction
<1>6. DOMAIN NatPrefix(s) = 0..Len(s)
  BY <1>4
<1>7. NatPrefix(s) \in [0..Len(s) -> Nat]
  BY <1>4, <1>5, <1>6
<1>8. NatPrefix(s)[0] = 0
  BY <1>0, <1>4
<1>9. ASSUME NEW i \in 1..Len(s)
      PROVE  NatPrefix(s)[i] = NatPrefix(s)[i - 1] + s[i]
  <2>1. i \in 0..Len(s) /\ i # 0
    BY <1>0
  <2>2. QED
    BY <1>4, <2>1
<1>10. QED
  BY <1>7, <1>8, <1>9

(* The modular prefix sums of a prefix of s are those of s.                 *)
LEMMA ModPrefixSub ==
    ASSUME NEW s \in Seq(Int), NEW m \in Nat \ {0}, NEW k \in 0..Len(s)
    PROVE  ModPrefix(SubSeq(s, 1, k), m)[k] = ModPrefix(s, m)[k]
<1>1. /\ SubSeq(s, 1, k) \in Seq(Int)
      /\ Len(SubSeq(s, 1, k)) = k
      /\ \A i \in 1..k : SubSeq(s, 1, k)[i] = s[i]
  BY SubSeqProperties
<1>2. /\ ModPrefix(SubSeq(s, 1, k), m)[0] = 0
      /\ \A i \in 1..k : ModPrefix(SubSeq(s, 1, k), m)[i]
                          = (ModPrefix(SubSeq(s, 1, k), m)[i - 1] + s[i]) % m
  <2>1. /\ ModPrefix(SubSeq(s, 1, k), m)[0] = 0
        /\ \A i \in 1..Len(SubSeq(s, 1, k)) :
              ModPrefix(SubSeq(s, 1, k), m)[i]
              = (ModPrefix(SubSeq(s, 1, k), m)[i - 1] + SubSeq(s, 1, k)[i]) % m
    BY <1>1, ModPrefixDef
  <2>2. QED
    BY <1>1, <2>1, SMTT(20)
<1>3. /\ ModPrefix(s, m)[0] = 0
      /\ \A i \in 1..k : ModPrefix(s, m)[i] = (ModPrefix(s, m)[i - 1] + s[i]) % m
  BY ModPrefixDef
<1>4. \A j \in 0..(k - 1) :
        j \in {i \in 0..k : ModPrefix(SubSeq(s, 1, k), m)[i] = ModPrefix(s, m)[i]}
        => j + 1 \in {i \in 0..k : ModPrefix(SubSeq(s, 1, k), m)[i] = ModPrefix(s, m)[i]}
  BY <1>2, <1>3
<1>5. 0 \in {i \in 0..k : ModPrefix(SubSeq(s, 1, k), m)[i] = ModPrefix(s, m)[i]}
  BY <1>2, <1>3
<1>6. 0..k \subseteq {i \in 0..k : ModPrefix(SubSeq(s, 1, k), m)[i] = ModPrefix(s, m)[i]}
  <2>1. k \in Nat
    OBVIOUS
  <2>2. QED
    BY <1>4, <1>5, <2>1, SegmentInduction
<1>7. QED
  BY <1>6

-----------------------------------------------------------------------------
(* The modular prefix sums at the width of an amount; the overflow test    *)
(* passing on the first k amounts; and what the induction below keeps.      *)
WrapPrefix(s) == ModPrefix(s, AmountMod)

NoWrapUpTo(s, k) ==
    \A i \in 1..k : ~(WrapPrefix(s)[i - 1] > (s[i] + WrapPrefix(s)[i - 1]) % AmountMod)

ExactUpTo(s, k) ==
    /\ NoWrapUpTo(s, k) <=> NatPrefix(s)[k] < AmountMod
    /\ NatPrefix(s)[k] < AmountMod => WrapPrefix(s)[k] = NatPrefix(s)[k]

(* The step of that induction, for any s and k, with the facts it needs.   *)
LEMMA ExactStep ==
    ASSUME NEW s, NEW k, AmountMod \in Nat \ {0},
           NatPrefix(s)[k] \in Nat,
           WrapPrefix(s)[k] \in Int, s[k + 1] \in Int,
           WrapPrefix(s)[k] \in 0..(AmountMod - 1),
           s[k + 1] \in 0..(AmountMod - 1),
           NatPrefix(s)[k] < AmountMod => WrapPrefix(s)[k] = NatPrefix(s)[k]
    PROVE  /\ (NatPrefix(s)[k] < AmountMod
               /\ ~(WrapPrefix(s)[k] > (s[k + 1] + WrapPrefix(s)[k]) % AmountMod))
              <=> NatPrefix(s)[k] + s[k + 1] < AmountMod
           /\ NatPrefix(s)[k] + s[k + 1] < AmountMod
              => (WrapPrefix(s)[k] + s[k + 1]) % AmountMod = NatPrefix(s)[k] + s[k + 1]
  BY WrapStep

(* The overflow test of checkInputsOverflow and checkOutsOverflow.  While   *)
(* the true running total fits in uint64_t the wrapped one equals it, and   *)
(* `money > amount + money' holds exactly at the first amount that takes   *)
(* the true total past the modulus: an amount below the modulus wraps to   *)
(* less than the total it was added to, and an amount that does not wrap,  *)
(* zero included, leaves it no smaller.                                     *)
LEMMA NoWrapExact ==
    ASSUME NEW s \in Seq(0..(AmountMod - 1))
    PROVE  /\ NoWrapInLoop(s) <=> RealSum(s) < AmountMod
           /\ RealSum(s) < AmountMod => WrapSum(s) = RealSum(s)
<1>0. /\ AmountMod \in Nat \ {0}
      /\ Len(s) \in Nat
      /\ s \in Seq(Int)
      /\ s \in Seq(Nat)
      /\ \A i \in 1..Len(s) : s[i] \in 0..(AmountMod - 1)
  BY ModuliAssumption
<1>1. /\ WrapPrefix(s) \in [0..Len(s) -> 0..(AmountMod - 1)]
      /\ WrapPrefix(s)[0] = 0
      /\ \A i \in 1..Len(s) : WrapPrefix(s)[i] = (WrapPrefix(s)[i - 1] + s[i]) % AmountMod
  BY <1>0, ModPrefixDef DEF WrapPrefix
<1>2. /\ NatPrefix(s) \in [0..Len(s) -> Nat]
      /\ NatPrefix(s)[0] = 0
      /\ \A i \in 1..Len(s) : NatPrefix(s)[i] = NatPrefix(s)[i - 1] + s[i]
  BY <1>0, NatPrefixDef
<1>3. 0..Len(s) \subseteq {k \in 0..Len(s) : ExactUpTo(s, k)}
  <2>1. 0 \in {k \in 0..Len(s) : ExactUpTo(s, k)}
    BY <1>0, <1>1, <1>2 DEF ExactUpTo, NoWrapUpTo
  <2>2. \A k \in 0..(Len(s) - 1) :
          k \in {j \in 0..Len(s) : ExactUpTo(s, j)} => k + 1 \in {j \in 0..Len(s) : ExactUpTo(s, j)}
    <3> SUFFICES ASSUME NEW k \in 0..(Len(s) - 1), ExactUpTo(s, k)
                 PROVE  ExactUpTo(s, k + 1)
      OBVIOUS
    <3>0. k \in Nat /\ k + 1 \in 1..Len(s) /\ k \in 0..Len(s)
      BY <1>0
    <3>1. /\ s[k + 1] \in 0..(AmountMod - 1)
          /\ WrapPrefix(s)[k + 1] = (WrapPrefix(s)[k] + s[k + 1]) % AmountMod
          /\ NatPrefix(s)[k + 1] = NatPrefix(s)[k] + s[k + 1]
          /\ WrapPrefix(s)[k] \in 0..(AmountMod - 1)
          /\ NatPrefix(s)[k] \in Nat
      <4>1. s[k + 1] \in 0..(AmountMod - 1)
        BY <1>0, <3>0
      <4>2. WrapPrefix(s)[k + 1] = (WrapPrefix(s)[k + 1 - 1] + s[k + 1]) % AmountMod
        BY <1>1, <3>0
      <4>3. NatPrefix(s)[k + 1] = NatPrefix(s)[k + 1 - 1] + s[k + 1]
        BY <1>2, <3>0
      <4>4. WrapPrefix(s)[k] \in 0..(AmountMod - 1) /\ NatPrefix(s)[k] \in Nat
        BY <1>1, <1>2, <3>0
      <4>5. QED
        BY <3>0, <4>1, <4>2, <4>3, <4>4
    <3>2. NoWrapUpTo(s, k + 1) <=> NoWrapUpTo(s, k) /\ ~(WrapPrefix(s)[k] > (s[k + 1] + WrapPrefix(s)[k]) % AmountMod)
      <4>1. 1..(k + 1) = (1..k) \cup {k + 1}
        BY <3>0
      <4>2. QED
        BY <3>0, <4>1 DEF NoWrapUpTo
    <3>3. /\ NoWrapUpTo(s, k) <=> NatPrefix(s)[k] < AmountMod
          /\ NatPrefix(s)[k] < AmountMod => WrapPrefix(s)[k] = NatPrefix(s)[k]
      BY DEF ExactUpTo
    <3>4. AmountMod \in Nat \ {0}
      BY <1>0
    <3>5. /\ (NatPrefix(s)[k] < AmountMod
              /\ ~(WrapPrefix(s)[k] > (s[k + 1] + WrapPrefix(s)[k]) % AmountMod))
             <=> NatPrefix(s)[k] + s[k + 1] < AmountMod
          /\ NatPrefix(s)[k] + s[k + 1] < AmountMod
             => (WrapPrefix(s)[k] + s[k + 1]) % AmountMod = NatPrefix(s)[k] + s[k + 1]
      <4>1. /\ NatPrefix(s)[k] \in Nat
            /\ WrapPrefix(s)[k] \in Int /\ s[k + 1] \in Int
            /\ WrapPrefix(s)[k] \in 0..(AmountMod - 1)
            /\ s[k + 1] \in 0..(AmountMod - 1)
            /\ NatPrefix(s)[k] < AmountMod => WrapPrefix(s)[k] = NatPrefix(s)[k]
        BY <3>1, <3>3
      <4>2. QED
        BY <3>4, <4>1, ExactStep, SMTT(20)
    <3>6. QED
      BY <3>1, <3>2, <3>3, <3>5 DEF ExactUpTo
  <2>3. QED
    BY <1>0, <2>1, <2>2, SegmentInduction
<1>4. NoWrapInLoop(s) <=> NoWrapUpTo(s, Len(s))
  <2>1. ASSUME NEW i \in 1..Len(s)
        PROVE  WrapSum(SubSeq(s, 1, i - 1)) = WrapPrefix(s)[i - 1]
    <3>1. Len(SubSeq(s, 1, i - 1)) = i - 1
      BY <1>0, SubSeqProperties
    <3>2. i - 1 \in 0..Len(s)
      BY <1>0
    <3>3. QED
      BY <1>0, <3>1, <3>2, WrapSumPrefix, ModPrefixSub DEF WrapPrefix
  <2>2. QED
    BY <2>1 DEF NoWrapInLoop, NoWrapUpTo
<1>5. RealSum(s) = NatPrefix(s)[Len(s)] /\ WrapSum(s) = WrapPrefix(s)[Len(s)]
  BY RealSumPrefix, WrapSumPrefix DEF WrapPrefix
<1>6. ExactUpTo(s, Len(s))
  BY <1>0, <1>3
<1>7. QED
  BY <1>4, <1>5, <1>6 DEF ExactUpTo
-----------------------------------------------------------------------------
(* The inductive invariant.  TypeOK is not inductive: the fee stays in     *)
(* range only because get_tx_fee is taken when the inputs' wrapped sum     *)
(* covers the outputs', and the theorems about accepted transactions need *)
(* to know what the node checked when it accepted.  So TInv adds that the *)
(* amounts of tx lie in uint64_t range, that an accepted tx passed the     *)
(* node's checks with its fee from get_tx_fee, and that a wallet-built tx  *)
(* carries the relative form of the rings the wallet chose.               *)
AmountSeq == Seq(0..(AmountMod - 1))

TInv ==
    /\ TypeOK
    /\ InAmounts(tx) \in AmountSeq
    /\ OutAmounts(tx) \in AmountSeq
    /\ status = "accepted" => TxSemanticsOk(tx) /\ fee = get_tx_fee(tx)
    /\ origin = "wallet" =>
          /\ status \in {"submitted", "accepted", "rejected"}
          /\ chosen \in [DOMAIN tx.inputs -> Rings]
          /\ \A i \in DOMAIN tx.inputs :
                tx.inputs[i].offsets = absolute_output_offsets_to_relative(chosen[i])
          /\ status \in {"accepted", "rejected"} => resolved = chosen

(* Amounts lie in uint64_t range, and so does zero.                       *)
LEMMA AmountsRange == Amounts \subseteq 0..(AmountMod - 1)
  BY ConstantsAssumption DEF AmountMod

LEMMA ZeroAmount == 0 \in 0..(AmountMod - 1)
  BY ModuliAssumption

(* The wrapped sum of integers lies in 0..AmountMod-1.                     *)
LEMMA WrapSumRange ==
    ASSUME NEW s \in Seq(Int)
    PROVE  WrapSum(s) \in 0..(AmountMod - 1)
<1>1. ModPrefix(s, AmountMod) \in [0..Len(s) -> 0..(AmountMod - 1)]
  BY ModuliAssumption, ModPrefixDef
<1>2. Len(s) \in 0..Len(s)
  OBVIOUS
<1>3. QED
  BY <1>1, <1>2, WrapSumPrefix

(* A function on 1..n is a sequence.                                       *)
LEMMA FunSeq ==
    ASSUME NEW S, NEW n \in Nat, NEW f \in [1..n -> S]
    PROVE  f \in Seq(S)
  OBVIOUS

(* A sequence of length 1..n over S is a sequence over S.                  *)
LEMMA SeqsUpToSeq ==
    ASSUME NEW S, NEW n, NEW x \in SeqsUpTo(S, n)
    PROVE  x \in Seq(S)
  BY DEF SeqsUpTo

(* The sorted destinations are the destination amounts, rearranged.        *)
LEMMA SortedType ==
    ASSUME NEW S, NEW d \in Seq(S), NEW t \in SortedAmounts(d)
    PROVE  t \in [1..Len(d) -> S]
<1>1. PICK f \in [DOMAIN d -> DOMAIN d] : t = [i \in DOMAIN d |-> d[f[i]]]
  BY DEF SortedAmounts
<1>2. DOMAIN d = 1..Len(d)
  OBVIOUS
<1> QED
  BY <1>1, <1>2

(* relativeOutputOffsetsToAbsolute returns the modular prefix sums.        *)
LEMMA RelToAbsPrefix ==
    ASSUME NEW off
    PROVE  relativeOutputOffsetsToAbsolute(off)
             = [i \in 1..Len(off) |-> ModPrefix(off, OffsetMod)[i]]
  BY DEF relativeOutputOffsetsToAbsolute, ModPrefix

(* The node's conversion is right up to the k-th index.                    *)
RingPrefixOk(r, k) ==
    k = 0 \/ ModPrefix(absolute_output_offsets_to_relative(r), OffsetMod)[k] = r[k]

(* The node's conversion undoes the wallet's on every ring: the entries of *)
(* an increasing ring of uint32_t indices differ by less than the modulus, *)
(* so no difference wraps and adding them back up restores each index.    *)
LEMMA RingRoundTrip ==
    ASSUME NEW r \in Rings
    PROVE  relativeOutputOffsetsToAbsolute(absolute_output_offsets_to_relative(r)) = r
<1>0. /\ RingSize \in Nat \ {0}
      /\ OffsetMod \in Nat \ {0}
      /\ r \in [1..RingSize -> 0..(OffsetMod - 1)]
      /\ \A i \in 1..(RingSize - 1) : r[i] < r[i + 1]
  BY ConstantsAssumption, ModuliAssumption DEF Rings
<1>1. Len(r) = RingSize
  <2>1. r \in Seq(0..(OffsetMod - 1))
    BY <1>0, FunSeq
  <2>2. QED
    BY <1>0, <2>1
<1>2. /\ absolute_output_offsets_to_relative(r) \in [1..RingSize -> 0..(OffsetMod - 1)]
      /\ absolute_output_offsets_to_relative(r)[1] = r[1]
      /\ \A i \in 2..RingSize :
            absolute_output_offsets_to_relative(r)[i] = r[i] - r[i - 1]
  <2>1. \A i \in 2..RingSize : (r[i] - r[i - 1]) % OffsetMod = r[i] - r[i - 1]
    <3> SUFFICES ASSUME NEW i \in 2..RingSize
                 PROVE  (r[i] - r[i - 1]) % OffsetMod = r[i] - r[i - 1]
      OBVIOUS
    <3>1. r[i - 1] < r[i] /\ r[i] \in 0..(OffsetMod - 1) /\ r[i - 1] \in 0..(OffsetMod - 1)
      <4>1. i - 1 \in 1..(RingSize - 1) /\ (i - 1) + 1 = i
        BY <1>0
      <4>2. QED
        BY <1>0, <4>1
    <3>2. r[i] - r[i - 1] \in Int /\ 0 <= r[i] - r[i - 1] /\ r[i] - r[i - 1] < OffsetMod
      BY <1>0, <3>1
    <3>3. QED
      BY <1>0, <3>2, ModSmall, SMTT(20)
  <2>2. \A i \in 1..RingSize :
          absolute_output_offsets_to_relative(r)[i]
            = IF i = 1 THEN r[1] ELSE (r[i] - r[i - 1]) % OffsetMod
    BY <1>1 DEF absolute_output_offsets_to_relative
  <2>3. DOMAIN absolute_output_offsets_to_relative(r) = 1..RingSize
    BY <1>1 DEF absolute_output_offsets_to_relative
  <2>4. \A i \in 1..RingSize :
          (IF i = 1 THEN r[1] ELSE (r[i] - r[i - 1]) % OffsetMod) \in 0..(OffsetMod - 1)
    <3> SUFFICES ASSUME NEW i \in 1..RingSize
                 PROVE  (IF i = 1 THEN r[1] ELSE (r[i] - r[i - 1]) % OffsetMod)
                          \in 0..(OffsetMod - 1)
      OBVIOUS
    <3>1. r[1] \in 0..(OffsetMod - 1)
      BY <1>0
    <3>2. CASE i # 1
      <4>1. r[i] \in Int /\ r[i - 1] \in Int
        BY <1>0, <3>2
      <4>2. r[i] - r[i - 1] \in Int /\ OffsetMod \in Nat \ {0}
        BY <1>0, <4>1
      <4>3. (r[i] - r[i - 1]) % OffsetMod \in 0..(OffsetMod - 1)
        BY <4>2, ModRange, ZenonT(30)
      <4>4. QED
        BY <3>2, <4>3
    <3>3. QED
      BY <3>1, <3>2
  <2>5. absolute_output_offsets_to_relative(r)
          = [i \in 1..RingSize |-> IF i = 1 THEN r[1] ELSE (r[i] - r[i - 1]) % OffsetMod]
    BY <1>1 DEF absolute_output_offsets_to_relative
  <2>8. absolute_output_offsets_to_relative(r) \in [1..RingSize -> 0..(OffsetMod - 1)]
    BY <2>4, <2>5
  <2>6. absolute_output_offsets_to_relative(r)[1] = r[1]
    BY <1>0, <2>2
  <2>7. QED
    BY <2>1, <2>2, <2>8, <2>6
<1>3. /\ absolute_output_offsets_to_relative(r) \in Seq(Int)
      /\ Len(absolute_output_offsets_to_relative(r)) = RingSize
  <2>1. absolute_output_offsets_to_relative(r) \in Seq(0..(OffsetMod - 1))
    BY <1>0, <1>2, FunSeq
  <2>2. QED
    BY <1>0, <1>2, <2>1
<1>4. /\ ModPrefix(absolute_output_offsets_to_relative(r), OffsetMod)[0] = 0
      /\ \A i \in 1..RingSize :
            ModPrefix(absolute_output_offsets_to_relative(r), OffsetMod)[i]
            = (ModPrefix(absolute_output_offsets_to_relative(r), OffsetMod)[i - 1]
               + absolute_output_offsets_to_relative(r)[i]) % OffsetMod
  BY <1>0, <1>3, ModPrefixDef
<1>5. 0..RingSize \subseteq
        {k \in 0..RingSize : RingPrefixOk(r, k)}
  <2>1. \A k \in 0..(RingSize - 1) :
          k \in {j \in 0..RingSize : RingPrefixOk(r, j)}
          => k + 1 \in {j \in 0..RingSize : RingPrefixOk(r, j)}
    <3> SUFFICES ASSUME NEW k \in 0..(RingSize - 1), RingPrefixOk(r, k)
                 PROVE  ModPrefix(absolute_output_offsets_to_relative(r), OffsetMod)[k + 1] = r[k + 1]
      BY <1>0 DEF RingPrefixOk
    <3>1. k + 1 \in 1..RingSize /\ (k + 1) - 1 = k
      BY <1>0
    <3>2. ModPrefix(absolute_output_offsets_to_relative(r), OffsetMod)[k + 1]
            = (ModPrefix(absolute_output_offsets_to_relative(r), OffsetMod)[k]
               + absolute_output_offsets_to_relative(r)[k + 1]) % OffsetMod
      BY <1>4, <3>1
    <3>3. r[k + 1] \in 0..(OffsetMod - 1)
      BY <1>0, <3>1
    <3>4. CASE k = 0
      <4>1. (0 + r[1]) % OffsetMod = r[1]
        BY <1>0, <3>3, <3>4, ModSmall, SMTT(20)
      <4>2. QED
        BY <1>2, <1>4, <3>2, <3>4, <4>1
    <3>5. CASE k # 0
      <4>1. k + 1 \in 2..RingSize /\ k \in 1..RingSize
        BY <1>0, <3>5
      <4>2. absolute_output_offsets_to_relative(r)[k + 1] = r[k + 1] - r[k]
        BY <1>2, <3>1, <4>1
      <4>3. ModPrefix(absolute_output_offsets_to_relative(r), OffsetMod)[k] = r[k]
        BY <3>5 DEF RingPrefixOk
      <4>4. r[k] \in Int
        BY <1>0, <4>1
      <4>5. (r[k] + (r[k + 1] - r[k])) % OffsetMod = r[k + 1]
        <5>1. r[k] + (r[k + 1] - r[k]) = r[k + 1]
          BY <3>3, <4>4
        <5>2. r[k + 1] % OffsetMod = r[k + 1]
          <6>1. r[k + 1] \in Int /\ 0 <= r[k + 1] /\ r[k + 1] < OffsetMod
            BY <1>0, <3>3
          <6>2. OffsetMod \in Nat \ {0}
            BY <1>0
          <6>3. QED
            BY <6>1, <6>2, ModSmall
        <5>3. QED
          BY <5>1, <5>2
      <4>6. QED
        BY <3>2, <4>2, <4>3, <4>5
    <3>6. QED
      BY <3>4, <3>5
  <2>2. 0 \in {j \in 0..RingSize : RingPrefixOk(r, j)}
    BY <1>0 DEF RingPrefixOk
  <2>3. QED
    BY <1>0, <2>1, <2>2, SegmentInduction
<1>6. QED
  <2>1. relativeOutputOffsetsToAbsolute(absolute_output_offsets_to_relative(r))
          = [i \in 1..RingSize |-> ModPrefix(absolute_output_offsets_to_relative(r), OffsetMod)[i]]
    BY <1>3, RelToAbsPrefix
  <2>2. \A i \in 1..RingSize : ModPrefix(absolute_output_offsets_to_relative(r), OffsetMod)[i] = r[i]
    BY <1>0, <1>5 DEF RingPrefixOk
  <2>3. QED
    BY <1>0, <2>1, <2>2

-----------------------------------------------------------------------------
(* TInv holds initially and is kept by every action.                        *)
LEMMA InitTInv == Init => TInv
<1> SUFFICES ASSUME Init PROVE TInv
  OBVIOUS
<1>1. InAmounts(tx) = <<>> /\ OutAmounts(tx) = <<>>
  BY DEF Init, NoTx, InAmounts, OutAmounts
<1>2. <<>> \in AmountSeq
  BY DEF AmountSeq
<1>3. TypeOK
  BY ModuliAssumption DEF Init, TypeOK
<1> QED
  BY <1>1, <1>2, <1>3 DEF Init, TInv

(* A relayed transaction carries amounts from Amounts, and is not the     *)
(* wallet's.                                                                *)
LEMMA ReceiveTInv == TInv /\ Receive => TInv'
<1> SUFFICES ASSUME TInv, status = "idle",
                    NEW ins \in SeqsUpTo(PeerInputs, MaxSources),
                    NEW outs \in SeqsUpTo(PeerOutputs, MaxSources),
                    tx' = [inputs |-> ins, outputs |-> outs],
                    status' = "submitted", origin' = "peer",
                    UNCHANGED <<chosen, resolved, fee>>
             PROVE  TInv'
  BY DEF Receive
<1>1. ins \in Seq(PeerInputs) /\ outs \in Seq(PeerOutputs)
  BY SeqsUpToSeq
<1>2. InAmounts(tx') \in AmountSeq
  <2>1. InAmounts(tx') = [i \in 1..Len(ins) |-> InputAmount(ins[i])]
    BY <1>1 DEF InAmounts
  <2>2. \A i \in 1..Len(ins) : InputAmount(ins[i]) \in 0..(AmountMod - 1)
    <3> SUFFICES ASSUME NEW i \in 1..Len(ins)
                 PROVE  InputAmount(ins[i]) \in 0..(AmountMod - 1)
      OBVIOUS
    <3>1. ins[i] \in PeerInputs
      BY <1>1
    <3>2. ins[i].amount \in Amounts
      BY <3>1 DEF PeerInputs
    <3>3. ins[i].amount \in 0..(AmountMod - 1) /\ 0 \in 0..(AmountMod - 1)
      BY <3>2, AmountsRange, ZeroAmount
    <3>4. QED
      BY <3>3 DEF InputAmount
  <2>3. InAmounts(tx') \in [1..Len(ins) -> 0..(AmountMod - 1)]
    BY <2>1, <2>2
  <2>4. Len(ins) \in Nat
    BY <1>1
  <2>5. QED
    BY <2>3, <2>4, FunSeq DEF AmountSeq
<1>3. OutAmounts(tx') \in AmountSeq
  <2>1. OutAmounts(tx') = [i \in 1..Len(outs) |-> outs[i].amount]
    BY <1>1 DEF OutAmounts
  <2>2. \A i \in 1..Len(outs) : outs[i].amount \in 0..(AmountMod - 1)
    <3> SUFFICES ASSUME NEW i \in 1..Len(outs)
                 PROVE  outs[i].amount \in 0..(AmountMod - 1)
      OBVIOUS
    <3>1. outs[i] \in PeerOutputs
      BY <1>1
    <3>2. outs[i].amount \in Amounts
      BY <3>1 DEF PeerOutputs
    <3>3. QED
      BY <3>2, AmountsRange
  <2>3. OutAmounts(tx') \in [1..Len(outs) -> 0..(AmountMod - 1)]
    BY <2>1, <2>2
  <2>4. Len(outs) \in Nat
    BY <1>1
  <2>5. QED
    BY <2>3, <2>4, FunSeq DEF AmountSeq
<1>4. TypeOK'
  BY DEF TInv, TypeOK
<1> QED
  BY <1>2, <1>3, <1>4 DEF TInv

(* Validate accepts only with the checks passed and the fee of get_tx_fee, *)
(* which lies in range because TxFeeOk held; it resolves a wallet tx's    *)
(* offsets back to the chosen rings by RingRoundTrip.                      *)
LEMMA ValidateTInv == TInv /\ Validate => TInv'
<1> SUFFICES ASSUME TInv, Validate PROVE TInv'
  OBVIOUS
<1>1. /\ status = "submitted"
      /\ UNCHANGED <<origin, tx, chosen>>
      /\ InAmounts(tx) \in AmountSeq /\ OutAmounts(tx) \in AmountSeq
      /\ InAmounts(tx') \in AmountSeq /\ OutAmounts(tx') \in AmountSeq
  BY DEF TInv, Validate
<1>2. origin' = "wallet" => resolved' = chosen'
  <2> SUFFICES ASSUME origin = "wallet" PROVE resolved' = chosen
    BY <1>1
  <2>1. /\ chosen \in [DOMAIN tx.inputs -> Rings]
        /\ \A i \in DOMAIN tx.inputs :
              tx.inputs[i].offsets = absolute_output_offsets_to_relative(chosen[i])
    BY DEF TInv
  <2>2. resolved' = [i \in DOMAIN tx.inputs |->
                      relativeOutputOffsetsToAbsolute(tx.inputs[i].offsets)]
    BY DEF Validate
  <2>3. \A i \in DOMAIN tx.inputs :
          relativeOutputOffsetsToAbsolute(tx.inputs[i].offsets) = chosen[i]
    BY <2>1, RingRoundTrip
  <2> QED
    BY <2>1, <2>2, <2>3
<1>3. origin' = "wallet" =>
        /\ chosen' \in [DOMAIN tx'.inputs -> Rings]
        /\ \A i \in DOMAIN tx'.inputs :
              tx'.inputs[i].offsets = absolute_output_offsets_to_relative(chosen'[i])
  BY <1>1 DEF TInv
<1>4. CASE TxSemanticsOk(tx) /\ status' = "accepted" /\ fee' = get_tx_fee(tx)
  <2>1. WrapSum(InAmounts(tx)) \in 0..(AmountMod - 1)
        /\ WrapSum(OutAmounts(tx)) \in 0..(AmountMod - 1)
    <3>1. InAmounts(tx) \in Seq(Int) /\ OutAmounts(tx) \in Seq(Int)
      BY <1>1, ModuliAssumption DEF AmountSeq
    <3>2. QED
      BY <3>1, WrapSumRange
  <2>2. WrapSum(InAmounts(tx)) >= WrapSum(OutAmounts(tx))
    BY <1>4 DEF TxSemanticsOk, TxFeeOk
  <2>3. fee' \in 0..(AmountMod - 1)
    BY <1>4, <2>1, <2>2, ModuliAssumption DEF get_tx_fee
  <2>4. TypeOK'
    BY <1>1, <1>4, <2>3 DEF TInv, TypeOK
  <2> QED
    BY <1>1, <1>2, <1>3, <1>4, <2>4 DEF TInv
<1>5. CASE ~TxSemanticsOk(tx) /\ status' = "rejected" /\ UNCHANGED fee
  <2>1. TypeOK'
    BY <1>1, <1>5 DEF TInv, TypeOK
  <2> QED
    BY <1>1, <1>2, <1>3, <1>5, <2>1 DEF TInv
<1> QED
  BY <1>4, <1>5 DEF Validate

(* constructTransaction builds amounts from the sources and the sorted     *)
(* destinations, and records the rings whose relative form it stores.     *)
LEMMA ConstructTInv == TInv /\ Construct => TInv'
<1> SUFFICES ASSUME TInv,
                    NEW srcs \in SeqsUpTo(Sources, MaxSources),
                    NEW dsts \in SeqsUpTo(Amounts \ {0}, MaxSources),
                    NEW cryptoOk \in BOOLEAN,
                    constructTransaction(srcs, dsts, cryptoOk)
             PROVE  TInv'
  BY DEF Construct
<1>1. PICK sh \in SortedAmounts(dsts) :
        /\ status = "idle"
        /\ UNCHANGED <<resolved, fee>>
        /\ \/ /\ tx' = [inputs |-> [i \in DOMAIN srcs |->
                                      [type |-> "key", amount |-> srcs[i].amount,
                                       outputIndex |-> 0,
                                       offsets |-> absolute_output_offsets_to_relative(srcs[i].ring)]],
                        outputs |-> [i \in DOMAIN sh |->
                                      [type |-> "key", amount |-> sh[i],
                                       required |-> 0, keys |-> 1]]]
              /\ chosen' = [i \in DOMAIN srcs |-> srcs[i].ring]
              /\ status' = "submitted"
              /\ origin' = "wallet"
           \/ /\ status' = "constructFailed"
              /\ UNCHANGED <<tx, chosen, origin>>
  BY Zenon DEF constructTransaction
<1>2. /\ srcs \in Seq(Sources) /\ Len(srcs) \in Nat
      /\ dsts \in Seq(Amounts \ {0}) /\ Len(dsts) \in Nat
  BY SeqsUpToSeq
<1>3. sh \in [1..Len(dsts) -> Amounts \ {0}]
  BY <1>2, SortedType
<1>4. TypeOK'
  <2>1. fee \in 0..(AmountMod - 1) /\ origin \in {"none", "wallet", "peer"}
    BY DEF TInv, TypeOK
  <2>2. QED
    BY <1>1, <2>1 DEF TypeOK
<1>5. CASE status' = "constructFailed" /\ UNCHANGED <<tx, chosen, origin>>
  <2>1. origin # "wallet"
    BY <1>1 DEF TInv
  <2> QED
    BY <1>4, <1>5, <2>1 DEF TInv
<1>6. CASE /\ tx' = [inputs |-> [i \in DOMAIN srcs |->
                                      [type |-> "key", amount |-> srcs[i].amount,
                                       outputIndex |-> 0,
                                       offsets |-> absolute_output_offsets_to_relative(srcs[i].ring)]],
                        outputs |-> [i \in DOMAIN sh |->
                                      [type |-> "key", amount |-> sh[i],
                                       required |-> 0, keys |-> 1]]]
           /\ chosen' = [i \in DOMAIN srcs |-> srcs[i].ring]
           /\ status' = "submitted"
           /\ origin' = "wallet"
  <2>1. DOMAIN srcs = 1..Len(srcs) /\ DOMAIN sh = 1..Len(dsts)
    BY <1>2, <1>3
  <2>2. \A i \in 1..Len(srcs) : srcs[i].amount \in Amounts /\ srcs[i].ring \in Rings
    <3> SUFFICES ASSUME NEW i \in 1..Len(srcs)
                 PROVE  srcs[i].amount \in Amounts /\ srcs[i].ring \in Rings
      OBVIOUS
    <3>1. srcs[i] \in Sources
      BY <1>2
    <3>2. QED
      BY <3>1 DEF Sources
  <2>3. InAmounts(tx') \in AmountSeq
    <3>1. InAmounts(tx') = [i \in 1..Len(srcs) |-> srcs[i].amount]
      BY <1>6, <2>1 DEF InAmounts, InputAmount
    <3>2. InAmounts(tx') \in [1..Len(srcs) -> 0..(AmountMod - 1)]
      BY <2>2, <3>1, AmountsRange
    <3>3. QED
      BY <1>2, <3>2, FunSeq DEF AmountSeq
  <2>4. OutAmounts(tx') \in AmountSeq
    <3>1. OutAmounts(tx') = [i \in 1..Len(dsts) |-> sh[i]]
      BY <1>6, <2>1 DEF OutAmounts
    <3>2. OutAmounts(tx') \in [1..Len(dsts) -> 0..(AmountMod - 1)]
      BY <1>3, <3>1, AmountsRange
    <3>3. QED
      BY <1>2, <3>2, FunSeq DEF AmountSeq
  <2>5. /\ chosen' \in [DOMAIN tx'.inputs -> Rings]
        /\ \A i \in DOMAIN tx'.inputs :
              tx'.inputs[i].offsets = absolute_output_offsets_to_relative(chosen'[i])
    BY <1>6, <2>1, <2>2
  <2> QED
    BY <1>4, <1>6, <2>3, <2>4, <2>5 DEF TInv
<1> QED
  BY <1>1, <1>5, <1>6

(* Every step of Next, and every stutter, keeps TInv.                       *)
LEMMA TInvStep == TInv /\ [Next]_vars => TInv'
<1> SUFFICES ASSUME TInv, [Next]_vars PROVE TInv'
  OBVIOUS
<1>1. CASE Construct
  BY <1>1, ConstructTInv
<1>2. CASE Receive
  BY <1>2, ReceiveTInv
<1>3. CASE Validate
  BY <1>3, ValidateTInv
<1>4. CASE UNCHANGED vars
  BY <1>4 DEF vars, TInv, TypeOK
<1> QED
  BY <1>1, <1>2, <1>3, <1>4 DEF Next

(* TInv holds in every reachable state.                                    *)
THEOREM TInvariant == Spec => []TInv
  BY InitTInv, TInvStep, PTL DEF Spec

-----------------------------------------------------------------------------
(* The node's status, the origin of the transaction and the fee it        *)
(* computed stay in their ranges: in particular get_tx_fee's uint64_t      *)
(* subtraction never wraps on an accepted transaction.                     *)
THEOREM TypeCorrect == Spec => []TypeOK
<1>1. TInv => TypeOK
  BY DEF TInv
<1> QED
  BY <1>1, TInvariant, PTL

(* checkMoneyOverflow (CryptoNoteFormatUtils.cpp lines 378-410) rejects   *)
(* exactly the transactions whose true input or output total does not fit *)
(* in uint64_t, for every width of amounts and every number of inputs and *)
(* outputs.                                                                *)
THEOREM OverflowExact == Spec => []OverflowCheckExact
<1>1. TInv => OverflowCheckExact
  <2> SUFFICES ASSUME TInv
               PROVE  checkMoneyOverflow(tx) <=>
                        /\ RealSum(InAmounts(tx)) < AmountMod
                        /\ RealSum(OutAmounts(tx)) < AmountMod
    BY DEF OverflowCheckExact
  <2>1. InAmounts(tx) \in Seq(0..(AmountMod - 1)) /\ OutAmounts(tx) \in Seq(0..(AmountMod - 1))
    BY DEF TInv, AmountSeq
  <2>2. NoWrapInLoop(InAmounts(tx)) <=> RealSum(InAmounts(tx)) < AmountMod
    BY <2>1, NoWrapExact
  <2>3. NoWrapInLoop(OutAmounts(tx)) <=> RealSum(OutAmounts(tx)) < AmountMod
    BY <2>1, NoWrapExact
  <2> QED
    BY <2>2, <2>3 DEF checkMoneyOverflow, checkInputsOverflow, checkOutsOverflow
<1> QED
  BY <1>1, TInvariant, PTL

(* A transaction the node accepts creates no money and its fee is exact:  *)
(* because checkMoneyOverflow passed, the uint64_t sums get_tx_fee takes   *)
(* are the true sums, so its `inputs >= outputs' test and its subtraction  *)
(* are those of unbounded arithmetic (spec invariant 3).                   *)
THEOREM Balanced == Spec => []AcceptedBalanced
<1>1. TInv => AcceptedBalanced
  <2> SUFFICES ASSUME TInv, status = "accepted"
               PROVE  /\ RealSum(InAmounts(tx)) < AmountMod
                      /\ RealSum(OutAmounts(tx)) < AmountMod
                      /\ RealSum(OutAmounts(tx)) <= RealSum(InAmounts(tx))
                      /\ fee = RealSum(InAmounts(tx)) - RealSum(OutAmounts(tx))
    BY DEF AcceptedBalanced
  <2>1. InAmounts(tx) \in Seq(0..(AmountMod - 1)) /\ OutAmounts(tx) \in Seq(0..(AmountMod - 1))
    BY DEF TInv, AmountSeq
  <2>2. /\ NoWrapInLoop(InAmounts(tx)) /\ NoWrapInLoop(OutAmounts(tx))
        /\ WrapSum(InAmounts(tx)) >= WrapSum(OutAmounts(tx))
        /\ fee = WrapSum(InAmounts(tx)) - WrapSum(OutAmounts(tx))
    BY DEF TInv, TxSemanticsOk, checkMoneyOverflow, checkInputsOverflow,
           checkOutsOverflow, TxFeeOk, get_tx_fee
  <2>3. /\ RealSum(InAmounts(tx)) < AmountMod
        /\ WrapSum(InAmounts(tx)) = RealSum(InAmounts(tx))
    BY <2>1, <2>2, NoWrapExact
  <2>4. /\ RealSum(OutAmounts(tx)) < AmountMod
        /\ WrapSum(OutAmounts(tx)) = RealSum(OutAmounts(tx))
    BY <2>1, <2>2, NoWrapExact
  <2> QED
    BY <2>2, <2>3, <2>4
<1> QED
  BY <1>1, TInvariant, PTL

(* For a transaction the wallet built, the node resolves every input to   *)
(* exactly the ring of absolute output indices the wallet chose.           *)
THEOREM RingsResolved == Spec => []RingResolved
<1>1. TInv => RingResolved
  BY DEF TInv, RingResolved
<1> QED
  BY <1>1, TInvariant, PTL

====
