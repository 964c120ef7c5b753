----------------------------- MODULE ProjectionProofs -----------------------------
(***************************************************************************)
(* For any inputs, any page and any base of its indices: an event list, a  *)
(* callback URL and a page's last element survive the way to Stripe and    *)
(* back.                                                                   *)
(*                                                                         *)
(* What a recursive definition computes is proved by least counterexample: *)
(* the set of the numbers for which a claim fails is empty, because it has *)
(* no least element.                                                       *)
(***************************************************************************)
EXTENDS Projection, WellFoundedInduction, FiniteSetTheorems, SequenceTheorems, TLAPS

(* Numbers. *)

LEMMA LeastNumber ==
    ASSUME NEW S \in SUBSET Nat, S # {} PROVE \E m \in S : \A k \in S : m <= k
  <1>1. PICK m \in S : \A k \in S : <<k, m>> \notin OpToRel(<, Nat)
    BY NatLessThanWellFounded, WFMin
  <1>2. \A k \in S : ~(k < m)
    BY <1>1 DEF OpToRel
  <1> QED BY <1>2

LEMMA Division ==
    ASSUME NEW n \in Nat, NEW b \in Nat \ {0, 1}
    PROVE  /\ n \div b \in Nat /\ n % b \in 0..(b - 1)
           /\ (n \div b) * b + (n % b) = n
           /\ n >= b => n \div b < n
  <1>1. n \div b \in Int /\ n % b \in 0..(b - 1) /\ (n \div b) * b + (n % b) = n
    OBVIOUS
  <1>2. n \div b >= 0
    BY <1>1
  <1>3. n >= b => n \div b < n
    BY <1>1
  <1> QED BY <1>1, <1>2, <1>3
--------------------------------------------------------------------------------
(* Number: the loop over digits computes what its last step says. *)

\* The running index after each of the first k digits.
Counts(digits, k, f) ==
    f = [i \in 0..k |-> IF i = 0 THEN 0 ELSE f[i - 1] * Base + digits[i]]

LEMMA CountsExist ==
    ASSUME NEW digits, NEW n \in Nat PROVE \E f : Counts(digits, n, f)
  <1> DEFINE Fails == {k \in Nat : ~\E f : Counts(digits, k, f)}
  <1>1. SUFFICES ASSUME Fails # {} PROVE FALSE
    OBVIOUS
  <1>2. PICK k \in Fails : \A j \in Fails : k <= j
    BY <1>1, LeastNumber
  <1>3. CASE k = 0
    <2> DEFINE f == [i \in 0..0 |-> 0]
    <2>1. Counts(digits, 0, f)
      BY DEF Counts
    <2> QED BY <1>2, <1>3, <2>1
  <1>4. CASE k > 0
    <2>1. k - 1 \in Nat /\ k \in Nat
      BY <1>2, <1>4
    <2>2. PICK f : Counts(digits, k - 1, f)
      BY <1>2, <2>1
    <2> DEFINE g == [i \in 0..k |-> IF i < k THEN f[i] ELSE f[k - 1] * Base + digits[k]]
    <2>3. \A i \in 0..(k - 1) : g[i] = f[i]
      BY <2>1
    <2>4. \A i \in 0..(k - 1) : f[i] = IF i = 0 THEN 0 ELSE f[i - 1] * Base + digits[i]
      BY <2>1, <2>2 DEF Counts
    <2>5. \A i \in 0..k : g[i] = IF i = 0 THEN 0 ELSE g[i - 1] * Base + digits[i]
      <3>1. ASSUME NEW i \in 0..k, i < k, i # 0 PROVE g[i] = g[i - 1] * Base + digits[i]
        <4>1. i \in 0..(k - 1) /\ i - 1 \in 0..(k - 1)
          BY <2>1, <3>1
        <4>2. g[i] = f[i] /\ g[i - 1] = f[i - 1]
          BY <2>3, <4>1
        <4> HIDE DEF g
        <4> QED BY <2>4, <3>1, <4>1, <4>2
      <3>2. 0 \in 0..k /\ 0 \in 0..(k - 1) /\ k \in 0..k /\ k - 1 \in 0..(k - 1) /\ ~(k < k)
        BY <2>1, <1>4
      <3>3. g[0] = 0
        BY <2>3, <2>4, <3>2
      <3>4. g[k] = g[k - 1] * Base + digits[k]
        <4>1. g[k] = f[k - 1] * Base + digits[k]
          BY <3>2
        <4> QED BY <2>3, <3>2, <4>1
      <3> HIDE DEF g
      <3>5. \A i \in 0..k : i = 0 \/ (i < k /\ i # 0) \/ i = k
        BY <2>1
      <3> QED BY <1>4, <3>1, <3>3, <3>4, <3>5
    <2>6. Counts(digits, k, g)
      BY <2>5 DEF Counts
    <2> QED BY <1>2, <2>6
  <1> QED BY <1>2, <1>3, <1>4

LEMMA CountsAgree ==
    ASSUME NEW digits, NEW other, NEW k \in Nat, NEW l \in Nat, k <= l,
           NEW f, Counts(digits, k, f), NEW g, Counts(other, l, g),
           \A i \in 1..k : digits[i] = other[i]
    PROVE  f[k] = g[k]
  <1> DEFINE Fails == {i \in 0..k : f[i] # g[i]}
  <1>1. SUFFICES ASSUME Fails # {} PROVE FALSE
    OBVIOUS
  <1>2. PICK i \in Fails : \A j \in Fails : i <= j
    <2>1. Fails \in SUBSET Nat
      OBVIOUS
    <2> HIDE DEF Fails
    <2> QED BY <1>1, <2>1, LeastNumber
  <1>3. i \in 0..k /\ f[i] # g[i]
    BY <1>2
  <1>4. /\ f[i] = IF i = 0 THEN 0 ELSE f[i - 1] * Base + digits[i]
        /\ g[i] = IF i = 0 THEN 0 ELSE g[i - 1] * Base + other[i]
    BY <1>3 DEF Counts
  <1>5. i # 0 /\ i - 1 \in 0..k /\ i \in 1..k
    BY <1>3, <1>4
  <1>6. i - 1 \notin Fails
    BY <1>2, <1>3, <1>5
  <1>7. f[i - 1] = g[i - 1]
    BY <1>5, <1>6
  <1> QED BY <1>3, <1>4, <1>5, <1>7

\* One digit more (project.go listIndex).
LEMMA NumberAppend ==
    ASSUME NEW digits \in Seq(Nat), NEW x \in Nat
    PROVE  Number(Append(digits, x)) = Number(digits) * Base + x
  <1> DEFINE n == Len(digits)
             longer == Append(digits, x)
             f == CHOOSE f : Counts(digits, n, f)
             g == CHOOSE g : Counts(longer, n + 1, g)
  <1>1. n \in Nat /\ Len(longer) = n + 1
    BY AppendProperties
  <1>2. longer[n + 1] = x /\ \A i \in 1..n : digits[i] = longer[i]
    BY AppendProperties
  <1>3. Counts(digits, n, f) /\ Counts(longer, n + 1, g)
    <2>1. (\E h : Counts(digits, n, h)) /\ (\E h : Counts(longer, n + 1, h))
      <3>1. n + 1 \in Nat
        BY <1>1
      <3> HIDE DEF longer, n
      <3> QED BY <1>1, <3>1, CountsExist
    <2> QED BY <2>1
  <1>4. Number(digits) = f[n] /\ Number(longer) = g[n + 1]
    BY <1>1 DEF Number, Counts
  <1> HIDE DEF f, g, longer, n
  <1>5. g[n + 1] = g[n] * Base + x
    BY <1>1, <1>2, <1>3 DEF Counts
  <1>6. f[n] = g[n]
    BY <1>1, <1>2, <1>3, CountsAgree
  <1> QED BY <1>4, <1>5, <1>6 DEF longer

LEMMA NumberOne == ASSUME NEW x \in Nat PROVE Number(<<x>>) = x
  <1>1. Number(<<>>) = 0
    <2>1. PICK h : Counts(<<>>, 0, h)
      BY CountsExist
    <2> DEFINE f == CHOOSE f : Counts(<<>>, 0, f)
    <2>2. Counts(<<>>, 0, f)
      BY <2>1
    <2>3. Number(<<>>) = f[0]
      BY DEF Number, Counts
    <2> HIDE DEF f
    <2>4. f[0] = 0
      BY <2>2 DEF Counts
    <2> QED BY <2>3, <2>4
  <1>2. <<>> \in Seq(Nat) /\ Append(<<>>, x) = <<x>>
    OBVIOUS
  <1>3. Number(<<x>>) = Number(<<>>) * Base + x
    BY <1>2, NumberAppend
  <1>4. \A b \in Nat : 0 * b + x = x
    OBVIOUS
  <1>5. Base \in Nat
    BY ProjectionAssumption
  <1> QED BY <1>1, <1>3, <1>4, <1>5
--------------------------------------------------------------------------------
(* Digits: the host's way to write an index is undone by listIndex. *)

\* The digits of m, given those of smaller numbers; and the digits of 0 to n.
Spell(f, m) == IF m < Base THEN <<m>> ELSE Append(f[m \div Base], m % Base)
Writes(n, f) == f = [m \in 0..n |-> Spell(f, m)]

LEMMA SpellLocal ==
    ASSUME NEW m \in Nat, NEW f, NEW g, ~(m < Base) => f[m \div Base] = g[m \div Base]
    PROVE  Spell(f, m) = Spell(g, m)
  BY DEF Spell

LEMMA Quotient ==
    ASSUME NEW n \in Nat
    PROVE  /\ n \div Base \in Nat /\ n % Base \in 0..(Base - 1) /\ n % Base \in Nat
           /\ (n \div Base) * Base + (n % Base) = n
           /\ ~(n < Base) => n \div Base < n
  <1>1. Base \in Nat \ {0, 1}
    BY ProjectionAssumption
  <1>2. n \div Base \in Nat /\ n % Base \in 0..(Base - 1)
    BY <1>1, Division
  <1>3. (n \div Base) * Base + (n % Base) = n
    BY <1>1, Division
  <1>4. n >= Base => n \div Base < n
    BY <1>1, Division
  <1> QED BY <1>1, <1>2, <1>3, <1>4

LEMMA WritesExist == ASSUME NEW n \in Nat PROVE \E f : Writes(n, f)
  <1> DEFINE Fails == {k \in Nat : ~\E f : Writes(k, f)}
  <1>1. SUFFICES ASSUME Fails # {} PROVE FALSE
    OBVIOUS
  <1>2. PICK k \in Fails : \A j \in Fails : k <= j
    BY <1>1, LeastNumber
  <1>3. CASE k = 0
    <2> DEFINE f == [m \in 0..0 |-> Spell(<<>>, m)]
    <2>1. \A m \in 0..0 : Spell(f, m) = Spell(<<>>, m)
      <3>1. \A m \in 0..0 : m \in Nat /\ m < Base
        <4>1. Base \in Nat \ {0, 1}
          BY ProjectionAssumption
        <4> HIDE DEF f
        <4> QED BY <4>1
      <3> HIDE DEF f
      <3> QED BY <3>1, SpellLocal
    <2>2. f = [m \in 0..0 |-> Spell(f, m)]
      BY <2>1
    <2>3. Writes(0, f)
      BY <2>2 DEF Writes
    <2> QED BY <1>2, <1>3, <2>3
  <1>4. CASE k > 0
    <2>1. k - 1 \in Nat /\ k \in Nat
      BY <1>2, <1>4
    <2>2. PICK f : Writes(k - 1, f)
      BY <1>2, <2>1
    <2> DEFINE g == [m \in 0..k |-> IF m < k THEN f[m] ELSE Spell(f, k)]
    <2>3. \A m \in 0..(k - 1) : g[m] = f[m] /\ f[m] = Spell(f, m)
      BY <2>1, <2>2 DEF Writes
    <2>4. k \in 0..k /\ g[k] = Spell(f, k)
      BY <2>1
    <2>5. ASSUME NEW m \in 0..k PROVE g[m] = Spell(g, m)
      <3>1. g[m] = Spell(f, m)
        <4>1. m \in 0..(k - 1) \/ m = k
          BY <2>1
        <4> HIDE DEF g
        <4> QED BY <2>3, <2>4, <4>1
      <3>2. ~(m < Base) => m \div Base \in 0..(k - 1)
        BY <2>1, Quotient
      <3>3. ~(m < Base) => g[m \div Base] = f[m \div Base]
        BY <2>3, <3>2
      <3> HIDE DEF g
      <3> QED BY <2>1, <3>1, <3>3, SpellLocal
    <2>6. g = [m \in 0..k |-> Spell(g, m)]
      <3>1. g = [m \in 0..k |-> g[m]]
        OBVIOUS
      <3> HIDE DEF g
      <3> QED BY <2>5, <3>1
    <2>7. Writes(k, g)
      <3> HIDE DEF g
      <3> QED BY <2>6 DEF Writes
    <2> QED BY <1>2, <2>7
  <1> QED BY <1>2, <1>3, <1>4

LEMMA WritesAgree ==
    ASSUME NEW k \in Nat, NEW l \in Nat, NEW f, Writes(k, f), NEW g, Writes(l, g),
           NEW n \in Nat, n <= k, n <= l
    PROVE  f[n] = g[n]
  <1> DEFINE Fails == {m \in 0..n : f[m] # g[m]}
  <1>1. SUFFICES ASSUME Fails # {} PROVE FALSE
    BY DEF Fails
  <1>2. PICK m \in Fails : \A j \in Fails : m <= j
    <2>1. Fails \in SUBSET Nat
      OBVIOUS
    <2> HIDE DEF Fails
    <2> QED BY <1>1, <2>1, LeastNumber
  <1>3. m \in 0..n /\ f[m] # g[m]
    BY <1>2
  <1>4. f[m] = Spell(f, m) /\ g[m] = Spell(g, m)
    <2>1. m \in 0..k /\ m \in 0..l
      BY <1>3
    <2> QED BY <2>1 DEF Writes
  <1>5. ~(m < Base)
    BY <1>3, <1>4 DEF Spell
  <1>6. m \div Base \in 0..n /\ m \div Base < m
    BY <1>3, <1>5, Quotient
  <1>7. m \div Base \notin Fails
    BY <1>2, <1>3, <1>6
  <1>8. f[m \div Base] = g[m \div Base]
    BY <1>6, <1>7
  <1> QED BY <1>3, <1>4, <1>8, SpellLocal

LEMMA DigitsDef ==
    ASSUME NEW n \in Nat
    PROVE  Digits[n] = Spell(Digits, n)
  <1> DEFINE upTo(m) == CHOOSE f : Writes(m, f)
             all == [m \in Nat |-> upTo(m)[m]]
  <1>1. \A m \in Nat : Writes(m, upTo(m))
    BY WritesExist
  <1> HIDE DEF upTo
  <1>2. ASSUME NEW m \in Nat PROVE all[m] = Spell(all, m)
    <2>1. upTo(m)[m] = Spell(upTo(m), m)
      BY <1>1 DEF Writes
    <2>2. ~(m < Base) => m \div Base \in Nat /\ m \div Base <= m
      BY Quotient
    <2>3. ~(m < Base) => upTo(m)[m \div Base] = upTo(m \div Base)[m \div Base]
      BY <1>1, <2>2, WritesAgree
    <2>4. ~(m < Base) => all[m \div Base] = upTo(m)[m \div Base]
      BY <2>2, <2>3
    <2>5. all[m] = upTo(m)[m]
      OBVIOUS
    <2> HIDE DEF all
    <2> QED BY <2>1, <2>4, <2>5, SpellLocal
  <1>3. all = [m \in Nat |-> Spell(all, m)]
    <2>1. all = [m \in Nat |-> all[m]]
      OBVIOUS
    <2> HIDE DEF all
    <2> QED BY <1>2, <2>1
  <1> HIDE DEF all
  <1> DEFINE Whole(h) == h = [m \in Nat |-> Spell(h, m)]
  <1>4. Digits = CHOOSE h : Whole(h)
    BY DEF Digits, Spell
  <1>5. Whole(all)
    BY <1>3
  <1> HIDE DEF Whole
  <1>6. Whole(Digits)
    BY <1>4, <1>5
  <1> QED BY <1>6 DEF Whole

\* Whatever the base and the number of digits, listIndex reads the index written.
LEMMA NumberOfDigits ==
    ASSUME NEW n \in Nat PROVE Digits[n] \in Seq(Nat) /\ Number(Digits[n]) = n
  <1> DEFINE Fails == {k \in Nat : ~(Digits[k] \in Seq(Nat) /\ Number(Digits[k]) = k)}
  <1>1. SUFFICES ASSUME Fails # {} PROVE FALSE
    OBVIOUS
  <1>2. PICK k \in Fails : \A j \in Fails : k <= j
    BY <1>1, LeastNumber
  <1>3. CASE k < Base
    <2>1. Digits[k] = <<k>>
      BY <1>2, <1>3, DigitsDef DEF Spell
    <2>2. k \in Nat /\ <<k>> \in Seq(Nat)
      BY <1>2
    <2>3. Number(<<k>>) = k
      BY <2>2, NumberOne
    <2> QED BY <1>2, <2>1, <2>2, <2>3
  <1>4. CASE ~(k < Base)
    <2>1. Digits[k] = Append(Digits[k \div Base], k % Base)
      BY <1>2, <1>4, DigitsDef DEF Spell
    <2>2. k \div Base \in Nat /\ k \div Base < k /\ k % Base \in Nat
      BY <1>2, <1>4, Quotient
    <2>3. k \div Base \notin Fails
      BY <1>2, <2>2
    <2>4. Digits[k \div Base] \in Seq(Nat) /\ Number(Digits[k \div Base]) = k \div Base
      BY <2>2, <2>3
    <2>5. Number(Digits[k]) = (k \div Base) * Base + (k % Base)
      BY <2>1, <2>2, <2>4, NumberAppend
    <2>6. Number(Digits[k]) = k
      BY <1>2, <2>5, Quotient
    <2>7. Digits[k] \in Seq(Nat)
      BY <2>1, <2>2, <2>4
    <2> QED BY <1>2, <2>6, <2>7
  <1> QED BY <1>3, <1>4

LEMMA ListIndexOfPath ==
    ASSUME NEW prefix, NEW n \in Nat, NEW suffix PROVE ListIndex(Path(prefix, n, suffix)) = n
  BY NumberOfDigits DEF ListIndex, Path
--------------------------------------------------------------------------------
(* Ordered: every finite set can be sorted, and nothing is lost or doubled. *)

Sorted(s, key) == \A i, j \in DOMAIN s : i < j => key[s[i]] <= key[s[j]]

LEMMA SequenceOfSet ==
    ASSUME NEW S, IsFiniteSet(S), NEW s \in SetToSeqs(S)
    PROVE  /\ Cardinality(S) \in Nat /\ DOMAIN s = 1..Cardinality(S) /\ s \in [DOMAIN s -> S]
           /\ \A i, j \in DOMAIN s : s[i] = s[j] => i = j
           /\ \A x \in S : \E i \in DOMAIN s : s[i] = x
           /\ s \in Seq(S) /\ Len(s) = Cardinality(S) /\ ToSet(s) = S
  <1> DEFINE n == Cardinality(S)
             D == 1..n
  <1>1. n \in Nat
    BY FS_CardinalityType
  <1>2. s \in [D -> S] /\ \A i, j \in D : i # j => s[i] # s[j]
    BY DEF SetToSeqs
  <1>3. s \in Injection(D, S)
    BY <1>2 DEF Injection, IsInjective
  <1>4. Cardinality(D) = n
    BY <1>1, FS_Interval
  <1>5. s \in Surjection(D, S)
    BY <1>3, <1>4, FS_Injection
  <1>6. \A x \in S : \E i \in D : s[i] = x
    BY <1>5 DEF Surjection
  <1>7. s \in Seq(S) /\ Len(s) = n
    BY <1>1, <1>2
  <1>8. ToSet(s) = S
    BY <1>2, <1>6 DEF ToSet
  <1> QED BY <1>1, <1>2, <1>6, <1>7, <1>8

LEMMA CanBeSorted ==
    ASSUME NEW S, IsFiniteSet(S), NEW key \in [S -> Nat]
    PROVE  \E s \in SetToSeqs(S) : Sorted(s, key)
  <1> DEFINE Unsortable(T) == ~\E s \in SetToSeqs(T) : Sorted(s, key)
             Fails == {n \in Nat : \E T \in SUBSET S : Cardinality(T) = n /\ Unsortable(T)}
  <1>0. Fails \in SUBSET Nat
    OBVIOUS
  <1> HIDE DEF Unsortable
  <1>1. SUFFICES ASSUME Fails # {} PROVE FALSE
    <2>1. Cardinality(S) \in Nat /\ Cardinality(S) \notin Fails
      BY <1>1, FS_CardinalityType
    <2>2. ~Unsortable(S)
      BY <2>1
    <2> QED BY <2>2 DEF Unsortable
  <1>2. PICK n \in Fails : \A k \in Fails : n <= k
    <2> HIDE DEF Fails
    <2> QED BY <1>0, <1>1, LeastNumber
  <1>3. PICK T \in SUBSET S : Cardinality(T) = n /\ Unsortable(T)
    BY <1>2
  <1>4. n \in Nat /\ IsFiniteSet(T)
    BY <1>2, FS_Subset
  <1>5. CASE n = 0
    <2>1. T = {}
      BY <1>3, <1>4, <1>5, FS_EmptySet
    <2> DEFINE s == [i \in 1..0 |-> i]
    <2>2. s \in [1..0 -> T] /\ DOMAIN s = 1..0 /\ 1..0 = {}
      OBVIOUS
    <2> HIDE DEF s
    <2>3. s \in SetToSeqs(T)
      BY <1>3, <1>5, <2>2 DEF SetToSeqs
    <2>4. Sorted(s, key)
      BY <2>2 DEF Sorted
    <2> QED BY <1>3, <2>3, <2>4 DEF Unsortable
  <1>6. CASE n > 0
    <2>1. T # {}
      BY <1>3, <1>4, <1>6, FS_EmptySet
    <2> DEFINE keys == {key[x] : x \in T}
    <2>2. keys \in SUBSET Nat /\ keys # {}
      BY <2>1
    <2>3. PICK least \in keys : \A k \in keys : least <= k
      <3> HIDE DEF keys
      <3> QED BY <2>2, LeastNumber
    <2>4. PICK x \in T : \A y \in T : key[x] <= key[y]
      BY <2>3
    <2> DEFINE U == T \ {x}
    <2>5. IsFiniteSet(U) /\ Cardinality(U) = n - 1
      BY <1>3, <1>4, FS_RemoveElement
    <2>6. U \in SUBSET S /\ n - 1 \in Nat /\ n - 1 \notin Fails
      BY <1>2, <1>4, <1>6
    <2>7. ~Unsortable(U)
      BY <2>5, <2>6
    <2>8. PICK t \in SetToSeqs(U) : Sorted(t, key)
      BY <2>7 DEF Unsortable
    <2>9. /\ DOMAIN t = 1..(n - 1) /\ t \in [1..(n - 1) -> U]
          /\ \A i, j \in 1..(n - 1) : t[i] = t[j] => i = j
      <3> HIDE DEF U
      <3> QED BY <2>5, <2>8, SequenceOfSet
    <2> DEFINE s == [i \in 1..n |-> IF i = 1 THEN x ELSE t[i - 1]]
    <2>10. \A i \in 1..n : i = 1 \/ i - 1 \in 1..(n - 1)
      BY <1>4
    <2>11. \A i \in 1..n : s[i] = IF i = 1 THEN x ELSE t[i - 1]
      OBVIOUS
    <2>12. DOMAIN s = 1..n /\ s \in [1..n -> T]
      BY <2>9, <2>10
    <2> HIDE DEF s
    <2>13. ASSUME NEW i \in 1..n, NEW j \in 1..n, i # j PROVE s[i] # s[j]
      <3>1. CASE i = 1
        BY <2>9, <2>10, <2>11, <2>13, <3>1
      <3>2. CASE j = 1
        BY <2>9, <2>10, <2>11, <2>13, <3>2
      <3>3. CASE i # 1 /\ j # 1
        <4>1. i - 1 \in 1..(n - 1) /\ j - 1 \in 1..(n - 1) /\ i - 1 # j - 1
          BY <2>10, <2>13, <3>3
        <4> QED BY <2>9, <2>11, <3>3, <4>1
      <3> QED BY <3>1, <3>2, <3>3
    <2>14. s \in SetToSeqs(T)
      BY <1>3, <2>12, <2>13 DEF SetToSeqs
    <2>15. ASSUME NEW i \in 1..n, NEW j \in 1..n, i < j PROVE key[s[i]] <= key[s[j]]
      <3>1. j # 1 /\ j - 1 \in 1..(n - 1) /\ s[j] = t[j - 1] /\ s[j] \in T
        BY <2>10, <2>11, <2>12, <2>15
      <3>2. CASE i = 1
        BY <2>4, <2>11, <3>1, <3>2
      <3>3. CASE i # 1
        <4>1. i - 1 \in 1..(n - 1) /\ s[i] = t[i - 1] /\ i - 1 < j - 1
          BY <2>10, <2>11, <2>15, <3>3
        <4> QED BY <2>8, <2>9, <3>1, <4>1 DEF Sorted
      <3> QED BY <3>2, <3>3
    <2>16. Sorted(s, key)
      BY <2>12, <2>15 DEF Sorted
    <2> QED BY <1>3, <2>14, <2>16 DEF Unsortable
  <1> QED BY <1>4, <1>5, <1>6

\* What sort.Strings, sort.Ints and sort.Slice leave (inputs.go, project.go).
LEMMA OrderedIsSorted ==
    ASSUME NEW S, IsFiniteSet(S), NEW key \in [S -> Nat]
    PROVE  Ordered(S, key) \in SetToSeqs(S) /\ Sorted(Ordered(S, key), key)
  <1>1. Ordered(S, key) = CHOOSE s \in SetToSeqs(S) : Sorted(s, key)
    BY DEF Ordered, Sorted
  <1>2. \E s \in SetToSeqs(S) : Sorted(s, key)
    BY CanBeSorted
  <1> QED BY <1>1, <1>2

LEMMA AscendingIsSorted ==
    ASSUME NEW S \in SUBSET Nat, IsFiniteSet(S)
    PROVE  /\ Ascending(S) \in Seq(S) /\ Len(Ascending(S)) = Cardinality(S)
           /\ ToSet(Ascending(S)) = S
           /\ \A i, j \in 1..Cardinality(S) : i < j => Ascending(S)[i] <= Ascending(S)[j]
  <1> DEFINE key == [n \in S |-> n]
             s == Ordered(S, key)
  <1>1. key \in [S -> Nat] /\ \A n \in S : key[n] = n
    OBVIOUS
  <1>2. s = Ascending(S)
    BY DEF Ascending
  <1> HIDE DEF key
  <1>3. s \in SetToSeqs(S) /\ Sorted(s, key)
    BY <1>1, OrderedIsSorted
  <1> HIDE DEF s
  <1>4. /\ DOMAIN s = 1..Cardinality(S) /\ s \in [DOMAIN s -> S]
        /\ s \in Seq(S) /\ Len(s) = Cardinality(S) /\ ToSet(s) = S
    BY <1>3, SequenceOfSet
  <1>5. \A i, j \in 1..Cardinality(S) : i < j => s[i] <= s[j]
    BY <1>1, <1>3, <1>4 DEF Sorted
  <1> QED BY <1>2, <1>4, <1>5

\* Sorting what is sorted changes nothing (inputs.go normalizeEvents).
LEMMA NormalizeAgain ==
    ASSUME NEW names, NEW S \in SUBSET Nat, IsFiniteSet(S), ToSet(names) \ {0} = S
    PROVE  NormalizeEvents(names) = Ascending(S) /\ NormalizeEvents(Ascending(S)) = Ascending(S)
  <1>1. 0 \notin S
    OBVIOUS
  <1>2. ToSet(Ascending(S)) \ {0} = S
    BY <1>1, AscendingIsSorted
  <1> QED BY <1>2 DEF NormalizeEvents
--------------------------------------------------------------------------------
(* TrimRight and TrimLeft. *)

LEMMA MaxIsGreatest ==
    ASSUME NEW n \in Nat, NEW S \in SUBSET (0..n), S # {}
    PROVE  Max(S) \in S /\ \A x \in S : x <= Max(S)
  <1> DEFINE T == {n - x : x \in S}
  <1>1. T \in SUBSET Nat /\ T # {}
    <2>1. \A x \in S : n - x \in Nat
      OBVIOUS
    <2> QED BY <2>1
  <1>2. PICK least \in T : \A t \in T : least <= t
    <2> HIDE DEF T
    <2> QED BY <1>1, LeastNumber
  <1>3. PICK m \in S : least = n - m
    BY <1>2
  <1>4. \A x \in S : m >= x
    BY <1>2, <1>3
  <1>5. Max(S) = CHOOSE x \in S : \A y \in S : x >= y
    BY DEF Max
  <1>6. Max(S) \in S /\ \A y \in S : Max(S) >= y
    BY <1>4, <1>5
  <1> QED BY <1>6

LEMMA MinIsLeast ==
    ASSUME NEW S \in SUBSET Nat, S # {} PROVE Min(S) \in S /\ \A x \in S : Min(S) <= x
  <1>1. PICK m \in S : \A x \in S : m =< x
    BY LeastNumber
  <1>2. Min(S) = CHOOSE x \in S : \A y \in S : x =< y
    BY DEF Min
  <1> QED BY <1>1, <1>2

\* strings.TrimRight: up to the last character that is not cut.
LEMMA TrimRightKeeps ==
    ASSUME NEW C, NEW s \in Seq(C), NEW cut, NEW k \in 0..Len(s),
           k = 0 \/ s[k] \notin cut, \A i \in (k + 1)..Len(s) : s[i] \in cut
    PROVE  TrimRight(s, cut) = SubSeq(s, 1, k)
  <1> DEFINE S == {0} \cup {i \in DOMAIN s : s[i] \notin cut}
  <1>1. S \in SUBSET (0..Len(s)) /\ S # {} /\ Len(s) \in Nat
    OBVIOUS
  <1>2. k \in S /\ \A i \in S : i <= k
    OBVIOUS
  <1>3. TrimRight(s, cut) = SubSeq(s, 1, Max(S))
    BY DEF TrimRight
  <1> HIDE DEF S
  <1>4. Max(S) \in S /\ \A x \in S : x <= Max(S)
    BY <1>1, MaxIsGreatest
  <1>5. Max(S) = k
    <2>1. Max(S) \in 0..Len(s)
      BY <1>1, <1>4
    <2>2. k <= Max(S) /\ Max(S) <= k
      BY <1>2, <1>4
    <2> QED BY <1>1, <2>1, <2>2
  <1> QED BY <1>3, <1>5

\* strings.TrimLeft: from the first character that is not cut.
LEMMA TrimLeftKeeps ==
    ASSUME NEW C, NEW s \in Seq(C), NEW cut, NEW k \in 1..(Len(s) + 1),
           k = Len(s) + 1 \/ s[k] \notin cut, \A i \in 1..(k - 1) : s[i] \in cut
    PROVE  TrimLeft(s, cut) = SubSeq(s, k, Len(s))
  <1> DEFINE S == {Len(s) + 1} \cup {i \in DOMAIN s : s[i] \notin cut}
  <1>1. S \in SUBSET Nat /\ S # {} /\ Len(s) \in Nat
    OBVIOUS
  <1>2. k \in S /\ \A i \in S : k <= i
    OBVIOUS
  <1>3. TrimLeft(s, cut) = SubSeq(s, Min(S), Len(s))
    BY DEF TrimLeft
  <1> HIDE DEF S
  <1>4. Min(S) \in S /\ \A x \in S : Min(S) <= x
    BY <1>1, MinIsLeast
  <1>5. Min(S) = k
    <2>1. k \in Nat /\ Min(S) \in Nat /\ k <= Min(S) /\ Min(S) <= k
      BY <1>1, <1>2, <1>4
    <2> QED BY <2>1
  <1> QED BY <1>3, <1>5

\* A URL that has a scheme and a host.
Proper(C, s) == s \in Seq(C) /\ \E i \in 1..Len(s) : s[i] = "a"

LEMMA TrimRightProper ==
    ASSUME NEW C, NEW s, Proper(C, s), NEW cut, "a" \notin cut
    PROVE  /\ Proper(C, TrimRight(s, cut)) /\ TrimRight(s, cut)[1] = s[1]
           /\ TrimRight(s, cut)[Len(TrimRight(s, cut))] \notin cut
  <1> DEFINE S == {i \in 1..Len(s) : s[i] \notin cut}
             k == Max(S)
             t == SubSeq(s, 1, k)
  <1>1. PICK a \in 1..Len(s) : s[a] = "a"
    BY DEF Proper
  <1>2. s \in Seq(C) /\ Len(s) \in Nat
    BY DEF Proper
  <1>3. k \in S /\ \A i \in S : i <= k
    <2>1. S \in SUBSET (0..Len(s)) /\ S # {}
      BY <1>1, <1>2
    <2> HIDE DEF S
    <2> QED BY <1>2, <2>1, MaxIsGreatest
  <1> HIDE DEF k
  <1>4. k \in 1..Len(s) /\ s[k] \notin cut /\ a <= k
    BY <1>1, <1>3
  <1>5. \A i \in (k + 1)..Len(s) : s[i] \in cut
    BY <1>2, <1>3, <1>4
  <1>6. TrimRight(s, cut) = t
    <2>1. k \in 0..Len(s)
      BY <1>2, <1>4
    <2> HIDE DEF S
    <2> QED BY <1>2, <1>4, <1>5, <2>1, TrimRightKeeps
  <1>7. t \in Seq(C) /\ Len(t) = k /\ \A i \in 1..k : t[i] = s[i]
    <2>1. 1 \in Int /\ k \in Int /\ \A i \in 1..k : s[i] \in C
      BY <1>2, <1>4
    <2>2. /\ SubSeq(s, 1, k) \in Seq(C) /\ Len(SubSeq(s, 1, k)) = IF 1 <= k THEN k - 1 + 1 ELSE 0
          /\ \A i \in 1..(k - 1 + 1) : SubSeq(s, 1, k)[i] = s[1 + i - 1]
      BY <2>1, SubSeqProperties
    <2> QED BY <1>2, <1>4, <2>2
  <1> HIDE DEF t, S
  <1> QED BY <1>1, <1>4, <1>6, <1>7 DEF Proper

LEMMA TrimLeftProper ==
    ASSUME NEW C, NEW s, Proper(C, s), NEW cut, "a" \notin cut
    PROVE  /\ Proper(C, TrimLeft(s, cut)) /\ TrimLeft(s, cut)[1] \notin cut
           /\ TrimLeft(s, cut)[Len(TrimLeft(s, cut))] = s[Len(s)]
  <1> DEFINE S == {i \in 1..Len(s) : s[i] \notin cut}
             k == Min(S)
             n == Len(s)
             t == SubSeq(s, k, n)
  <1>1. PICK a \in 1..n : s[a] = "a"
    BY DEF Proper
  <1>2. s \in Seq(C) /\ n \in Nat
    BY DEF Proper
  <1>3. k \in S /\ \A i \in S : k <= i
    <2>1. S \in SUBSET Nat /\ S # {}
      BY <1>1, <1>2
    <2> HIDE DEF S
    <2> QED BY <2>1, MinIsLeast
  <1> HIDE DEF k
  <1>4. k \in 1..n /\ s[k] \notin cut /\ k <= a
    BY <1>1, <1>3
  <1>5. \A i \in 1..(k - 1) : s[i] \in cut
    BY <1>2, <1>3, <1>4
  <1>6. TrimLeft(s, cut) = t
    <2>1. k \in 1..(n + 1)
      BY <1>2, <1>4
    <2> HIDE DEF S
    <2> QED BY <1>2, <1>4, <1>5, <2>1, TrimLeftKeeps
  <1>7. t \in Seq(C) /\ Len(t) = n - k + 1 /\ \A i \in 1..(n - k + 1) : t[i] = s[k + i - 1]
    <2>1. n \in Int /\ k \in Int /\ \A i \in k..n : s[i] \in C
      BY <1>2, <1>4
    <2>2. /\ SubSeq(s, k, n) \in Seq(C) /\ Len(SubSeq(s, k, n)) = IF k <= n THEN n - k + 1 ELSE 0
          /\ \A i \in 1..(n - k + 1) : SubSeq(s, k, n)[i] = s[k + i - 1]
      <3> HIDE DEF n
      <3> QED BY <2>1, SubSeqProperties
    <2> QED BY <1>2, <1>4, <2>2
  <1> HIDE DEF t, S
  <1>8. t[1] = s[k] /\ t[n - k + 1] = s[n]
    BY <1>2, <1>4, <1>7
  <1>9. a - k + 1 \in 1..(n - k + 1) /\ t[a - k + 1] = "a"
    BY <1>1, <1>2, <1>4, <1>7
  <1>10. Proper(C, t)
    BY <1>7, <1>9 DEF Proper
  <1> QED BY <1>4, <1>6, <1>7, <1>8, <1>10

\* A normalised URL starts without a space and ends without a slash.
LEMMA NormalizeURLProper ==
    ASSUME NEW C, NEW raw, Proper(C, raw), NEW d, d = NormalizeURL(raw)
    PROVE  Proper(C, d) /\ d[1] # "space" /\ d[Len(d)] # "slash"
  <1> DEFINE l == TrimLeft(raw, {"space"})
             t == TrimRight(l, {"space"})
  <1>1. "a" \notin {"space"} /\ "a" \notin {"slash"}
    OBVIOUS
  <1>2. Proper(C, l) /\ l[1] # "space"
    BY <1>1, TrimLeftProper
  <1> HIDE DEF l
  <1>3. Proper(C, t) /\ t[1] = l[1]
    BY <1>1, <1>2, TrimRightProper
  <1>4. d = TrimRight(t, {"slash"})
    BY DEF NormalizeURL, TrimSpace, l
  <1> HIDE DEF t
  <1>5. /\ Proper(C, TrimRight(t, {"slash"})) /\ TrimRight(t, {"slash"})[1] = t[1]
        /\ TrimRight(t, {"slash"})[Len(TrimRight(t, {"slash"}))] \notin {"slash"}
    BY <1>1, <1>3, TrimRightProper
  <1> QED BY <1>2, <1>3, <1>4, <1>5

\* A slash more or less is no drift (inputs.go normalizeURL).
LEMMA NormalizeStoredURL ==
    ASSUME NEW C, NEW d, Proper(C, d), d[1] # "space", d[Len(d)] \notin {"space", "slash"},
           NEW u \in {d, Append(d, "slash")}
    PROVE  NormalizeURL(u) = d
  <1> DEFINE D == C \cup {"slash"}
             n == Len(d)
  <1>1. d \in Seq(D) /\ n \in Nat \ {0}
    <2>1. d \in Seq(C) /\ n \in Nat /\ \E i \in 1..n : d[i] = "a"
      BY DEF Proper
    <2> QED BY <2>1, SeqMonotonic
  <1>2. /\ Append(d, "slash") \in Seq(D) /\ Len(Append(d, "slash")) = n + 1
        /\ Append(d, "slash")[n + 1] = "slash" /\ \A i \in 1..n : Append(d, "slash")[i] = d[i]
    BY <1>1, AppendProperties
  <1>3. /\ u \in Seq(D) /\ Len(u) \in {n, n + 1} /\ \A i \in 1..n : u[i] = d[i]
        /\ Len(u) = n + 1 => u[n + 1] = "slash"
    BY <1>1, <1>2
  <1>4. /\ u[1] \notin {"space"} /\ u[Len(u)] \notin {"space"} /\ Len(u) \in Nat \ {0}
        /\ u[n] \notin {"slash"} /\ \A i \in (n + 1)..Len(u) : u[i] \in {"slash"}
    BY <1>1, <1>3
  <1>5. SubSeq(u, 1, Len(u)) = u
    BY <1>3, SubSeqFull
  <1>6. TrimLeft(u, {"space"}) = u
    <2>1. 1 \in 1..(Len(u) + 1) /\ \A i \in 1..(1 - 1) : u[i] \in {"space"}
      BY <1>4
    <2>2. TrimLeft(u, {"space"}) = SubSeq(u, 1, Len(u))
      BY <1>3, <1>4, <2>1, TrimLeftKeeps
    <2> QED BY <1>5, <2>2
  <1>7. TrimRight(u, {"space"}) = u
    <2> DEFINE m == Len(u)
    <2>1. /\ m \in 0..Len(u) /\ u[m] \notin {"space"}
          /\ \A i \in (m + 1)..Len(u) : u[i] \in {"space"}
      BY <1>4
    <2>2. TrimRight(u, {"space"}) = SubSeq(u, 1, m)
      <3>1. u \in Seq(D)
        BY <1>3
      <3> HIDE DEF m, D
      <3> QED BY <2>1, <3>1, TrimRightKeeps
    <2> QED BY <1>5, <2>2
  <1>8. TrimRight(u, {"slash"}) = SubSeq(u, 1, n)
    <2>1. n \in 0..Len(u)
      BY <1>1, <1>3
    <2>2. u[n] \notin {"slash"} /\ \A i \in (n + 1)..Len(u) : u[i] \in {"slash"}
      BY <1>4
    <2>3. u \in Seq(D)
      BY <1>3
    <2> HIDE DEF n, D
    <2> QED BY <2>1, <2>2, <2>3, TrimRightKeeps
  <1>9. SubSeq(u, 1, n) = d
    <2>1. /\ SubSeq(u, 1, n) \in Seq(D) /\ Len(SubSeq(u, 1, n)) = n
          /\ \A i \in 1..n : SubSeq(u, 1, n)[i] = u[i]
      <3>1. 1 \in Int /\ n \in Int /\ \A i \in 1..n : u[i] \in D
        BY <1>1, <1>3
      <3> HIDE DEF n, D
      <3>2. /\ SubSeq(u, 1, n) \in Seq(D) /\ Len(SubSeq(u, 1, n)) = IF 1 <= n THEN n - 1 + 1 ELSE 0
            /\ \A i \in 1..(n - 1 + 1) : SubSeq(u, 1, n)[i] = u[1 + i - 1]
        BY <3>1, SubSeqProperties
      <3> QED BY <1>1, <3>2
    <2> QED BY <1>1, <1>3, <2>1, SeqEqual
  <1> QED BY <1>6, <1>7, <1>8, <1>9 DEF NormalizeURL, TrimSpace
--------------------------------------------------------------------------------
(* The page: what its paths say. *)

Places(prefix, from, suffix) == {Path(prefix, i, suffix) : i \in from}

LEMMA PathsDiffer ==
    ASSUME NEW prefix, NEW suffix, NEW i \in Nat, NEW j \in Nat,
           Path(prefix, i, suffix) = Path(prefix, j, suffix)
    PROVE  i = j
  BY ListIndexOfPath

LEMMA PathParts ==
    ASSUME NEW prefix, NEW suffix, NEW i
    PROVE  Path(prefix, i, suffix).prefix = prefix /\ Path(prefix, i, suffix).suffix = suffix
  BY DEF Path

\* As many paths as indices.
LEMMA PlacesAreFinite ==
    ASSUME NEW prefix, NEW suffix, NEW n \in Nat
    PROVE  /\ IsFiniteSet(Places(prefix, 0..(n - 1), suffix))
           /\ Cardinality(Places(prefix, 0..(n - 1), suffix)) = n
  <1> DEFINE from == 0..(n - 1)
             f == [i \in from |-> Path(prefix, i, suffix)]
             S == Places(prefix, from, suffix)
  <1>1. IsFiniteSet(from) /\ Cardinality(from) = n
    BY FS_Interval
  <1>2. f \in [from -> S] /\ \A i \in from : f[i] = Path(prefix, i, suffix)
    BY DEF Places
  <1>3. \A x \in S : \E i \in from : f[i] = x
    BY <1>2 DEF Places
  <1>4. \A i, j \in from : f[i] = f[j] => i = j
    BY <1>2, PathsDiffer
  <1> HIDE DEF f, S
  <1>5. f \in Bijection(from, S)
    BY <1>2, <1>3, <1>4 DEF Bijection, Injection, Surjection, IsInjective
  <1>6. ExistsBijection(from, S)
    BY <1>5 DEF ExistsBijection
  <1>7. IsFiniteSet(S) /\ Cardinality(S) = n
    <2> HIDE DEF from
    <2> QED BY <1>1, <1>6, FS_Bijection
  <1> QED BY <1>7 DEF S

LEMMA PageFields ==
    ASSUME NEW n \in Nat, NEW k \in Nat, DOMAIN stored.events = 1..k, fields = Page(n)
    PROVE  /\ Matching("data", ".id") = Places("data", 0..(n - 1), ".id")
           /\ Matching("events", "none") = Places("events", 0..(k - 1), "none")
           /\ Elements = Places("data", 0..(n - 1), ".id")
           /\ \A i \in 1..k : fields[Path("events", i - 1, "none")] = stored.events[i]
  <1> DEFINE data == Places("data", 0..(n - 1), ".id")
             list == Places("events", 0..(k - 1), "none")
  <1>1. list = {Path("events", i - 1, "none") : i \in DOMAIN stored.events}
    <2>1. \A i \in 1..k : i - 1 \in 0..(k - 1)
      OBVIOUS
    <2>2. \A j \in 0..(k - 1) : j + 1 \in 1..k /\ (j + 1) - 1 = j
      OBVIOUS
    <2>3. ASSUME NEW p \in list PROVE \E i \in 1..k : p = Path("events", i - 1, "none")
      <3>1. PICK j \in 0..(k - 1) : p = Path("events", j, "none")
        BY DEF Places
      <3>2. j + 1 \in 1..k /\ p = Path("events", (j + 1) - 1, "none")
        BY <2>2, <3>1
      <3> QED BY <3>2
    <2>4. \A i \in 1..k : Path("events", i - 1, "none") \in list
      BY <2>1 DEF Places
    <2> HIDE DEF list
    <2> QED BY <2>3, <2>4
  <1>2. /\ DOMAIN fields = data \cup list
        /\ \A p \in list : p \notin data => fields[p] = stored.events[ListIndex(p) + 1]
    BY <1>1 DEF Page, Places
  <1>3. /\ \A p \in data : p.prefix = "data" /\ p.suffix = ".id"
        /\ \A p \in list : p.prefix = "events" /\ p.suffix = "none"
    BY PathParts DEF Places
  <1>4. ASSUME NEW i \in 1..k PROVE fields[Path("events", i - 1, "none")] = stored.events[i]
    <2>1. Path("events", i - 1, "none") \in list /\ i - 1 \in Nat
      BY <1>1
    <2>2. ListIndex(Path("events", i - 1, "none")) = i - 1
      BY <2>1, ListIndexOfPath
    <2>3. Path("events", i - 1, "none") \notin data
      BY <1>3, <2>1
    <2>4. fields[Path("events", i - 1, "none")] = stored.events[(i - 1) + 1]
      BY <1>2, <2>1, <2>2, <2>3
    <2> QED BY <2>4
  <1> HIDE DEF data, list
  <1>5. Matching("data", ".id") = data /\ Matching("events", "none") = list /\ Elements = data
    BY <1>2, <1>3 DEF Matching, Elements
  <1> QED BY <1>4, <1>5 DEF data, list

\* collectList finds each event of the stored list (project.go).
LEMMA CollectsAll ==
    ASSUME NEW n \in Nat, NEW k \in Nat, DOMAIN stored.events = 1..k, fields = Page(n)
    PROVE  ToSet(CollectList("events")) = ToSet(stored.events)
  <1> DEFINE items == Matching("events", "none")
             key == [path \in items |-> ListIndex(path)]
             paths == Ordered(items, key)
  <1>1. /\ items = Places("events", 0..(k - 1), "none")
        /\ \A i \in 1..k : fields[Path("events", i - 1, "none")] = stored.events[i]
    BY PageFields
  <1>2. IsFiniteSet(items)
    <2> HIDE DEF items
    <2> QED BY <1>1, PlacesAreFinite
  <1>3. \A p \in items : \E i \in 1..k : p = Path("events", i - 1, "none")
    <2>1. \A j \in 0..(k - 1) : j + 1 \in 1..k /\ (j + 1) - 1 = j
      OBVIOUS
    <2>2. ASSUME NEW p \in items PROVE \E i \in 1..k : p = Path("events", i - 1, "none")
      <3>1. PICK j \in 0..(k - 1) : p = Path("events", j, "none")
        BY <1>1 DEF Places
      <3>2. j + 1 \in 1..k /\ p = Path("events", (j + 1) - 1, "none")
        BY <2>1, <3>1
      <3> QED BY <3>2
    <2> QED BY <2>2
  <1>4. \A i \in 1..k : Path("events", i - 1, "none") \in items
    <2>1. \A i \in 1..k : i - 1 \in 0..(k - 1)
      OBVIOUS
    <2> QED BY <1>1, <2>1 DEF Places
  <1>5. key \in [items -> Nat]
    <2>1. \A i \in 1..k : i - 1 \in Nat
      OBVIOUS
    <2>2. \A p \in items : ListIndex(p) \in Nat
      BY <1>3, <2>1, ListIndexOfPath
    <2> QED BY <2>2
  <1>6. CollectList("events") = [i \in DOMAIN paths |-> fields[paths[i]]]
    BY DEF CollectList
  <1> HIDE DEF items, key
  <1>7. paths \in SetToSeqs(items)
    BY <1>2, <1>5, OrderedIsSorted
  <1> HIDE DEF paths
  <1>8. /\ paths \in [DOMAIN paths -> items]
        /\ \A x \in items : \E i \in DOMAIN paths : paths[i] = x
    BY <1>2, <1>7, SequenceOfSet
  <1>9. ToSet(CollectList("events")) = {fields[paths[i]] : i \in DOMAIN paths}
    BY <1>6 DEF ToSet
  <1>10. ToSet(stored.events) = {stored.events[i] : i \in 1..k}
    BY DEF ToSet
  <1>11. \A i \in DOMAIN paths : \E j \in 1..k : fields[paths[i]] = stored.events[j]
    BY <1>1, <1>3, <1>8
  <1>12. \A j \in 1..k : \E i \in DOMAIN paths : fields[paths[i]] = stored.events[j]
    BY <1>1, <1>4, <1>8
  <1>13. ToSet(CollectList("events")) \subseteq ToSet(stored.events)
    BY <1>9, <1>10, <1>11
  <1>14. ToSet(stored.events) \subseteq ToSet(CollectList("events"))
    BY <1>9, <1>10, <1>12
  <1> QED BY <1>13, <1>14

\* dataIndices ends with the last element of the page (project.go).
LEMMA LastIndex ==
    ASSUME NEW n \in Nat \ {0}, NEW k \in Nat, DOMAIN stored.events = 1..k, fields = Page(n)
    PROVE  Last(DataIndices) = n - 1 /\ Cardinality(Elements) = n
  <1> DEFINE S == 0..(n - 1)
             s == Ascending(S)
  <1>1. /\ Matching("data", ".id") = Places("data", S, ".id")
        /\ Elements = Places("data", S, ".id")
    BY PageFields
  <1>2. Cardinality(Elements) = n
    BY <1>1, PlacesAreFinite
  <1>3. {ListIndex(path) : path \in Places("data", S, ".id")} = S
    <2>1. \A i \in S : i \in Nat
      OBVIOUS
    <2>2. \A i \in S : ListIndex(Path("data", i, ".id")) = i
      BY <2>1, ListIndexOfPath
    <2> HIDE DEF S
    <2> QED BY <2>2 DEF Places
  <1>4. DataIndices = s
    BY <1>1, <1>3 DEF DataIndices
  <1>5. S \in SUBSET Nat /\ IsFiniteSet(S) /\ Cardinality(S) = n
    BY FS_Interval
  <1>6. /\ s \in Seq(S) /\ Len(s) = n /\ ToSet(s) = S
        /\ \A i, j \in 1..n : i < j => s[i] <= s[j]
    <2> HIDE DEF S
    <2> QED BY <1>5, AscendingIsSorted
  <1> HIDE DEF s
  <1>7. DOMAIN s = 1..n /\ s[n] \in S
    BY <1>6
  <1>8. n - 1 \in S
    OBVIOUS
  <1>9. PICK i \in 1..n : s[i] = n - 1
    BY <1>6, <1>7, <1>8 DEF ToSet
  <1>10. s[n] >= n - 1
    BY <1>6, <1>7, <1>9
  <1>11. s[n] = n - 1
    BY <1>7, <1>10
  <1> QED BY <1>2, <1>4, <1>6, <1>11 DEF Last
--------------------------------------------------------------------------------
(* The invariant of the way to Stripe and back. *)

Symbols == Chars \cup {"a"}

\* What Stripe may hold of what was sent.
Holds(s, d) ==
    s.url \in {d.url, Append(d.url, "slash")} /\ s.events \in SetToSeqs(ToSet(d.events))

OnTheWay ==
    /\ phase \in {"write", "sent", "listed", "read"}
    /\ Proper(Symbols, url) /\ events \in Seq(RawEvent)
    /\ phase # "write" => desired = ParseInputs /\ Holds(stored, desired)
    /\ phase \in {"listed", "read"} => \E n \in 1..MaxPage : fields = Page(n)
    /\ phase = "read" =>
          /\ observed.url = NormalizeURL(stored.url)
          /\ observed.events = NormalizeEvents(NormalizeEvents(CollectList("events")))
          /\ cursor = Last(DataIndices)

LEMMA OnTheWayInit == Init => OnTheWay
  <1> SUFFICES ASSUME Init PROVE OnTheWay
    OBVIOUS
  <1>1. <<"a">> \in Seq(Symbols) /\ Len(<<"a">>) = 1 /\ <<"a">>[1] = "a"
    BY DEF Symbols
  <1>2. Proper(Symbols, url)
    BY <1>1 DEF Init, Proper
  <1> QED BY <1>2 DEF Init, OnTheWay

LEMMA WriteKeeps == ASSUME OnTheWay, Write PROVE OnTheWay'
  <1>1. phase = "write" /\ phase' = "write" /\ url \in Seq(Symbols) /\ events \in Seq(RawEvent)
    BY DEF OnTheWay, Write, Proper
  <1>2. PICK i \in 1..Len(url) : url[i] = "a"
    BY DEF OnTheWay, Proper
  <1>3. ASSUME NEW c \in Chars, url' = Append(url, c) PROVE Proper(Symbols, url')
    <2>1. c \in Symbols
      BY DEF Symbols
    <2>2. /\ Append(url, c) \in Seq(Symbols) /\ Len(Append(url, c)) = Len(url) + 1
          /\ Append(url, c)[i] = url[i]
      BY <1>1, <2>1, AppendProperties
    <2>3. i \in 1..(Len(url) + 1)
      BY <1>1
    <2> QED BY <1>2, <1>3, <2>2, <2>3 DEF Proper
  <1>4. ASSUME NEW c \in Chars, url' = <<c>> \o url PROVE Proper(Symbols, url')
    <2>1. <<c>> \in Seq(Symbols) /\ Len(<<c>>) = 1
      BY DEF Symbols
    <2>2. i + 1 \in 1..(1 + Len(url)) /\ i + 1 > 1 /\ (i + 1) - 1 = i
      BY <1>1
    <2>3. /\ <<c>> \o url \in Seq(Symbols) /\ Len(<<c>> \o url) = 1 + Len(url)
          /\ (<<c>> \o url)[i + 1] = url[i]
      BY <1>1, <2>1, <2>2, ConcatProperties
    <2> QED BY <1>2, <1>4, <2>2, <2>3 DEF Proper
  <1>5. Proper(Symbols, url') /\ events' \in Seq(RawEvent)
    <2>1. CASE \E c \in Chars : url' \in {Append(url, c), <<c>> \o url} /\ events' = events
      BY <1>1, <1>3, <1>4, <2>1
    <2>2. CASE \E e \in RawEvent : events' = Append(events, e) /\ url' = url
      <3>1. Proper(Symbols, url')
        BY <2>2 DEF OnTheWay
      <3>2. events' \in Seq(RawEvent)
        BY <1>1, <2>2, AppendProperties
      <3> QED BY <3>1, <3>2
    <2> QED BY <2>1, <2>2 DEF Write
  <1> QED BY <1>1, <1>5 DEF OnTheWay, Write

LEMMA SendKeeps == ASSUME OnTheWay, Send PROVE OnTheWay'
  <1>1. phase' = "sent" /\ url' = url /\ events' = events
    BY DEF Send
  <1>2. desired' = ParseInputs'
    BY <1>1 DEF Send, ParseInputs
  <1>3. PICK order \in SetToSeqs(ToSet(desired'.events)),
             sent \in {desired'.url, Append(desired'.url, "slash")} :
          stored' = [url |-> sent, events |-> order]
    BY DEF Send
  <1>4. Holds(stored, desired)'
    BY <1>3 DEF Holds
  <1> QED BY <1>1, <1>2, <1>4 DEF OnTheWay

LEMMA ListKeeps == ASSUME OnTheWay, List PROVE OnTheWay'
  <1>1. /\ phase = "sent" /\ phase' = "listed"
        /\ UNCHANGED <<url, events, desired, stored, observed, cursor>>
    BY DEF List
  <1>2. PICK n \in 1..MaxPage : fields' = Page(n)
    BY DEF List
  <1>3. Page(n)' = Page(n)
    BY <1>1 DEF Page
  <1>4. (\E m \in 1..MaxPage : fields = Page(m))'
    BY <1>2, <1>3
  <1>5. ParseInputs' = ParseInputs
    BY <1>1 DEF ParseInputs
  <1> QED BY <1>1, <1>4, <1>5 DEF OnTheWay, Holds

LEMMA ReadKeeps == ASSUME OnTheWay, Read PROVE OnTheWay'
  <1>1. /\ phase = "listed" /\ phase' = "read"
        /\ UNCHANGED <<url, events, desired, stored, fields>>
    BY DEF Read
  <1>2. ParseInputs' = ParseInputs /\ DataIndices' = DataIndices
        /\ CollectList("events")' = CollectList("events")
    BY <1>1 DEF ParseInputs, DataIndices, CollectList, Matching
  <1>3. \A n : Page(n)' = Page(n)
    BY <1>1 DEF Page
  <1>4. /\ observed'.url = NormalizeURL(stored.url)
        /\ observed'.events = NormalizeEvents(NormalizeEvents(CollectList("events")))
        /\ cursor' = Last(DataIndices)
    BY DEF Read
  <1> QED BY <1>1, <1>2, <1>3, <1>4 DEF OnTheWay, Holds

LEMMA OnTheWayNext == OnTheWay /\ [Next]_vars => OnTheWay'
  <1> SUFFICES ASSUME OnTheWay, [Next]_vars PROVE OnTheWay'
    OBVIOUS
  <1>1. CASE UNCHANGED vars
    <2>1. ParseInputs' = ParseInputs /\ DataIndices' = DataIndices
          /\ CollectList("events")' = CollectList("events")
      BY <1>1 DEF vars, ParseInputs, DataIndices, CollectList, Matching
    <2>2. \A n : Page(n)' = Page(n)
      BY <1>1 DEF vars, Page
    <2> QED BY <1>1, <2>1, <2>2 DEF vars, OnTheWay, Holds
  <1> QED BY <1>1, WriteKeeps, SendKeeps, ListKeeps, ReadKeeps DEF Next

LEMMA OnTheWayAlways == Spec => []OnTheWay
  BY OnTheWayInit, OnTheWayNext, PTL DEF Spec
--------------------------------------------------------------------------------
(* What survives. *)

\* The names the operator asked for.
Names == ToSet(Trimmed(events)) \ {0}

LEMMA NamesAreFinite ==
    ASSUME OnTheWay PROVE Names \in SUBSET Nat /\ IsFiniteSet(Names)
  <1>1. MaxEvent \in Nat
    BY ProjectionAssumption
  <1>2. \A i \in DOMAIN events : events[i].name \in 0..MaxEvent
    <2>1. \A i \in DOMAIN events : events[i] \in RawEvent
      BY DEF OnTheWay
    <2> QED BY <2>1 DEF RawEvent
  <1>3. Names \in SUBSET (0..MaxEvent)
    BY <1>2 DEF Names, Trimmed, ToSet
  <1>4. IsFiniteSet(0..MaxEvent)
    BY <1>1, FS_Interval
  <1>5. IsFiniteSet(Names)
    BY <1>3, <1>4, FS_Subset
  <1> QED BY <1>1, <1>3, <1>5

\* Stripe holds the events in some order.
LEMMA StoredEvents ==
    ASSUME OnTheWay, phase # "write"
    PROVE  /\ desired.events = Ascending(Names) /\ ToSet(stored.events) = Names
           /\ Cardinality(Names) \in Nat /\ DOMAIN stored.events = 1..Cardinality(Names)
  <1>1. Names \in SUBSET Nat /\ IsFiniteSet(Names)
    BY NamesAreFinite
  <1>2. desired.events = Ascending(Names)
    BY DEF OnTheWay, ParseInputs, NormalizeEvents, Names
  <1>3. ToSet(desired.events) = Names
    BY <1>1, <1>2, AscendingIsSorted
  <1>4. stored.events \in SetToSeqs(Names)
    BY <1>3 DEF OnTheWay, Holds
  <1> QED BY <1>1, <1>2, <1>4, SequenceOfSet

\* What the planner compares is what the operator asked for, in whatever order Stripe
\* holds it (inputs.go normalizeEvents and eventsEqual, project.go collectList).
THEOREM EventsAlwaysSurvive == Spec => []EventsSurvive
  <1>1. OnTheWay => EventsSurvive
    <2> SUFFICES ASSUME OnTheWay, phase = "read" PROVE EventsEqual(desired.events, observed.events)
      BY DEF EventsSurvive
    <2>1. /\ desired.events = Ascending(Names) /\ ToSet(stored.events) = Names
          /\ Cardinality(Names) \in Nat /\ DOMAIN stored.events = 1..Cardinality(Names)
      BY StoredEvents
    <2>2. PICK n \in 1..MaxPage : fields = Page(n)
      BY DEF OnTheWay
    <2>3. ToSet(CollectList("events")) = Names
      <3>1. n \in Nat
        OBVIOUS
      <3> QED BY <2>1, <2>2, <3>1, CollectsAll
    <2>4. ToSet(CollectList("events")) \ {0} = Names
      BY <2>3 DEF Names
    <2>5. NormalizeEvents(NormalizeEvents(CollectList("events"))) = Ascending(Names)
      BY <2>4, NamesAreFinite, NormalizeAgain
    <2>6. observed.events = desired.events
      BY <2>1, <2>5 DEF OnTheWay
    <2> QED BY <2>6 DEF EventsEqual
  <1> QED BY <1>1, OnTheWayAlways, PTL

\* A slash more or less is no drift, when no whitespace is left at the URL's end
\* (inputs.go normalizeURL, webhook.go observedWebhooks).
THEOREM URLAlwaysSurvives == Spec => []URLSurvives
  <1>1. OnTheWay => URLSurvives
    <2> SUFFICES ASSUME OnTheWay, phase = "read", Last(desired.url) # "space"
                 PROVE  observed.url = desired.url
      BY DEF URLSurvives
    <2> DEFINE d == desired.url
    <2>1. d = NormalizeURL(url) /\ Proper(Symbols, url)
      BY DEF OnTheWay, ParseInputs
    <2>2. /\ stored.url \in {d, Append(d, "slash")} /\ observed.url = NormalizeURL(stored.url)
          /\ d[Len(d)] # "space"
      BY DEF OnTheWay, Holds, Last
    <2> HIDE DEF d
    <2>3. Proper(Symbols, d) /\ d[1] # "space" /\ d[Len(d)] # "slash"
      BY <2>1, NormalizeURLProper
    <2>4. NormalizeURL(stored.url) = d
      BY <2>2, <2>3, NormalizeStoredURL
    <2> QED BY <2>2, <2>4 DEF d
  <1> QED BY <1>1, OnTheWayAlways, PTL

\* The next page starts after the last element of this one, however many digits its
\* index has (project.go dataIndices and listIndex, observe.go observeWebhooks).
THEOREM CursorIsAlwaysLast == Spec => []CursorIsLast
  <1>1. OnTheWay => CursorIsLast
    <2> SUFFICES ASSUME OnTheWay, phase = "read" PROVE cursor = Cardinality(Elements) - 1
      BY DEF CursorIsLast
    <2>1. Cardinality(Names) \in Nat /\ DOMAIN stored.events = 1..Cardinality(Names)
      BY StoredEvents
    <2>2. PICK n \in 1..MaxPage : fields = Page(n)
      BY DEF OnTheWay
    <2>3. n \in Nat \ {0}
      OBVIOUS
    <2>4. Last(DataIndices) = n - 1 /\ Cardinality(Elements) = n
      BY <2>1, <2>2, <2>3, LastIndex
    <2> QED BY <2>4 DEF OnTheWay
  <1> QED BY <1>1, OnTheWayAlways, PTL
================================================================================
