----------------------------- MODULE ShellProofs -----------------------------
(***************************************************************************)
(* ShellSound holds for any number of shells and slots, and for any lines: *)
(* no shell asks for a line before its command is over, and a program gets *)
(* the words that were typed.                                              *)
(*                                                                         *)
(* The family (FamilyBut) carries it: a parent that is not INIT waits, or  *)
(* is about to, for the child it has forked last, so nobody else is its    *)
(* child.  That words arrive is arithmetic on the argument stack.          *)
(***************************************************************************)
EXTENDS Shell, SequenceTheorems, FiniteSetTheorems, WellFoundedInduction, TLAPS

-----------------------------------------------------------------------------
(* Numbers and sequences                                                   *)

\* Every set of numbers that is not empty has a least one.
LEMMA LeastOf ==
    ASSUME NEW T \in SUBSET Nat, T # {}
    PROVE  \E n \in T : \A m \in T : n <= m
<1>1. \E n \in T : \A m \in T : <<m, n>> \notin OpToRel(<, Nat)
  BY NatLessThanWellFounded, WFMin, Zenon
<1>2. PICK n \in T : \A m \in T : <<m, n>> \notin {s \in Nat \X Nat : s[1] < s[2]}
  BY <1>1, Zenon DEF OpToRel
<1>3. \A m \in T : ~(m < n)
  BY <1>2
<1>. QED  BY <1>3

LEMMA MinOf ==
    ASSUME NEW T \in SUBSET Nat, T # {}
    PROVE  Min(T) \in T /\ \A m \in T : Min(T) <= m
BY LeastOf DEF Min

LEMMA MaxOf ==
    ASSUME NEW T \in SUBSET Nat, T # {}, NEW n \in Nat, \A m \in T : m <= n
    PROVE  Max(T) \in T /\ \A m \in T : m <= Max(T)
<1> DEFINE R == {n - m : m \in T}
<1>1. R \in SUBSET Nat /\ R # {}
  <2>1. \A m \in T : n - m \in Nat
    OBVIOUS
  <2>. QED  BY <2>1
<1>2. PICK r \in R : \A k \in R : r <= k
  BY <1>1, LeastOf
<1>3. PICK top \in T : r = n - top
  OBVIOUS
<1>4. \A m \in T : n - m \in R /\ m \in Nat
  OBVIOUS
<1>5. \A m \in T : m <= top
  BY <1>2, <1>3, <1>4
<1>. QED  BY <1>3, <1>5 DEF Max

\* The number k of J is what the first k sequences of ss make up together.
Joins(J, n, ss, A) ==
    /\ J \in [0..n -> Seq(A)] /\ J[0] = <<>>
    /\ \A k \in 1..n : J[k] = J[k - 1] \o ss[k]

LEMMA JoinsExist ==
    ASSUME NEW A, NEW ss, NEW len \in Nat, \A i \in 1..len : ss[i] \in Seq(A)
    PROVE  \E J : Joins(J, len, ss, A)
<1> DEFINE Has(n) == \E J : Joins(J, n, ss, A)
           Bad == {n \in 0..len : ~Has(n)}
<1>1. Has(0)
  <2>1. Joins([k \in 0..0 |-> <<>>], 0, ss, A)
    BY EmptySeq DEF Joins
  <2>. QED  BY <2>1
<1>2. ASSUME NEW n \in 1..len, Has(n - 1)  PROVE Has(n)
  <2>1. PICK J : Joins(J, n - 1, ss, A)
    BY <1>2
  <2>2. /\ J \in [0..n - 1 -> Seq(A)] /\ J[0] = <<>> /\ n \in Nat
        /\ \A k \in 1..n - 1 : J[k] = J[k - 1] \o ss[k]
        /\ J[n - 1] \in Seq(A) /\ ss[n] \in Seq(A)
    <3>1. n \in Nat /\ n - 1 \in 0..n - 1 /\ ss[n] \in Seq(A)
      OBVIOUS
    <3>. QED  BY <2>1, <3>1 DEF Joins
  <2> DEFINE last == J[n - 1] \o ss[n]
             K == [k \in 0..n |-> IF k = n THEN last ELSE J[k]]
  <2>3. last \in Seq(A)
    BY <2>2, ConcatProperties
  <2>. HIDE DEF last
  <2>4. \A k \in 0..n : k # n => k \in 0..n - 1
    BY <2>2
  <2>5. K \in [0..n -> Seq(A)] /\ K[0] = <<>>
    BY <2>2, <2>3, <2>4
  <2>6. ASSUME NEW k \in 1..n  PROVE K[k] = K[k - 1] \o ss[k]
    <3>1. k \in 0..n /\ k - 1 \in 0..n /\ k - 1 # n /\ k \in Nat
      BY <2>2
    <3>2. K[k - 1] = J[k - 1]
      BY <3>1
    <3>3. CASE k = n
      BY <3>1, <3>2, <3>3 DEF last
    <3>4. CASE k # n
      <4>1. k \in 1..n - 1
        BY <2>2, <3>4
      <4>2. K[k] = J[k]
        BY <3>1, <3>4
      <4>. QED  BY <2>2, <3>2, <4>1, <4>2
    <3>. QED  BY <3>3, <3>4
  <2>. HIDE DEF K
  <2>. QED  BY <2>5, <2>6 DEF Joins
<1>. HIDE DEF Has
<1>3. Bad = {}
  <2>. SUFFICES ASSUME Bad # {}  PROVE FALSE
    OBVIOUS
  <2>1. Bad \in SUBSET Nat
    OBVIOUS
  <2>2. PICK n \in Bad : \A m \in Bad : n <= m
    <3>. HIDE DEF Bad
    <3>. QED  BY <2>1, LeastOf
  <2>3. n \in 1..len /\ n - 1 \in 0..len /\ n - 1 \notin Bad
    BY <1>1, <2>2
  <2>. QED  BY <1>2, <2>2, <2>3
<1>4. Has(len)
  BY <1>3
<1>. QED  BY <1>4 DEF Has

LEMMA FlatIs ==
    ASSUME NEW A, NEW ss \in Seq(Seq(A)), NEW J, Joins(J, Len(ss), ss, A)
    PROVE  FlattenSeq(ss) = J[Len(ss)]
<1>1. Len(ss) \in Nat /\ \A i \in 1..Len(ss) : ss[i] \in Seq(A)
  BY LenProperties, ElementOfSeq
<1>2. PICK n \in Nat : n = Len(ss)
  BY <1>1
<1> DEFINE Flat(g) == g = [i \in 1..n |-> IF i = 1 THEN ss[i] ELSE g[i - 1] \o ss[i]]
           f == CHOOSE g : Flat(g)
           h == [i \in 1..n |-> J[i]]
<1>3. CASE n = 0
  <2>1. FlattenSeq(ss) = ss
    BY <1>2, <1>3 DEF FlattenSeq
  <2>2. ss = <<>>
    BY <1>2, <1>3, EmptySeq
  <2>. QED  BY <1>2, <1>3, <2>1, <2>2 DEF Joins
<1>4. CASE n # 0
  <2>1. \A i \in 1..n : J[i] = IF i = 1 THEN ss[i] ELSE J[i - 1] \o ss[i]
    <3>1. J[0] = <<>> /\ ss[1] \in Seq(A)
      BY <1>1, <1>2, <1>4 DEF Joins
    <3>2. J[0] \o ss[1] = ss[1]
      BY <3>1, ConcatEmptySeq
    <3>3. \A i \in 1..n : J[i] = J[i - 1] \o ss[i]
      BY <1>2 DEF Joins
    <3>4. \A i \in 1..n : i = 1 => i - 1 = 0
      OBVIOUS
    <3>5. ASSUME NEW i \in 1..n, i = 1  PROVE J[i] = ss[i]
      <4>1. J[1] = J[0] \o ss[1]
        <5>1. 1 \in 1..n /\ 1 - 1 = 0
          BY <3>5
        <5>. QED  BY <3>3, <5>1
      <4>. QED  BY <3>2, <3>5, <4>1
    <3>. QED  BY <3>3, <3>5
  <2>2. Flat(h)
    <3>1. \A i \in 1..n : i # 1 => i - 1 \in 1..n
      OBVIOUS
    <3>. QED  BY <2>1, <3>1
  <2>3. Flat(f)
    <3>. HIDE DEF Flat, h
    <3>. QED  BY <2>2
  <2> DEFINE Bad == {i \in 1..n : f[i] # J[i]}
  <2>. HIDE DEF f
  <2>4. Bad = {}
    <3>. SUFFICES ASSUME Bad # {}  PROVE FALSE
      OBVIOUS
    <3>1. Bad \in SUBSET Nat
      OBVIOUS
    <3>2. PICK i \in Bad : \A j \in Bad : i <= j
      <4>. HIDE DEF Bad
      <4>. QED  BY <3>1, LeastOf
    <3>3. i \in 1..n /\ f[i] = IF i = 1 THEN ss[i] ELSE f[i - 1] \o ss[i]
      BY <2>3, <3>2
    <3>4. i # 1 => i - 1 \in 1..n /\ f[i - 1] = J[i - 1]
      BY <3>2, <3>3
    <3>. QED  BY <2>1, <3>2, <3>3, <3>4
  <2>5. FlattenSeq(ss) = f[n]
    BY <1>2, <1>4 DEF FlattenSeq, f
  <2>6. n \in 1..n
    BY <1>4
  <2>. QED  BY <1>2, <2>4, <2>5, <2>6
<1>. QED  BY <1>3, <1>4

\* What is made up first stays in its place.
Begun(J, k, n) ==
    Len(J[k]) <= Len(J[n]) /\ \A x \in 1..Len(J[k]) : J[n][x] = J[k][x]

LEMMA JoinsGrow ==
    ASSUME NEW A, NEW ss, NEW len \in Nat, \A i \in 1..len : ss[i] \in Seq(A),
           NEW J, Joins(J, len, ss, A), NEW k \in 0..len
    PROVE  Begun(J, k, len)
<1> DEFINE Kept(m) == Len(J[k]) <= Len(J[m]) /\ \A x \in 1..Len(J[k]) : J[m][x] = J[k][x]
           Bad == {m \in k..len : ~Kept(m)}
<1>1. /\ \A m \in 0..len : J[m] \in Seq(A) /\ Len(J[m]) \in Nat
      /\ \A m \in 1..len : J[m] = J[m - 1] \o ss[m]
  BY LenProperties DEF Joins
<1>2. Kept(k)
  BY <1>1
<1>3. ASSUME NEW m \in k..len, m # k, Kept(m - 1)  PROVE Kept(m)
  <2>1. m \in 1..len /\ m - 1 \in 0..len
    BY <1>3
  <2>2. /\ J[m] = J[m - 1] \o ss[m] /\ ss[m] \in Seq(A) /\ J[m - 1] \in Seq(A)
        /\ Len(J[m - 1]) \in Nat /\ Len(J[k]) \in Nat
    BY <1>1, <2>1
  <2>3. Len(ss[m]) \in Nat
    BY <2>2, LenProperties
  <2>4. /\ Len(J[m]) = Len(J[m - 1]) + Len(ss[m])
        /\ \A x \in 1..Len(J[m - 1]) + Len(ss[m]) : J[m][x] =
              IF x <= Len(J[m - 1]) THEN J[m - 1][x] ELSE ss[m][x - Len(J[m - 1])]
    <3>1. \A a, b \in Seq(A) : /\ Len(a \o b) = Len(a) + Len(b)
                               /\ \A x \in 1..Len(a) + Len(b) : (a \o b)[x] =
                                    IF x <= Len(a) THEN a[x] ELSE b[x - Len(a)]
      BY ConcatProperties
    <3>2. /\ Len(J[m - 1] \o ss[m]) = Len(J[m - 1]) + Len(ss[m])
          /\ \A x \in 1..Len(J[m - 1]) + Len(ss[m]) : (J[m - 1] \o ss[m])[x] =
                IF x <= Len(J[m - 1]) THEN J[m - 1][x] ELSE ss[m][x - Len(J[m - 1])]
      BY <2>2, <3>1, Zenon
    <3>3. J[m] = J[m - 1] \o ss[m]
      BY <2>2
    <3>. HIDE <2>2
    <3>. QED  BY <3>2, <3>3, Zenon
  <2>5. PICK lk \in Nat, lo \in Nat, ln \in Nat :
           lk = Len(J[k]) /\ lo = Len(J[m - 1]) /\ ln = Len(ss[m])
    BY <2>2, <2>3
  <2>6. lk <= lo /\ \A x \in 1..lk : J[m - 1][x] = J[k][x]
    BY <1>3, <2>5
  <2>7. Len(J[m]) = lo + ln
        /\ \A x \in 1..lo + ln : J[m][x] = IF x <= lo THEN J[m - 1][x] ELSE ss[m][x - lo]
    BY <2>4, <2>5
  <2>8. ASSUME NEW x \in 1..lk  PROVE J[m][x] = J[k][x]
    <3>1. x \in 1..lo + ln /\ x <= lo
      BY <2>6
    <3>. QED  BY <2>6, <2>7, <3>1
  <2>9. lk <= lo + ln
    BY <2>6
  <2>. QED  BY <2>5, <2>7, <2>8, <2>9
<1>. HIDE DEF Kept
<1>4. Bad = {}
  <2>. SUFFICES ASSUME Bad # {}  PROVE FALSE
    OBVIOUS
  <2>1. Bad \in SUBSET Nat
    OBVIOUS
  <2>2. PICK m \in Bad : \A j \in Bad : m <= j
    <3>. HIDE DEF Bad
    <3>. QED  BY <2>1, LeastOf
  <2>3. m \in k..len /\ m # k /\ m - 1 \in k..len /\ m - 1 \notin Bad
    BY <1>2, <2>2
  <2>. QED  BY <1>3, <2>2, <2>3
<1>5. Kept(len)
  BY <1>4
<1>. QED  BY <1>5 DEF Kept, Begun

-----------------------------------------------------------------------------
(* The words of a line                                                     *)

Letters == UNION {ToSet(line) : line \in ShLines}
ShWord  == Seq(Letters)

LEMMA LineIs ==
    ASSUME NEW line \in ShLines
    PROVE  /\ Len(line) \in Nat /\ \A i \in 1..Len(line) : line[i] \in Letters
           /\ NUL \notin Letters
<1>1. line \in Seq(ToSet(line)) /\ ToSet(line) \subseteq Letters
  BY ShellAssumption DEF Letters
<1>2. NUL \notin Letters
  BY ShellAssumption DEF Letters
<1>. QED  BY <1>1, <1>2, LenProperties, ElementOfSeq

\* However many starts of words there are, each number of them precedes one.
LEMMA EveryWordStarts ==
    ASSUME NEW S, NEW len \in Nat, S \subseteq 1..len
    PROVE  /\ Cardinality(S) \in Nat
           /\ \A n \in 1..Cardinality(S) :
                 \E i \in S : Cardinality({j \in S : j < i}) = n - 1
<1> DEFINE Below(i) == {j \in S : j < i}
           f == [i \in S |-> Cardinality(Below(i))]
<1>1. IsFiniteSet(S) /\ Cardinality(S) \in Nat
  <2>1. IsFiniteSet(1..len)
    BY FS_Interval
  <2>2. IsFiniteSet(S)
    BY <2>1, FS_Subset
  <2>. QED  BY <2>2, FS_CardinalityType
<1>2. PICK c \in Nat : c = Cardinality(S)
  BY <1>1
<1>3. \A i \in S : /\ Below(i) \in SUBSET S /\ i \notin Below(i)
                   /\ IsFiniteSet(Below(i)) /\ Cardinality(Below(i)) \in Nat
  <2>1. \A i \in S : Below(i) \in SUBSET S /\ i \notin Below(i)
    OBVIOUS
  <2>. QED  BY <1>1, <2>1, FS_Subset, FS_CardinalityType
<1>4. ASSUME NEW i \in S, NEW T \in SUBSET S, Below(i) \subseteq T, i \in T
      PROVE  Cardinality(Below(i)) < Cardinality(T)
  <2>1. IsFiniteSet(T) /\ Cardinality(T) \in Nat
    BY <1>1, FS_Subset, FS_CardinalityType
  <2>2. Below(i) \in SUBSET T /\ Below(i) # T
    BY <1>3, <1>4
  <2>3. Cardinality(Below(i)) <= Cardinality(T) /\ Cardinality(T) # Cardinality(Below(i))
    BY <2>1, <2>2, FS_Subset
  <2>. QED  BY <1>3, <2>1, <2>3
<1>5. f \in [S -> 0..c - 1]
  <2>1. \A i \in S : Cardinality(Below(i)) < Cardinality(S)
    BY <1>3, <1>4
  <2>2. \A i \in S : Cardinality(Below(i)) \in 0..c - 1
    BY <1>2, <1>3, <2>1
  <2>. QED  BY <2>2
<1>6. ASSUME NEW i \in S, NEW j \in S, i < j  PROVE f[i] < f[j]
  <2>1. Below(i) \subseteq Below(j) /\ i \in Below(j)
    <3>1. i \in Nat /\ j \in Nat /\ \A k \in S : k \in Nat
      OBVIOUS
    <3>2. \A k \in S : k < i => k < j
      BY <1>6, <3>1
    <3>. QED  BY <1>6, <3>2, Zenon
  <2>. QED  BY <1>3, <1>4, <2>1
<1>7. f \in Injection(S, 0..c - 1)
  <2>1. \A i, j \in S : f[i] = f[j] => i = j
    <3>. SUFFICES ASSUME NEW i \in S, NEW j \in S, f[i] = f[j]  PROVE i = j
      OBVIOUS
    <3>1. f[i] \in Nat /\ f[j] \in Nat /\ ~(f[i] < f[j]) /\ ~(f[j] < f[i])
      BY <1>5
    <3>2. ~(i < j) /\ ~(j < i)
      BY <1>6, <3>1
    <3>. QED  BY <3>2
  <2>. HIDE DEF f
  <2>. QED  BY <1>5, <2>1 DEF Injection, IsInjective
<1>8. IsFiniteSet(0..c - 1) /\ Cardinality(0..c - 1) = c
  BY FS_Interval
<1>9. f \in Surjection(S, 0..c - 1)
  <2>. HIDE DEF f
  <2>. QED  BY <1>2, <1>7, <1>8, FS_Injection
<1>10. \A m \in 0..c - 1 : \E i \in S : f[i] = m
  <2>. HIDE DEF f
  <2>. QED  BY <1>9 DEF Surjection
<1>11. ASSUME NEW n \in 1..c  PROVE \E i \in S : Cardinality({j \in S : j < i}) = n - 1
  <2>1. n - 1 \in 0..c - 1
    OBVIOUS
  <2>. QED  BY <1>10, <2>1
<1>. QED  BY <1>1, <1>2, <1>11

LEMMA WordIsWord ==
    ASSUME NEW line \in ShLines, NEW i \in WordStarts(line)
    PROVE  WordFrom(line, i) \in ShWord
<1> DEFINE ends == {j \in i..Len(line) : \A k \in i..j : line[k] # " "}
<1>1. PICK len \in Nat : len = Len(line)
  BY LineIs
<1>2. i \in 1..len /\ line[i] # " "
  BY <1>1 DEF WordStarts, IsStart
<1>3. \A k \in 1..len : line[k] \in Letters
  BY <1>1, LineIs
<1>4. i \in Nat /\ 1 <= i /\ i <= len
  <2>. HIDE DEF ends
  <2>1. len \in Nat
    BY <1>1
  <2>2. i \in 1..len
    BY <1>2
  <2>. QED  BY <2>1, <2>2
<1>5. i \in ends
  <2>1. \A k \in i..i : k = i
    BY <1>4
  <2>2. \A k \in i..i : line[k] # " "
    BY <1>2, <2>1, Zenon
  <2>3. i \in i..Len(line)
    BY <1>1, <1>4
  <2>. QED  BY <2>2, <2>3, Zenon
<1>6. ends \in SUBSET Nat /\ \A m \in ends : m <= len /\ m >= i
  <2>1. ends \subseteq i..len
    BY <1>1, Zenon
  <2>. HIDE DEF ends
  <2>2. len \in Nat
    BY <1>1
  <2>. QED  BY <1>4, <2>1, <2>2
<1>. HIDE DEF ends
<1>7. Max(ends) \in ends
  BY <1>1, <1>5, <1>6, MaxOf
<1>8. PICK m \in Nat : m = Max(ends) /\ m <= len
  BY <1>6, <1>7
<1>9. \A k \in i..m : k \in 1..len
  BY <1>1, <1>4, <1>8
<1>10. \A k \in i..m : line[k] \in Letters
  BY <1>3, <1>9
<1>11. SubSeq(line, i, m) \in Seq(Letters)
  <2>1. i \in Int /\ m \in Int
    BY <1>4, <1>8
  <2>. QED  BY <1>10, <2>1, SubSeqProperties
<1>. QED  BY <1>8, <1>11 DEF WordFrom, ends, ShWord

LEMMA WordsAreWords ==
    ASSUME NEW line \in ShLines  PROVE WordsOf(line) \in Seq(ShWord)
<1> DEFINE S == WordStarts(line)
           c == Cardinality(S)
<1>1. Len(line) \in Nat /\ S \subseteq 1..Len(line)
  BY LineIs DEF WordStarts
<1>2. c \in Nat /\ \A n \in 1..c : \E i \in S : StartsBefore(line, i) = n - 1
  <2>. HIDE DEF S
  <2>1. \A i : StartsBefore(line, i) = Cardinality({j \in S : j < i})
    BY DEF StartsBefore, S
  <2>. QED  BY <1>1, <2>1, EveryWordStarts
<1>3. \A n \in 1..c : (CHOOSE i \in S : StartsBefore(line, i) = n - 1) \in S
  <2>. HIDE DEF S
  <2>. QED  BY <1>2
<1>4. \A n \in 1..c :
         WordFrom(line, CHOOSE i \in S : StartsBefore(line, i) = n - 1) \in ShWord
  BY <1>3, WordIsWord
<1>5. WordsOf(line) = [n \in 1..c |-> WordFrom(line, CHOOSE i \in S : StartsBefore(line, i) = n - 1)]
  BY DEF WordsOf
<1>6. WordsOf(line) \in [1..c -> ShWord]
  BY <1>4, <1>5, Zenon
<1>. QED  BY <1>2, <1>6

\* Taking the last word off leaves words.
LEMMA FrontIsWords ==
    ASSUME NEW words \in Seq(ShWord)
    PROVE  /\ words # <<>> => Front(words) \in Seq(ShWord)
           /\ ArgvOf(words) \in Seq(ShWord)
<1>1. ASSUME words # <<>>  PROVE Front(words) \in Seq(ShWord)
  <2>1. Len(words) \in Nat /\ \A i \in 1..Len(words) - 1 : words[i] \in ShWord
    BY LenProperties, ElementOfSeq
  <2>2. Len(words) - 1 \in Int
    BY <2>1
  <2>. QED  BY <2>1, <2>2, SubSeqProperties DEF Front
<1>. QED  BY <1>1 DEF ArgvOf, Background

\* What execv makes of the words: the string of word k begins where those of
\* the words before it end.
LEMMA StringsAre ==
    ASSUME NEW argv \in Seq(ShWord), NEW n \in Nat, n = Len(argv)
    PROVE  \E J : /\ Joins(J, n, [k \in 1..n |-> argv[k] \o <<NUL>>], Letters \cup {NUL})
                  /\ \A k \in 0..n : Strings(SubSeq(argv, 1, k)) = J[k]
                  /\ Strings(argv) = J[n]
<1> DEFINE A == Letters \cup {NUL}
           ss == [k \in 1..n |-> argv[k] \o <<NUL>>]
<1>1. \A k \in 1..n : argv[k] \in Seq(Letters)
  BY ElementOfSeq DEF ShWord
<1>2. \A k \in 1..n : argv[k] \o <<NUL>> \in Seq(A)
  <2>. SUFFICES ASSUME NEW k \in 1..n  PROVE argv[k] \o <<NUL>> \in Seq(A)
    OBVIOUS
  <2>1. argv[k] \in Seq(A)
    BY <1>1, SeqMonotonic
  <2>2. <<NUL>> \in Seq(A)
    OBVIOUS
  <2>. QED  BY <2>1, <2>2, ConcatProperties
<1>3. \A k \in 1..n : ss[k] \in Seq(A)
  BY <1>2
<1>4. PICK J : Joins(J, n, ss, A)
  <2>. HIDE DEF ss, A
  <2>. QED  BY <1>3, JoinsExist
<1>5. ASSUME NEW k \in 0..n  PROVE Strings(SubSeq(argv, 1, k)) = J[k]
  <2> DEFINE sub == SubSeq(argv, 1, k)
             tt == [j \in 1..k |-> sub[j] \o <<NUL>>]
             I == [j \in 0..k |-> J[j]]
  <2>1. k \in Nat /\ \A j \in 1..k : j \in 1..n
    OBVIOUS
  <2>2. Len(sub) = k /\ \A j \in 1..k : sub[j] = argv[j]
    <3>1. \A j \in 1..k : argv[j] \in ShWord
      BY <2>1, ElementOfSeq
    <3>2. /\ Len(SubSeq(argv, 1, k)) = IF 1 <= k THEN k - 1 + 1 ELSE 0
          /\ \A j \in 1..k - 1 + 1 : SubSeq(argv, 1, k)[j] = argv[1 + j - 1]
      BY <2>1, <3>1, SubSeqProperties
    <3>. QED  BY <2>1, <3>2
  <2>. HIDE DEF sub
  <2>3. \A j \in 1..k : tt[j] = ss[j] /\ tt[j] \in Seq(A)
    BY <1>3, <2>1, <2>2
  <2>4. tt \in Seq(Seq(A)) /\ Len(tt) = k
    <3>1. tt \in [1..k -> Seq(A)]
      BY <2>3
    <3>. HIDE DEF tt
    <3>. QED  BY <2>1, <3>1
  <2>5. Joins(I, k, tt, A)
    <3>1. J \in [0..n -> Seq(A)] /\ J[0] = <<>> /\ \A j \in 1..n : J[j] = J[j - 1] \o ss[j]
      BY <1>4 DEF Joins
    <3>. HIDE DEF tt, ss, A
    <3>2. \A j \in 0..k : j \in 0..n
      BY <2>1
    <3>3. I \in [0..k -> Seq(A)] /\ I[0] = <<>>
      BY <2>1, <3>1, <3>2
    <3>4. ASSUME NEW j \in 1..k  PROVE I[j] = I[j - 1] \o tt[j]
      <4>1. j \in 1..n /\ j \in 0..k /\ j - 1 \in 0..k
        BY <2>1
      <4>2. J[j] = J[j - 1] \o tt[j]
        BY <2>3, <3>1, <4>1, Zenon
      <4>3. I[j] = J[j] /\ I[j - 1] = J[j - 1]
        BY <4>1
      <4>. HIDE DEF I
      <4>. QED  BY <4>2, <4>3
    <3>. HIDE DEF I
    <3>. QED  BY <3>3, <3>4 DEF Joins
  <2>6. FlattenSeq(tt) = I[k]
    <3>. HIDE DEF tt, I, A
    <3>. QED  BY <2>4, <2>5, FlatIs
  <2>7. Strings(sub) = FlattenSeq(tt)
    BY <2>2 DEF Strings
  <2>8. I[k] = J[k]
    <3>1. k \in 0..k
      BY <2>1
    <3>. QED  BY <3>1
  <2>. QED  BY <2>6, <2>7, <2>8 DEF sub
<1>6. SubSeq(argv, 1, n) = argv
  BY SubSeqFull
<1>7. Strings(argv) = J[n]
  <2>1. n \in 0..n
    OBVIOUS
  <2>. QED  BY <1>5, <1>6, <2>1
<1>. QED  BY <1>4, <1>5, <1>7

\* Wherever execv had the stack and do_exec puts it: the words that went in
\* come out.
LEMMA WordsArrive ==
    ASSUME NEW argv \in Seq(ShWord), NEW from \in ArgStacks
    PROVE  Arrived(argv, from) = argv
<1> DEFINE A == Letters \cup {NUL}
<1>1. PICK n \in Nat : n = Len(argv)
  BY LenProperties
<1> DEFINE ss == [k \in 1..n |-> argv[k] \o <<NUL>>]
<1>2. PICK J : /\ Joins(J, n, ss, A)
               /\ \A k \in 0..n : Strings(SubSeq(argv, 1, k)) = J[k]
               /\ Strings(argv) = J[n]
  BY <1>1, StringsAre
<1>3. /\ J \in [0..n -> Seq(A)]
      /\ \A k \in 1..n : J[k] = J[k - 1] \o (argv[k] \o <<NUL>>)
  BY <1>2 DEF Joins
<1>4. \A k \in 0..n : J[k] \in Seq(A) /\ Len(J[k]) \in Nat
  BY <1>3, LenProperties
<1>5. n \in 0..n /\ J[n] \in Seq(A)
  BY <1>4
<1>6. \A k \in 1..n : argv[k] \in Seq(Letters)
  BY <1>1, ElementOfSeq DEF ShWord
<1>7. \A k \in 1..n : ss[k] \in Seq(A)
  <2>. SUFFICES ASSUME NEW k \in 1..n  PROVE argv[k] \o <<NUL>> \in Seq(A)
    OBVIOUS
  <2>1. argv[k] \in Seq(A) /\ <<NUL>> \in Seq(A)
    BY <1>6, SeqMonotonic
  <2>. QED  BY <2>1, ConcatProperties
<1>. HIDE DEF ss
<1>7a. \A k \in 0..n : Begun(J, k, n)
  <2>1. n \in Nat
    BY <1>1
  <2>. HIDE DEF A
  <2>. QED  BY <1>2, <1>7, <2>1, JoinsGrow
\* The string at the place where the first k - 1 end is word k.
<1>8. ASSUME NEW k \in 1..n  PROVE StringAt(J[n], Len(J[k - 1]) + 1) = argv[k]
  <2>1. k \in Nat /\ k - 1 \in 0..n /\ k \in 0..n
    OBVIOUS
  <2>2. PICK start \in Nat, len \in Nat, all \in Nat, upto \in Nat :
           /\ start = Len(J[k - 1]) /\ len = Len(argv[k])
           /\ all = Len(J[n]) /\ upto = Len(J[k])
    BY <1>4, <1>5, <1>6, <2>1, LenProperties
  <2>0. start \in Nat /\ len \in Nat /\ all \in Nat /\ upto \in Nat
    BY <2>2
  <2> DEFINE w == argv[k] \o <<NUL>>
  <2>3. /\ Len(w) = len + 1 /\ w \in Seq(A)
        /\ \A x \in 1..len : w[x] = argv[k][x]
        /\ w[len + 1] = NUL
    <3>1. argv[k] \in Seq(A) /\ <<NUL>> \in Seq(A) /\ Len(<<NUL>>) = 1 /\ <<NUL>>[1] = NUL
      BY <1>6, SeqMonotonic
    <3>2. /\ w \in Seq(A) /\ Len(w) = len + 1
          /\ \A x \in 1..len + 1 : w[x] = IF x <= len THEN argv[k][x] ELSE <<NUL>>[x - len]
      BY <2>2, <3>1, ConcatProperties
    <3>3. len + 1 \in 1..len + 1 /\ (len + 1) - len = 1 /\ ~(len + 1 <= len)
          /\ \A x \in 1..len : x \in 1..len + 1 /\ x <= len
      BY <2>2
    <3>. HIDE DEF w
    <3>. QED  BY <3>1, <3>2, <3>3
  <2>. HIDE DEF w
  <2>4. J[k] = J[k - 1] \o w
    BY <1>3 DEF w
  <2>5. /\ upto = start + len + 1
        /\ \A x \in 1..len + 1 : J[k][start + x] = w[x]
    <3>0. J[k - 1] \in Seq(A)
      BY <1>4, <2>1
    <3>1. /\ Len(J[k]) = start + (len + 1)
          /\ \A x \in 1..start + (len + 1) :
                J[k][x] = IF x <= start THEN J[k - 1][x] ELSE w[x - start]
      <4>. HIDE DEF A
      <4>1. /\ Len(J[k - 1] \o w) = Len(J[k - 1]) + Len(w)
            /\ \A x \in 1..Len(J[k - 1]) + Len(w) : (J[k - 1] \o w)[x] =
                  IF x <= Len(J[k - 1]) THEN J[k - 1][x] ELSE w[x - Len(J[k - 1])]
        BY <2>3, <3>0, ConcatProperties
      <4>2. Len(J[k - 1]) = start /\ Len(w) = len + 1
        BY <2>2, <2>3
      <4>. QED  BY <2>4, <4>1, <4>2, Zenon
    <3>2. \A x \in 1..len + 1 : /\ start + x \in 1..start + (len + 1)
                                /\ ~(start + x <= start) /\ (start + x) - start = x
      BY <2>0
    <3>3. start + (len + 1) = start + len + 1
      BY <2>0
    <3>4. upto = start + len + 1
      BY <2>2, <3>1, <3>3
    <3>5. ASSUME NEW x \in 1..len + 1  PROVE J[k][start + x] = w[x]
      BY <3>1, <3>2
    <3>. QED  BY <3>4, <3>5
  <2>6. upto <= all /\ \A x \in 1..upto : J[n][x] = J[k][x]
    <3>1. Len(J[k]) <= Len(J[n]) /\ \A x \in 1..Len(J[k]) : J[n][x] = J[k][x]
      BY <1>7a, <2>1 DEF Begun
    <3>. QED  BY <2>2, <3>1
  <2>7. /\ start + len + 1 <= all
        /\ \A x \in 1..len : J[n][start + x] = argv[k][x]
        /\ J[n][start + (len + 1)] = NUL
    <3>1. \A x \in 1..len + 1 : start + x \in 1..upto
      BY <2>0, <2>5
    <3>2. \A x \in 1..len + 1 : J[n][start + x] = w[x]
      BY <2>5, <2>6, <3>1
    <3>3. len + 1 \in 1..len + 1 /\ \A x \in 1..len : x \in 1..len + 1
      BY <2>0
    <3>. QED  BY <2>3, <2>5, <2>6, <3>2, <3>3
  <2> DEFINE text == J[n]
             i == start + 1
             stops == {j \in i..all : text[j] = NUL}
  <2>8. \A x \in 1..len : text[start + x] # NUL
    <3>1. \A x \in 1..len : argv[k][x] \in Letters
      BY <1>6, <2>2, ElementOfSeq
    <3>2. NUL \notin Letters
      BY ShellAssumption DEF Letters
    <3>. QED  BY <2>7, <3>1, <3>2
  <2>. HIDE DEF text
  <2>9. /\ start + (len + 1) \in stops /\ stops \in SUBSET Nat
        /\ \A j \in stops : j >= start + (len + 1)
    <3>1. start + (len + 1) \in i..all
      <4>1. start + len + 1 <= all
        BY <2>7
      <4>. QED  BY <2>0, <4>1
    <3>2. text[start + (len + 1)] = NUL
      BY <2>7 DEF text
    <3>3. ASSUME NEW j \in stops  PROVE j \in Nat /\ j >= start + (len + 1)
      <4>1. j \in Nat /\ j >= start + 1 /\ text[j] = NUL
        BY <2>0
      <4>2. PICK x \in Nat : x = j - start
        BY <2>0, <4>1
      <4>3. x >= 1 /\ j = start + x
        BY <2>0, <4>1, <4>2
      <4>4. ~(x <= len)
        <5>1. x <= len => x \in 1..len
          BY <2>0, <4>3
        <5>. QED  BY <2>8, <4>1, <4>3, <5>1
      <4>. QED  BY <2>0, <4>1, <4>3, <4>4
    <3>4. stops \in SUBSET Nat
      BY <3>3
    <3>. HIDE DEF stops
    <3>5. \A j \in stops : j >= start + (len + 1)
      BY <3>3
    <3>6. start + (len + 1) \in stops
      BY <3>1, <3>2 DEF stops
    <3>. QED  BY <3>4, <3>5, <3>6
  <2>. HIDE DEF stops
  <2>10. Min(stops) = start + (len + 1)
    <3>1. Min(stops) \in stops /\ \A j \in stops : Min(stops) <= j
      BY <2>9, MinOf
    <3>2. Min(stops) \in Nat /\ Min(stops) >= start + (len + 1) /\ Min(stops) <= start + (len + 1)
      BY <2>9, <3>1
    <3>. QED  BY <2>0, <3>2
  <2>11. i \in 1..all /\ Min(stops) - 1 = start + len
    <3>1. start + len + 1 <= all
      BY <2>7
    <3>. QED  BY <2>0, <2>10, <3>1
  <2>12. StringAt(text, i) = SubSeq(text, i, start + len)
    BY <2>2, <2>11 DEF StringAt, stops, text
  <2>13. SubSeq(text, i, start + len) = argv[k]
    <3>1. \A x \in i..start + len : text[x] \in A
      <4>1. \A x \in i..start + len : x \in 1..all
        <5>1. start + len + 1 <= all
          BY <2>7
        <5>. QED  BY <2>0, <5>1
      <4>. QED  BY <1>5, <2>2, <4>1, ElementOfSeq DEF text
    <3>2. i \in Int /\ start + len \in Int
      BY <2>0
    <3>. HIDE DEF A
    <3>3. /\ SubSeq(text, i, start + len) \in Seq(A)
          /\ Len(SubSeq(text, i, start + len)) = IF i <= start + len THEN start + len - i + 1 ELSE 0
          /\ \A x \in 1..start + len - i + 1 : SubSeq(text, i, start + len)[x] = text[i + x - 1]
      <4>. HIDE DEF i
      <4>. QED  BY <3>1, <3>2, SubSeqProperties
    <3>4. Len(SubSeq(text, i, start + len)) = len
      <4>1. (IF i <= start + len THEN start + len - i + 1 ELSE 0) = len
        BY <2>0
      <4>. QED  BY <3>3, <4>1
    <3>5. ASSUME NEW x \in 1..len  PROVE SubSeq(text, i, start + len)[x] = argv[k][x]
      <4>1. x \in 1..start + len - i + 1 /\ i + x - 1 = start + x
        BY <2>0
      <4>. QED  BY <2>7, <3>3, <4>1 DEF text
    <3>6. argv[k] \in Seq(A)
      BY <1>6, SeqMonotonic DEF A
    <3>. QED  BY <2>2, <3>3, <3>4, <3>5, <3>6, SeqEqual
  <2>. QED  BY <2>2, <2>12, <2>13 DEF text
<1> DEFINE stack == ArgStack(argv, from)
           ptrs == Relocated(stack, from)
<1>9. stack.text = J[n] /\ stack.ptrs = [k \in 1..n |-> from + TextAt(n) + Len(J[k - 1])]
  <2>1. \A k \in 1..n : Strings(SubSeq(argv, 1, k - 1)) = J[k - 1]
    <3>1. \A k \in 1..n : k - 1 \in 0..n
      OBVIOUS
    <3>. QED  BY <1>2, <3>1
  <2>2. stack.ptrs = [k \in 1..n |-> from + TextAt(n) + Len(Strings(SubSeq(argv, 1, k - 1)))]
    BY <1>1 DEF ArgStack
  <2>3. stack.text = J[n]
    BY <1>2 DEF ArgStack
  <2>. QED  BY <2>1, <2>2, <2>3
<1>. HIDE DEF stack
<1>10. from \in Nat /\ OrigStack \in Nat /\ TextAt(n) \in Nat
  BY ShellAssumption, <1>1 DEF TextAt
<1>11. ptrs = [k \in 1..n |-> from + TextAt(n) + Len(J[k - 1]) + OrigStack - from]
  BY <1>9 DEF Relocated
<1>12. Len(ptrs) = n
  <2>1. n \in Nat
    BY <1>1
  <2>. QED  BY <1>11, <2>1
<1>13. ASSUME NEW k \in 1..n
       PROVE  StringAt(stack.text, ptrs[k] + 1 - (OrigStack + TextAt(Len(ptrs)))) = argv[k]
  <2>1. ptrs[k] + 1 - (OrigStack + TextAt(Len(ptrs))) = Len(J[k - 1]) + 1
    <3>1. k - 1 \in 0..n
      BY <1>1
    <3>2. PICK a \in Nat, b \in Nat, c \in Nat, d \in Nat :
             a = from /\ b = TextAt(n) /\ c = OrigStack /\ d = Len(J[k - 1])
      BY <1>4, <1>10, <3>1
    <3>3. ptrs[k] = a + b + d + c - a
      BY <1>11, <3>2
    <3>. HIDE DEF ptrs
    <3>4. ptrs[k] + 1 - (c + b) = d + 1
      <4>1. a \in Nat /\ b \in Nat /\ c \in Nat /\ d \in Nat
        BY <3>2
      <4>. QED  BY <3>3, <4>1
    <3>. QED  BY <1>12, <3>2, <3>4
  <2>. QED  BY <1>8, <1>9, <2>1
<1>14. Arrived(argv, from) = [k \in 1..n |-> argv[k]]
  <2>1. DOMAIN ptrs = 1..n
    BY <1>11
  <2>2. Arrived(argv, from) = [k \in DOMAIN ptrs |->
           StringAt(stack.text, ptrs[k] + 1 - (OrigStack + TextAt(Len(ptrs))))]
    BY DEF Arrived, stack
  <2>. HIDE DEF ptrs
  <2>. QED  BY <1>13, <2>1, <2>2
<1>15. argv = [k \in 1..n |-> argv[k]]
  BY <1>1, LenProperties
<1>. QED  BY <1>14, <1>15

-----------------------------------------------------------------------------
(* The invariant                                                           *)

Pcs    == {"free", "zombie", "starts", "waits", "waiting", "prompt", "opens", "forks",
           "doubles", "leaves", "execs", "loads", "runs", "spins"}
Images == ShPrograms \cup {"none", "empty"}
Parents == ShProcs \cup {NoPid}
ShSlot == [pc : Pcs, parent : Parents, words : Seq(ShWord), child : Parents,
           got : Parents, argv : Seq(ShWord), image : Images, stray : BOOLEAN]

Ended(t, p) == t[p].pc \in {"free", "zombie"}
There(t, q) == t[q].pc # "free"

\* Who has a slot has a parent, and that is INIT or somebody who has forked it
\* last and does nothing until it is gone.  (Of the children of p that is not
\* asked.)
FamilyBut(t, p) ==
    \A q \in ShPids : There(t, q) =>
        /\ t[q].parent \in ShProcs \ {q}
        /\ t[q].parent \in ShPids /\ t[q].parent # p =>
              /\ t[t[q].parent].pc \in {"waits", "waiting", "leaves"}
              /\ t[t[q].parent].child = q
Family(t) == FamilyBut(t, NoPid)

\* A shell that is not what is left of a command is INIT's child.
OwnShells(t) ==
    \A p \in ShPids :
        t[p].pc \in {"prompt", "opens", "forks", "waits", "waiting"} /\ ~t[p].stray =>
            t[p].parent = InitPid

OwnChildren(t) ==
    \A p \in ShPids : ~Ended(t, p) => t[p].got \in {NoPid, t[p].child}

RightArgs(t) == \A p \in ShPids : t[p].pc = "runs" => t[p].argv = ArgvOf(t[p].words)

TableBut(t, p) ==
    /\ t \in [ShProcs -> ShSlot]
    /\ FamilyBut(t, p) /\ OwnShells(t) /\ OwnChildren(t) /\ RightArgs(t)

FilesTyped == files \in [DOMAIN files -> Images] /\ mmbuf \in Images

ShInv == TableBut(sh, NoPid) /\ FilesTyped

LEMMA ShNames ==
    /\ InitPid \notin ShPids /\ NoPid \notin ShProcs /\ InitPid \in ShProcs
    /\ ShPids \subseteq ShProcs /\ ShProcs = ShPids \cup {InitPid}
    /\ ShPids \subseteq Nat
BY ShellAssumption DEF ShProcs

LEMMA FreeShTyped ==
    ASSUME NEW x \in Parents
    PROVE  /\ [FreeSh EXCEPT !.parent = x] \in ShSlot
           /\ [FreeSh EXCEPT !.pc = "zombie", !.parent = x] \in ShSlot
           /\ [FreeSh EXCEPT !.pc = "starts"] \in ShSlot /\ FreeSh \in ShSlot
<1>1. <<>> \in Seq(ShWord) /\ NoPid \in Parents
  BY DEF Parents
<1>. QED  BY <1>1 DEF FreeSh, ShSlot, Pcs, Images

LEMMA ShInitial == ShInit => ShInv
<1>. SUFFICES ASSUME ShInit  PROVE ShInv
  OBVIOUS
<1>1. sh \in [ShProcs -> ShSlot]
  <2>1. FreeSh \in ShSlot /\ [FreeSh EXCEPT !.pc = "starts"] \in ShSlot
    BY FreeShTyped DEF Parents
  <2>. QED  BY <2>1 DEF ShInit
<1>2. \A p \in ShPids : sh[p].pc = "free"
  BY ShNames DEF ShInit, FreeSh
<1>3. FilesTyped
  <2>1. \A f \in {<<c>> : c \in ShPrograms} : f[1] \in ShPrograms
    OBVIOUS
  <2>. QED  BY <2>1 DEF ShInit, FilesTyped, Images
<1>. QED  BY <1>1, <1>2, <1>3 DEF ShInv, TableBut, FamilyBut, OwnShells, OwnChildren,
             RightArgs, There, Ended

\* A process that goes on: its family stays as it is.
LEMMA GoesOn ==
    ASSUME NEW t, TableBut(t, NoPid), NEW p \in ShPids, NEW r \in ShSlot,
           r.parent = t[p].parent, There(t, p),
           \A q \in ShPids : There(t, q) /\ t[q].parent = p =>
              r.pc \in {"waits", "waiting", "leaves"} /\ r.child = t[p].child,
           r.pc \in {"prompt", "opens", "forks", "waits", "waiting"} /\ ~r.stray =>
              r.parent = InitPid,
           r.got \in {NoPid, r.child},
           r.pc = "runs" => r.argv = ArgvOf(r.words)
    PROVE  TableBut([t EXCEPT ![p] = r], NoPid)
<1> DEFINE u == [t EXCEPT ![p] = r]
<1>1. t \in [ShProcs -> ShSlot] /\ p \in ShProcs
  BY ShNames DEF TableBut
<1>2. u \in [ShProcs -> ShSlot] /\ u[p] = r /\ \A q \in ShProcs : q # p => u[q] = t[q]
  BY <1>1
<1>. HIDE DEF u
<1>3. FamilyBut(u, NoPid)
  <2>. SUFFICES ASSUME NEW q \in ShPids, There(u, q)
                PROVE  /\ u[q].parent \in ShProcs \ {q}
                       /\ u[q].parent \in ShPids =>
                             /\ u[u[q].parent].pc \in {"waits", "waiting", "leaves"}
                             /\ u[u[q].parent].child = q
    BY DEF FamilyBut
  <2>1. There(t, q) /\ u[q].parent = t[q].parent
    BY <1>2, ShNames DEF There
  <2>2. /\ t[q].parent \in ShProcs \ {q}
        /\ t[q].parent \in ShPids =>
              /\ t[t[q].parent].pc \in {"waits", "waiting", "leaves"}
              /\ t[t[q].parent].child = q
    BY <2>1, ShNames DEF TableBut, FamilyBut
  <2>3. CASE t[q].parent = p
    BY <1>2, <2>1, <2>2, <2>3
  <2>4. CASE t[q].parent # p
    BY <1>2, <2>1, <2>2, <2>4
  <2>. QED  BY <2>3, <2>4
<1>4. OwnShells(u) /\ OwnChildren(u) /\ RightArgs(u)
  <2>1. \A q \in ShPids : q # p => u[q] = t[q]
    BY <1>2, ShNames
  <2>. QED  BY <1>2, <2>1 DEF TableBut, OwnShells, OwnChildren, RightArgs, Ended
<1>. QED  BY <1>2, <1>3, <1>4 DEF TableBut, u

\* INIT goes on.
LEMMA InitGoesOn ==
    ASSUME NEW t, TableBut(t, NoPid), NEW r \in ShSlot
    PROVE  TableBut([t EXCEPT ![InitPid] = r], NoPid)
<1> DEFINE u == [t EXCEPT ![InitPid] = r]
<1>1. t \in [ShProcs -> ShSlot]
  BY DEF TableBut
<1>2. u \in [ShProcs -> ShSlot] /\ \A q \in ShPids : u[q] = t[q]
  BY <1>1, ShNames
<1>. HIDE DEF u
<1>. QED  BY <1>2 DEF TableBut, FamilyBut, OwnShells, OwnChildren, RightArgs, Ended, There, u

\* wait() returns: c's parent goes on and c's slot is free, or rather, if c
\* has children of its own, will be when they are INIT's.
LEMMA TellsKeeps ==
    ASSUME NEW t, TableBut(t, NoPid), NEW c \in ShPids, There(t, c),
           t[t[c].parent].pc \in {"waits", "waiting"}
    PROVE  /\ TableBut(Tells(t, c), c) /\ Tells(t, c)[c].parent = t[c].parent
           /\ \A q \in ShPids : There(Tells(t, c), q) =>
                 q # c /\ There(t, q) /\ Tells(t, c)[q].parent = t[q].parent
<1> DEFINE u == Tells(t, c)
           up == t[c].parent
           there == IF up = InitPid THEN "waits" ELSE "prompt"
<1>1. t \in [ShProcs -> ShSlot] /\ c \in ShProcs
  BY ShNames DEF TableBut
<1>2. /\ up \in ShProcs /\ up # c /\ up \in Parents
      /\ up \in ShPids => t[up].child = c
  BY ShNames DEF TableBut, FamilyBut, Parents
<1>3. /\ u[up] = [t[up] EXCEPT !.pc = there, !.got = c]
      /\ u[c] = [FreeSh EXCEPT !.parent = up]
      /\ \A q \in ShProcs : q # up /\ q # c => u[q] = t[q]
      /\ DOMAIN u = ShProcs /\ u = [q \in ShProcs |-> u[q]]
  BY <1>1, <1>2 DEF Tells
<1>. HIDE DEF u
<1>4. u[c] \in ShSlot /\ u[c].pc = "free" /\ u[c].parent = up
  <2>. HIDE DEF up
  <2>1. u[c] \in ShSlot
    BY <1>2, <1>3, FreeShTyped
  <2>2. u[c].pc = "free" /\ u[c].parent = up
    BY <1>3 DEF FreeSh
  <2>. QED  BY <2>1, <2>2
<1>5. /\ u[up] \in ShSlot /\ u[up].pc = there /\ u[up].got = c
      /\ u[up].parent = t[up].parent /\ u[up].child = t[up].child
      /\ u[up].stray = t[up].stray
  <2>1. t[up] \in ShSlot /\ there \in Pcs /\ c \in Parents
    BY <1>1, <1>2 DEF Pcs, Parents
  <2>. HIDE DEF up, there
  <2>. QED  BY <1>3, <2>1 DEF ShSlot
<1>6. u \in [ShProcs -> ShSlot]
  <2>1. \A q \in ShProcs : u[q] \in ShSlot
    BY <1>1, <1>3, <1>4, <1>5
  <2>. QED  BY <1>3, <2>1
<1>7. ASSUME NEW q \in ShPids, There(u, q)
      PROVE  q # c /\ There(t, q) /\ u[q].parent = t[q].parent
  <2>1. q # c /\ q \in ShProcs
    BY <1>4, <1>7, ShNames DEF There
  <2>2. CASE q = up
    BY <1>5, <2>1, <2>2 DEF There
  <2>3. CASE q # up
    BY <1>3, <1>7, <2>1, <2>3 DEF There
  <2>. QED  BY <2>2, <2>3
<1>8. FamilyBut(u, c)
  <2>. SUFFICES ASSUME NEW q \in ShPids, There(u, q)
                PROVE  /\ u[q].parent \in ShProcs \ {q}
                       /\ u[q].parent \in ShPids /\ u[q].parent # c =>
                             /\ u[u[q].parent].pc \in {"waits", "waiting", "leaves"}
                             /\ u[u[q].parent].child = q
    BY DEF FamilyBut
  <2>1. q # c /\ There(t, q) /\ u[q].parent = t[q].parent
    BY <1>7
  <2>3. /\ t[q].parent \in ShProcs \ {q}
        /\ t[q].parent \in ShPids =>
              /\ t[t[q].parent].pc \in {"waits", "waiting", "leaves"}
              /\ t[t[q].parent].child = q
    BY <2>1, ShNames DEF TableBut, FamilyBut
  <2>4. t[q].parent = up => up \notin ShPids
    BY <1>2, <2>1, <2>3
  <2>5. t[q].parent # up /\ t[q].parent # c => u[t[q].parent] = t[t[q].parent]
    BY <1>3, <2>3
  <2>. HIDE DEF up
  <2>. QED  BY <2>1, <2>3, <2>4, <2>5
<1>9. OwnShells(u)
  <2>. SUFFICES ASSUME NEW q \in ShPids,
                       u[q].pc \in {"prompt", "opens", "forks", "waits", "waiting"}, ~u[q].stray
                PROVE  u[q].parent = InitPid
    BY DEF OwnShells
  <2>1. q # c
    BY <1>4
  <2>2. CASE q = up
    BY <1>5, <2>2 DEF TableBut, OwnShells
  <2>3. CASE q # up
    BY <1>3, <2>1, <2>3, ShNames DEF TableBut, OwnShells
  <2>. QED  BY <2>2, <2>3
<1>10. OwnChildren(u)
  <2>. SUFFICES ASSUME NEW q \in ShPids, ~Ended(u, q)  PROVE u[q].got \in {NoPid, u[q].child}
    BY DEF OwnChildren
  <2>1. q # c
    BY <1>4 DEF Ended
  <2>2. CASE q = up
    BY <1>2, <1>5, <2>2
  <2>3. CASE q # up
    BY <1>3, <2>1, <2>3, ShNames DEF TableBut, OwnChildren, Ended
  <2>. QED  BY <2>2, <2>3
<1>11. RightArgs(u)
  <2>1. \A q \in ShPids : u[q].pc = "runs" => q # c /\ q # up
    BY <1>4, <1>5
  <2>. QED  BY <1>3, <2>1, ShNames DEF TableBut, RightArgs
<1>. QED  BY <1>4, <1>6, <1>7, <1>8, <1>9, <1>10, <1>11 DEF TableBut, u

\* Without children of its own nothing is excepted.
LEMMA NoChildren ==
    ASSUME NEW t, NEW p, TableBut(t, p),
           \A q \in ShPids : There(t, q) => t[q].parent # p
    PROVE  TableBut(t, NoPid)
BY DEF TableBut, FamilyBut

\* Only one who is forked last, and waited for, has a parent that is no INIT.
LEMMA ChildrenOfGone ==
    ASSUME NEW t, TableBut(t, NoPid), NEW p \in ShPids,
           t[p].pc \notin {"waits", "waiting", "leaves"}
    PROVE  \A q \in ShPids : There(t, q) => t[q].parent # p
BY ShNames DEF TableBut, FamilyBut

\* wait() for somebody who is dead: nothing is excepted.
LEMMA TellsOfDead ==
    ASSUME NEW t, TableBut(t, NoPid), NEW c \in ShPids, t[c].pc = "zombie",
           t[t[c].parent].pc \in {"waits", "waiting"}
    PROVE  TableBut(Tells(t, c), NoPid)
<1>1. There(t, c)
  BY DEF There
<1>2. /\ TableBut(Tells(t, c), c)
      /\ \A q \in ShPids : There(Tells(t, c), q) =>
            q # c /\ There(t, q) /\ Tells(t, c)[q].parent = t[q].parent
  BY <1>1, TellsKeeps
<1>3. \A q \in ShPids : There(t, q) => t[q].parent # c
  BY ChildrenOfGone
<1>. QED  BY <1>2, <1>3, NoChildren

\* Who ends tells its parent or becomes a zombie; only its children then
\* have a parent that is gone.
LEMMA GoneKeeps ==
    ASSUME NEW t, TableBut(t, NoPid), NEW p \in ShPids, ~Ended(t, p)
    PROVE  TableBut(Gone(t, p), p) /\ Gone(t, p)[p].parent \in ShProcs \ {p}
<1>1. There(t, p) /\ t \in [ShProcs -> ShSlot] /\ p \in ShProcs
  BY ShNames DEF There, Ended, TableBut
<1>2. t[p].parent \in ShProcs \ {p} /\ t[p].parent \in Parents
  BY <1>1, ShNames DEF TableBut, FamilyBut, Parents
<1>3. CASE t[t[p].parent].pc = "waiting"
  <2>1. TableBut(Tells(t, p), p) /\ Tells(t, p)[p].parent = t[p].parent
    BY <1>1, <1>3, TellsKeeps
  <2>. QED  BY <1>2, <1>3, <2>1 DEF Gone
<1>4. CASE t[t[p].parent].pc # "waiting"
  <2> DEFINE z == [FreeSh EXCEPT !.pc = "zombie", !.parent = t[p].parent]
             u == Gone(t, p)
  <2>1. u = [t EXCEPT ![p] = z]
    BY <1>4 DEF Gone
  <2>2. z \in ShSlot
    BY <1>2, FreeShTyped
  <2>3. z.pc = "zombie" /\ z.parent = t[p].parent
    BY DEF FreeSh
  <2>. HIDE DEF z, u
  <2>4. u \in [ShProcs -> ShSlot] /\ u[p] = z /\ \A q \in ShProcs : q # p => u[q] = t[q]
    BY <1>1, <2>1, <2>2
  <2>5. FamilyBut(u, p)
    <3>. SUFFICES ASSUME NEW q \in ShPids, There(u, q)
                  PROVE  /\ u[q].parent \in ShProcs \ {q}
                         /\ u[q].parent \in ShPids /\ u[q].parent # p =>
                               /\ u[u[q].parent].pc \in {"waits", "waiting", "leaves"}
                               /\ u[u[q].parent].child = q
      BY DEF FamilyBut
    <3>1. There(t, q) /\ u[q].parent = t[q].parent
      BY <1>1, <2>3, <2>4, ShNames DEF There
    <3>2. /\ t[q].parent \in ShProcs \ {q}
          /\ t[q].parent \in ShPids =>
                /\ t[t[q].parent].pc \in {"waits", "waiting", "leaves"}
                /\ t[t[q].parent].child = q
      BY <3>1, ShNames DEF TableBut, FamilyBut
    <3>3. t[q].parent # p => u[t[q].parent] = t[t[q].parent]
      BY <2>4, <3>2
    <3>. QED  BY <3>1, <3>2, <3>3
  <2>6. OwnShells(u) /\ OwnChildren(u) /\ RightArgs(u)
    <3>1. \A q \in ShPids : q # p => u[q] = t[q]
      BY <2>4, ShNames
    <3>. QED  BY <2>3, <2>4, <3>1 DEF TableBut, OwnShells, OwnChildren, RightArgs, Ended
  <2>. QED  BY <1>2, <2>3, <2>4, <2>5, <2>6 DEF TableBut, u
<1>. QED  BY <1>3, <1>4

\* INIT inherits the children of p: every child has a parent again.
LEMMA InheritsKeeps ==
    ASSUME NEW t, NEW p \in ShPids, TableBut(t, p)
    PROVE  TableBut(Inherits(t, p), NoPid)
<1> DEFINE u == Inherits(t, p)
<1>1. t \in [ShProcs -> ShSlot]
  BY DEF TableBut
<1>2. \A q \in ShProcs : u[q] = IF t[q].parent = p THEN [t[q] EXCEPT !.parent = InitPid] ELSE t[q]
  BY DEF Inherits
<1>3. \A q \in ShProcs : t[q].parent # p => u[q] = t[q]
  BY <1>2
<1>4. ASSUME NEW q \in ShProcs
      PROVE  /\ u[q] \in ShSlot
             /\ u[q].pc = t[q].pc /\ u[q].child = t[q].child /\ u[q].got = t[q].got
             /\ u[q].words = t[q].words /\ u[q].argv = t[q].argv /\ u[q].stray = t[q].stray
             /\ u[q].parent = IF t[q].parent = p THEN InitPid ELSE t[q].parent
  <2>1. t[q] \in ShSlot /\ InitPid \in Parents
    BY <1>1, ShNames DEF Parents
  <2>. HIDE DEF u
  <2>2. CASE t[q].parent = p
    BY <1>2, <2>1, <2>2 DEF ShSlot
  <2>3. CASE t[q].parent # p
    BY <1>3, <2>1, <2>3
  <2>. QED  BY <2>2, <2>3
<1>5. u \in [ShProcs -> ShSlot]
  <2>1. u = [q \in ShProcs |-> u[q]]
    BY DEF Inherits
  <2>. HIDE DEF u
  <2>. QED  BY <1>4, <2>1
<1>. HIDE DEF u
<1>6. FamilyBut(u, NoPid)
  <2>. SUFFICES ASSUME NEW q \in ShPids, There(u, q)
                PROVE  /\ u[q].parent \in ShProcs \ {q}
                       /\ u[q].parent \in ShPids =>
                             /\ u[u[q].parent].pc \in {"waits", "waiting", "leaves"}
                             /\ u[u[q].parent].child = q
    BY DEF FamilyBut
  <2>1. q \in ShProcs /\ q # InitPid /\ There(t, q)
    BY <1>4, ShNames DEF There
  <2>2. CASE t[q].parent = p
    BY <1>4, <2>1, <2>2, ShNames
  <2>3. CASE t[q].parent # p
    <3>1. /\ t[q].parent \in ShProcs \ {q}
          /\ t[q].parent \in ShPids =>
                /\ t[t[q].parent].pc \in {"waits", "waiting", "leaves"}
                /\ t[t[q].parent].child = q
      BY <2>1, <2>3 DEF TableBut, FamilyBut
    <3>2. u[q].parent = t[q].parent
      BY <1>4, <2>1, <2>3
    <3>3. /\ u[t[q].parent].pc = t[t[q].parent].pc
          /\ u[t[q].parent].child = t[t[q].parent].child
      BY <1>4, <3>1
    <3>. QED  BY <3>1, <3>2, <3>3
  <2>. QED  BY <2>2, <2>3
<1>7. OwnShells(u) /\ OwnChildren(u) /\ RightArgs(u)
  <2>1. \A q \in ShPids : q \in ShProcs
    BY ShNames
  <2>2. OwnShells(u)
    BY <1>4, <2>1 DEF TableBut, OwnShells
  <2>3. OwnChildren(u)
    BY <1>4, <2>1 DEF TableBut, OwnChildren, Ended
  <2>4. RightArgs(u)
    BY <1>4, <2>1 DEF TableBut, RightArgs
  <2>. QED  BY <2>2, <2>3, <2>4
<1>. QED  BY <1>5, <1>6, <1>7 DEF TableBut, u

\* exit() and kill(): the family stays sound.
LEMMA ExitsKeeps ==
    ASSUME TableBut(sh, NoPid), NEW p \in ShPids, ~Ended(sh, p), Exits(p)
    PROVE  TableBut(sh', NoPid)
<1> DEFINE t == Inherits(Gone(sh, p), p)
           dead == {q \in ChildrenOf(t, InitPid) : q \in ChildrenOf(sh, p) /\ t[q].pc = "zombie"}
<1>1. TableBut(t, NoPid)
  BY GoneKeeps, InheritsKeeps
<1>2. sh' = IF dead # {} /\ t[InitPid].pc = "waiting" THEN Tells(t, Min(dead)) ELSE t
  BY Zenon DEF Exits
<1>. HIDE DEF t
<1>3. CASE dead # {} /\ t[InitPid].pc = "waiting"
  <2>1. dead \in SUBSET Nat
    BY ShNames DEF ChildrenOf
  <2>2. Min(dead) \in dead
    BY <1>3, <2>1, MinOf
  <2>3. Min(dead) \in ShPids /\ t[Min(dead)].pc = "zombie" /\ t[Min(dead)].parent = InitPid
    BY <2>2 DEF ChildrenOf
  <2>. HIDE DEF dead
  <2>4. t[t[Min(dead)].parent].pc \in {"waits", "waiting"}
    BY <1>3, <2>3
  <2>. QED  BY <1>1, <1>2, <1>3, <2>3, <2>4, TellsOfDead
<1>4. CASE ~(dead # {} /\ t[InitPid].pc = "waiting")
  BY <1>1, <1>2, <1>4
<1>. QED  BY <1>3, <1>4

\* fork(): who forks has no other child, and waits for this one or leaves.
LEMMA ForksKeeps ==
    ASSUME TableBut(sh, NoPid), NEW p \in ShProcs, NEW next \in Pcs, NEW there \in Pcs,
           Forks(p, next, there),
           p = InitPid => there = "prompt",
           p # InitPid =>
              /\ sh[p].pc \notin {"free", "zombie", "waits", "waiting", "leaves"}
              /\ next \in {"waits", "leaves"}
              /\ next = "waits" /\ ~sh[p].stray => sh[p].parent = InitPid
              /\ there \in {"doubles", "execs"}
    PROVE  TableBut(sh', NoPid)
<1>1. sh \in [ShProcs -> ShSlot] /\ sh[p] \in ShSlot
  BY DEF TableBut
<1>2. CASE FreePids = {}
  <2> DEFINE r == [sh[p] EXCEPT !.pc = "spins"]
  <2>1. sh' = [sh EXCEPT ![p] = r]
    BY <1>2 DEF Forks
  <2>2. /\ r \in ShSlot /\ r.pc = "spins" /\ r.parent = sh[p].parent
        /\ r.got = sh[p].got /\ r.child = sh[p].child
    BY <1>1 DEF ShSlot, Pcs
  <2>. HIDE DEF r
  <2>3. CASE p = InitPid
    BY <2>1, <2>2, <2>3, InitGoesOn
  <2>4. CASE p # InitPid
    <3>1. p \in ShPids /\ There(sh, p) /\ sh[p].pc \notin {"waits", "waiting", "leaves"}
      BY <2>4, ShNames DEF There
    <3>2. \A q \in ShPids : There(sh, q) => sh[q].parent # p
      BY <3>1, ChildrenOfGone
    <3>3. r.got \in {NoPid, r.child}
      BY <2>2, <2>4, <3>1 DEF TableBut, OwnChildren, Ended
    <3>. QED  BY <2>1, <2>2, <3>1, <3>2, <3>3, GoesOn
  <2>. QED  BY <2>3, <2>4
<1>3. CASE FreePids # {}
  <2> DEFINE c == Min(FreePids)
             child == [sh[p] EXCEPT !.pc = there, !.parent = p, !.child = NoPid, !.got = NoPid]
             r == [sh[p] EXCEPT !.pc = next, !.child = c, !.got = NoPid]
             u == sh'
  <2>1. c \in ShPids /\ sh[c].pc = "free"
    <3>1. FreePids \in SUBSET Nat
      BY ShNames DEF FreePids
    <3>2. c \in FreePids
      BY <1>3, <3>1, MinOf
    <3>. QED  BY <3>2 DEF FreePids, At
  <2>2. u = [sh EXCEPT ![c] = child, ![p].pc = next, ![p].child = c, ![p].got = NoPid]
    BY <1>3 DEF Forks
  <2>. HIDE DEF c
  <2>3. c # p /\ c \in ShProcs /\ c \in Parents
    BY <2>1, ShNames DEF Parents
  <2>4. u = [sh EXCEPT ![c] = child, ![p] = r]
    BY <1>1, <2>2, <2>3
  <2>5. child \in ShSlot /\ r \in ShSlot
    <3>1. p \in Parents /\ NoPid \in Parents
      BY DEF Parents
    <3>. QED  BY <1>1, <2>3, <3>1 DEF ShSlot
  <2>6. /\ child.pc = there /\ child.parent = p /\ child.got = NoPid
        /\ r.pc = next /\ r.child = c /\ r.got = NoPid
        /\ r.parent = sh[p].parent /\ r.stray = sh[p].stray
    BY <1>1 DEF ShSlot
  <2>. HIDE DEF child, r, u
  <2>7. /\ u \in [ShProcs -> ShSlot] /\ u[c] = child /\ u[p] = r
        /\ \A q \in ShProcs : q # c /\ q # p => u[q] = sh[q]
    BY <1>1, <2>3, <2>4, <2>5
  <2>8. p # InitPid => \A q \in ShPids : There(sh, q) => sh[q].parent # p
    <3>1. CASE p # InitPid
      <4>1. p \in ShPids /\ sh[p].pc \notin {"waits", "waiting", "leaves"}
        BY <3>1, ShNames
      <4>. QED  BY <4>1, ChildrenOfGone
    <3>. QED  BY <3>1
  <2>9. FamilyBut(u, NoPid)
    <3>. SUFFICES ASSUME NEW q \in ShPids, There(u, q)
                  PROVE  /\ u[q].parent \in ShProcs \ {q}
                         /\ u[q].parent \in ShPids =>
                               /\ u[u[q].parent].pc \in {"waits", "waiting", "leaves"}
                               /\ u[u[q].parent].child = q
      BY DEF FamilyBut
    <3>1. CASE q = c
      <4>1. u[q].parent = p /\ p \in ShProcs \ {q}
        BY <2>3, <2>6, <2>7, <3>1
      <4>2. p \in ShPids => u[p].pc \in {"waits", "waiting", "leaves"} /\ u[p].child = q
        BY <2>6, <2>7, <3>1, ShNames
      <4>. QED  BY <4>1, <4>2
    <3>2. CASE q # c
      <4>1. u[q].parent = sh[q].parent /\ There(sh, q)
        <5>1. CASE q = p
          BY <2>6, <2>7, <5>1, ShNames DEF There
        <5>2. CASE q # p
          BY <2>7, <3>2, <5>2, ShNames DEF There
        <5>. QED  BY <5>1, <5>2
      <4>2. /\ sh[q].parent \in ShProcs \ {q}
            /\ sh[q].parent \in ShPids =>
                  /\ sh[sh[q].parent].pc \in {"waits", "waiting", "leaves"}
                  /\ sh[sh[q].parent].child = q
        BY <4>1, ShNames DEF TableBut, FamilyBut
      <4>3. sh[q].parent \in ShPids => sh[q].parent # p
        BY <2>8, <4>1, ShNames
      <4>4. sh[q].parent \in ShPids => sh[q].parent # c
        BY <2>1, <4>2
      <4>5. sh[q].parent \in ShPids => u[sh[q].parent] = sh[sh[q].parent]
        BY <2>7, <4>2, <4>3, <4>4
      <4>. QED  BY <4>1, <4>2, <4>5
    <3>. QED  BY <3>1, <3>2
  <2>10. OwnShells(u)
    <3>. SUFFICES ASSUME NEW q \in ShPids,
                         u[q].pc \in {"prompt", "opens", "forks", "waits", "waiting"}, ~u[q].stray
                  PROVE  u[q].parent = InitPid
      BY DEF OwnShells
    <3>1. CASE q = c
      BY <2>6, <2>7, <3>1
    <3>2. CASE q = p
      BY <2>6, <2>7, <3>2, ShNames
    <3>3. CASE q # c /\ q # p
      BY <2>7, <3>3, ShNames DEF TableBut, OwnShells
    <3>. QED  BY <3>1, <3>2, <3>3
  <2>11. OwnChildren(u)
    <3>. SUFFICES ASSUME NEW q \in ShPids, ~Ended(u, q)  PROVE u[q].got \in {NoPid, u[q].child}
      BY DEF OwnChildren
    <3>1. CASE q = c \/ q = p
      BY <2>6, <2>7, <3>1
    <3>2. CASE q # c /\ q # p
      BY <2>7, <3>2, ShNames DEF TableBut, OwnChildren, Ended
    <3>. QED  BY <3>1, <3>2
  <2>12. RightArgs(u)
    <3>. SUFFICES ASSUME NEW q \in ShPids, u[q].pc = "runs"
                  PROVE  u[q].argv = ArgvOf(u[q].words)
      BY DEF RightArgs
    <3>1. q # c
      BY <2>6, <2>7
    <3>2. q # p
      BY <2>6, <2>7, ShNames
    <3>. QED  BY <2>7, <3>1, <3>2, ShNames DEF TableBut, RightArgs
  <2>. QED  BY <2>7, <2>9, <2>10, <2>11, <2>12 DEF TableBut, u
<1>. QED  BY <1>2, <1>3

-----------------------------------------------------------------------------
(* The steps                                                               *)

\* A step of p alone that leaves its family, or lack of one, as it is.
LEMMA StepsAlone ==
    ASSUME ShInv, NEW p \in ShPids, NEW r \in ShSlot, sh' = [sh EXCEPT ![p] = r],
           sh[p].pc \notin {"free", "waits", "waiting", "leaves"},
           r.parent = sh[p].parent, r.got \in {NoPid, r.child},
           r.pc \in {"prompt", "opens", "forks", "waits", "waiting"} /\ ~r.stray =>
              r.parent = InitPid,
           r.pc = "runs" => r.argv = ArgvOf(r.words)
    PROVE  TableBut(sh', NoPid)
<1>1. There(sh, p) /\ TableBut(sh, NoPid)
  BY DEF There, ShInv
<1>2. \A q \in ShPids : There(sh, q) => sh[q].parent # p
  BY <1>1, ChildrenOfGone
<1>. QED  BY <1>1, <1>2, GoesOn

LEMMA SlotOf ==
    ASSUME ShInv, NEW p \in ShPids
    PROVE  /\ sh[p] \in ShSlot /\ TableBut(sh, NoPid) /\ FilesTyped
           /\ ~Ended(sh, p) => sh[p].got \in {NoPid, sh[p].child}
           /\ sh[p].pc \in {"prompt", "opens", "forks", "waits", "waiting"} /\ ~sh[p].stray =>
                 sh[p].parent = InitPid
           /\ sh[p].pc = "runs" => sh[p].argv = ArgvOf(sh[p].words)
BY ShNames DEF ShInv, TableBut, OwnChildren, OwnShells, RightArgs

LEMMA InitForksKeeps == ASSUME ShInv, InitForks  PROVE ShInv'
<1>1. TableBut(sh, NoPid) /\ FilesTyped /\ InitPid \in ShProcs
  BY ShNames DEF ShInv
<1> DEFINE next == IF started + 1 < Shells THEN "starts" ELSE "waits"
<1>2. next \in Pcs /\ "prompt" \in Pcs /\ Forks(InitPid, next, "prompt")
  BY DEF Pcs, InitForks
<1>. HIDE DEF next
<1>3. TableBut(sh', NoPid)
  BY <1>1, <1>2, ForksKeeps
<1>4. FilesTyped'
  BY <1>1, <1>2 DEF Forks, FilesTyped
<1>. QED  BY <1>3, <1>4 DEF ShInv

LEMMA WaitsKeeps == ASSUME ShInv, NEW p \in ShProcs, Waits(p)  PROVE ShInv'
<1> DEFINE dead == {q \in ChildrenOf(sh, p) : At(q, "zombie")}
<1>1. TableBut(sh, NoPid) /\ sh[p].pc = "waits" /\ sh \in [ShProcs -> ShSlot]
  BY DEF ShInv, Waits, At, TableBut
<1>2. sh' = IF dead # {} THEN Tells(sh, Min(dead))
            ELSE IF ChildrenOf(sh, p) # {} THEN [sh EXCEPT ![p].pc = "waiting"]
            ELSE IF p = InitPid THEN sh
            ELSE [sh EXCEPT ![p].pc = "prompt"]
  BY DEF Waits
<1>3. FilesTyped'
  BY DEF ShInv, Waits, FilesTyped
<1>4. CASE dead # {}
  <2>1. dead \in SUBSET Nat
    BY ShNames DEF ChildrenOf
  <2>2. Min(dead) \in dead
    BY <1>4, <2>1, MinOf
  <2>3. Min(dead) \in ShPids /\ sh[Min(dead)].pc = "zombie" /\ sh[Min(dead)].parent = p
    BY <2>2 DEF ChildrenOf, At
  <2>4. TableBut(Tells(sh, Min(dead)), NoPid)
    <3>. HIDE DEF dead
    <3>. QED  BY <1>1, <2>3, TellsOfDead
  <2>. QED  BY <1>2, <1>3, <1>4, <2>4 DEF ShInv
<1>5. CASE dead = {} /\ ChildrenOf(sh, p) # {}
  <2> DEFINE r == [sh[p] EXCEPT !.pc = "waiting"]
  <2>1. sh' = [sh EXCEPT ![p] = r]
    BY <1>2, <1>5
  <2>2. /\ r \in ShSlot /\ r.pc = "waiting" /\ r.parent = sh[p].parent /\ r.stray = sh[p].stray
        /\ r.got = sh[p].got /\ r.child = sh[p].child
    BY <1>1 DEF ShSlot, Pcs
  <2>. HIDE DEF r
  <2>3. TableBut(sh', NoPid)
    <3>1. CASE p = InitPid
      BY <1>1, <2>1, <2>2, <3>1, InitGoesOn
    <3>2. CASE p # InitPid
      <4>1. p \in ShPids /\ There(sh, p) /\ ~Ended(sh, p)
        BY <1>1, <3>2, ShNames DEF There, Ended
      <4>2. /\ r.pc \in {"waiting"} /\ ~r.stray => r.parent = InitPid
            /\ r.got \in {NoPid, r.child}
        BY <1>1, <2>2, <4>1, SlotOf
      <4>. QED  BY <1>1, <2>1, <2>2, <4>1, <4>2, GoesOn
    <3>. QED  BY <3>1, <3>2
  <2>. QED  BY <1>3, <2>3 DEF ShInv
<1>6. CASE dead = {} /\ ChildrenOf(sh, p) = {} /\ p = InitPid
  <2>1. sh' = sh
    BY <1>2, <1>6
  <2>. QED  BY <1>1, <1>3, <2>1 DEF ShInv
<1>7. CASE dead = {} /\ ChildrenOf(sh, p) = {} /\ p # InitPid
  <2> DEFINE r == [sh[p] EXCEPT !.pc = "prompt"]
  <2>1. sh' = [sh EXCEPT ![p] = r]
    BY <1>2, <1>7
  <2>2. /\ r \in ShSlot /\ r.pc = "prompt" /\ r.parent = sh[p].parent /\ r.stray = sh[p].stray
        /\ r.got = sh[p].got /\ r.child = sh[p].child
    BY <1>1 DEF ShSlot, Pcs
  <2>. HIDE DEF r
  <2>3. p \in ShPids /\ There(sh, p) /\ ~Ended(sh, p)
    BY <1>1, <1>7, ShNames DEF There, Ended
  <2>4. \A q \in ShPids : sh[q].parent # p
    BY <1>7 DEF ChildrenOf
  <2>5. (~r.stray => r.parent = InitPid) /\ r.got \in {NoPid, r.child}
    BY <1>1, <2>2, <2>3, SlotOf
  <2>6. TableBut(sh', NoPid)
    BY <1>1, <2>1, <2>2, <2>3, <2>4, <2>5, GoesOn
  <2>. QED  BY <1>3, <2>6 DEF ShInv
<1>. QED  BY <1>4, <1>5, <1>6, <1>7

LEMMA ReadsKeeps ==
    ASSUME ShInv, NEW p \in ShPids, NEW line \in ShLines, Reads(p, line)  PROVE ShInv'
<1> DEFINE r == [sh[p] EXCEPT !.pc = "opens", !.words = WordsOf(line),
                              !.child = NoPid, !.got = NoPid]
<1>1. sh[p].pc = "prompt" /\ sh[p] \in ShSlot /\ sh \in [ShProcs -> ShSlot]
  BY SlotOf DEF Reads, At, ShInv, TableBut
<1>2. sh' = [sh EXCEPT ![p] = r]
  BY DEF Reads
<1>3. WordsOf(line) \in Seq(ShWord) /\ NoPid \in Parents
  BY WordsAreWords DEF Parents
<1>4. /\ r \in ShSlot /\ r.pc = "opens" /\ r.parent = sh[p].parent /\ r.stray = sh[p].stray
      /\ r.got = NoPid
  BY <1>1, <1>3 DEF ShSlot, Pcs
<1>. HIDE DEF r
<1>5. ~r.stray => r.parent = InitPid
  BY <1>1, <1>4, SlotOf
<1>6. TableBut(sh', NoPid)
  BY <1>1, <1>2, <1>4, <1>5, StepsAlone
<1>7. FilesTyped'
  BY DEF ShInv, Reads, FilesTyped
<1>. QED  BY <1>6, <1>7 DEF ShInv

LEMMA OpensKeeps == ASSUME ShInv, NEW p \in ShPids, Opens(p)  PROVE ShInv'
<1> DEFINE next == IF Exists(Command(p)[1]) THEN "forks" ELSE "prompt"
           r == [sh[p] EXCEPT !.pc = next]
<1>1. sh[p].pc = "opens" /\ sh[p] \in ShSlot /\ ~Ended(sh, p)
  BY SlotOf DEF Opens, At, Ended
<1>2. sh' = [sh EXCEPT ![p] = r]
  BY DEF Opens
<1>3. next \in {"forks", "prompt"} /\ next \in Pcs
  BY DEF Pcs
<1>. HIDE DEF next
<1>4. /\ r \in ShSlot /\ r.pc = next /\ r.parent = sh[p].parent /\ r.stray = sh[p].stray
      /\ r.got = sh[p].got /\ r.child = sh[p].child
  BY <1>1, <1>3 DEF ShSlot
<1>. HIDE DEF r
<1>5. (~r.stray => r.parent = InitPid) /\ r.got \in {NoPid, r.child}
  BY <1>1, <1>4, SlotOf
<1>6. TableBut(sh', NoPid)
  BY <1>1, <1>2, <1>3, <1>4, <1>5, StepsAlone
<1>7. FilesTyped'
  BY DEF ShInv, Opens, FilesTyped
<1>. QED  BY <1>6, <1>7 DEF ShInv

LEMMA ShellForksKeeps == ASSUME ShInv, NEW p \in ShPids, ShellForks(p)  PROVE ShInv'
<1> DEFINE there == IF Doubles(p) THEN "doubles" ELSE "execs"
<1>1. sh[p].pc = "forks" /\ p \in ShProcs /\ TableBut(sh, NoPid)
  BY ShNames, SlotOf DEF ShellForks, At
<1>2. /\ there \in {"doubles", "execs"} /\ there \in Pcs /\ "waits" \in Pcs
      /\ Forks(p, "waits", there)
  BY DEF Pcs, ShellForks
<1>. HIDE DEF there
<1>3. ~sh[p].stray => sh[p].parent = InitPid
  BY <1>1, SlotOf
<1>4. TableBut(sh', NoPid)
  BY <1>1, <1>2, <1>3, ShNames, ForksKeeps
<1>5. FilesTyped'
  BY <1>2, SlotOf DEF Forks, FilesTyped
<1>. QED  BY <1>4, <1>5 DEF ShInv

LEMMA ChildForksKeeps == ASSUME ShInv, NEW p \in ShPids, ChildForks(p)  PROVE ShInv'
<1>1. sh[p].pc = "doubles" /\ p \in ShProcs /\ TableBut(sh, NoPid)
  BY ShNames, SlotOf DEF ChildForks, At
<1>2. "leaves" \in Pcs /\ "execs" \in Pcs /\ Forks(p, "leaves", "execs")
  BY DEF Pcs, ChildForks
<1>3. TableBut(sh', NoPid)
  BY <1>1, <1>2, ShNames, ForksKeeps
<1>4. FilesTyped'
  BY <1>2, SlotOf DEF Forks, FilesTyped
<1>. QED  BY <1>3, <1>4 DEF ShInv

\* Who is no shell any more, or one that is left of a command.
LEMMA ExecFailsKeeps ==
    ASSUME ShInv, NEW p \in ShPids, sh[p].pc \in {"execs", "loads"}, ExecFails(p)
    PROVE  TableBut(sh', NoPid)
<1>1. sh[p] \in ShSlot /\ sh[p].got \in {NoPid, sh[p].child} /\ sh[p].words \in Seq(ShWord)
  BY SlotOf DEF Ended, ShSlot
<1>2. CASE Background(sh[p].words)
  <2> DEFINE r == [sh[p] EXCEPT !.words = Front(@), !.pc = "execs"]
  <2>1. sh' = [sh EXCEPT ![p] = r]
    BY <1>2 DEF ExecFails
  <2>2. Front(sh[p].words) \in Seq(ShWord)
    BY <1>1, <1>2, FrontIsWords DEF Background
  <2>3. /\ r \in ShSlot /\ r.pc = "execs" /\ r.parent = sh[p].parent
        /\ r.got = sh[p].got /\ r.child = sh[p].child
    BY <1>1, <2>2 DEF ShSlot, Pcs
  <2>. HIDE DEF r
  <2>. QED  BY <1>1, <2>1, <2>3, StepsAlone
<1>3. CASE ~Background(sh[p].words)
  <2> DEFINE r == [sh[p] EXCEPT !.pc = "prompt", !.stray = TRUE]
  <2>1. sh' = [sh EXCEPT ![p] = r]
    BY <1>3 DEF ExecFails
  <2>2. /\ r \in ShSlot /\ r.pc = "prompt" /\ r.stray /\ r.parent = sh[p].parent
        /\ r.got = sh[p].got /\ r.child = sh[p].child
    BY <1>1 DEF ShSlot, Pcs
  <2>. HIDE DEF r
  <2>. QED  BY <1>1, <2>1, <2>2, StepsAlone
<1>. QED  BY <1>2, <1>3

LEMMA ExecStatsKeeps == ASSUME ShInv, NEW p \in ShPids, ExecStats(p)  PROVE ShInv'
<1>1. sh[p].pc = "execs" /\ sh[p] \in ShSlot /\ sh[p].got \in {NoPid, sh[p].child}
  BY SlotOf DEF ExecStats, At, Ended
<1>2. FilesTyped'
  BY DEF ShInv, ExecStats, FilesTyped
<1>3. CASE Exists(Command(p)[1])
  <2> DEFINE r == [sh[p] EXCEPT !.pc = "loads"]
  <2>1. sh' = [sh EXCEPT ![p] = r]
    BY <1>3 DEF ExecStats
  <2>2. /\ r \in ShSlot /\ r.pc = "loads" /\ r.parent = sh[p].parent
        /\ r.got = sh[p].got /\ r.child = sh[p].child
    BY <1>1 DEF ShSlot, Pcs
  <2>. HIDE DEF r
  <2>3. TableBut(sh', NoPid)
    BY <1>1, <2>1, <2>2, StepsAlone
  <2>. QED  BY <1>2, <2>3 DEF ShInv
<1>4. CASE ~Exists(Command(p)[1])
  <2>1. ExecFails(p)
    BY <1>4 DEF ExecStats
  <2>2. TableBut(sh', NoPid)
    BY <1>1, <2>1, ExecFailsKeeps
  <2>. QED  BY <1>2, <2>2 DEF ShInv
<1>. QED  BY <1>3, <1>4

\* The program gets the words of its command.
LEMMA ExecLoadsKeeps == ASSUME ShInv, NEW p \in ShPids, ExecLoads(p)  PROVE ShInv'
<1>1. sh[p].pc = "loads" /\ sh[p] \in ShSlot /\ sh[p].got \in {NoPid, sh[p].child} /\ FilesTyped
  BY SlotOf DEF ExecLoads, At, Ended
<1>2. CASE ~Exists(Command(p)[1])
  <2>1. ExecFails(p) /\ UNCHANGED <<files, mmbuf>>
    BY <1>2 DEF ExecLoads
  <2>2. TableBut(sh', NoPid)
    BY <1>1, <2>1, ExecFailsKeeps
  <2>. QED  BY <1>1, <2>1, <2>2 DEF ShInv, FilesTyped
<1>3. CASE Exists(Command(p)[1])
  <2>1. PICK from \in ArgStacks :
          /\ mmbuf' = Read(Command(p)[1])
          /\ sh' = [sh EXCEPT ![p].pc = "runs", ![p].image = mmbuf',
                              ![p].argv = Arrived(Command(p), from)]
    BY <1>3 DEF ExecLoads
  <2>2. Command(p) \in Seq(ShWord) /\ Command(p) = ArgvOf(sh[p].words)
    <3>1. sh[p].words \in Seq(ShWord)
      BY <1>1 DEF ShSlot
    <3>. QED  BY <3>1, FrontIsWords DEF Command
  <2>3. Arrived(Command(p), from) = ArgvOf(sh[p].words)
    BY <2>2, WordsArrive
  <2>4. mmbuf' \in Images
    BY <1>1, <1>3, <2>1 DEF Exists, Read, FilesTyped
  <2> DEFINE r == [sh[p] EXCEPT !.pc = "runs", !.image = mmbuf', !.argv = ArgvOf(sh[p].words)]
  <2>5. sh' = [sh EXCEPT ![p] = r]
    BY <2>1, <2>3
  <2>6. /\ r \in ShSlot /\ r.pc = "runs" /\ r.parent = sh[p].parent
        /\ r.got = sh[p].got /\ r.child = sh[p].child
        /\ r.argv = ArgvOf(sh[p].words) /\ r.words = sh[p].words
    <3>1. ArgvOf(sh[p].words) \in Seq(ShWord)
      BY <2>2
    <3>. QED  BY <1>1, <2>4, <3>1 DEF ShSlot, Pcs
  <2>. HIDE DEF r
  <2>7. TableBut(sh', NoPid)
    BY <1>1, <2>5, <2>6, StepsAlone
  <2>8. FilesTyped'
    BY <1>1, <2>4 DEF ExecLoads, FilesTyped
  <2>. QED  BY <2>7, <2>8 DEF ShInv
<1>. QED  BY <1>2, <1>3

LEMMA RemovesKeeps ==
    ASSUME ShInv, NEW p \in ShPids, NEW f \in DOMAIN files, Removes(p, f)  PROVE ShInv'
<1>1. sh' = sh /\ files' = [files EXCEPT ![f] = "none"] /\ mmbuf' = mmbuf
  BY DEF Removes
<1>2. FilesTyped'
  BY <1>1 DEF ShInv, FilesTyped, Images
<1>. QED  BY <1>1, <1>2 DEF ShInv

LEMMA TouchesKeeps ==
    ASSUME ShInv, NEW p \in ShPids, NEW f \in DOMAIN files, Touches(p, f)  PROVE ShInv'
<1>1. sh' = sh /\ files' = [files EXCEPT ![f] = "empty"] /\ mmbuf' = mmbuf
  BY DEF Touches
<1>2. FilesTyped'
  BY <1>1 DEF ShInv, FilesTyped, Images
<1>. QED  BY <1>1, <1>2 DEF ShInv

\* The three ways to end.
LEMMA EndsKeeps ==
    ASSUME ShInv, NEW p \in ShPids, ~Ended(sh, p), Exits(p), UNCHANGED <<files, mmbuf>>
    PROVE  ShInv'
<1>1. TableBut(sh', NoPid)
  BY ExitsKeeps DEF ShInv
<1>. QED  BY <1>1 DEF ShInv, FilesTyped

LEMMA StepKeeps == ShInv /\ [ShNext]_shVars => ShInv'
<1>. SUFFICES ASSUME ShInv, [ShNext]_shVars  PROVE ShInv'
  OBVIOUS
<1>1. CASE InitForks
  BY <1>1, InitForksKeeps
<1>2. CASE Waits(InitPid)
  BY <1>2, WaitsKeeps, ShNames
<1>3. CASE \E p \in ShPids : Waits(p)
  BY <1>3, WaitsKeeps, ShNames
<1>4. CASE \E p \in ShPids, line \in ShLines : Reads(p, line)
  BY <1>4, ReadsKeeps
<1>5. CASE \E p \in ShPids : Opens(p)
  BY <1>5, OpensKeeps
<1>6. CASE \E p \in ShPids : ShellForks(p)
  BY <1>6, ShellForksKeeps
<1>7. CASE \E p \in ShPids : ChildForks(p)
  BY <1>7, ChildForksKeeps
<1>8. CASE \E p \in ShPids : ChildLeaves(p)
  <2>1. PICK p \in ShPids : ChildLeaves(p)
    BY <1>8
  <2>2. ~Ended(sh, p) /\ Exits(p) /\ UNCHANGED <<files, mmbuf>>
    BY <2>1 DEF ChildLeaves, At, Ended
  <2>. QED  BY <2>2, EndsKeeps
<1>9. CASE \E p \in ShPids : ExecStats(p)
  BY <1>9, ExecStatsKeeps
<1>10. CASE \E p \in ShPids : ExecLoads(p)
  BY <1>10, ExecLoadsKeeps
<1>11. CASE \E p \in ShPids, f \in DOMAIN files : Removes(p, f)
  BY <1>11, RemovesKeeps
<1>12. CASE \E p \in ShPids, f \in DOMAIN files : Touches(p, f)
  BY <1>12, TouchesKeeps
<1>13. CASE \E p \in ShPids : ProgramEnds(p)
  <2>1. PICK p \in ShPids : ProgramEnds(p)
    BY <1>13
  <2>2. ~Ended(sh, p) /\ Exits(p) /\ UNCHANGED <<files, mmbuf>>
    BY <2>1 DEF ProgramEnds, At, Ended
  <2>. QED  BY <2>2, EndsKeeps
<1>14. CASE \E p, q \in ShPids : Kills(p, q)
  <2>1. PICK p \in ShPids, q \in ShPids : Kills(p, q)
    BY <1>14
  <2>2. ~Ended(sh, q) /\ Exits(q) /\ UNCHANGED <<files, mmbuf>>
    BY <2>1 DEF Kills, Ended
  <2>. QED  BY <2>2, EndsKeeps
<1>15. CASE UNCHANGED shVars
  BY <1>15 DEF shVars, ShInv, FilesTyped
<1>. QED
  BY <1>1, <1>2, <1>3, <1>4, <1>5, <1>6, <1>7, <1>8, <1>9, <1>10, <1>11, <1>12,
     <1>13, <1>14, <1>15 DEF ShNext

LEMMA ShInvIsEnough == ShInv => ShellSound
<1>. SUFFICES ASSUME ShInv  PROVE ShellSound
  OBVIOUS
<1>1. PromptMeansDone
  <2>. SUFFICES ASSUME NEW p \in ShPids, NEW q \in ShPids, At(p, "prompt"), sh[q].parent = p
                PROVE  At(q, "free")
    BY DEF PromptMeansDone
  <2>1. sh[p].pc \notin {"waits", "waiting", "leaves"} /\ TableBut(sh, NoPid)
    BY DEF At, ShInv
  <2>2. ~There(sh, q)
    BY <2>1, ChildrenOfGone
  <2>. QED  BY <2>2 DEF There, At
<1>2. OwnChild
  BY SlotOf DEF OwnChild, Alive, Ended
<1>3. NoStrangers
  BY SlotOf DEF NoStrangers, At
<1>4. ArgsArrive
  BY SlotOf DEF ArgsArrive, At, Command
<1>. QED  BY <1>1, <1>2, <1>3, <1>4 DEF ShellSound

\* A shell asks for a line only when its command in the foreground is over, is
\* told of its own child by wait(), and alone reads its terminal but for the
\* copy that a failed exec leaves; a program gets the words that were typed,
\* however the processes fork, exec, wait, exit and are killed.
THEOREM ShellAlwaysSound == ShSpec => []ShellSound
<1>1. ShSpec => []ShInv
  BY ShInitial, StepKeeps, PTL DEF ShSpec
<1>. QED  BY <1>1, ShInvIsEnough, PTL
=============================================================================
