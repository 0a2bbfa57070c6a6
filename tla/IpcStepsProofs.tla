--------------------------- MODULE IpcStepsProofs ---------------------------
(***************************************************************************)
(* The linked lists of senders are sound whatever interrupts do inside a   *)
(* kernel call, and with interrupts held off the statements of a call add  *)
(* up to one step of Ipc, for any number of processes.                     *)
(*                                                                         *)
(* A list is related to the queue it stands for by Chain; what the walks   *)
(* along the pointers yield is shown by looking at the first place where   *)
(* a walk would go wrong.                                                  *)
(***************************************************************************)
EXTENDS IpcSteps, FiniteSetTheorems, WellFoundedInduction, TLAPS

P == INSTANCE IpcProofs

-----------------------------------------------------------------------------
(* Walks                                                                   *)

\* Every set of numbers that is not empty has a least one.
LEMMA Least ==
    ASSUME NEW T \in SUBSET Nat, T # {}
    PROVE  \E n \in T : \A m \in T : n <= m
<1>1. \E n \in T : \A m \in T : <<m, n>> \notin OpToRel(<, Nat)
  BY NatLessThanWellFounded, WFMin, Zenon
<1>2. PICK n \in T : \A m \in T : <<m, n>> \notin {s \in Nat \X Nat : s[1] < s[2]}
  BY <1>1, Zenon DEF OpToRel
<1>3. \A m \in T : ~(m < n)
  BY <1>2
<1>. QED  BY <1>3

\* The k-th process of a walk, from the one before it.
Stepped(w, k, x, nxt) ==
    IF k = 0 THEN x ELSE IF w[k - 1] = NULL THEN NULL ELSE nxt[w[k - 1]]

IsWalk(w, n, x, nxt) == w = [k \in 0..n |-> Stepped(w, k, x, nxt)]

\* A walk of any length can be taken.
LEMMA WalkExists ==
    ASSUME NEW x, NEW nxt, NEW m \in Nat
    PROVE  \E w : IsWalk(w, m, x, nxt)
<1> DEFINE Taken(n, w) == IsWalk(w, n, x, nxt)
           T == {n \in Nat : ~ \E w : Taken(n, w)}
<1>1. CASE T = {}
  BY <1>1
<1>2. CASE T # {}
  <2>1. PICK n \in T : \A i \in T : n <= i
    BY <1>2, Least
  <2>2. CASE n = 0
    <3>1. Taken(0, [k \in 0..0 |-> x])
      BY DEF Stepped, IsWalk
    <3>. QED  BY <2>1, <2>2, <3>1
  <2>3. CASE n # 0
    <3>1. n - 1 \in Nat /\ n - 1 \notin T
      BY <2>1, <2>3
    <3>2. PICK v : Taken(n - 1, v)
      BY <3>1
    <3> DEFINE w == [k \in 0..n |-> IF k < n THEN v[k] ELSE Stepped(v, n, x, nxt)]
    <3>3. ASSUME NEW k \in 0..n  PROVE w[k] = Stepped(w, k, x, nxt)
      <4>1. CASE k < n
        <5>1. w[k] = v[k] /\ v[k] = Stepped(v, k, x, nxt)
          BY <3>2, <4>1 DEF IsWalk
        <5>2. k # 0 => w[k - 1] = v[k - 1]
          BY <3>1, <4>1
        <5>. QED  BY <5>1, <5>2 DEF Stepped
      <4>2. CASE k = n
        <5>1. w[k] = Stepped(v, n, x, nxt) /\ w[n - 1] = v[n - 1]
          BY <3>1, <4>2
        <5>. QED  BY <4>2, <5>1 DEF Stepped
      <4>. QED  BY <4>1, <4>2
    <3>4. Taken(n, w)
      BY <3>3 DEF IsWalk
    <3>. QED  BY <2>1, <3>4
  <2>. QED  BY <2>2, <2>3
<1>. QED  BY <1>1, <1>2

LEMMA WalkSteps ==
    ASSUME NEW x, NEW nxt, IsFiniteSet(Procs)
    PROVE  /\ DOMAIN Walk(x, nxt) = 0..Cardinality(Procs)
           /\ \A k \in 0..Cardinality(Procs) :
                 Walk(x, nxt)[k] = Stepped(Walk(x, nxt), k, x, nxt)
<1> DEFINE N == Cardinality(Procs)
           w == Walk(x, nxt)
<1>1. N \in Nat
  BY FS_CardinalityType
<1>2. \E v : IsWalk(v, N, x, nxt)
  BY <1>1, WalkExists
<1>3. w = CHOOSE v : IsWalk(v, N, x, nxt)
  BY DEF Walk, Stepped, IsWalk
<1>4. IsWalk(w, N, x, nxt)
  BY <1>2, <1>3
<1>. QED  BY <1>4 DEF IsWalk

-----------------------------------------------------------------------------
(* Lists                                                                   *)

\* The i-th of the sequence q, NULL behind its end.
Nth(q, i) == IF i \in 1..Len(q) THEN q[i] ELSE NULL

\* The pointers nxt lead from x along q and end there.
Chain(x, nxt, q) ==
    /\ q \in Seq(Procs) /\ A!NoRepeat(q)
    /\ x = Nth(q, 1)
    /\ \A i \in 1..Len(q) : nxt[q[i]] = Nth(q, i + 1)

\* A list of different processes is no longer than the table.
LEMMA ChainFits ==
    ASSUME NEW q \in Seq(Procs), A!NoRepeat(q), IsFiniteSet(Procs)
    PROVE  Len(q) \in Nat /\ Len(q) <= Cardinality(Procs) /\ Cardinality(Procs) \in Nat
<1>1. Len(q) \in Nat /\ q \in [1..Len(q) -> Procs]
  OBVIOUS
<1>2. q \in Injection(1..Len(q), Procs)
  BY <1>1 DEF A!NoRepeat, Injection, IsInjective
<1>3. Cardinality(1..Len(q)) = Len(q)
  BY <1>1, FS_Interval
<1>. QED  BY <1>1, <1>2, <1>3, FS_Injection, FS_CardinalityType

LEMMA ChainWalk ==
    ASSUME NEW x, NEW nxt, NEW q, Chain(x, nxt, q), IsFiniteSet(Procs)
    PROVE  \A k \in 0..Cardinality(Procs) : Walk(x, nxt)[k] = Nth(q, k + 1)
<1> DEFINE w == Walk(x, nxt)
           T == {k \in 0..Cardinality(Procs) : w[k] # Nth(q, k + 1)}
<1>1. /\ Len(q) \in Nat /\ Cardinality(Procs) \in Nat
      /\ \A i \in 1..Len(q) : q[i] \in Procs /\ q[i] # NULL
  BY ChainFits, IpcStepsAssumption DEF Chain
<1>2. \A k \in 0..Cardinality(Procs) : w[k] = Stepped(w, k, x, nxt)
  BY WalkSteps
<1>3. SUFFICES ASSUME T # {}  PROVE FALSE
  BY <1>1
<1>. HIDE DEF w
<1>4. PICK k \in T : \A j \in T : k <= j
  <2>1. T \in SUBSET Nat
    BY <1>1
  <2> HIDE DEF T
  <2>. QED  BY <1>3, <2>1, Least
<1>5. CASE k = 0
  BY <1>1, <1>2, <1>4, <1>5 DEF Stepped, Chain
<1>6. CASE k # 0
  <2>1. k - 1 \in 0..Cardinality(Procs) /\ w[k - 1] = Nth(q, k)
    BY <1>1, <1>4, <1>6
  <2>2. w[k] = IF w[k - 1] = NULL THEN NULL ELSE nxt[w[k - 1]]
    BY <1>2, <1>4, <1>6 DEF Stepped
  <2>3. CASE k \in 1..Len(q)
    BY <1>1, <1>4, <2>1, <2>2, <2>3 DEF Chain, Nth
  <2>4. CASE k \notin 1..Len(q)
    BY <1>1, <1>4, <1>6, <2>1, <2>2, <2>4 DEF Nth
  <2>. QED  BY <2>3, <2>4
<1>. QED  BY <1>5, <1>6

\* The senders on the list that starts at x and goes on with nxt.
ListBy(x, nxt) ==
    LET w == Walk(x, nxt)
        n == Cardinality({k \in DOMAIN w : w[k] # NULL})
    IN  [i \in 1..n |-> w[i - 1]]

\* The walk along pointers that form a list yields that list.
LEMMA ChainIsList ==
    ASSUME NEW x, NEW nxt, NEW q, Chain(x, nxt, q), IsFiniteSet(Procs)
    PROVE  ListBy(x, nxt) = q
<1> DEFINE w == Walk(x, nxt)
           on == {k \in DOMAIN w : w[k] # NULL}
<1>1. /\ Len(q) \in Nat /\ Cardinality(Procs) \in Nat /\ Len(q) <= Cardinality(Procs)
      /\ \A i \in 1..Len(q) : q[i] \in Procs /\ q[i] # NULL
      /\ q = [i \in 1..Len(q) |-> q[i]]
  BY ChainFits, IpcStepsAssumption DEF Chain
<1>2. /\ DOMAIN w = 0..Cardinality(Procs)
      /\ \A k \in 0..Cardinality(Procs) : w[k] = Nth(q, k + 1)
  BY ChainWalk, WalkSteps
<1>. HIDE DEF w
<1>3. on = 0..Len(q) - 1
  BY <1>1, <1>2 DEF Nth
<1>4. Cardinality(on) = Len(q)
  <2>1. Cardinality(0..Len(q) - 1) = IF 0 > Len(q) - 1 THEN 0 ELSE (Len(q) - 1) - 0 + 1
    <3>1. 0 \in Int /\ Len(q) - 1 \in Int
      BY <1>1
    <3>. QED  BY ONLY <3>1, FS_Interval
  <2>2. Cardinality(0..Len(q) - 1) = Len(q)
    BY <1>1, <2>1
  <2>. QED  BY ONLY <1>3, <2>2
<1>5. \A i \in 1..Len(q) : w[i - 1] = q[i]
  BY <1>1, <1>2 DEF Nth
<1>6. [i \in 1..Len(q) |-> w[i - 1]] = q
  BY <1>1, <1>5
<1>7. ListBy(x, nxt) = [i \in 1..Cardinality(on) |-> w[i - 1]]
  BY DEF ListBy, w
<1>. QED  BY <1>4, <1>6, <1>7

\* What unlinking does, index by index.
LEMMA Unlinked ==
    ASSUME NEW q \in Seq(Procs), NEW x, A!Lists(q, x)
    PROVE  /\ A!Without(q, x) \in Seq(Procs)
           /\ Len(A!Without(q, x)) = Len(q) - 1
           /\ \E k \in 1..Len(q) :
                 /\ q[k] = x
                 /\ \A j \in 1..Len(q) - 1 :
                       A!Without(q, x)[j] = IF j < k THEN q[j] ELSE q[j + 1]
<1>1. P!Without(q, x) = A!Without(q, x)
  BY DEF P!Without, A!Without, P!RemoveAt, A!RemoveAt
<1>2. P!Lists(q, x)
  BY DEF P!Lists, A!Lists
<1>3. P!IpcAssumption
  BY IpcStepsAssumption DEF P!IpcAssumption
<1>4. /\ P!Without(q, x) \in Seq(Procs)
      /\ Len(P!Without(q, x)) = Len(q) - 1
      /\ \E k \in 1..Len(q) :
            /\ q[k] = x
            /\ \A j \in 1..Len(q) - 1 :
                  P!Without(q, x)[j] = IF j < k THEN q[j] ELSE q[j + 1]
  BY ONLY <1>2, <1>3, P!WithoutIndices, q \in Seq(Procs)
<1>. QED  BY <1>1, <1>4

\* prev in the list q.
PrevIn(q, from) ==
    LET b == {i \in 1..Len(q) : q[i] # from /\ \A j \in 1..i : q[j] # from}
    IN  IF b = {} THEN NULL ELSE q[Cardinality(b)]

LEMMA PrevIs ==
    ASSUME NEW q \in Seq(Procs), A!NoRepeat(q), NEW k \in 1..Len(q)
    PROVE  PrevIn(q, q[k]) = Nth(q, k - 1)
<1> DEFINE b == {i \in 1..Len(q) : q[i] # q[k] /\ \A j \in 1..i : q[j] # q[k]}
<1>1. Len(q) \in Nat /\ k \in Nat
  OBVIOUS
<1>2. b = 1..k - 1
  BY <1>1 DEF A!NoRepeat
<1>3. PrevIn(q, q[k]) = IF b = {} THEN NULL ELSE q[Cardinality(b)]
  BY DEF PrevIn
<1>. HIDE DEF b
<1>4. Cardinality(b) = k - 1
  <2>1. 1 \in Int /\ k - 1 \in Int
    BY <1>1
  <2>2. Cardinality(1..k - 1) = IF 1 > k - 1 THEN 0 ELSE (k - 1) - 1 + 1
    BY ONLY <2>1, FS_Interval
  <2>. QED  BY <1>1, <1>2, <2>2
<1>5. CASE k = 1
  BY <1>2, <1>3, <1>5 DEF Nth
<1>6. CASE k # 1
  <2>1. 1 \in 1..k - 1 /\ k - 1 \in 1..Len(q)
    BY <1>1, <1>6
  <2>. QED  BY <1>2, <1>3, <1>4, <2>1 DEF Nth
<1>. QED  BY <1>5, <1>6

\* Pointers that change elsewhere leave a list as it is.
LEMMA ChainSame ==
    ASSUME NEW x, NEW nxt, NEW nxt2, NEW q, Chain(x, nxt, q),
           \A i \in 1..Len(q) : nxt2[q[i]] = nxt[q[i]]
    PROVE  Chain(x, nxt2, q)
BY DEF Chain

LEMMA EmptyChain ==
    ASSUME NEW nxt
    PROVE  Chain(NULL, nxt, <<>>)
BY DEF Chain, Nth, A!NoRepeat

\* A process that is not on the list goes to its end.
LEMMA ChainAppend ==
    ASSUME NEW x, NEW nxt, NEW nxt2, NEW q, Chain(x, nxt, q), NEW p \in Procs,
           ~A!Lists(q, p),
           nxt2[p] = NULL,
           x # NULL => nxt2[q[Len(q)]] = p,
           \A i \in 1..Len(q) : i < Len(q) => nxt2[q[i]] = nxt[q[i]]
    PROVE  Chain(IF x = NULL THEN p ELSE x, nxt2, Append(q, p))
<1>1. /\ Len(q) \in Nat
      /\ \A i \in 1..Len(q) : q[i] \in Procs /\ q[i] # NULL
      /\ x = NULL <=> Len(q) = 0
  BY IpcStepsAssumption DEF Chain, Nth
<1>2. /\ Append(q, p) \in Seq(Procs)
      /\ Len(Append(q, p)) = Len(q) + 1
      /\ \A i \in 1..Len(q) : Append(q, p)[i] = q[i]
      /\ Append(q, p)[Len(q) + 1] = p
  BY DEF Chain
<1> DEFINE r == Append(q, p)
<1>. HIDE DEF r
<1>3. /\ r \in Seq(Procs) /\ Len(r) = Len(q) + 1
      /\ \A i \in 1..Len(q) : r[i] = q[i]
      /\ r[Len(q) + 1] = p
  BY <1>2 DEF r
<1>4. A!NoRepeat(r)
  BY <1>1, <1>3 DEF Chain, A!NoRepeat, A!Lists
<1>5. (IF x = NULL THEN p ELSE x) = Nth(r, 1)
  BY <1>1, <1>3 DEF Chain, Nth
<1>6. ASSUME NEW i \in 1..Len(r)  PROVE nxt2[r[i]] = Nth(r, i + 1)
  <2>1. CASE i = Len(q) + 1
    BY <1>1, <1>3, <2>1 DEF Nth
  <2>2. CASE i = Len(q)
    BY <1>1, <1>3, <2>2 DEF Nth
  <2>3. CASE i < Len(q)
    <3>1. nxt2[r[i]] = nxt[q[i]] /\ nxt[q[i]] = q[i + 1]
      BY <1>1, <1>3, <2>3 DEF Chain, Nth
    <3>2. i + 1 \in 1..Len(q) /\ i + 1 \in 1..Len(r)
      BY <1>1, <1>3, <2>3
    <3>. QED  BY <1>3, <3>1, <3>2 DEF Nth
  <2>. QED  BY <1>1, <1>3, <2>1, <2>2, <2>3
<1>. QED  BY <1>3, <1>4, <1>5, <1>6 DEF Chain, r

\* A process is unlinked from its list, with the pointers as they are after it.
LEMMA ChainUnlink ==
    ASSUME NEW x, NEW nxt, NEW nxt2, NEW q, Chain(x, nxt, q), NEW from,
           A!Lists(q, from),
           x # from => nxt2[PrevIn(q, from)] = nxt[from],
           \A i \in 1..Len(q) :
              q[i] # from /\ (x # from => q[i] # PrevIn(q, from)) => nxt2[q[i]] = nxt[q[i]]
    PROVE  Chain(IF x = from THEN nxt[from] ELSE x, nxt2, A!Without(q, from))
<1> DEFINE r == A!Without(q, from)
<1>1. q \in Seq(Procs) /\ A!NoRepeat(q) /\ Len(q) \in Nat
  BY DEF Chain
<1>2. r \in Seq(Procs) /\ Len(r) = Len(q) - 1
  BY <1>1, Unlinked
<1>3. PICK k \in 1..Len(q) :
         /\ q[k] = from
         /\ \A j \in 1..Len(q) - 1 : r[j] = IF j < k THEN q[j] ELSE q[j + 1]
  BY <1>1, Unlinked
<1>. HIDE DEF r
<1>4. /\ \A i \in 1..Len(q) : q[i] \in Procs /\ q[i] # NULL
      /\ \A i, j \in 1..Len(q) : q[i] = q[j] => i = j
      /\ x = q[1] /\ (x = from <=> k = 1)
      /\ \A i \in 1..Len(q) : nxt[q[i]] = Nth(q, i + 1)
  BY <1>1, <1>3, IpcStepsAssumption DEF Chain, A!NoRepeat, Nth
<1>5. PrevIn(q, from) = Nth(q, k - 1)
  BY <1>1, <1>3, PrevIs
<1>6. A!NoRepeat(r)
  <2>. SUFFICES ASSUME NEW i \in 1..Len(r), NEW j \in 1..Len(r), r[i] = r[j]
                PROVE  i = j
    BY DEF A!NoRepeat
  <2>1. PICK a, b : a = (IF i < k THEN i ELSE i + 1) /\ b = (IF j < k THEN j ELSE j + 1)
    OBVIOUS
  <2>2. a \in 1..Len(q) /\ b \in 1..Len(q) /\ (a = b => i = j)
    BY <1>1, <1>2, <2>1
  <2>3. r[i] = q[a] /\ r[j] = q[b]
    BY <1>1, <1>2, <1>3, <2>1
  <2>4. q[a] = q[b]
    BY <2>3
  <2>5. a = b
    BY <1>4, <2>2, <2>4
  <2>. QED  BY <2>2, <2>5
<1>7. (IF x = from THEN nxt[from] ELSE x) = Nth(r, 1)
  BY <1>1, <1>2, <1>3, <1>4 DEF Nth
<1>8. ASSUME NEW i \in 1..Len(r)  PROVE nxt2[r[i]] = Nth(r, i + 1)
  <2>1. CASE i < k - 1
    <3>1. /\ k - 1 \in 1..Len(q) /\ i \in 1..Len(q) /\ i + 1 \in 1..Len(q)
          /\ i + 1 \in 1..Len(r) /\ i # k /\ i # k - 1
      BY <1>1, <1>2, <2>1
    <3>2. r[i] = q[i] /\ r[i + 1] = q[i + 1]
      BY <1>1, <1>2, <1>3, <2>1, <3>1
    <3>3. q[i] # from /\ q[i] # q[k - 1]
      BY <1>3, <1>4, <3>1
    <3>. QED  BY <1>4, <1>5, <3>1, <3>2, <3>3 DEF Nth
  <2>2. CASE i = k - 1
    <3>1. r[i] = q[k - 1] /\ k - 1 \in 1..Len(q) /\ x # from
      BY <1>1, <1>2, <1>3, <1>4, <2>2
    <3>2. nxt2[r[i]] = Nth(q, k + 1)
      BY <1>3, <1>4, <1>5, <3>1 DEF Nth
    <3>3. Nth(r, i + 1) = Nth(q, k + 1)
      BY <1>1, <1>2, <1>3, <2>2 DEF Nth
    <3>. QED  BY <3>2, <3>3
  <2>3. CASE i >= k
    <3>1. /\ r[i] = q[i + 1] /\ i + 1 \in 1..Len(q) /\ q[i + 1] # from
          /\ k - 1 \in 1..Len(q) => q[i + 1] # q[k - 1]
      BY <1>1, <1>2, <1>3, <1>4, <2>3
    <3>2. nxt2[r[i]] = Nth(q, i + 2)
      BY <1>1, <1>4, <1>5, <3>1 DEF Nth
    <3>3. Nth(r, i + 1) = Nth(q, i + 2)
      BY <1>1, <1>2, <1>3, <2>3 DEF Nth
    <3>. QED  BY <3>2, <3>3
  <2>. QED  BY <1>1, <1>2, <2>1, <2>2, <2>3
<1>. QED  BY <1>2, <1>6, <1>7, <1>8 DEF Chain, r

-----------------------------------------------------------------------------
(* The chain of senders                                                    *)

\* A walk over the table comes to its end or back to where it has been.
LEMMA WalkCloses ==
    ASSUME NEW nxt \in [Procs -> Procs \cup {NULL}], NEW dest \in Procs,
           IsFiniteSet(Procs)
    PROVE  \E m \in 0..Cardinality(Procs) :
              /\ \A k \in 0..m : Walk(dest, nxt)[k] \in Procs
              /\ \/ nxt[Walk(dest, nxt)[m]] = NULL
                 \/ \E k \in 0..m : nxt[Walk(dest, nxt)[m]] = Walk(dest, nxt)[k]
<1> DEFINE w == Walk(dest, nxt)
           N == Cardinality(Procs)
           T == {k \in 0..N : w[k] \notin Procs}
<1>1. N \in Nat /\ NULL \notin Procs
  BY FS_CardinalityType, IpcStepsAssumption
<1>2. \A k \in 0..N : w[k] = Stepped(w, k, dest, nxt)
  BY WalkSteps
<1>. HIDE DEF w
<1>3. CASE T # {}
  <2>1. PICK k \in T : \A j \in T : k <= j
    <3>1. T \in SUBSET Nat
      BY <1>1
    <3> HIDE DEF T
    <3>. QED  BY <1>3, <3>1, Least
  <2>2. k # 0
    BY <1>1, <1>2, <2>1 DEF Stepped
  <2>3. k - 1 \in 0..N /\ \A j \in 0..k - 1 : j \in 0..N /\ w[j] \in Procs
    BY <1>1, <2>1, <2>2
  <2>4. w[k] = nxt[w[k - 1]]
    BY <1>1, <1>2, <2>1, <2>2, <2>3 DEF Stepped
  <2>5. nxt[w[k - 1]] = NULL
    BY <1>1, <2>1, <2>3, <2>4
  <2>. QED  BY <2>3, <2>5 DEF w
<1>4. CASE T = {}
  <2>1. \A k \in 0..N : w[k] \in Procs
    BY <1>4
  <2> DEFINE f == [k \in 0..N |-> w[k]]
  <2>2. f \in [0..N -> Procs]
    BY <2>1
  <2>3. IsFiniteSet(0..N) /\ Cardinality(0..N) = N + 1
    <3>1. 0 \in Int /\ N \in Int
      BY <1>1
    <3>2. IsFiniteSet(0..N) /\ Cardinality(0..N) = IF 0 > N THEN 0 ELSE N - 0 + 1
      BY ONLY <3>1, FS_Interval
    <3>. QED  BY <1>1, <3>2
  <2>4. Cardinality(Procs) < Cardinality(0..N)
    BY <1>1, <2>3
  <2>5. \E x, y \in 0..N : x # y /\ f[x] = f[y]
    <3> HIDE DEF f, N
    <3>. QED  BY <2>2, <2>3, <2>4, FS_PigeonHole
  <2>6. PICK x \in 0..N, y \in 0..N : x < y /\ w[x] = w[y]
    BY <1>1, <2>5
  <2>7. y # 0 /\ y - 1 \in 0..N /\ x \in 0..y - 1
    BY <1>1, <2>6
  <2>8. w[y] = nxt[w[y - 1]]
    BY <1>1, <1>2, <2>1, <2>6, <2>7 DEF Stepped
  <2>9. \A k \in 0..y - 1 : k \in 0..N /\ w[k] \in Procs
    BY <1>1, <2>1, <2>6
  <2>. QED  BY <2>6, <2>7, <2>8, <2>9 DEF w
<1>. QED  BY <1>3, <1>4

\* The walk from dest meets src exactly if src is in every set that holds dest
\* and is closed.
LEMMA WalkReaches ==
    ASSUME NEW nxt \in [Procs -> Procs \cup {NULL}], IsFiniteSet(Procs),
           NEW src \in Procs, NEW dest \in Procs, src # dest
    PROVE  (\E k \in 0..Cardinality(Procs) :
               Walk(dest, nxt)[k] \in Procs /\ nxt[Walk(dest, nxt)[k]] = src)
              <=> \A S \in SUBSET Procs :
                     (dest \in S /\ \A p \in S : nxt[p] # NULL => nxt[p] \in S)
                        => src \in S
<1> DEFINE w == Walk(dest, nxt)
           N == Cardinality(Procs)
<1>1. N \in Nat /\ NULL \notin Procs
  BY FS_CardinalityType, IpcStepsAssumption
<1>2. \A k \in 0..N : w[k] = Stepped(w, k, dest, nxt)
  BY WalkSteps
<1>3. PICK m \in 0..N : /\ \A k \in 0..m : w[k] \in Procs
                        /\ \/ nxt[w[m]] = NULL
                           \/ \E k \in 0..m : nxt[w[m]] = w[k]
  BY WalkCloses
<1>. HIDE DEF w
<1>4. ASSUME NEW k \in 0..N, w[k] \in Procs, nxt[w[k]] = src,
             NEW S \in SUBSET Procs, dest \in S,
             \A p \in S : nxt[p] # NULL => nxt[p] \in S
      PROVE  src \in S
  <2> DEFINE T == {j \in 0..N : w[j] # NULL /\ w[j] \notin S}
  <2>1. ASSUME T # {}  PROVE FALSE
    <3>1. PICK j \in T : \A i \in T : j <= i
      <4>1. T \in SUBSET Nat
        BY <1>1
      <4> HIDE DEF T
      <4>. QED  BY <2>1, <4>1, Least
    <3>2. j # 0
      BY <1>1, <1>2, <1>4, <3>1 DEF Stepped
    <3>3. j - 1 \in 0..N /\ j - 1 \notin T
      BY <1>1, <3>1, <3>2
    <3>. QED  BY <1>1, <1>2, <1>4, <3>1, <3>2, <3>3 DEF Stepped
  <2>. QED  BY <1>1, <1>4, <2>1
<1>5. ASSUME \A S \in SUBSET Procs :
                (dest \in S /\ \A p \in S : nxt[p] # NULL => nxt[p] \in S) => src \in S
      PROVE  \E k \in 0..N : w[k] \in Procs /\ nxt[w[k]] = src
  <2> DEFINE S == {w[k] : k \in 0..m}
  <2>1. m \in Nat /\ \A k \in 0..m : k \in 0..N
    BY <1>1
  <2>2. S \in SUBSET Procs /\ dest \in S
    BY <1>2, <1>3, <2>1 DEF Stepped
  <2>3. ASSUME NEW k \in 0..m, nxt[w[k]] # NULL  PROVE nxt[w[k]] \in S
    <3>1. CASE k = m
      BY <1>3, <2>3, <3>1
    <3>2. CASE k # m
      <4>1. k + 1 \in 0..m /\ w[k + 1] = nxt[w[k]]
        BY <1>1, <1>2, <1>3, <2>1, <3>2 DEF Stepped
      <4>. QED  BY <4>1
    <3>. QED  BY <3>1, <3>2
  <2>4. src \in S
    BY <1>5, <2>2, <2>3
  <2>5. PICK k \in 0..m : w[k] = src
    BY <2>4
  <2>6. k # 0
    BY <1>2, <2>1, <2>5 DEF Stepped
  <2>7. k - 1 \in 0..m /\ nxt[w[k - 1]] = src /\ w[k - 1] \in Procs
    BY <1>1, <1>2, <1>3, <2>1, <2>5, <2>6 DEF Stepped
  <2>. QED  BY <2>1, <2>7
<1>. QED  BY <1>4, <1>5 DEF w

-----------------------------------------------------------------------------
(* The invariant                                                           *)

SendPoints    == {"send", "check", "copy", "clear", "wake", "done", "append"}
ReceivePoints == {"receive", "take_int", "taken", "pick", "unlink", "flag", "msg", "from", "block"}
Contents      == Bodies \cup {HARD_INT, SYSCALL_RET, EMPTY}
Messages      == [source : Procs \cup {INTERRUPT}, body : Contents]
Calls         == [at : {"user"} \cup SendPoints \cup ReceivePoints,
                  p : Procs \cup {NO_TASK}, party : Sources \cup {NO_TASK},
                  from : Procs \cup {NO_TASK}]

Typed ==
    /\ TypeOK
    /\ buf \in [Procs -> Messages]
    /\ call \in Calls
    /\ nested \in BOOLEAN /\ panicked \in BOOLEAN

\* What is known where a call has come to, with interrupts at any place: the
\* caller is runnable until it has blocked itself, and a sender that has been
\* found stays one.
Calling ==
    /\ call.at = "user" => call = NoCall
    /\ call.at # "user" => call.p \in Procs /\ call.party # call.p /\ call.party # NO_TASK
    /\ call.at \in SendPoints => call.party \in Procs
    /\ call.at \in SendPoints \cup {"receive", "take_int", "taken", "pick", "unlink", "flag"} =>
          Runnable(call.p)
    /\ call.at \in {"check", "copy", "clear", "wake", "done"} =>
          ~Sending(call.party) /\ ~Free(call.party)
    /\ call.at = "wake" => ~p_msg[call.party]
    /\ call.at = "done" => ~Receiving(call.party)
    /\ call.at \in {"msg", "from"} =>
          p_flags[call.p] = {"RECEIVING"} /\ p_recvfrom[call.p] = NO_TASK
    /\ call.at = "from" => p_msg[call.p]
    /\ call.at = "block" => p_flags[call.p] \in {{}, {"RECEIVING"}}
    /\ call.at = "unlink" =>
          call.from \in Procs /\ Sending(call.from) /\ p_sendto[call.from] = call.p

\* The fields of a process, with what is not yet or no longer so in the middle
\* of a call.
FieldsOf(p) ==
    /\ Sending(p) => p_flags[p] = {"SENDING"} /\ p_sendto[p] \in Procs \ {p} /\ p_msg[p]
    /\ ~Sending(p) => p_sendto[p] = NO_TASK /\ next_sending[p] = NULL
    /\ Receiving(p) => p_flags[p] = {"RECEIVING"}
    /\ p_msg[p] => Sending(p) \/ Receiving(p)
    /\ p_recvfrom[p] # NO_TASK => Receiving(p) \/ (call.at = "done" /\ p = call.party)
    /\ Receiving(p) => \/ p_msg[p] <=> p_recvfrom[p] # NO_TASK
                       \/ call.at = "from" /\ p = call.p
                       \/ call.at = "wake" /\ p = call.party

Fields == \A p \in Procs : FieldsOf(p)

\* The pointers form the queues, and these hold the senders.
Linked ==
    \A d \in Procs :
        /\ Chain(q_sending[d], next_sending, QueueOf(d))
        /\ \A p \in Procs : A!Lists(QueueOf(d), p) <=> Sending(p) /\ p_sendto[p] = d

SoundInv == Typed /\ Calling /\ Fields /\ Linked

-----------------------------------------------------------------------------
(* Without interrupts inside calls: how the table differs from what it was *)
(* when the call began, and what the call has found out.                   *)

Own(b) == [source |-> call.p, body |-> b]

BeforeTyped ==
    /\ before.p_flags \in [Procs -> SUBSET {"SENDING", "RECEIVING", "FREE_SLOT"}]
    /\ before.p_msg \in [Procs -> BOOLEAN]
    /\ before.p_recvfrom \in [Procs -> Sources \cup {NO_TASK}]
    /\ before.buf \in [Procs -> Messages]

Untouched ==
    /\ before.p_sendto = p_sendto
    /\ has_int_msg = IF call.at = "taken" THEN [before.has_int_msg EXCEPT ![call.p] = FALSE]
                     ELSE before.has_int_msg
    /\ before.q_sending = [d \in Procs |-> QueueOf(d)]

Changed ==
    /\ p_flags = IF call.at = "done"
                 THEN [before.p_flags EXCEPT ![call.party] = @ \ {"RECEIVING"}]
                 ELSE IF call.at \in {"msg", "from", "block"}
                 THEN [before.p_flags EXCEPT ![call.p] = @ \cup {"RECEIVING"}]
                 ELSE before.p_flags
    /\ p_msg = IF call.at \in {"wake", "done"} THEN [before.p_msg EXCEPT ![call.party] = FALSE]
               ELSE IF call.at \in {"from", "block"} THEN [before.p_msg EXCEPT ![call.p] = TRUE]
               ELSE before.p_msg
    /\ p_recvfrom = IF call.at = "block" THEN [before.p_recvfrom EXCEPT ![call.p] = call.party]
                    ELSE before.p_recvfrom

ChangedBuf ==
    /\ call.at \in {"send", "check", "copy", "append"} =>
          \E b \in Bodies : buf = [before.buf EXCEPT ![call.p] = Own(b)]
    /\ call.at \in {"clear", "wake", "done"} =>
          \E b \in Bodies : buf = [before.buf EXCEPT ![call.p] = Own(b), ![call.party] = Own(b)]
    /\ call.at = "taken" => buf = [before.buf EXCEPT ![call.p] = IntMsg]
    /\ call.at \in ReceivePoints \ {"taken"} => buf = [before.buf EXCEPT ![call.p] = Own(EMPTY)]

Known ==
    LET p == call.p  q == call.party IN
    /\ ~panicked => A!sys_sendrec(p, q)
    /\ call.at \in {"check", "copy", "clear", "wake", "done"} =>
          ~A!deadlock(p, q) /\ A!Accepts(q, p)
    /\ call.at = "append" => ~A!deadlock(p, q) /\ ~A!Accepts(q, p)
    /\ call.at \in {"take_int", "taken"} => A!IntReady(p, q)
    /\ call.at \in {"pick", "unlink", "flag", "msg", "from", "block"} => ~A!IntReady(p, q)
    /\ call.at = "unlink" => A!Offers(p, q, call.from)
    /\ call.at \in {"flag", "msg", "from", "block"} => \A x \in Procs : ~A!Offers(p, q, x)

Begun == BeforeTyped /\ Untouched /\ Changed /\ ChangedBuf

Quiet == ~nested => /\ failed = "none"
                    /\ call.at # "user" => Begun /\ Known

StepsInv == SoundInv /\ Quiet

-----------------------------------------------------------------------------
(* Soundness, with interrupts at any place                                 *)

LEMMA QueuesSame ==
    ASSUME UNCHANGED queues
    PROVE  \A d : QueueOf(d)' = QueueOf(d)
BY DEF queues, QueueOf, List, Walk

LEMMA LinkedSame ==
    ASSUME Linked, UNCHANGED queues, UNCHANGED p_sendto,
           \A p \in Procs : Sending(p)' <=> Sending(p)
    PROVE  Linked'
<1>1. \A d \in Procs : QueueOf(d)' = QueueOf(d)
  BY QueuesSame
<1>. QED  BY <1>1 DEF Linked, queues

LEMMA ListIs ==
    ASSUME NEW q, NEW d \in Procs, Chain(q_sending[d], next_sending, q),
           IsFiniteSet(Procs)
    PROVE  QueueOf(d) = q
<1>1. ListBy(q_sending[d], next_sending) = q
  BY ChainIsList
<1>. QED  BY <1>1 DEF QueueOf, List, ListBy

LEMMA ListIsNext ==
    ASSUME NEW q, NEW d \in Procs, Chain(q_sending'[d], next_sending', q),
           IsFiniteSet(Procs)
    PROVE  QueueOf(d)' = q
<1>1. ListBy(q_sending'[d], next_sending') = q
  BY ChainIsList
<1>. QED  BY <1>1 DEF QueueOf, List, ListBy, Walk

LEMMA InitSound ==
    ASSUME Init, IsFiniteSet(Procs)
    PROVE  SoundInv
<1>1. Typed
  BY IpcStepsAssumption DEF Init, Typed, TypeOK, Messages, Contents, NoCall, Sources,
     Calls
<1>2. Calling
  BY DEF Init, Calling, NoCall, SendPoints
<1>3. \A p \in Procs : ~Sending(p) /\ ~Receiving(p)
  BY DEF Init, Sending, Receiving
<1>4. Fields
  BY <1>3 DEF Init, Fields, FieldsOf
<1>5. ASSUME NEW d \in Procs
      PROVE  Chain(q_sending[d], next_sending, QueueOf(d)) /\ QueueOf(d) = <<>>
  <2>1. Chain(q_sending[d], next_sending, <<>>)
    BY EmptyChain DEF Init
  <2>. QED  BY <2>1, ListIs
<1>6. Linked
  BY <1>3, <1>5 DEF Linked, A!Lists
<1>. QED  BY <1>1, <1>2, <1>4, <1>6 DEF SoundInv

LEMMA EnterSound ==
    ASSUME SoundInv, NEW p \in Procs, sys_sendrec(p), UNCHANGED nested
    PROVE  SoundInv'
<1>1. PICK function \in {"send", "receive"}, party \in Sources, b \in Bodies \cup {EMPTY} :
         Enter(p, function, party, b) /\ (function = "send" => party \in Procs)
  BY DEF sys_sendrec, Sources
<1>. USE <1>1
<1>2. Typed'
  <2>1. Typed /\ TypeOK
    BY DEF SoundInv, Typed
  <2>2. buf' \in [Procs -> Messages]
    <3>1. [source |-> p, body |-> b] \in Messages
      BY DEF Messages, Contents
    <3>. QED  BY <2>1, <3>1 DEF Enter, Typed
  <2>3. call' = [at |-> function, p |-> p, party |-> party, from |-> NO_TASK]
    BY DEF Enter
  <2>4. /\ call'.p \in Procs \cup {NO_TASK}
        /\ call' \in Calls
    BY <2>3 DEF SendPoints, ReceivePoints, Calls
  <2>5. UNCHANGED <<p_flags, p_msg, p_recvfrom, p_sendto, has_int_msg, queues,
                    panicked, failed, nested>>
    BY DEF Enter
  <2>. QED  BY <2>1, <2>2, <2>4, <2>5 DEF Typed, TypeOK, queues
<1>3. Calling'
  BY IpcStepsAssumption DEF SoundInv, Enter, Calling, Runnable, SendPoints, Sources,
     NoCall
<1>4. Fields'
  BY DEF SoundInv, Enter, Fields, FieldsOf, Sending, Receiving, queues, InUser, NoCall
<1>5. Linked'
  BY LinkedSame DEF SoundInv, Enter, Sending
<1>. QED  BY <1>2, <1>3, <1>4, <1>5 DEF SoundInv

\* The steps that leave the lists alone: what is to be shown of them.
LEMMA SameQueues ==
    ASSUME SoundInv, UNCHANGED <<queues, p_sendto, panicked, nested>>,
           has_int_msg' \in [Procs -> BOOLEAN],
           p_flags' \in [Procs -> SUBSET {"SENDING", "RECEIVING", "FREE_SLOT"}],
           p_msg' \in [Procs -> BOOLEAN],
           p_recvfrom' \in [Procs -> Sources \cup {NO_TASK}],
           buf' \in [Procs -> Messages], call' \in Calls,
           failed' \in {"none", "msg_send", "msg_receive", "block", "inform_int"},
           \A p \in Procs : Sending(p)' <=> Sending(p),
           Calling', Fields'
    PROVE  SoundInv'
<1>1. Linked'
  BY LinkedSame DEF SoundInv
<1>2. call'.p \in Procs \cup {NO_TASK}
  BY DEF Calls
<1>3. Typed'
  BY <1>2 DEF SoundInv, Typed, TypeOK, queues
<1>. QED  BY <1>1, <1>3 DEF SoundInv

\* ... and of those that only move the call on.
LEMMA SameFields ==
    ASSUME SoundInv, UNCHANGED <<fields, queues, panicked, nested>>, call' \in Calls,
           failed' \in {"none", "msg_send", "msg_receive", "block", "inform_int"},
           Calling', Fields'
    PROVE  SoundInv'
<1>1. \A p \in Procs : Sending(p)' <=> Sending(p)
  BY DEF fields, Sending
<1>. QED  BY <1>1, SameQueues DEF SoundInv, Typed, TypeOK, fields

\* Where a call is after it has gone on.
LEMMA GoneOn ==
    ASSUME Typed, NEW point \in SendPoints \cup ReceivePoints, GoOn(point)
    PROVE  /\ call' \in Calls /\ failed' = failed /\ failed' \in {"none", "msg_send", "msg_receive", "block", "inform_int"}
           /\ call'.at = point /\ call'.p = call.p /\ call'.party = call.party
           /\ call'.from = call.from
BY DEF Typed, TypeOK, Calls, GoOn

LEMMA Returned ==
    ASSUME Typed, Return
    PROVE  /\ call' \in Calls /\ failed' = failed /\ failed' \in {"none", "msg_send", "msg_receive", "block", "inform_int"}
           /\ call' = NoCall /\ call'.at = "user"
BY DEF Typed, TypeOK, Calls, Return, NoCall

LEMMA Failed ==
    ASSUME Typed, NEW name \in {"msg_send", "msg_receive", "block"}, Fail(name)
    PROVE  /\ call' \in Calls /\ failed' \in {"none", "msg_send", "msg_receive", "block", "inform_int"}
           /\ call' = call
BY DEF Typed, TypeOK, Fail

LEMMA SendSound ==
    ASSUME SoundInv, UNCHANGED nested,
           \/ SendPanics \/ SendTests \/ SendChecks \/ SendCopies
           \/ SendClearsMsg \/ SendClearsFlag \/ SendDone
    PROVE  SoundInv'
<1>1. Typed /\ TypeOK /\ Calling /\ Fields /\ NO_TASK \notin Procs
  BY IpcStepsAssumption DEF SoundInv, Typed
<1>2. call.at \in SendPoints => call.p \in Procs /\ call.party \in Procs /\ call.party # call.p
  BY <1>1 DEF Calling, SendPoints
<1>3. CASE SendPanics
  <2>1. UNCHANGED <<fields, queues, call, before, failed, nested>> /\ panicked' = TRUE
    BY <1>3 DEF SendPanics
  <2>2. Typed'
    BY <1>1, <2>1 DEF Typed, TypeOK, fields, queues
  <2>3. Calling' /\ Fields'
    BY <1>1, <2>1 DEF Free, Calling, Fields, FieldsOf, Sending, Receiving, Runnable, fields, queues
  <2>4. Linked'
    BY <2>1, LinkedSame DEF SoundInv, fields, Sending
  <2>. QED  BY <2>2, <2>3, <2>4 DEF SoundInv
<1>4. CASE SendTests
  <2>1. PICK point \in {"check", "append"} :
           GoOn(point) /\ (point = "check" => Accepts(call.party, call.p))
    BY <1>4 DEF SendTests
  <2>2. call.at = "send" /\ UNCHANGED <<fields, queues, panicked>>
    BY <1>4 DEF SendTests, At
  <2>3. point \in SendPoints
    BY DEF SendPoints
  <2>4. Calling'
    BY <1>1, <1>2, <2>1, <2>2, <2>3, GoneOn
       DEF Free, Calling, Runnable, Sending, Receiving, Accepts, fields, SendPoints, Fields, FieldsOf
  <2>5. Fields'
    BY <1>1, <2>1, <2>2, <2>3, GoneOn DEF Fields, FieldsOf, Sending, Receiving, fields, queues
  <2>. QED  BY <1>1, <2>1, <2>2, <2>3, <2>4, <2>5, GoneOn, SameFields
<1>5. CASE SendChecks
  <2>1. call.at = "check" /\ UNCHANGED <<fields, queues, panicked>>
    BY <1>5 DEF SendChecks, At
  <2>2. CASE GoOn("copy")
    <3>1. "copy" \in SendPoints
      BY DEF SendPoints
    <3>2. Calling'
      BY <1>1, <2>1, <2>2, <3>1, GoneOn DEF Free, Calling, Runnable, Sending, fields, SendPoints
    <3>3. Fields'
      BY <1>1, <2>1, <2>2, <3>1, GoneOn DEF Fields, FieldsOf, Sending, Receiving, fields, queues
    <3>. QED  BY <1>1, <2>1, <2>2, <3>1, <3>2, <3>3, GoneOn, SameFields
  <2>3. CASE Fail("msg_send")
    <3>1. Calling' /\ Fields'
      BY <1>1, <2>1, <2>3 DEF Fail, Free, Calling, Fields, FieldsOf, Sending, Receiving, Runnable, fields, queues
    <3>. QED  BY <1>1, <2>1, <2>3, <3>1, Failed, SameFields
  <2>. QED  BY <1>5, <2>2, <2>3 DEF SendChecks
<1>6. CASE SendCopies
  <2>1. /\ call.at = "copy" /\ GoOn("clear") /\ "clear" \in SendPoints
        /\ UNCHANGED <<p_flags, p_msg, p_recvfrom, p_sendto, has_int_msg, queues, panicked>>
    BY <1>6 DEF SendCopies, At, SendPoints
  <2>2. buf' \in [Procs -> Messages]
    BY <1>1, <1>2, <1>6, <2>1 DEF SendCopies, Typed, SendPoints
  <2>3. Calling'
    BY <1>1, <2>1, GoneOn DEF Free, Calling, Runnable, Sending, SendPoints
  <2>4. Fields'
    BY <1>1, <2>1, GoneOn DEF Fields, FieldsOf, Sending, Receiving, queues
  <2>. QED  BY <1>1, <2>1, <2>2, <2>3, <2>4, GoneOn, SameQueues DEF TypeOK, Sending
<1>7. CASE SendClearsMsg
  <2>1. /\ call.at = "clear" /\ GoOn("wake") /\ "wake" \in SendPoints
        /\ p_msg' = [p_msg EXCEPT ![call.party] = FALSE]
        /\ UNCHANGED <<p_flags, p_recvfrom, p_sendto, has_int_msg, buf, queues, panicked>>
    BY <1>7 DEF SendClearsMsg, At, SendPoints
  <2>2. p_msg' \in [Procs -> BOOLEAN]
    BY <1>1, <2>1 DEF TypeOK
  <2>3. Calling'
    BY <1>1, <1>2, <2>1, GoneOn DEF Free, Calling, Runnable, Sending, SendPoints, TypeOK
  <2>4. ~Sending(call.party)
    BY <1>1, <2>1 DEF Calling
  <2>5. Fields'
    BY <1>1, <2>1, <2>4, GoneOn DEF Fields, FieldsOf, Sending, Receiving, queues, TypeOK
  <2>. QED  BY <1>1, <2>1, <2>2, <2>3, <2>5, GoneOn, SameQueues DEF TypeOK, Sending, Typed
<1>8. CASE SendClearsFlag
  <2>1. /\ call.at = "wake" /\ GoOn("done") /\ "done" \in SendPoints
        /\ p_flags' = [p_flags EXCEPT ![call.party] = @ \ {"RECEIVING"}]
        /\ UNCHANGED <<p_msg, p_recvfrom, p_sendto, has_int_msg, buf, queues, panicked>>
    BY <1>8 DEF SendClearsFlag, At, SendPoints
  <2>2. p_flags' \in [Procs -> SUBSET {"SENDING", "RECEIVING", "FREE_SLOT"}]
    BY <1>1, <2>1 DEF TypeOK
  <2>3. \A p \in Procs : Sending(p)' <=> Sending(p)
    BY <1>1, <2>1 DEF TypeOK, Sending
  <2>4. call.party # call.p /\ call.p \in Procs /\ call.party \in Procs
        /\ ~Sending(call.party) /\ ~p_msg[call.party] /\ Runnable(call.p)
    BY <1>1, <1>2, <2>1 DEF Calling, SendPoints
  <2>5. /\ Runnable(call.p)'
        /\ ~Sending(call.party)' /\ ~Receiving(call.party)' /\ ~Free(call.party)'
    <3>1. ~Free(call.party) /\ (Receiving(call.party) => p_flags[call.party] = {"RECEIVING"})
      BY <1>1, <2>1, <2>4 DEF Calling, Fields, FieldsOf
    <3>2. p_flags'[call.party] = p_flags[call.party] \ {"RECEIVING"}
      BY <1>1, <2>1, <2>4 DEF TypeOK
    <3>3. p_flags'[call.party] # {"FREE_SLOT"}
      <4>1. CASE Receiving(call.party)
        BY <3>1, <3>2, <4>1
      <4>2. CASE ~Receiving(call.party)
        BY <3>1, <3>2, <4>2 DEF Receiving, Free
      <4>. QED  BY <4>1, <4>2
    <3>. QED  BY <1>1, <2>1, <2>3, <2>4, <3>2, <3>3, GoneOn DEF Runnable, TypeOK, Sending, Receiving, Free
  <2>6. Calling'
    BY <1>1, <2>1, <2>4, <2>5, GoneOn DEF Calling, SendPoints
  <2>7. Fields'
    <3>. SUFFICES ASSUME NEW q \in Procs  PROVE FieldsOf(q)'
      BY DEF Fields
    <3>1. CASE q = call.party
      BY <1>1, <2>1, <2>5, <2>4, <3>1, GoneOn DEF Fields, FieldsOf, Sending, Receiving, queues, TypeOK
    <3>2. CASE q # call.party
      <4>1. p_flags'[q] = p_flags[q]
        BY <1>1, <2>1, <3>2 DEF TypeOK
      <4>. QED  BY <1>1, <2>1, <3>2, <4>1, GoneOn DEF Fields, FieldsOf, Sending, Receiving, queues
    <3>. QED  BY <3>1, <3>2
  <2>. QED  BY <1>1, <2>1, <2>2, <2>3, <2>6, <2>7, GoneOn, SameQueues DEF TypeOK, Typed
<1>9. CASE SendDone
  <2>1. /\ call.at = "done"
        /\ p_recvfrom' = [p_recvfrom EXCEPT ![call.party] = NO_TASK]
        /\ Return \/ Fail("msg_send")
        /\ UNCHANGED <<p_flags, p_msg, p_sendto, has_int_msg, buf, queues, panicked>>
    BY <1>9 DEF SendDone, At
  <2>2. /\ call.p \in Procs /\ call.party \in Procs /\ "done" \in SendPoints
        /\ p_recvfrom' \in [Procs -> Sources \cup {NO_TASK}]
        /\ ~Receiving(call.party)
    BY <1>1, <1>2, <2>1 DEF TypeOK, SendPoints, Calling
  <2>3. \A p \in Procs : p_recvfrom'[p] = IF p = call.party THEN NO_TASK ELSE p_recvfrom[p]
    BY <1>1, <2>1 DEF TypeOK
  <2>4. CASE Return
    <3>1. Calling'
      BY <1>1, <2>4, Returned DEF Calling, SendPoints
    <3>2. Fields'
      BY <1>1, <2>1, <2>2, <2>3, <2>4, Returned DEF Fields, FieldsOf, Sending, Receiving, queues
    <3>. QED  BY <1>1, <2>1, <2>2, <2>4, <3>1, <3>2, Returned, SameQueues DEF TypeOK, Typed, Sending
  <2>5. CASE Fail("msg_send")
    <3>1. Calling'
      BY <1>1, <2>1, <2>5, Failed DEF Free, Calling, Runnable, Sending, Receiving
    <3>2. Fields'
      BY <1>1, <2>1, <2>2, <2>3, <2>5, Failed DEF Fields, FieldsOf, Sending, Receiving, queues
    <3>. QED  BY <1>1, <2>1, <2>2, <2>5, <3>1, <3>2, Failed, SameQueues DEF TypeOK, Typed, Sending
  <2>. QED  BY <2>1, <2>4, <2>5
<1>. QED  BY <1>3, <1>4, <1>5, <1>6, <1>7, <1>8, <1>9

\* The fields of a sender that goes into a list are as msg_send asserts.
LEMMA AppendReturns ==
    ASSUME SoundInv, UNCHANGED nested, SendAppends
    PROVE  /\ p_flags' = [p_flags EXCEPT ![call.p] = @ \cup {"SENDING"}]
           /\ p_sendto' = [p_sendto EXCEPT ![call.p] = call.party]
           /\ p_msg' = [p_msg EXCEPT ![call.p] = TRUE]
           /\ Return
           /\ UNCHANGED <<p_recvfrom, has_int_msg, buf, panicked, nested>>
<1>1. Typed /\ TypeOK /\ Calling /\ Fields
  BY DEF SoundInv, Typed
<1>2. PICK p \in Procs, dest \in Procs : p = call.p /\ dest = call.party
  BY <1>1 DEF SendAppends, At, Calling, SendPoints
<1>3. /\ p_flags' = [p_flags EXCEPT ![p] = @ \cup {"SENDING"}]
      /\ p_sendto' = [p_sendto EXCEPT ![p] = dest]
      /\ p_msg' = [p_msg EXCEPT ![p] = TRUE]
      /\ UNCHANGED <<p_recvfrom, has_int_msg, buf, panicked>>
      /\ IF /\ p_flags'[p] = {"SENDING"} /\ p_msg'[p]
            /\ p_recvfrom'[p] = NO_TASK /\ p_sendto'[p] = dest
         THEN Return ELSE Fail("msg_send")
  BY <1>2 DEF SendAppends
<1>4. call.at = "append" /\ p_flags[p] = {}
  BY <1>1, <1>2 DEF SendAppends, At, Calling, SendPoints, Runnable
<1>5. p_recvfrom[p] = NO_TASK
  BY <1>1, <1>4 DEF Fields, FieldsOf, Receiving
<1>6. p_flags'[p] = {"SENDING"} /\ p_msg'[p] /\ p_recvfrom'[p] = NO_TASK /\ p_sendto'[p] = dest
  BY <1>1, <1>3, <1>4, <1>5 DEF TypeOK
<1>. QED  BY <1>2, <1>3, <1>6

LEMMA AppendsSound ==
    ASSUME SoundInv, UNCHANGED nested, SendAppends, IsFiniteSet(Procs)
    PROVE  /\ SoundInv'
           /\ \A d \in Procs :
                 QueueOf(d)' = IF d = call.party THEN Append(QueueOf(d), call.p) ELSE QueueOf(d)
<1>1. Typed /\ TypeOK /\ Calling /\ Fields /\ Linked /\ NO_TASK \notin Procs /\ NULL \notin Procs
  BY IpcStepsAssumption DEF SoundInv, Typed
<1>2. PICK p \in Procs, dest \in Procs : p = call.p /\ dest = call.party
  BY <1>1 DEF SendAppends, At, Calling, SendPoints
<1>3. PICK q : q = QueueOf(dest)
  OBVIOUS
<1>4. /\ call.at = "append" /\ p # dest
      /\ Runnable(p) /\ ~Sending(p) /\ ~Receiving(p)
  BY <1>1, <1>2 DEF SendAppends, At, Calling, SendPoints, Runnable, Sending, Receiving
<1>5. /\ p_flags' = [p_flags EXCEPT ![p] = @ \cup {"SENDING"}]
      /\ p_sendto' = [p_sendto EXCEPT ![p] = dest]
      /\ p_msg' = [p_msg EXCEPT ![p] = TRUE]
      /\ Return
      /\ UNCHANGED <<p_recvfrom, has_int_msg, buf, panicked, nested>>
  BY <1>1, <1>2, AppendReturns
<1>6. /\ Chain(q_sending[dest], next_sending, q)
      /\ \A d \in Procs : Chain(q_sending[d], next_sending, QueueOf(d))
      /\ \A d, x \in Procs : A!Lists(QueueOf(d), x) <=> Sending(x) /\ p_sendto[x] = d
  BY <1>1, <1>2, <1>3 DEF Linked
<1>7. /\ Len(q) \in Nat
      /\ \A i \in 1..Len(q) : q[i] \in Procs
      /\ q_sending[dest] = NULL <=> Len(q) = 0
      /\ q_sending[dest] # NULL => Last(q) = q[Len(q)] /\ q[Len(q)] \in Procs
  BY <1>1, <1>6 DEF Chain, Nth, Last
<1>8. /\ q_sending' = [q_sending EXCEPT ![dest] = IF q_sending[dest] = NULL THEN p ELSE q_sending[dest]]
      /\ \A x \in Procs : next_sending'[x] =
            IF x = p THEN NULL
            ELSE IF q_sending[dest] # NULL /\ x = q[Len(q)] THEN p ELSE next_sending[x]
      /\ next_sending' \in [Procs -> Procs \cup {NULL}]
  <2>1. CASE q_sending[dest] = NULL
    <3>1. /\ q_sending' = [q_sending EXCEPT ![dest] = p]
          /\ next_sending' = [next_sending EXCEPT ![p] = NULL]
      BY <1>2, <2>1 DEF SendAppends
    <3>. QED  BY <1>1, <1>2, <1>4, <2>1, <3>1 DEF TypeOK
  <2>2. CASE q_sending[dest] # NULL
    <3>1. /\ q_sending' = q_sending
          /\ next_sending' = [next_sending EXCEPT ![Last(q)] = p, ![p] = NULL]
      BY <1>2, <1>3, <2>2 DEF SendAppends
    <3>. QED  BY <1>1, <1>2, <1>4, <1>7, <2>2, <3>1 DEF TypeOK
  <2>. QED  BY <2>1, <2>2
<1>9. /\ \A x \in Procs : Sending(x)' <=> Sending(x) \/ x = p
      /\ \A x \in Procs : p_sendto'[x] = IF x = p THEN dest ELSE p_sendto[x]
  BY <1>1, <1>2, <1>4, <1>5 DEF TypeOK, Sending
<1>10. Typed'
  <2>1. q_sending' \in [Procs -> Procs \cup {NULL}]
    BY <1>1, <1>2, <1>4, <1>8 DEF TypeOK
  <2>2. /\ p_flags' \in [Procs -> SUBSET {"SENDING", "RECEIVING", "FREE_SLOT"}]
        /\ p_sendto' \in [Procs -> Procs \cup {NO_TASK}]
        /\ p_msg' \in [Procs -> BOOLEAN]
    BY <1>1, <1>2, <1>4, <1>5 DEF TypeOK
  <2>3. call'.p \in Procs \cup {NO_TASK}
    BY <1>1, <1>5, Returned DEF NoCall
  <2>. QED  BY <1>1, <1>5, <1>8, <2>1, <2>2, <2>3, Returned DEF Typed, TypeOK
<1>11. Calling'
  BY <1>1, <1>5, Returned DEF Calling, SendPoints
<1>12. Fields'
  <2>. SUFFICES ASSUME NEW x \in Procs  PROVE FieldsOf(x)'
    BY DEF Fields
  <2>1. CASE x = p
    BY <1>1, <1>2, <1>4, <1>5, <1>9, <2>1, Returned
       DEF Fields, FieldsOf, Sending, Receiving, Runnable, TypeOK
  <2>2. CASE x # p
    <3>1. p_flags'[x] = p_flags[x] /\ p_msg'[x] = p_msg[x]
      BY <1>1, <1>5, <2>2 DEF TypeOK
    <3>2. ~Sending(x) => next_sending'[x] = next_sending[x]
      <4>1. CASE q_sending[dest] # NULL /\ x = q[Len(q)]
        <5>1. A!Lists(q, x)
          BY <1>7, <4>1 DEF A!Lists
        <5>. QED  BY <1>3, <1>6, <5>1
      <4>2. CASE ~(q_sending[dest] # NULL /\ x = q[Len(q)])
        BY <1>8, <2>2, <4>2
      <4>. QED  BY <4>1, <4>2
    <3>. QED  BY <1>1, <1>2, <1>4, <1>5, <1>9, <2>2, <3>1, <3>2, Returned
              DEF Fields, FieldsOf, Sending, Receiving
  <2>. QED  BY <2>1, <2>2
<1>13. ~A!Lists(q, p) /\ \A d \in Procs : ~A!Lists(QueueOf(d), p)
  BY <1>3, <1>4, <1>6
<1>14. Chain(q_sending'[dest], next_sending', Append(q, p)) /\ QueueOf(dest)' = Append(q, p)
  <2>1. \A i \in 1..Len(q) : q[i] # p
    BY <1>13 DEF A!Lists
  <2>2. \A i, j \in 1..Len(q) : q[i] = q[j] => i = j
    BY <1>6 DEF Chain, A!NoRepeat
  <2>3. q_sending[dest] # NULL => next_sending'[q[Len(q)]] = p
    BY <1>7, <1>8, <2>1
  <2>4. \A i \in 1..Len(q) : i < Len(q) => next_sending'[q[i]] = next_sending[q[i]]
    BY <1>7, <1>8, <2>1, <2>2
  <2>5. next_sending'[p] = NULL
    BY <1>2, <1>4, <1>8
  <2>6. q_sending'[dest] = IF q_sending[dest] = NULL THEN p ELSE q_sending[dest]
    BY <1>1, <1>2, <1>4, <1>8 DEF TypeOK
  <2>7. Chain(q_sending'[dest], next_sending', Append(q, p))
    <3>1. Chain(IF q_sending[dest] = NULL THEN p ELSE q_sending[dest],
                next_sending', Append(q, p))
      <4>1. PICK x, nxt, nxt2 :
               x = q_sending[dest] /\ nxt = next_sending /\ nxt2 = next_sending'
        OBVIOUS
      <4>2. /\ Chain(x, nxt, q) /\ ~A!Lists(q, p) /\ nxt2[p] = NULL
            /\ x # NULL => nxt2[q[Len(q)]] = p
            /\ \A i \in 1..Len(q) : i < Len(q) => nxt2[q[i]] = nxt[q[i]]
        BY <1>6, <1>13, <2>3, <2>4, <2>5, <4>1
      <4>3. Chain(IF x = NULL THEN p ELSE x, nxt2, Append(q, p))
        BY <4>2, ChainAppend
      <4>. QED  BY <4>1, <4>3
    <3>. QED  BY <2>6, <3>1
  <2>. QED  BY <1>2, <1>4, <2>7, ListIsNext
<1>15. ASSUME NEW d \in Procs, d # dest
       PROVE  Chain(q_sending'[d], next_sending', QueueOf(d)) /\ QueueOf(d)' = QueueOf(d)
  <2>1. q_sending'[d] = q_sending[d]
    BY <1>1, <1>8, <1>15 DEF TypeOK
  <2>a. PICK r : r = QueueOf(d)
    OBVIOUS
  <2>b. Chain(q_sending[d], next_sending, r)
    BY <1>6, <2>a
  <2>2. Chain(q_sending[d], next_sending, r) /\ \A i \in 1..Len(r) : r[i] \in Procs
    BY <2>b DEF Chain
  <2>3. ASSUME NEW i \in 1..Len(r)  PROVE next_sending'[r[i]] = next_sending[r[i]]
    <3>1. A!Lists(r, r[i])
      BY DEF A!Lists
    <3>2. r[i] # p /\ p_sendto[r[i]] = d
      BY <1>6, <1>13, <2>a, <2>2, <3>1
    <3>3. ASSUME q_sending[dest] # NULL  PROVE r[i] # q[Len(q)]
      <4>1. A!Lists(q, q[Len(q)]) /\ q[Len(q)] \in Procs
        BY <1>7, <3>3 DEF A!Lists
      <4>2. p_sendto[q[Len(q)]] = dest
        BY <1>3, <1>6, <4>1
      <4>. QED  BY <1>15, <3>2, <4>2
    <3>. QED  BY <1>8, <2>2, <3>2, <3>3
  <2>4. Chain(q_sending'[d], next_sending', r)
    BY <2>1, <2>2, <2>3, ChainSame
  <2>. QED  BY <2>4, <2>a, ListIsNext
<1>16. Linked'
  <2>. SUFFICES ASSUME NEW d \in Procs
                PROVE  /\ Chain(q_sending'[d], next_sending', QueueOf(d)')
                       /\ \A x \in Procs : A!Lists(QueueOf(d)', x)
                                              <=> Sending(x)' /\ p_sendto'[x] = d
    BY DEF Linked
  <2>1. CASE d = dest
    <3>1. \A x \in Procs : A!Lists(Append(q, p), x) <=> A!Lists(q, x) \/ x = p
      <4>1. /\ Len(Append(q, p)) = Len(q) + 1
            /\ \A i \in 1..Len(q) : Append(q, p)[i] = q[i]
            /\ Append(q, p)[Len(q) + 1] = p
        BY <1>6 DEF Chain
      <4> DEFINE r == Append(q, p)
      <4> HIDE DEF r
      <4>2. /\ Len(r) = Len(q) + 1 /\ \A i \in 1..Len(q) : r[i] = q[i]
            /\ r[Len(q) + 1] = p
        BY <4>1 DEF r
      <4>3. \A x \in Procs : A!Lists(r, x) <=> A!Lists(q, x) \/ x = p
        BY <1>7, <4>2 DEF A!Lists
      <4>. QED  BY <4>3 DEF r
    <3>2. \A x \in Procs : A!Lists(q, x) <=> Sending(x) /\ p_sendto[x] = dest
      BY <1>3, <1>6
    <3>3. /\ Chain(q_sending'[d], next_sending', QueueOf(d)')
          /\ QueueOf(d)' = Append(q, p)
      BY <1>14, <2>1
    <3>4. \A x \in Procs : Sending(x)' /\ p_sendto'[x] = d <=> A!Lists(q, x) \/ x = p
      BY <1>4, <1>9, <2>1, <3>2
    <3>. QED  BY <3>1, <3>3, <3>4
  <2>2. CASE d # dest
    BY <1>2, <1>4, <1>6, <1>9, <1>15, <2>2
  <2>. QED  BY <2>1, <2>2
<1>17. \A d \in Procs :
          QueueOf(d)' = IF d = call.party THEN Append(QueueOf(d), call.p) ELSE QueueOf(d)
  BY <1>2, <1>3, <1>14, <1>15
<1>. QED  BY <1>10, <1>11, <1>12, <1>16, <1>17 DEF SoundInv

LEMMA ReceiveSound ==
    ASSUME SoundInv, UNCHANGED nested,
           \/ ReceiveTests \/ ReceiveInt \/ ReceiveIntDone \/ ReceivePicks \/ ReceiveFlags
           \/ ReceiveSetsMsg \/ ReceiveSetsFrom \/ ReceiveBlocks
    PROVE  SoundInv'
<1>1. Typed /\ TypeOK /\ Calling /\ Fields /\ NO_TASK \notin Procs
  BY IpcStepsAssumption DEF SoundInv, Typed
<1>2. call.at \in ReceivePoints =>
         /\ call.p \in Procs /\ call.party \in Sources /\ call.party # call.p /\ call.party # NO_TASK
         /\ call \in Calls
  BY <1>1 DEF Calling, ReceivePoints, Typed, Calls, Sources
<1>3. CASE ReceiveTests
  <2>1. PICK point \in {"take_int", "pick"} : GoOn(point)
    BY <1>3 DEF ReceiveTests
  <2>2. call.at = "receive" /\ UNCHANGED <<fields, queues, panicked>> /\ point \in ReceivePoints
    BY <1>3 DEF ReceiveTests, At, ReceivePoints
  <2>3. Calling'
    BY <1>1, <1>2, <2>1, <2>2, GoneOn DEF Calling, Runnable, Sending, fields, SendPoints
  <2>4. Fields'
    BY <1>1, <2>1, <2>2, GoneOn DEF Fields, FieldsOf, Sending, Receiving, fields, queues
  <2>. QED  BY <1>1, <2>1, <2>2, <2>3, <2>4, GoneOn, SameFields
<1>4. CASE ReceiveInt
  <2>1. /\ call.at = "take_int" /\ call.at \in ReceivePoints
        /\ buf' = [buf EXCEPT ![call.p] = IntMsg]
        /\ has_int_msg' = [has_int_msg EXCEPT ![call.p] = FALSE]
        /\ GoOn("taken") /\ "taken" \in ReceivePoints
        /\ UNCHANGED <<p_flags, p_msg, p_recvfrom, p_sendto, queues, panicked>>
    BY <1>4 DEF ReceiveInt, At, ReceivePoints
  <2>2. buf' \in [Procs -> Messages] /\ has_int_msg' \in [Procs -> BOOLEAN]
    <3>1. IntMsg \in Messages
      BY DEF IntMsg, Messages, Contents
    <3>. QED  BY <1>1, <1>2, <2>1, <3>1 DEF TypeOK, Typed
  <2>3. Calling'
    BY <1>1, <1>2, <2>1, GoneOn DEF Calling, Runnable, Sending, SendPoints
  <2>4. Fields'
    BY <1>1, <2>1, GoneOn DEF Fields, FieldsOf, Sending, Receiving, queues
  <2>. QED  BY <1>1, <2>1, <2>2, <2>3, <2>4, GoneOn, SameQueues DEF TypeOK, Typed, Sending
<1>10. CASE ReceiveIntDone
  <2>1. /\ call.at = "taken" /\ UNCHANGED <<fields, queues, panicked>>
        /\ Return \/ Fail("msg_receive")
    BY <1>10 DEF ReceiveIntDone, At
  <2>2. CASE Return
    <3>1. Calling' /\ Fields'
      BY <1>1, <2>1, <2>2, Returned
         DEF Calling, SendPoints, Fields, FieldsOf, Sending, Receiving, fields, queues
    <3>. QED  BY <1>1, <2>1, <2>2, <3>1, Returned, SameFields
  <2>3. CASE Fail("msg_receive")
    <3>1. Calling' /\ Fields'
      BY <1>1, <2>1, <2>3, Failed
         DEF Calling, Runnable, Fields, FieldsOf, Sending, Receiving, fields, queues
    <3>. QED  BY <1>1, <2>1, <2>3, <3>1, Failed, SameFields
  <2>. QED  BY <2>1, <2>2, <2>3
<1>5. CASE ReceivePicks
  <2>1. call.at = "pick" /\ UNCHANGED <<fields, queues, panicked>>
    BY <1>5 DEF ReceivePicks, At
  <2>2. CASE GoOn("flag")
    <3>1. "flag" \in ReceivePoints
      BY DEF ReceivePoints
    <3>2. Calling'
      BY <1>1, <2>1, <2>2, <3>1, GoneOn DEF Calling, Runnable, Sending, fields, SendPoints
    <3>3. Fields'
      BY <1>1, <2>1, <2>2, <3>1, GoneOn DEF Fields, FieldsOf, Sending, Receiving, fields, queues
    <3>. QED  BY <1>1, <2>1, <2>2, <3>1, <3>2, <3>3, GoneOn, SameFields
  <2>3. CASE Fail("msg_receive")
    <3>1. Calling' /\ Fields'
      BY <1>1, <2>1, <2>3 DEF Fail, Calling, Fields, FieldsOf, Sending, Receiving, Runnable, fields, queues
    <3>. QED  BY <1>1, <2>1, <2>3, <3>1, Failed, SameFields
  <2>4. CASE /\ p_from # NULL /\ ReceiveAsserts
             /\ call' = [call EXCEPT !.at = "unlink", !.from = p_from]
             /\ UNCHANGED <<before, failed>>
    <3>1. "pick" \in ReceivePoints /\ "unlink" \in ReceivePoints
      BY DEF ReceivePoints
    <3>2. p_from \in Procs
      BY <1>1, <1>2, <2>1, <2>4, <3>1 DEF p_from, TypeOK
    <3>3. /\ call' \in Calls /\ call'.at = "unlink" /\ call'.p = call.p
          /\ call'.party = call.party /\ call'.from = p_from
      BY <1>1, <1>2, <2>1, <2>4, <3>1, <3>2 DEF Calls
    <3>4. Sending(p_from) /\ p_sendto[p_from] = call.p
      BY <2>4 DEF ReceiveAsserts, Sending
    <3>5. Calling'
      BY <1>1, <2>1, <3>2, <3>3, <3>4 DEF Calling, Runnable, Sending, fields, SendPoints
    <3>6. Fields'
      BY <1>1, <2>1, <3>3 DEF Fields, FieldsOf, Sending, Receiving, fields, queues
    <3>. QED  BY <1>1, <2>1, <2>4, <3>3, <3>5, <3>6, SameFields DEF Typed, TypeOK
  <2>. QED  BY <1>5, <2>2, <2>3, <2>4 DEF ReceivePicks
<1>6. CASE ReceiveFlags
  <2>1. /\ call.at = "flag" /\ GoOn("msg") /\ call.at \in ReceivePoints /\ "msg" \in ReceivePoints
        /\ p_flags' = [p_flags EXCEPT ![call.p] = @ \cup {"RECEIVING"}]
        /\ UNCHANGED <<p_msg, p_recvfrom, p_sendto, has_int_msg, buf, queues, panicked>>
    BY <1>6 DEF ReceiveFlags, At, ReceivePoints
  <2>2. call.p \in Procs /\ p_flags[call.p] = {} /\ ~Sending(call.p) /\ ~Receiving(call.p)
    BY <1>1, <1>2, <2>1 DEF Calling, Runnable, Sending, Receiving
  <2>3. /\ p_flags' \in [Procs -> SUBSET {"SENDING", "RECEIVING", "FREE_SLOT"}]
        /\ \A p \in Procs : p_flags'[p] = IF p = call.p THEN {"RECEIVING"} ELSE p_flags[p]
    BY <1>1, <2>1, <2>2 DEF TypeOK
  <2>4. /\ ~p_msg[call.p] /\ p_recvfrom[call.p] = NO_TASK
        /\ \A p \in Procs : Sending(p)' <=> Sending(p)
    BY <1>1, <2>1, <2>2, <2>3 DEF Fields, FieldsOf, Sending
  <2>5. Calling'
    BY <1>1, <2>1, <2>2, <2>3, <2>4, GoneOn DEF Calling, SendPoints
  <2>6. Fields'
    BY <1>1, <2>1, <2>2, <2>3, <2>4, GoneOn DEF Fields, FieldsOf, Sending, Receiving, queues, TypeOK
  <2>. QED  BY <1>1, <2>1, <2>3, <2>4, <2>5, <2>6, GoneOn, SameQueues DEF TypeOK, Typed
<1>7. CASE ReceiveSetsMsg
  <2>1. /\ call.at = "msg" /\ GoOn("from") /\ call.at \in ReceivePoints /\ "from" \in ReceivePoints
        /\ p_msg' = [p_msg EXCEPT ![call.p] = TRUE]
        /\ UNCHANGED <<p_flags, p_recvfrom, p_sendto, has_int_msg, buf, queues, panicked>>
    BY <1>7 DEF ReceiveSetsMsg, At, ReceivePoints
  <2>2. call.p \in Procs /\ p_flags[call.p] = {"RECEIVING"} /\ p_recvfrom[call.p] = NO_TASK
    BY <1>1, <1>2, <2>1 DEF Calling
  <2>3. /\ p_msg' \in [Procs -> BOOLEAN]
        /\ \A p \in Procs : p_msg'[p] = IF p = call.p THEN TRUE ELSE p_msg[p]
    BY <1>1, <2>1, <2>2 DEF TypeOK
  <2>4. Calling'
    BY <1>1, <2>1, <2>2, <2>3, GoneOn DEF Calling, SendPoints
  <2>5. Fields'
    BY <1>1, <2>1, <2>2, <2>3, GoneOn DEF Fields, FieldsOf, Sending, Receiving, queues, TypeOK
  <2>. QED  BY <1>1, <2>1, <2>3, <2>4, <2>5, GoneOn, SameQueues DEF TypeOK, Typed, Sending
<1>8. CASE ReceiveSetsFrom
  <2>1. /\ call.at = "from" /\ GoOn("block") /\ call.at \in ReceivePoints /\ "block" \in ReceivePoints
        /\ p_recvfrom' = [p_recvfrom EXCEPT ![call.p] = call.party]
        /\ UNCHANGED <<p_flags, p_msg, p_sendto, has_int_msg, buf, queues, panicked>>
    BY <1>8 DEF ReceiveSetsFrom, At, ReceivePoints
  <2>2. call.p \in Procs /\ p_flags[call.p] = {"RECEIVING"} /\ p_msg[call.p]
    BY <1>1, <1>2, <2>1 DEF Calling
  <2>3. /\ p_recvfrom' \in [Procs -> Sources \cup {NO_TASK}]
        /\ \A p \in Procs : p_recvfrom'[p] = IF p = call.p THEN call.party ELSE p_recvfrom[p]
        /\ call.party # NO_TASK
    BY <1>1, <1>2, <2>1, <2>2 DEF TypeOK
  <2>4. Calling'
    BY <1>1, <2>1, <2>2, <2>3, GoneOn DEF Calling, SendPoints
  <2>5. Fields'
    BY <1>1, <2>1, <2>2, <2>3, GoneOn DEF Fields, FieldsOf, Sending, Receiving, queues, TypeOK
  <2>. QED  BY <1>1, <2>1, <2>3, <2>4, <2>5, GoneOn, SameQueues DEF TypeOK, Typed, Sending
<1>9. CASE ReceiveBlocks
  <2>1. /\ call.at = "block" /\ UNCHANGED <<fields, queues, panicked>>
        /\ Return \/ Fail("block")
    BY <1>9 DEF ReceiveBlocks, At
  <2>2. CASE Return
    <3>1. Calling' /\ Fields'
      BY <1>1, <2>1, <2>2, Returned
         DEF Calling, SendPoints, Fields, FieldsOf, Sending, Receiving, fields, queues
    <3>. QED  BY <1>1, <2>1, <2>2, <3>1, Returned, SameFields
  <2>3. CASE Fail("block")
    <3>1. Calling' /\ Fields'
      BY <1>1, <2>1, <2>3, Failed
         DEF Calling, Runnable, Fields, FieldsOf, Sending, Receiving, fields, queues
    <3>. QED  BY <1>1, <2>1, <2>3, <3>1, Failed, SameFields
  <2>. QED  BY <2>1, <2>2, <2>3
<1>. QED  BY <1>3, <1>4, <1>5, <1>6, <1>7, <1>8, <1>9, <1>10

LEMMA InformSound ==
    ASSUME SoundInv, UNCHANGED nested, NEW t \in Procs, inform_int(t)
    PROVE  SoundInv' /\ UNCHANGED failed
<1>1. Typed /\ TypeOK /\ Calling /\ Fields /\ NO_TASK \notin Procs
  BY IpcStepsAssumption DEF SoundInv, Typed
<1>a. UNCHANGED failed
  <2>1. CASE AcceptsInt(t)
    <3>1. /\ p_flags' = [p_flags EXCEPT ![t] = @ \ {"RECEIVING"}]
          /\ IF p_flags'[t] = {} /\ p_sendto[t] = NO_TASK
             THEN UNCHANGED failed ELSE failed' = "inform_int"
      BY <2>1 DEF inform_int
    <3>2. p_flags[t] = {"RECEIVING"}
      BY <1>1, <2>1 DEF AcceptsInt, Fields, FieldsOf
    <3>3. p_sendto[t] = NO_TASK
      BY <1>1, <3>2 DEF Fields, FieldsOf, Sending
    <3>4. p_flags'[t] = {}
      BY <1>1, <3>1, <3>2 DEF TypeOK
    <3>. QED  BY <3>1, <3>3, <3>4
  <2>2. CASE ~AcceptsInt(t)
    BY <2>2 DEF inform_int
  <2>. QED  BY <2>1, <2>2
<1>2. UNCHANGED <<p_sendto, queues, panicked, call, before, failed, nested>> /\ call \in Calls
  BY <1>1, <1>a DEF inform_int, Typed
<1>3. CASE AcceptsInt(t)
  <2>1. /\ buf' = IF p_msg[t] THEN [buf EXCEPT ![t].source = INTERRUPT, ![t].body = HARD_INT]
                              ELSE buf
        /\ p_msg' = [p_msg EXCEPT ![t] = FALSE]
        /\ has_int_msg' = [has_int_msg EXCEPT ![t] = FALSE]
        /\ p_flags' = [p_flags EXCEPT ![t] = @ \ {"RECEIVING"}]
        /\ p_recvfrom' = [p_recvfrom EXCEPT ![t] = NO_TASK]
    BY <1>3 DEF inform_int
  <2>2. /\ p_flags[t] = {"RECEIVING"} /\ ~Sending(t) /\ p_recvfrom[t] # NO_TASK
        /\ Receiving(t)
    BY <1>1, <1>3, IpcStepsAssumption DEF AcceptsInt, Fields, FieldsOf, Sending
  <2>3. buf' \in [Procs -> Messages]
    <3>1. buf[t] \in [source : Procs \cup {INTERRUPT}, body : Contents]
      BY <1>1 DEF Typed, Messages
    <3>2. [buf[t] EXCEPT !.source = INTERRUPT, !.body = HARD_INT] \in Messages
      BY <3>1 DEF Messages, Contents
    <3>3. [buf EXCEPT ![t].source = INTERRUPT, ![t].body = HARD_INT]
             = [buf EXCEPT ![t] = [buf[t] EXCEPT !.source = INTERRUPT, !.body = HARD_INT]]
      BY <1>1, <3>1 DEF Typed
    <3>. QED  BY <1>1, <2>1, <3>2, <3>3 DEF Typed
  <2>4. /\ p_flags' \in [Procs -> SUBSET {"SENDING", "RECEIVING", "FREE_SLOT"}]
        /\ p_msg' \in [Procs -> BOOLEAN] /\ has_int_msg' \in [Procs -> BOOLEAN]
        /\ p_recvfrom' \in [Procs -> Sources \cup {NO_TASK}]
        /\ \A p \in Procs :
              /\ p_flags'[p] = IF p = t THEN {} ELSE p_flags[p]
              /\ p_msg'[p] = IF p = t THEN FALSE ELSE p_msg[p]
              /\ p_recvfrom'[p] = IF p = t THEN NO_TASK ELSE p_recvfrom[p]
    BY <1>1, <2>1, <2>2 DEF TypeOK
  <2>5. \A p \in Procs : Sending(p)' <=> Sending(p)
    BY <2>2, <2>4 DEF Sending
  <2>6. Calling'
    BY <1>1, <1>2, <2>2, <2>4, <2>5 DEF Free, Calling, Runnable, Receiving, SendPoints
  <2>7. Fields'
    <3>. SUFFICES ASSUME NEW p \in Procs  PROVE FieldsOf(p)'
      BY DEF Fields
    <3>1. FieldsOf(p) /\ (Sending(p)' <=> Sending(p))
      BY <1>1, <2>5 DEF Fields
    <3>2. CASE p = t
      BY <1>2, <2>2, <2>4, <3>1, <3>2 DEF FieldsOf, Receiving, queues
    <3>3. CASE p # t
      BY <1>2, <2>4, <3>1, <3>3 DEF FieldsOf, Receiving, queues
    <3>. QED  BY <3>2, <3>3
  <2>. QED  BY <1>1, <1>2, <2>3, <2>4, <2>5, <2>6, <2>7, SameQueues DEF TypeOK
<1>4. CASE ~AcceptsInt(t)
  <2>1. /\ has_int_msg' = [has_int_msg EXCEPT ![t] = TRUE]
        /\ UNCHANGED <<p_flags, p_msg, p_recvfrom, buf>>
    BY <1>4 DEF inform_int
  <2>2. has_int_msg' \in [Procs -> BOOLEAN]
    BY <1>1, <2>1 DEF TypeOK
  <2>3. Calling' /\ Fields'
    BY <1>1, <1>2, <2>1 DEF Free, Calling, Runnable, Fields, FieldsOf, Sending, Receiving, queues
  <2>. QED  BY <1>1, <1>2, <2>1, <2>2, <2>3, SameQueues DEF TypeOK, Typed, Sending
<1>. QED  BY <1>a, <1>3, <1>4

\* The one before a process that is not the first of its list.
LEMMA PrevOn ==
    ASSUME NEW x, NEW nxt, NEW q, Chain(x, nxt, q), NEW from, A!Lists(q, from), x # from
    PROVE  /\ PrevIn(q, from) \in Procs /\ PrevIn(q, from) # from
           /\ A!Lists(q, PrevIn(q, from))
<1>1. q \in Seq(Procs) /\ A!NoRepeat(q) /\ Len(q) \in Nat
  BY DEF Chain
<1>2. PICK k \in 1..Len(q) : q[k] = from
  BY DEF A!Lists
<1>3. PrevIn(q, from) = Nth(q, k - 1)
  BY <1>1, <1>2, PrevIs
<1>4. k # 1
  BY <1>1, <1>2 DEF Chain, Nth
<1>5. k - 1 \in 1..Len(q) /\ k - 1 # k
  BY <1>1, <1>4
<1>. QED  BY <1>1, <1>2, <1>3, <1>5 DEF Nth, A!NoRepeat, A!Lists

\* Who is on a list after one has been unlinked.
LEMMA UnlinkedLists ==
    ASSUME NEW q \in Seq(Procs), A!NoRepeat(q), NEW from, A!Lists(q, from)
    PROVE  \A x : A!Lists(A!Without(q, from), x) <=> A!Lists(q, x) /\ x # from
<1>1. PICK r : r = A!Without(q, from)
  OBVIOUS
<1>2. Len(q) \in Nat /\ Len(r) = Len(q) - 1
  BY <1>1, Unlinked
<1>3. PICK k \in 1..Len(q) :
         /\ q[k] = from
         /\ \A j \in 1..Len(q) - 1 : r[j] = IF j < k THEN q[j] ELSE q[j + 1]
  BY <1>1, Unlinked
<1>4. ASSUME NEW x, A!Lists(r, x)  PROVE A!Lists(q, x) /\ x # from
  <2>1. PICK j \in 1..Len(r) : r[j] = x
    BY <1>4 DEF A!Lists
  <2>2. j \in 1..Len(q) /\ j + 1 \in 1..Len(q) /\ (j < k => j # k) /\ (~(j < k) => j + 1 # k)
    BY <1>2
  <2>3. x = IF j < k THEN q[j] ELSE q[j + 1]
    BY <1>2, <1>3, <2>1
  <2>. QED  BY <1>3, <2>2, <2>3 DEF A!Lists, A!NoRepeat
<1>5. ASSUME NEW x, A!Lists(q, x), x # from  PROVE A!Lists(r, x)
  <2>1. PICK i \in 1..Len(q) : q[i] = x
    BY <1>5 DEF A!Lists
  <2>2. i # k
    BY <1>3, <1>5, <2>1
  <2>3. CASE i < k
    <3>1. i \in 1..Len(r) /\ r[i] = x
      BY <1>2, <1>3, <2>1, <2>3
    <3>. QED  BY <3>1 DEF A!Lists
  <2>4. CASE i > k
    <3>1. i - 1 \in 1..Len(r) /\ ~(i - 1 < k) /\ (i - 1) + 1 = i
      BY <1>2, <2>4
    <3>2. r[i - 1] = x
      BY <1>2, <1>3, <2>1, <3>1
    <3>. QED  BY <3>1, <3>2 DEF A!Lists
  <2>. QED  BY <2>2, <2>3, <2>4
<1>. QED  BY <1>1, <1>4, <1>5

\* The lists and the fields of the sender are as msg_receive and unblock assert.
LEMMA TakeReturns ==
    ASSUME SoundInv, UNCHANGED nested, ReceiveTakes
    PROVE  /\ p_msg' = [p_msg EXCEPT ![call.from] = FALSE]
           /\ p_sendto' = [p_sendto EXCEPT ![call.from] = NO_TASK]
           /\ p_flags' = [p_flags EXCEPT ![call.from] = @ \ {"SENDING"}]
           /\ buf' = [buf EXCEPT ![call.p] = buf[call.from]]
           /\ Return
           /\ UNCHANGED <<p_recvfrom, has_int_msg, panicked, nested>>
<1>1. Typed /\ TypeOK /\ Calling /\ Fields /\ Linked /\ NULL \notin Procs
  BY IpcStepsAssumption DEF SoundInv, Typed
<1>2. PICK p \in Procs, from \in Procs :
         /\ p = call.p /\ from = call.from
         /\ Sending(from) /\ p_sendto[from] = p
  BY <1>1 DEF ReceiveTakes, At, Calling
<1>3. /\ p_msg' = [p_msg EXCEPT ![from] = FALSE]
      /\ p_sendto' = [p_sendto EXCEPT ![from] = NO_TASK]
      /\ p_flags' = [p_flags EXCEPT ![from] = @ \ {"SENDING"}]
      /\ buf' = [buf EXCEPT ![p] = buf[from]]
      /\ UNCHANGED <<p_recvfrom, has_int_msg, panicked>>
      /\ IF /\ q_sending[p] = from <=> prev(p, from) = NULL
            /\ p_msg[from]
            /\ p_flags'[from] = {}
         THEN Return ELSE Fail("msg_receive")
  BY <1>2 DEF ReceiveTakes, Unblocks
<1>4. PICK q : q = QueueOf(p)
  OBVIOUS
<1>5. /\ Chain(q_sending[p], next_sending, q) /\ A!Lists(q, from)
      /\ q \in Seq(Procs) /\ A!NoRepeat(q)
  <2>1. Chain(q_sending[p], next_sending, q) /\ A!Lists(q, from)
    BY <1>1, <1>2, <1>4 DEF Linked
  <2>. QED  BY <2>1 DEF Chain
<1>6. prev(p, from) = PrevIn(q, from)
  BY <1>4 DEF prev, PrevIn
<1>7. q_sending[p] = from <=> prev(p, from) = NULL
  <2>1. CASE q_sending[p] = from
    <3>1. 1 \in 1..Len(q) /\ q[1] = from
      BY <1>1, <1>2, <1>5, <2>1 DEF Chain, Nth
    <3>2. PrevIn(q, q[1]) = Nth(q, 1 - 1)
      BY <1>5, <3>1, PrevIs
    <3>. QED  BY <1>5, <1>6, <2>1, <3>1, <3>2 DEF Nth
  <2>2. CASE q_sending[p] # from
    BY <1>1, <1>5, <1>6, <2>2, PrevOn
  <2>. QED  BY <2>1, <2>2
<1>8. p_flags[from] = {"SENDING"} /\ p_msg[from]
  BY <1>1, <1>2 DEF Fields, FieldsOf
<1>9. p_flags'[from] = {}
  BY <1>1, <1>3, <1>8 DEF TypeOK
<1>. QED  BY <1>2, <1>3, <1>7, <1>8, <1>9

LEMMA TakesSound ==
    ASSUME SoundInv, UNCHANGED nested, ReceiveTakes, IsFiniteSet(Procs)
    PROVE  /\ SoundInv'
           /\ \A d \in Procs :
                 QueueOf(d)' = IF d = call.p THEN A!Without(QueueOf(d), call.from) ELSE QueueOf(d)
<1>1. Typed /\ TypeOK /\ Calling /\ Fields /\ Linked /\ NO_TASK \notin Procs /\ NULL \notin Procs
  BY IpcStepsAssumption DEF SoundInv, Typed
<1>2. PICK p \in Procs, from \in Procs :
         /\ p = call.p /\ from = call.from
         /\ Sending(from) /\ p_sendto[from] = p
  BY <1>1 DEF ReceiveTakes, At, Calling
<1>3. PICK q : q = QueueOf(p)
  OBVIOUS
<1>4. /\ p_msg' = [p_msg EXCEPT ![from] = FALSE]
      /\ p_sendto' = [p_sendto EXCEPT ![from] = NO_TASK]
      /\ p_flags' = [p_flags EXCEPT ![from] = @ \ {"SENDING"}]
      /\ buf' = [buf EXCEPT ![p] = buf[from]]
      /\ Return
      /\ UNCHANGED <<p_recvfrom, has_int_msg, panicked, nested>>
  BY <1>2, TakeReturns
<1>5. /\ \A d \in Procs : Chain(q_sending[d], next_sending, QueueOf(d))
      /\ \A d, x \in Procs : A!Lists(QueueOf(d), x) <=> Sending(x) /\ p_sendto[x] = d
  BY <1>1 DEF Linked
<1>6. /\ Chain(q_sending[p], next_sending, q) /\ A!Lists(q, from)
      /\ q \in Seq(Procs) /\ A!NoRepeat(q)
  <2>1. Chain(q_sending[p], next_sending, q) /\ A!Lists(q, from)
    BY <1>2, <1>3, <1>5
  <2>. QED  BY <2>1 DEF Chain
<1>7. prev(p, from) = PrevIn(q, from)
  BY <1>3 DEF prev, PrevIn
<1>8. q_sending[p] # from => /\ prev(p, from) \in Procs /\ prev(p, from) # from
                             /\ A!Lists(q, prev(p, from))
  BY <1>6, <1>7, PrevOn
<1>9. /\ q_sending' = [q_sending EXCEPT ![p] = IF q_sending[p] = from THEN next_sending[from]
                                                                      ELSE q_sending[p]]
      /\ \A x \in Procs : next_sending'[x] =
            IF x = from THEN NULL
            ELSE IF q_sending[p] # from /\ x = prev(p, from) THEN next_sending[from]
            ELSE next_sending[x]
      /\ next_sending' \in [Procs -> Procs \cup {NULL}]
  <2>1. CASE q_sending[p] = from
    <3>1. /\ q_sending' = [q_sending EXCEPT ![p] = next_sending[from]]
          /\ next_sending' = [next_sending EXCEPT ![from] = NULL]
      BY <1>2, <2>1 DEF ReceiveTakes
    <3>. QED  BY <1>1, <1>2, <2>1, <3>1 DEF TypeOK
  <2>2. CASE q_sending[p] # from
    <3>1. /\ q_sending' = q_sending
          /\ next_sending' = [next_sending EXCEPT ![prev(p, from)] = next_sending[from],
                                                  ![from] = NULL]
      BY <1>2, <2>2 DEF ReceiveTakes
    <3>2. PICK v : v = prev(p, from)
      OBVIOUS
    <3>3. next_sending' = [next_sending EXCEPT ![v] = next_sending[from], ![from] = NULL]
          /\ v \in Procs /\ v # from
      BY <1>8, <2>2, <3>1, <3>2
    <3>4. \A x \in Procs : next_sending'[x] = IF x = from THEN NULL
                               ELSE IF x = v THEN next_sending[from] ELSE next_sending[x]
      BY <1>1, <1>2, <3>3 DEF TypeOK
    <3>5. next_sending' \in [Procs -> Procs \cup {NULL}]
      BY <1>1, <1>2, <3>3 DEF TypeOK
    <3>6. q_sending' = [q_sending EXCEPT ![p] = q_sending[p]]
      BY <1>1, <1>2, <3>1 DEF TypeOK
    <3>. QED  BY <2>2, <3>2, <3>4, <3>5, <3>6
  <2>. QED  BY <2>1, <2>2
<1>10. /\ \A x \in Procs : Sending(x)' <=> Sending(x) /\ x # from
       /\ \A x \in Procs : p_sendto'[x] = IF x = from THEN NO_TASK ELSE p_sendto[x]
  BY <1>1, <1>2, <1>4 DEF TypeOK, Sending
<1>11. Typed'
  <2>1. q_sending' \in [Procs -> Procs \cup {NULL}]
    BY <1>1, <1>2, <1>9 DEF TypeOK
  <2>2. /\ p_flags' \in [Procs -> SUBSET {"SENDING", "RECEIVING", "FREE_SLOT"}]
        /\ p_sendto' \in [Procs -> Procs \cup {NO_TASK}]
        /\ p_msg' \in [Procs -> BOOLEAN]
        /\ buf' \in [Procs -> Messages]
    BY <1>1, <1>2, <1>4 DEF TypeOK, Typed
  <2>3. call'.p \in Procs \cup {NO_TASK}
    BY <1>1, <1>4, Returned DEF NoCall
  <2>. QED  BY <1>1, <1>4, <1>9, <2>1, <2>2, <2>3, Returned DEF Typed, TypeOK
<1>12. Calling'
  BY <1>1, <1>4, Returned DEF Calling, SendPoints
<1>13. Fields'
  <2>. SUFFICES ASSUME NEW x \in Procs  PROVE FieldsOf(x)'
    BY DEF Fields
  <2>0. FieldsOf(x)
    BY <1>1 DEF Fields
  <2>a. call.at = "unlink"
    BY DEF ReceiveTakes, At
  <2>1. CASE x = from
    <3>1. p_flags'[x] = {} /\ ~p_msg'[x] /\ p_sendto'[x] = NO_TASK /\ next_sending'[x] = NULL
      BY <1>1, <1>2, <1>4, <1>9, <1>10, <2>0, <2>1 DEF FieldsOf, TypeOK
    <3>2. ~Receiving(x)
      BY <1>2, <2>0, <2>1 DEF FieldsOf, Receiving
    <3>. QED  BY <1>4, <2>0, <2>a, <3>1, <3>2 DEF FieldsOf, Sending, Receiving
  <2>2. CASE x # from
    <3>1. p_flags'[x] = p_flags[x] /\ p_msg'[x] = p_msg[x]
      BY <1>1, <1>4, <2>2 DEF TypeOK
    <3>2. ~Sending(x) => next_sending'[x] = next_sending[x]
      <4>1. CASE q_sending[p] # from /\ x = prev(p, from)
        BY <1>3, <1>5, <1>8, <4>1
      <4>2. CASE ~(q_sending[p] # from /\ x = prev(p, from))
        BY <1>9, <2>2, <4>2
      <4>. QED  BY <4>1, <4>2
    <3>. QED  BY <1>4, <1>10, <2>0, <2>2, <2>a, <3>1, <3>2 DEF FieldsOf, Sending, Receiving
  <2>. QED  BY <2>1, <2>2
<1>14. /\ Chain(q_sending'[p], next_sending', A!Without(q, from))
       /\ QueueOf(p)' = A!Without(q, from)
  <2>1. \A i \in 1..Len(q) : q[i] \in Procs
    BY <1>6
  <2>2. PICK x, nxt, nxt2 :
           x = q_sending[p] /\ nxt = next_sending /\ nxt2 = next_sending'
    OBVIOUS
  <2>3. /\ x # from => nxt2[PrevIn(q, from)] = nxt[from]
        /\ \A i \in 1..Len(q) :
              q[i] # from /\ (x # from => q[i] # PrevIn(q, from)) => nxt2[q[i]] = nxt[q[i]]
    BY <1>7, <1>8, <1>9, <2>1, <2>2
  <2>4. Chain(x, nxt, q)
    BY <1>6, <2>2
  <2>5. Chain(IF x = from THEN nxt[from] ELSE x, nxt2, A!Without(q, from))
    BY <1>6, <2>3, <2>4, ChainUnlink
  <2>6. q_sending'[p] = IF x = from THEN nxt[from] ELSE x
    BY <1>1, <1>9, <2>2 DEF TypeOK
  <2>7. Chain(q_sending'[p], next_sending', A!Without(q, from))
    BY <2>2, <2>5, <2>6
  <2>. QED  BY <2>7, ListIsNext
<1>15. ASSUME NEW d \in Procs, d # p
       PROVE  Chain(q_sending'[d], next_sending', QueueOf(d)) /\ QueueOf(d)' = QueueOf(d)
  <2>1. q_sending'[d] = q_sending[d]
    BY <1>1, <1>9, <1>15 DEF TypeOK
  <2>2. PICK r : r = QueueOf(d)
    OBVIOUS
  <2>3. Chain(q_sending[d], next_sending, r)
    BY <1>5, <2>2
  <2>4. \A i \in 1..Len(r) : r[i] \in Procs
    BY <2>3 DEF Chain
  <2>5. ASSUME NEW i \in 1..Len(r)  PROVE next_sending'[r[i]] = next_sending[r[i]]
    <3>1. A!Lists(r, r[i])
      BY DEF A!Lists
    <3>2. r[i] \in Procs /\ p_sendto[r[i]] = d
      BY <1>5, <2>2, <2>4, <3>1
    <3>3. q_sending[p] # from => p_sendto[prev(p, from)] = p
      BY <1>3, <1>5, <1>8
    <3>. QED  BY <1>2, <1>9, <1>15, <3>2, <3>3
  <2>6. Chain(q_sending'[d], next_sending', r)
    BY <2>1, <2>3, <2>5, ChainSame
  <2>. QED  BY <2>2, <2>6, ListIsNext
<1>16. Linked'
  <2>. SUFFICES ASSUME NEW d \in Procs
                PROVE  /\ Chain(q_sending'[d], next_sending', QueueOf(d)')
                       /\ \A x \in Procs : A!Lists(QueueOf(d)', x)
                                              <=> Sending(x)' /\ p_sendto'[x] = d
    BY DEF Linked
  <2>1. CASE d = p
    <3>1. \A x \in Procs : A!Lists(A!Without(q, from), x) <=> A!Lists(q, x) /\ x # from
      BY <1>6, UnlinkedLists
    <3>2. \A x \in Procs : A!Lists(q, x) <=> Sending(x) /\ p_sendto[x] = p
      BY <1>3, <1>5
    <3>3. /\ Chain(q_sending'[d], next_sending', QueueOf(d)')
          /\ QueueOf(d)' = A!Without(q, from)
      BY <1>14, <2>1
    <3>4. \A x \in Procs : Sending(x)' /\ p_sendto'[x] = d <=> A!Lists(q, x) /\ x # from
      BY <1>10, <2>1, <3>2
    <3>. QED  BY <3>1, <3>3, <3>4
  <2>2. CASE d # p
    <3>1. \A x \in Procs : A!Lists(QueueOf(d), x) <=> Sending(x) /\ p_sendto[x] = d
      BY <1>5
    <3>2. Chain(q_sending'[d], next_sending', QueueOf(d)) /\ QueueOf(d)' = QueueOf(d)
      BY <1>15, <2>2
    <3>3. \A x \in Procs : Sending(x)' /\ p_sendto'[x] = d <=> Sending(x) /\ p_sendto[x] = d
      BY <1>1, <1>2, <1>10, <2>2
    <3>. QED  BY <3>1, <3>2, <3>3
  <2>. QED  BY <2>1, <2>2
<1>17. \A d \in Procs :
          QueueOf(d)' = IF d = call.p THEN A!Without(QueueOf(d), call.from) ELSE QueueOf(d)
  BY <1>2, <1>3, <1>14, <1>15
<1>. QED  BY <1>11, <1>12, <1>13, <1>16, <1>17 DEF SoundInv

\* What abort_ipc does to the table, when the lists are sound.
LEMMA AbortSteps ==
    ASSUME SoundInv, NEW target \in Procs, abort_ipc(target), IsFiniteSet(Procs)
    PROVE  /\ ~Free(target) /\ Up /\ call = NoCall /\ Runnable(MM)
           /\ \A x \in Procs :
                 LET sender   == Sending(x) /\ p_sendto[x] = target
                     receiver == x # target /\ Receiving(x) /\ p_recvfrom[x] = target
                 IN
                 /\ p_flags'[x] = IF x = target THEN {"RECEIVING"}
                                  ELSE IF sender \/ receiver THEN {} ELSE p_flags[x]
                 /\ p_sendto'[x] = IF sender \/ x = target THEN NO_TASK ELSE p_sendto[x]
                 /\ p_recvfrom'[x] = IF receiver \/ x = target THEN NO_TASK ELSE p_recvfrom[x]
                 /\ p_msg'[x] = IF sender \/ receiver \/ x = target THEN FALSE ELSE p_msg[x]
                 /\ buf'[x] = IF receiver /\ p_msg[x]
                              THEN [buf[x] EXCEPT !.body = SYSCALL_RET] ELSE buf[x]
                 /\ next_sending'[x] =
                       IF sender \/ x = target THEN NULL
                       ELSE IF Sending(target) /\ x = prev(p_sendto[target], target)
                       THEN next_sending[target] ELSE next_sending[x]
                 /\ q_sending'[x] =
                       IF x = target THEN NULL
                       ELSE IF Sending(target) /\ x = p_sendto[target] /\ q_sending[x] = target
                       THEN next_sending[target] ELSE q_sending[x]
           /\ p_flags' = [x \in Procs |-> p_flags'[x]]
           /\ p_sendto' = [x \in Procs |-> p_sendto'[x]]
           /\ p_recvfrom' = [x \in Procs |-> p_recvfrom'[x]]
           /\ p_msg' = [x \in Procs |-> p_msg'[x]]
           /\ buf' = [x \in Procs |-> buf'[x]]
           /\ next_sending' = [x \in Procs |-> next_sending'[x]]
           /\ q_sending' = [x \in Procs |-> q_sending'[x]]
           /\ has_int_msg' = [has_int_msg EXCEPT ![target] = FALSE]
           /\ UNCHANGED <<panicked, call, before, failed>>
<1>1. Typed /\ TypeOK /\ Fields /\ Linked /\ NO_TASK \notin Procs /\ NULL \notin Procs
  BY IpcStepsAssumption DEF SoundInv, Typed
<1>2. PICK senders, receivers, dest :
         /\ senders = {QueueOf(target)[i] : i \in 1..Len(QueueOf(target))}
                        \cup {p \in Procs \ {target} : Sending(p) /\ p_sendto[p] = target}
         /\ receivers = {p \in Procs \ {target} : Receiving(p) /\ p_recvfrom[p] = target}
         /\ dest = p_sendto[target]
  OBVIOUS
<1>3. /\ \A d \in Procs : \A x \in Procs :
            A!Lists(QueueOf(d), x) <=> Sending(x) /\ p_sendto[x] = d
      /\ \A i \in 1..Len(QueueOf(target)) : QueueOf(target)[i] \in Procs
  BY <1>1 DEF Linked, Chain
<1>4. ASSUME NEW x \in Procs
      PROVE  x \in senders <=> Sending(x) /\ p_sendto[x] = target
  <2>1. (\E i \in 1..Len(QueueOf(target)) : QueueOf(target)[i] = x)
           <=> Sending(x) /\ p_sendto[x] = target
    BY <1>3 DEF A!Lists
  <2>. QED  BY <1>2, <2>1
<1>5. Sending(target) => \E i \in 1..Len(QueueOf(dest)) : QueueOf(dest)[i] = target
  <2>1. Sending(target) => dest \in Procs
    BY <1>1, <1>2 DEF Fields, FieldsOf
  <2>. QED  BY <1>2, <1>3, <2>1 DEF A!Lists
<1>6. /\ ~Free(target) /\ Up /\ call = NoCall /\ Runnable(MM)
      /\ q_sending' =
            [d \in Procs |-> IF d = target THEN NULL
                             ELSE IF Sending(target) /\ d = dest /\ q_sending[d] = target
                                  THEN next_sending[target] ELSE q_sending[d]]
      /\ next_sending' =
            [p \in Procs |-> IF p \in senders \cup {target} THEN NULL
                             ELSE IF Sending(target) /\ p = prev(dest, target)
                                  THEN next_sending[target] ELSE next_sending[p]]
  <2>1. /\ ~Free(target) /\ Up /\ call = NoCall /\ Runnable(MM)
    BY DEF abort_ipc, InUser
  <2>2. q_sending' =
            [d \in Procs |-> IF d = target THEN NULL
                             ELSE IF Sending(target)
                                     /\ (\E i \in 1..Len(QueueOf(dest)) : QueueOf(dest)[i] = target)
                                     /\ d = dest /\ q_sending[d] = target
                                  THEN next_sending[target] ELSE q_sending[d]]
    BY <1>2 DEF abort_ipc
  <2>3. next_sending' =
            [p \in Procs |-> IF p \in senders \cup {target} THEN NULL
                             ELSE IF Sending(target)
                                     /\ (\E i \in 1..Len(QueueOf(dest)) : QueueOf(dest)[i] = target)
                                     /\ p = prev(dest, target)
                                  THEN next_sending[target] ELSE next_sending[p]]
    BY <1>2 DEF abort_ipc
  <2>. QED  BY <1>5, <2>1, <2>2, <2>3
<1>7. /\ p_flags' =
            [p \in Procs |-> IF p = target THEN {"RECEIVING"}
                             ELSE p_flags[p] \
                                    ((IF p \in senders THEN {"SENDING"} ELSE {})
                                \cup (IF p \in receivers THEN {"RECEIVING"} ELSE {}))]
      /\ p_sendto' = [p \in Procs |-> IF p \in senders \cup {target}
                                      THEN NO_TASK ELSE p_sendto[p]]
      /\ p_recvfrom' = [p \in Procs |-> IF p \in receivers \cup {target}
                                        THEN NO_TASK ELSE p_recvfrom[p]]
      /\ p_msg' = [p \in Procs |-> IF p \in senders \cup receivers \cup {target}
                                   THEN FALSE ELSE p_msg[p]]
      /\ buf' = [p \in Procs |-> IF p \in receivers /\ p_msg[p]
                                 THEN [buf[p] EXCEPT !.body = SYSCALL_RET]
                                 ELSE buf[p]]
      /\ has_int_msg' = [has_int_msg EXCEPT ![target] = FALSE]
      /\ UNCHANGED <<panicked, call, before, failed>>
  BY <1>2 DEF abort_ipc
<1>8. ASSUME NEW x \in Procs
      PROVE  /\ x \in receivers <=> x # target /\ Receiving(x) /\ p_recvfrom[x] = target
             /\ Sending(x) => p_flags[x] = {"SENDING"}
             /\ Receiving(x) => p_flags[x] = {"RECEIVING"}
  BY <1>1, <1>2 DEF Fields, FieldsOf
<1>9. ASSUME NEW x \in Procs
      PROVE  p_flags'[x] = IF x = target THEN {"RECEIVING"}
                           ELSE IF (Sending(x) /\ p_sendto[x] = target) \/ x \in receivers THEN {}
                           ELSE p_flags[x]
  <2>1. p_flags'[x] = IF x = target THEN {"RECEIVING"}
                      ELSE p_flags[x] \
                                    ((IF x \in senders THEN {"SENDING"} ELSE {})
                                \cup (IF x \in receivers THEN {"RECEIVING"} ELSE {}))
    BY <1>7
  <2>2. x \in senders => p_flags[x] = {"SENDING"}
    BY <1>4, <1>8
  <2>3. x \in receivers => p_flags[x] = {"RECEIVING"}
    BY <1>8
  <2>. QED  BY <1>4, <2>1, <2>2, <2>3
<1>10. /\ p_flags' = [x \in Procs |-> p_flags'[x]] /\ p_sendto' = [x \in Procs |-> p_sendto'[x]]
       /\ p_recvfrom' = [x \in Procs |-> p_recvfrom'[x]] /\ p_msg' = [x \in Procs |-> p_msg'[x]]
       /\ buf' = [x \in Procs |-> buf'[x]]
       /\ next_sending' = [x \in Procs |-> next_sending'[x]]
       /\ q_sending' = [x \in Procs |-> q_sending'[x]]
  BY <1>6, <1>7
<1>11. ASSUME NEW x \in Procs
       PROVE  /\ p_sendto'[x] = IF x \in senders \/ x = target THEN NO_TASK ELSE p_sendto[x]
              /\ p_recvfrom'[x] = IF x \in receivers \/ x = target THEN NO_TASK ELSE p_recvfrom[x]
              /\ p_msg'[x] = IF x \in senders \/ x \in receivers \/ x = target THEN FALSE ELSE p_msg[x]
              /\ buf'[x] = IF x \in receivers /\ p_msg[x]
                           THEN [buf[x] EXCEPT !.body = SYSCALL_RET] ELSE buf[x]
              /\ next_sending'[x] =
                       IF x \in senders \/ x = target THEN NULL
                       ELSE IF Sending(target) /\ x = prev(p_sendto[target], target)
                       THEN next_sending[target] ELSE next_sending[x]
              /\ q_sending'[x] =
                       IF x = target THEN NULL
                       ELSE IF Sending(target) /\ x = p_sendto[target] /\ q_sending[x] = target
                       THEN next_sending[target] ELSE q_sending[x]
  BY <1>2, <1>6, <1>7
<1>12. ASSUME NEW x \in Procs
       PROVE  LET sender   == Sending(x) /\ p_sendto[x] = target
                  receiver == x # target /\ Receiving(x) /\ p_recvfrom[x] = target
              IN
              /\ p_flags'[x] = IF x = target THEN {"RECEIVING"}
                               ELSE IF sender \/ receiver THEN {} ELSE p_flags[x]
              /\ p_sendto'[x] = IF sender \/ x = target THEN NO_TASK ELSE p_sendto[x]
              /\ p_recvfrom'[x] = IF receiver \/ x = target THEN NO_TASK ELSE p_recvfrom[x]
              /\ p_msg'[x] = IF sender \/ receiver \/ x = target THEN FALSE ELSE p_msg[x]
              /\ buf'[x] = IF receiver /\ p_msg[x]
                           THEN [buf[x] EXCEPT !.body = SYSCALL_RET] ELSE buf[x]
              /\ next_sending'[x] =
                    IF sender \/ x = target THEN NULL
                    ELSE IF Sending(target) /\ x = prev(p_sendto[target], target)
                    THEN next_sending[target] ELSE next_sending[x]
              /\ q_sending'[x] =
                    IF x = target THEN NULL
                    ELSE IF Sending(target) /\ x = p_sendto[target] /\ q_sending[x] = target
                    THEN next_sending[target] ELSE q_sending[x]
  BY <1>4, <1>8, <1>9, <1>11
<1>. QED  BY <1>6, <1>7, <1>10, <1>12

LEMMA AbortSound ==
    ASSUME SoundInv, UNCHANGED nested, NEW target \in Procs, abort_ipc(target),
           IsFiniteSet(Procs)
    PROVE  /\ SoundInv'
           /\ \A d \in Procs :
                 QueueOf(d)' = IF d = target THEN <<>>
                               ELSE IF Sending(target) /\ p_sendto[target] = d
                               THEN A!Without(QueueOf(d), target) ELSE QueueOf(d)
<1>1. Typed /\ TypeOK /\ Calling /\ Fields /\ Linked /\ NO_TASK \notin Procs /\ NULL \notin Procs
  BY IpcStepsAssumption DEF SoundInv, Typed
<1>2. /\ \A d \in Procs : Chain(q_sending[d], next_sending, QueueOf(d))
      /\ \A d, x \in Procs : A!Lists(QueueOf(d), x) <=> Sending(x) /\ p_sendto[x] = d
  BY <1>1 DEF Linked
<1> DEFINE sender(x)   == Sending(x) /\ p_sendto[x] = target
           receiver(x) == x # target /\ Receiving(x) /\ p_recvfrom[x] = target
<1>3. /\ call = NoCall
      /\ \A x \in Procs :
            /\ p_flags'[x] = IF x = target THEN {"RECEIVING"}
                             ELSE IF sender(x) \/ receiver(x) THEN {} ELSE p_flags[x]
            /\ p_sendto'[x] = IF sender(x) \/ x = target THEN NO_TASK ELSE p_sendto[x]
            /\ p_recvfrom'[x] = IF receiver(x) \/ x = target THEN NO_TASK ELSE p_recvfrom[x]
            /\ p_msg'[x] = IF sender(x) \/ receiver(x) \/ x = target THEN FALSE ELSE p_msg[x]
            /\ buf'[x] = IF receiver(x) /\ p_msg[x]
                         THEN [buf[x] EXCEPT !.body = SYSCALL_RET] ELSE buf[x]
            /\ next_sending'[x] =
                  IF sender(x) \/ x = target THEN NULL
                  ELSE IF Sending(target) /\ x = prev(p_sendto[target], target)
                  THEN next_sending[target] ELSE next_sending[x]
            /\ q_sending'[x] =
                  IF x = target THEN NULL
                  ELSE IF Sending(target) /\ x = p_sendto[target] /\ q_sending[x] = target
                  THEN next_sending[target] ELSE q_sending[x]
      /\ p_flags' = [x \in Procs |-> p_flags'[x]]
      /\ p_sendto' = [x \in Procs |-> p_sendto'[x]]
      /\ p_recvfrom' = [x \in Procs |-> p_recvfrom'[x]]
      /\ p_msg' = [x \in Procs |-> p_msg'[x]]
      /\ buf' = [x \in Procs |-> buf'[x]]
      /\ next_sending' = [x \in Procs |-> next_sending'[x]]
      /\ q_sending' = [x \in Procs |-> q_sending'[x]]
      /\ has_int_msg' = [has_int_msg EXCEPT ![target] = FALSE]
      /\ UNCHANGED <<panicked, call, before, failed, nested>>
  BY AbortSteps
<1>. HIDE DEF sender, receiver
<1>4. ASSUME NEW x \in Procs
      PROVE  /\ sender(x) <=> Sending(x) /\ p_sendto[x] = target
             /\ receiver(x) <=> x # target /\ Receiving(x) /\ p_recvfrom[x] = target
             /\ FieldsOf(x)
  BY <1>1 DEF sender, receiver, Fields
<1>5. \A x \in Procs : Sending(x)' <=> Sending(x) /\ x # target /\ p_sendto[x] # target
  <2>. SUFFICES ASSUME NEW x \in Procs
                PROVE  Sending(x)' <=> Sending(x) /\ x # target /\ p_sendto[x] # target
    OBVIOUS
  <2>0. /\ p_flags'[x] = IF x = target THEN {"RECEIVING"}
                          ELSE IF sender(x) \/ receiver(x) THEN {} ELSE p_flags[x]
        /\ sender(x) <=> Sending(x) /\ p_sendto[x] = target
        /\ receiver(x) => p_flags[x] = {"RECEIVING"}
    BY <1>3, <1>4 DEF FieldsOf
  <2>1. CASE x = target
    BY <2>0, <2>1 DEF Sending
  <2>2. CASE x # target /\ receiver(x)
    BY <2>0, <2>2 DEF Sending
  <2>3. CASE x # target /\ ~receiver(x)
    BY <2>0, <2>3 DEF Sending
  <2>. QED  BY <2>1, <2>2, <2>3
<1>6. Typed'
  <2>1. p_flags' \in [Procs -> SUBSET {"SENDING", "RECEIVING", "FREE_SLOT"}]
    <3>1. \A x \in Procs : p_flags'[x] \in SUBSET {"SENDING", "RECEIVING", "FREE_SLOT"}
      BY <1>1, <1>3 DEF TypeOK
    <3>2. p_flags' = [x \in Procs |-> p_flags'[x]]
      BY <1>3
    <3>. QED  BY ONLY <3>1, <3>2
  <2>2. p_sendto' \in [Procs -> Procs \cup {NO_TASK}]
    <3>1. \A x \in Procs : p_sendto'[x] \in Procs \cup {NO_TASK}
      BY <1>1, <1>3 DEF TypeOK
    <3>2. p_sendto' = [x \in Procs |-> p_sendto'[x]]
      BY <1>3
    <3>. QED  BY ONLY <3>1, <3>2
  <2>3. p_recvfrom' \in [Procs -> Sources \cup {NO_TASK}]
    <3>1. \A x \in Procs : p_recvfrom'[x] \in Sources \cup {NO_TASK}
      BY <1>1, <1>3 DEF TypeOK
    <3>2. p_recvfrom' = [x \in Procs |-> p_recvfrom'[x]]
      BY <1>3
    <3>. QED  BY ONLY <3>1, <3>2
  <2>4. p_msg' \in [Procs -> BOOLEAN]
    <3>1. \A x \in Procs : p_msg'[x] \in BOOLEAN
      BY <1>1, <1>3 DEF TypeOK
    <3>2. p_msg' = [x \in Procs |-> p_msg'[x]]
      BY <1>3
    <3>. QED  BY ONLY <3>1, <3>2
  <2>5. buf' \in [Procs -> Messages]
    <3>1. ASSUME NEW x \in Procs  PROVE buf'[x] \in Messages
      <4>1. buf[x] \in [source : Procs \cup {INTERRUPT}, body : Contents]
        BY <1>1 DEF Typed, Messages
      <4>2. [buf[x] EXCEPT !.body = SYSCALL_RET] \in Messages
        BY <4>1 DEF Messages, Contents
      <4>. QED  BY <1>3, <4>1, <4>2 DEF Messages
    <3>2. buf' = [x \in Procs |-> buf'[x]]
      BY <1>3
    <3>. QED  BY ONLY <3>1, <3>2
  <2>6. next_sending' \in [Procs -> Procs \cup {NULL}]
    <3>1. ASSUME NEW x \in Procs  PROVE next_sending'[x] \in Procs \cup {NULL}
      <4>1. next_sending'[x] \in {NULL, next_sending[target], next_sending[x]}
        BY <1>3
      <4>. QED  BY <1>1, <4>1 DEF TypeOK
    <3>2. next_sending' = [x \in Procs |-> next_sending'[x]]
      BY <1>3
    <3>. QED  BY ONLY <3>1, <3>2
  <2>7. q_sending' \in [Procs -> Procs \cup {NULL}]
    <3>1. ASSUME NEW x \in Procs  PROVE q_sending'[x] \in Procs \cup {NULL}
      <4>1. q_sending'[x] \in {NULL, next_sending[target], q_sending[x]}
        BY <1>3
      <4>. QED  BY <1>1, <4>1 DEF TypeOK
    <3>2. q_sending' = [x \in Procs |-> q_sending'[x]]
      BY <1>3
    <3>. QED  BY ONLY <3>1, <3>2
  <2>8. has_int_msg' \in [Procs -> BOOLEAN]
    BY <1>1, <1>3 DEF TypeOK
  <2>9. UNCHANGED <<panicked, call, before, failed, nested>>
    BY <1>3
  <2>. QED  BY <1>1, <2>1, <2>2, <2>3, <2>4, <2>5, <2>6, <2>7, <2>8, <2>9 DEF Typed, TypeOK
<1>7. Calling'
  BY <1>1, <1>3 DEF Calling, NoCall, SendPoints
<1> DEFINE dest == p_sendto[target]
<1>8. Sending(target) => dest \in Procs /\ dest # target /\ A!Lists(QueueOf(dest), target)
  BY <1>2, <1>4 DEF FieldsOf
<1>9. PICK before_it : before_it = prev(dest, target)
  OBVIOUS
<1>10. Sending(target) =>
          /\ before_it = PrevIn(QueueOf(dest), target)
          /\ q_sending[dest] = target => before_it = NULL
          /\ q_sending[dest] # target =>
                before_it \in Procs /\ before_it # target
                   /\ Sending(before_it) /\ p_sendto[before_it] = dest
  <2>. SUFFICES ASSUME Sending(target)
                PROVE /\ before_it = PrevIn(QueueOf(dest), target)
                      /\ q_sending[dest] = target => before_it = NULL
                      /\ q_sending[dest] # target =>
                            before_it \in Procs /\ before_it # target
                               /\ Sending(before_it) /\ p_sendto[before_it] = dest
    OBVIOUS
  <2>1. PICK d \in Procs : d = dest
    BY <1>8
  <2>a. PICK q : q = QueueOf(dest)
    OBVIOUS
  <2>2. Chain(q_sending[d], next_sending, q) /\ A!Lists(q, target)
    BY <1>2, <1>8, <2>1, <2>a
  <2>3. before_it = PrevIn(q, target)
    BY <1>9, <2>1, <2>a DEF prev, PrevIn
  <2>4. ASSUME q_sending[d] = target  PROVE before_it = NULL
    <3>1. q \in Seq(Procs) /\ A!NoRepeat(q) /\ Len(q) \in Nat
      BY <2>2 DEF Chain
    <3>2. 1 \in 1..Len(q)
      BY <2>2, <3>1 DEF A!Lists
    <3>3. q[1] = target
      BY <2>2, <2>4, <3>2 DEF Chain, Nth
    <3>4. PrevIn(q, q[1]) = Nth(q, 1 - 1)
      BY ONLY <3>1, <3>2, PrevIs
    <3>5. Nth(q, 1 - 1) = NULL
      BY DEF Nth
    <3>. QED  BY <2>3, <3>3, <3>4, <3>5
  <2>5. ASSUME q_sending[d] # target
        PROVE  before_it \in Procs /\ before_it # target /\ A!Lists(q, before_it)
    BY <2>2, <2>3, <2>5, PrevOn
  <2>6. \A x \in Procs : A!Lists(q, x) <=> Sending(x) /\ p_sendto[x] = d
    BY <1>2, <2>1, <2>a
  <2>. QED  BY <2>1, <2>a, <2>3, <2>4, <2>5, <2>6
<1>. HIDE DEF dest
<1>11. \A x \in Procs : next_sending'[x] =
                  IF sender(x) \/ x = target THEN NULL
                  ELSE IF Sending(target) /\ x = before_it
                  THEN next_sending[target] ELSE next_sending[x]
  BY <1>3, <1>9 DEF dest
<1>12. \A x \in Procs : q_sending'[x] =
                  IF x = target THEN NULL
                  ELSE IF Sending(target) /\ x = dest /\ q_sending[x] = target
                  THEN next_sending[target] ELSE q_sending[x]
  BY <1>3 DEF dest
<1>13. Fields'
  <2>. SUFFICES ASSUME NEW x \in Procs  PROVE FieldsOf(x)'
    BY DEF Fields
  <2>0. FieldsOf(x) /\ call.at = "user" /\ call'.at = "user"
    BY <1>3, <1>4 DEF NoCall
  <2>1. CASE x = target
    BY <1>3, <1>5, <2>0, <2>1 DEF FieldsOf, Receiving, Sending
  <2>2. CASE x # target /\ sender(x)
    BY <1>3, <1>4, <1>5, <2>0, <2>2 DEF FieldsOf, Receiving, Sending
  <2>3. CASE x # target /\ receiver(x)
    <3>1. ~Sending(x) /\ ~sender(x) /\ p_flags'[x] = {} /\ ~p_msg'[x]
          /\ p_recvfrom'[x] = NO_TASK /\ p_sendto'[x] = p_sendto[x]
      BY <1>3, <1>4, <2>0, <2>3 DEF FieldsOf, Receiving, Sending
    <3>2. next_sending'[x] = NULL
      <4>1. Sending(target) => x # before_it
        BY <1>8, <1>10, <3>1, <1>1
      <4>. QED  BY <1>11, <2>0, <2>3, <3>1, <4>1 DEF FieldsOf
    <3>. QED  BY <2>0, <3>1, <3>2 DEF FieldsOf, Receiving, Sending
  <2>4. CASE x # target /\ ~sender(x) /\ ~receiver(x)
    <3>1. p_flags'[x] = p_flags[x] /\ p_msg'[x] = p_msg[x]
          /\ p_recvfrom'[x] = p_recvfrom[x] /\ p_sendto'[x] = p_sendto[x]
      BY <1>3, <2>4
    <3>2. ~Sending(x) => next_sending'[x] = NULL
      <4>1. Sending(target) /\ ~Sending(x) => x # before_it
        BY <1>8, <1>10, <1>1
      <4>. QED  BY <1>11, <2>0, <2>4, <4>1 DEF FieldsOf
    <3>. QED  BY <2>0, <3>1, <3>2 DEF FieldsOf, Receiving, Sending
  <2>. QED  BY <2>1, <2>2, <2>3, <2>4
<1>14. QueueOf(target)' = <<>> /\ Chain(q_sending'[target], next_sending', <<>>)
  <2>1. q_sending'[target] = NULL
    BY <1>12
  <2>2. Chain(q_sending'[target], next_sending', <<>>)
    BY <2>1, EmptyChain
  <2>. QED  BY <2>2, ListIsNext
<1>15. ASSUME Sending(target)
       PROVE  /\ \A d \in Procs : d = dest => QueueOf(d)' = A!Without(QueueOf(d), target)
              /\ Chain(q_sending'[dest], next_sending', A!Without(QueueOf(dest), target))
  <2>1. PICK d \in Procs : d = dest
    BY <1>8, <1>15
  <2>a. PICK q : q = QueueOf(dest)
    OBVIOUS
  <2>2. Chain(q_sending[d], next_sending, q) /\ A!Lists(q, target) /\ d # target
    BY <1>2, <1>8, <1>15, <2>1, <2>a
  <2>3. \A i \in 1..Len(q) : q[i] \in Procs /\ Sending(q[i]) /\ p_sendto[q[i]] = d
    <3>1. \A x \in Procs : A!Lists(q, x) <=> Sending(x) /\ p_sendto[x] = d
      BY <1>2, <2>1, <2>a
    <3>2. \A i \in 1..Len(q) : q[i] \in Procs
      BY <2>2 DEF Chain
    <3>. QED  BY <3>1, <3>2 DEF A!Lists
  <2>4. PICK x, nxt, nxt2 :
           x = q_sending[d] /\ nxt = next_sending /\ nxt2 = next_sending'
    OBVIOUS
  <2>5. before_it = PrevIn(q, target)
    BY <1>10, <1>15, <2>1, <2>a
  <2>6. x # target => nxt2[PrevIn(q, target)] = nxt[target]
    BY <1>4, <1>10, <1>11, <1>15, <2>1, <2>a, <2>2, <2>4, <2>5
  <2>7. ASSUME NEW i \in 1..Len(q), q[i] # target, x # target => q[i] # PrevIn(q, target)
        PROVE  nxt2[q[i]] = nxt[q[i]]
    <3>1. q[i] # before_it
      BY <1>1, <1>10, <1>15, <2>1, <2>a, <2>3, <2>4, <2>5, <2>7
    <3>2. ~sender(q[i])
      BY <1>4, <2>2, <2>3
    <3>. QED  BY <1>11, <2>3, <2>4, <2>7, <3>1, <3>2
  <2>8. Chain(x, nxt, q)
    BY <2>2, <2>4
  <2>9. Chain(IF x = target THEN nxt[target] ELSE x, nxt2, A!Without(q, target))
    BY <2>2, <2>6, <2>7, <2>8, ChainUnlink
  <2>10. q_sending'[d] = IF x = target THEN nxt[target] ELSE x
    BY <1>12, <1>15, <2>1, <2>a, <2>2, <2>4
  <2>11. Chain(q_sending'[d], next_sending', A!Without(q, target))
    BY <2>4, <2>9, <2>10
  <2>12. QueueOf(d)' = A!Without(q, target)
    BY <2>11, ListIsNext
  <2>. QED  BY <2>1, <2>a, <2>11, <2>12
<1>16. ASSUME NEW d \in Procs, d # target, ~(Sending(target) /\ d = dest)
       PROVE  Chain(q_sending'[d], next_sending', QueueOf(d)) /\ QueueOf(d)' = QueueOf(d)
  <2>1. q_sending'[d] = q_sending[d]
    BY <1>12, <1>16
  <2>2. PICK r : r = QueueOf(d)
    OBVIOUS
  <2>3. Chain(q_sending[d], next_sending, r)
    BY <1>2, <2>2
  <2>4. \A i \in 1..Len(r) : r[i] \in Procs
    BY <2>3 DEF Chain
  <2>5. ASSUME NEW i \in 1..Len(r)  PROVE next_sending'[r[i]] = next_sending[r[i]]
    <3>1. A!Lists(r, r[i])
      BY DEF A!Lists
    <3>2. r[i] \in Procs /\ Sending(r[i]) /\ p_sendto[r[i]] = d
      BY <1>2, <2>2, <2>4, <3>1
    <3>3. Sending(target) => r[i] # before_it /\ r[i] # target
      BY <1>1, <1>8, <1>10, <1>16, <3>2 DEF dest
    <3>4. r[i] # target
      BY <3>2, <3>3
    <3>. QED  BY <1>4, <1>11, <1>16, <3>2, <3>3, <3>4
  <2>6. Chain(q_sending'[d], next_sending', r)
    BY <2>1, <2>3, <2>5, ChainSame
  <2>. QED  BY <2>2, <2>6, ListIsNext
<1>17. Linked'
  <2>. SUFFICES ASSUME NEW d \in Procs
                PROVE  /\ Chain(q_sending'[d], next_sending', QueueOf(d)')
                       /\ \A x \in Procs : A!Lists(QueueOf(d)', x)
                                              <=> Sending(x)' /\ p_sendto'[x] = d
    BY DEF Linked
  <2>0. \A x \in Procs : Sending(x)' => p_sendto'[x] = p_sendto[x]
    BY <1>3, <1>4, <1>5
  <2>1. CASE d = target
    <3>1. \A x : ~A!Lists(<<>>, x)
      BY DEF A!Lists
    <3>. QED  BY <1>5, <1>14, <2>0, <2>1, <3>1
  <2>2. CASE d # target /\ Sending(target) /\ d = dest
    <3>1. PICK q : q = QueueOf(d)
      OBVIOUS
    <3>2. q \in Seq(Procs) /\ A!NoRepeat(q) /\ A!Lists(q, target)
      BY <1>2, <1>8, <2>2, <3>1 DEF Chain
    <3>3. \A x \in Procs : A!Lists(A!Without(q, target), x) <=> A!Lists(q, x) /\ x # target
      BY <3>2, UnlinkedLists
    <3>4. \A x \in Procs : A!Lists(q, x) <=> Sending(x) /\ p_sendto[x] = d
      BY <1>2, <3>1
    <3>5. /\ QueueOf(d)' = A!Without(q, target)
          /\ Chain(q_sending'[d], next_sending', A!Without(q, target))
      BY <1>15, <2>2, <3>1
    <3>6. \A x \in Procs : Sending(x)' /\ p_sendto'[x] = d <=> A!Lists(q, x) /\ x # target
      BY <1>5, <2>0, <2>2, <3>4
    <3>. QED  BY <3>3, <3>5, <3>6
  <2>3. CASE d # target /\ ~(Sending(target) /\ d = dest)
    <3>1. \A x \in Procs : A!Lists(QueueOf(d), x) <=> Sending(x) /\ p_sendto[x] = d
      BY <1>2
    <3>2. Chain(q_sending'[d], next_sending', QueueOf(d)) /\ QueueOf(d)' = QueueOf(d)
      BY <1>16, <2>3
    <3>3. \A x \in Procs : Sending(x)' /\ p_sendto'[x] = d <=> Sending(x) /\ p_sendto[x] = d
      BY <1>5, <2>0, <2>3 DEF dest
    <3>. QED  BY <3>1, <3>2, <3>3
  <2>. QED  BY <2>1, <2>2, <2>3
<1>18. ASSUME NEW d \in Procs
       PROVE  QueueOf(d)' = IF d = target THEN <<>>
                            ELSE IF Sending(target) /\ p_sendto[target] = d
                            THEN A!Without(QueueOf(d), target) ELSE QueueOf(d)
  <2>1. CASE d = target
    BY <1>14, <2>1
  <2>2. CASE d # target /\ Sending(target) /\ d = dest
    BY <1>15, <2>2 DEF dest
  <2>3. CASE d # target /\ ~(Sending(target) /\ d = dest)
    BY <1>16, <2>3 DEF dest
  <2>. QED  BY <2>1, <2>2, <2>3
<1>. QED  BY <1>6, <1>7, <1>13, <1>17, <1>18 DEF SoundInv

LEMMA StepSound ==
    ASSUME SoundInv, [Next]_vars
    PROVE  SoundInv'
<1>1. IsFiniteSet(Procs) /\ IntTasks \subseteq Procs
  BY IpcStepsAssumption
<1>2. CASE UNCHANGED vars
  <2>1. UNCHANGED <<fields, queues, panicked, nested, call, failed>>
    BY <1>2 DEF vars
  <2>2. Calling' /\ Fields'
    BY <2>1 DEF Free, SoundInv, Calling, Fields, FieldsOf, Sending, Receiving, Runnable, fields, queues
  <2>. QED  BY <2>1, <2>2, SameFields DEF SoundInv, Typed, TypeOK
<1>3. CASE Next
  <2>1. UNCHANGED nested
    BY <1>3 DEF Next
  <2>2. CASE \E p \in Procs : sys_sendrec(p)
    BY <2>1, <2>2, EnterSound
  <2>3. CASE msg_send
    BY <1>1, <2>1, <2>3, SendSound, AppendsSound DEF msg_send
  <2>4. CASE msg_receive
    BY <1>1, <2>1, <2>4, ReceiveSound, TakesSound DEF msg_receive
  <2>5. CASE \E t \in IntTasks : inform_int(t)
    BY <1>1, <2>1, <2>5, InformSound
  <2>6. CASE \E target \in Procs \ Native : abort_ipc(target)
    BY <1>1, <2>1, <2>6, AbortSound
  <2>. QED  BY <1>3, <2>2, <2>3, <2>4, <2>5, <2>6 DEF Next
<1>. QED  BY <1>2, <1>3

\* Whatever interrupts do to a kernel call: the pointers q_sending and
\* next_sending form lists that end and hold exactly the senders, once each,
\* and a process that runs again does not look blocked.  For any number of
\* processes.
THEOREM ListsAlwaysSound == Spec => []ListsSound
<1>1. Init => SoundInv
  BY InitSound, IpcStepsAssumption
<1>2. SoundInv /\ [Next]_vars => SoundInv'
  BY StepSound
<1>3. SoundInv => ListsSound
  <2>. SUFFICES ASSUME SoundInv  PROVE ListsSound
    OBVIOUS
  <2>1. TypeOK /\ Fields /\ Linked /\ IsFiniteSet(Procs)
    BY IpcStepsAssumption DEF SoundInv, Typed
  <2>2. ASSUME NEW d \in Procs
        PROVE  LET q == QueueOf(d) IN
               /\ Len(q) <= Cardinality(Procs)
               /\ \A i, j \in 1..Len(q) : q[i] = q[j] => i = j
               /\ {q[i] : i \in 1..Len(q)} = {p \in Procs : Sending(p) /\ p_sendto[p] = d}
    <3>1. PICK q : q = QueueOf(d)
      OBVIOUS
    <3>2. /\ q \in Seq(Procs) /\ A!NoRepeat(q)
          /\ \A p \in Procs : A!Lists(q, p) <=> Sending(p) /\ p_sendto[p] = d
      BY <2>1, <3>1 DEF Linked, Chain
    <3>3. Len(q) <= Cardinality(Procs)
      BY <2>1, <3>2, ChainFits
    <3>4. {q[i] : i \in 1..Len(q)} = {p \in Procs : Sending(p) /\ p_sendto[p] = d}
      <4>1. \A i \in 1..Len(q) : q[i] \in Procs
        BY <3>2
      <4>. QED  BY <3>2, <4>1 DEF A!Lists
    <3>. QED  BY <3>1, <3>2, <3>3, <3>4 DEF A!NoRepeat
  <2>3. ListsAreQueues
    BY <2>1, <2>2 DEF ListsAreQueues, Fields, FieldsOf
  <2>4. ReleasedClean
    BY <2>1 DEF ReleasedClean, Runnable, Fields, FieldsOf, Sending, Receiving
  <2>. QED  BY <2>1, <2>3, <2>4 DEF ListsSound
<1>. QED  BY <1>1, <1>2, <1>3, PTL DEF Spec

-----------------------------------------------------------------------------
(* What a call finds out is what Ipc asks of the table as it was before    *)

LEMMA SeenBefore ==
    ASSUME SoundInv, BeforeTyped, Untouched, ~nested, call.at \notin {"user", "taken"},
           before.p_flags = p_flags, before.p_recvfrom = p_recvfrom
    PROVE  /\ \A x : A!Sending(x) <=> Sending(x)
           /\ \A x : A!Receiving(x) <=> Receiving(x)
           /\ \A d, s : A!Accepts(d, s) <=> Accepts(d, s)
           /\ \A x, s : A!IntReady(x, s) <=> has_int_msg[x] /\ s \in {ANY, INTERRUPT}
           /\ \A x \in Procs : \A s, from :
                 A!Offers(x, s, from) <=>
                    IF s = ANY THEN QueueOf(x) # <<>> /\ from = Head(QueueOf(x))
                    ELSE from = s /\ Sending(from) /\ p_sendto[from] = x
           /\ \A x, y : A!deadlock(x, y) <=>
                 \A S \in SUBSET Procs :
                    (y \in S /\ \A z \in S : Sending(z) => p_sendto[z] \in S) => x \in S
<1>1. ~InUser
  BY DEF InUser, NoCall
<1>2. /\ \A x : A!Sending(x) <=> Sending(x)
      /\ \A x : A!Receiving(x) <=> Receiving(x)
  BY <1>1 DEF A!Sending, A!Receiving, Sending, Receiving, Seen
<1>3. \A d, s : A!Accepts(d, s) <=> Accepts(d, s)
  BY <1>1, <1>2 DEF A!Accepts, Accepts, Seen
<1>4. \A x, s : A!IntReady(x, s) <=> has_int_msg[x] /\ s \in {ANY, INTERRUPT}
  BY <1>1 DEF A!IntReady, Seen, Untouched
<1>5. ASSUME NEW x \in Procs, NEW s, NEW from
      PROVE  A!Offers(x, s, from) <=>
                    IF s = ANY THEN QueueOf(x) # <<>> /\ from = Head(QueueOf(x))
                    ELSE from = s /\ Sending(from) /\ p_sendto[from] = x
  BY <1>1, <1>2 DEF A!Offers, Seen, Untouched
<1>6. ASSUME NEW x, NEW y
      PROVE  A!deadlock(x, y) <=>
                 \A S \in SUBSET Procs :
                    (y \in S /\ \A z \in S : Sending(z) => p_sendto[z] \in S) => x \in S
  BY <1>1, <1>2 DEF A!deadlock, Seen, Untouched
<1>. QED  BY <1>2, <1>3, <1>4, <1>5, <1>6

\* deadlock() finds the caller on the chain of senders exactly if the message
\* graph would get a cycle.
LEMMA DeadlockFound ==
    ASSUME SoundInv, NEW src \in Procs, NEW dest \in Procs, src # dest
    PROVE  deadlock(src, dest) <=>
              \A S \in SUBSET Procs :
                 (dest \in S /\ \A z \in S : Sending(z) => p_sendto[z] \in S) => src \in S
<1>1. Typed /\ TypeOK /\ Fields /\ NULL \notin Procs /\ IsFiniteSet(Procs)
  BY IpcStepsAssumption DEF SoundInv, Typed
<1>2. PICK nxt : nxt = [p \in Procs |-> IF Sending(p) THEN p_sendto[p] ELSE NULL]
  OBVIOUS
<1>3. /\ nxt \in [Procs -> Procs \cup {NULL}]
      /\ \A p \in Procs : /\ nxt[p] # NULL <=> Sending(p)
                          /\ Sending(p) => nxt[p] = p_sendto[p]
  BY <1>1, <1>2 DEF Fields, FieldsOf
<1>4. PICK w : w = Walk(dest, nxt)
  OBVIOUS
<1>5. DOMAIN w = 0..Cardinality(Procs)
  BY <1>1, <1>4, WalkSteps
<1>6. \A k \in 0..Cardinality(Procs) : w[k] = NULL \/ w[k] \in Procs
  <2>1. \A k \in 0..Cardinality(Procs) : w[k] = Stepped(w, k, dest, nxt)
    BY <1>1, <1>4, WalkSteps
  <2>2. Cardinality(Procs) \in Nat
    BY <1>1, FS_CardinalityType
  <2>3. ASSUME NEW T, T = {k \in 0..Cardinality(Procs) : ~(w[k] = NULL \/ w[k] \in Procs)}, T # {}
        PROVE  FALSE
    <3>1. T \in SUBSET Nat
      BY <2>2, <2>3
    <3>2. PICK k \in T : \A j \in T : k <= j
      BY <2>3, <3>1, Least
    <3>3. k # 0
      BY <2>1, <2>2, <2>3, <3>2 DEF Stepped
    <3>4. k - 1 \in 0..Cardinality(Procs) /\ k - 1 \notin T
      BY <2>2, <2>3, <3>2, <3>3
    <3>. QED  BY <1>3, <2>1, <2>3, <3>2, <3>3, <3>4 DEF Stepped
  <2>. QED  BY <2>3
<1>7. deadlock(src, dest) <=>
         \E k \in DOMAIN w : w[k] # NULL /\ Sending(w[k]) /\ p_sendto[w[k]] = src
  BY <1>2, <1>4 DEF deadlock
<1>8. deadlock(src, dest) <=>
         \E k \in 0..Cardinality(Procs) : w[k] \in Procs /\ nxt[w[k]] = src
  BY <1>1, <1>3, <1>5, <1>6, <1>7
<1>9. (\E k \in 0..Cardinality(Procs) : Walk(dest, nxt)[k] \in Procs /\ nxt[Walk(dest, nxt)[k]] = src)
         <=> \A S \in SUBSET Procs :
                (dest \in S /\ \A p \in S : nxt[p] # NULL => nxt[p] \in S) => src \in S
  BY <1>1, <1>3, WalkReaches
<1>10. \A S \in SUBSET Procs : (\A p \in S : nxt[p] # NULL => nxt[p] \in S)
                              <=> (\A z \in S : Sending(z) => p_sendto[z] \in S)
  BY <1>3
<1>. QED  BY <1>4, <1>8, <1>9, <1>10

\* What is known of the table as it was stays known while the call goes on.
LEMMA StaysKnown ==
    ASSUME ~nested, ~InUser, ~InUser', UNCHANGED <<before, panicked, nested>>
    PROVE  /\ \A x, y : A!sys_sendrec(x, y)' <=> A!sys_sendrec(x, y)
           /\ \A x, y : A!deadlock(x, y)' <=> A!deadlock(x, y)
           /\ \A x, y : A!Accepts(x, y)' <=> A!Accepts(x, y)
           /\ \A x, y : A!IntReady(x, y)' <=> A!IntReady(x, y)
           /\ \A x, y, z : A!Offers(x, y, z)' <=> A!Offers(x, y, z)
           /\ UNCHANGED A!vars
<1>1. \A x, y : A!sys_sendrec(x, y)' <=> A!sys_sendrec(x, y)
  BY DEF A!sys_sendrec, A!Runnable, A!Free, Seen
<1>2. \A x, y : A!deadlock(x, y)' <=> A!deadlock(x, y)
  BY DEF A!deadlock, A!Sending, Seen
<1>3. \A x, y : A!Accepts(x, y)' <=> A!Accepts(x, y)
  BY DEF A!Accepts, A!Receiving, Seen
<1>4. \A x, y : A!IntReady(x, y)' <=> A!IntReady(x, y)
  BY DEF A!IntReady, Seen
<1>5. \A x, y, z : A!Offers(x, y, z)' <=> A!Offers(x, y, z)
  BY DEF A!Offers, A!Sending, Seen
<1>6. UNCHANGED A!vars
  BY DEF A!vars, Seen
<1>. QED  BY <1>1, <1>2, <1>3, <1>4, <1>5, <1>6

LEMMA EnterQuiet ==
    ASSUME SoundInv, Quiet, ~nested, UNCHANGED nested, NEW p \in Procs, sys_sendrec(p)
    PROVE  Quiet'
<1>1. Typed /\ TypeOK /\ failed = "none"
  BY DEF SoundInv, Typed, Quiet
<1>2. PICK function \in {"send", "receive"}, party \in Sources, b \in Bodies \cup {EMPTY} :
         /\ Enter(p, function, party, b)
         /\ function = "send" => b \in Bodies
         /\ function = "receive" => b = EMPTY
  BY DEF sys_sendrec, Sources
<1>3. /\ Up /\ Runnable(p) /\ party # p /\ (party \in Procs => ~Free(party))
      /\ buf' = [buf EXCEPT ![p] = [source |-> p, body |-> b]]
      /\ call' = [at |-> function, p |-> p, party |-> party, from |-> NO_TASK]
      /\ before' = [p_flags |-> p_flags, p_msg |-> p_msg,
                    p_recvfrom |-> p_recvfrom, p_sendto |-> p_sendto,
                    has_int_msg |-> has_int_msg, buf |-> buf,
                    q_sending |-> [d \in Procs |-> QueueOf(d)]]
      /\ UNCHANGED <<p_flags, p_msg, p_recvfrom, p_sendto, has_int_msg, queues,
                     panicked, failed>>
  BY <1>2 DEF Enter
<1>4. call'.at = function /\ call'.p = p /\ call'.party = party /\ ~InUser'
  BY <1>3 DEF InUser, NoCall
<1>5. BeforeTyped'
  BY <1>1, <1>3 DEF BeforeTyped, Typed, TypeOK
<1>6. Untouched'
  <2>1. \A d \in Procs : QueueOf(d)' = QueueOf(d)
    BY <1>3, QueuesSame
  <2>. QED  BY <1>3, <2>1 DEF Untouched
<1>7. Changed'
  BY <1>3, <1>4 DEF Changed
<1>8. ChangedBuf'
  BY <1>2, <1>3, <1>4 DEF ChangedBuf, Own, ReceivePoints
<1>9. A!sys_sendrec(call.p, call.party)'
  BY <1>3, <1>4 DEF A!sys_sendrec, A!Runnable, A!Free, Seen, Runnable, Free, Up
<1>10. Known'
  BY <1>2, <1>4, <1>9 DEF Known
<1>. QED  BY <1>1, <1>3, <1>5, <1>6, <1>7, <1>8, <1>10 DEF Quiet, Begun

\* What holds after every step inside a call.
LEMMA GoesOnQuiet ==
    ASSUME SoundInv, Quiet, ~nested, call.at # "user", call'.at # "user",
           UNCHANGED <<before, failed, nested, panicked, queues, p_sendto, has_int_msg>>,
           call'.p = call.p, call'.party = call.party,
           call'.at = "taken" <=> call.at = "taken"
    PROVE  /\ BeforeTyped' /\ Untouched' /\ failed' = "none"
           /\ UNCHANGED A!vars
           /\ A!sys_sendrec(call.p, call.party)' <=> A!sys_sendrec(call.p, call.party)
           /\ A!deadlock(call.p, call.party)' <=> A!deadlock(call.p, call.party)
           /\ A!Accepts(call.party, call.p)' <=> A!Accepts(call.party, call.p)
           /\ A!IntReady(call.p, call.party)' <=> A!IntReady(call.p, call.party)
           /\ \A x \in Procs : A!Offers(call.p, call.party, x)' <=> A!Offers(call.p, call.party, x)
<1>1. ~InUser /\ ~InUser'
  BY DEF InUser, NoCall
<1>2. BeforeTyped /\ Untouched /\ failed = "none"
  BY DEF Quiet, Begun
<1>3. BeforeTyped'
  BY <1>2 DEF BeforeTyped
<1>4. Untouched'
  <2>1. \A d \in Procs : QueueOf(d)' = QueueOf(d)
    BY QueuesSame
  <2>. QED  BY <1>2, <2>1 DEF Untouched
<1>5. PICK p, q : p = call.p /\ q = call.party
  OBVIOUS
<1>6. /\ UNCHANGED A!vars
      /\ A!sys_sendrec(p, q)' <=> A!sys_sendrec(p, q)
      /\ A!deadlock(p, q)' <=> A!deadlock(p, q)
      /\ A!Accepts(q, p)' <=> A!Accepts(q, p)
      /\ A!IntReady(p, q)' <=> A!IntReady(p, q)
      /\ \A x \in Procs : A!Offers(p, q, x)' <=> A!Offers(p, q, x)
  BY <1>1, StaysKnown
<1>7. A!sys_sendrec(call.p, call.party)' <=> A!sys_sendrec(call.p, call.party)
  BY <1>5, <1>6 DEF A!sys_sendrec, A!Runnable, A!Free
<1>8. A!deadlock(call.p, call.party)' <=> A!deadlock(call.p, call.party)
  BY <1>5, <1>6 DEF A!deadlock, A!Sending
<1>9. A!Accepts(call.party, call.p)' <=> A!Accepts(call.party, call.p)
  BY <1>5, <1>6 DEF A!Accepts, A!Receiving
<1>10. A!IntReady(call.p, call.party)' <=> A!IntReady(call.p, call.party)
  BY <1>5, <1>6 DEF A!IntReady
<1>11. \A x \in Procs : A!Offers(call.p, call.party, x)' <=> A!Offers(call.p, call.party, x)
  BY <1>5, <1>6 DEF A!Offers, A!Sending
<1>. QED  BY <1>2, <1>3, <1>4, <1>6, <1>7, <1>8, <1>9, <1>10, <1>11

LEMMA SendQuiet ==
    ASSUME SoundInv, Quiet, ~nested, UNCHANGED nested,
           SendTests \/ SendChecks \/ SendCopies \/ SendClearsMsg \/ SendClearsFlag
    PROVE  Quiet' /\ UNCHANGED A!vars
<1>1. Typed /\ TypeOK /\ Calling /\ Fields /\ call \in Calls
  BY DEF SoundInv, Typed
<1>2. /\ call.at \in {"send", "check", "copy", "clear", "wake"} /\ call.at # "user" /\ Up
      /\ UNCHANGED <<queues, p_sendto, p_recvfrom, has_int_msg, panicked>>
  BY DEF SendTests, SendChecks, SendCopies, SendClearsMsg, SendClearsFlag, At, fields
<1>3. /\ call.p \in Procs /\ call.party \in Procs /\ call.p # call.party
  BY <1>1, <1>2 DEF Calling, SendPoints
<1>4. BeforeTyped /\ Untouched /\ Changed /\ ChangedBuf /\ Known /\ failed = "none"
  BY <1>2 DEF Quiet, Begun
<1>5. A!sys_sendrec(call.p, call.party)
  BY <1>2, <1>4 DEF Known, Up
<1>6. CASE SendTests
  <2>1. PICK point \in {"check", "append"} :
           GoOn(point) /\ (point = "check" <=> Accepts(call.party, call.p))
    BY <1>6 DEF SendTests
  <2>2. /\ call.at = "send" /\ ~deadlock(call.p, call.party)
        /\ UNCHANGED fields /\ UNCHANGED <<before, failed>>
    BY <1>6, <2>1 DEF SendTests, At, GoOn
  <2>3. point \in SendPoints
    BY DEF SendPoints
  <2>4. call'.at = point /\ call'.p = call.p /\ call'.party = call.party
    BY <1>1, <2>1, <2>3, GoneOn
  <2>5. before.p_flags = p_flags /\ before.p_recvfrom = p_recvfrom
    BY <1>4, <2>2 DEF Changed
  <2>6. ~A!deadlock(call.p, call.party)
    <3>1. PICK src \in Procs, dest \in Procs : src = call.p /\ dest = call.party
      BY <1>3
    <3>2. deadlock(src, dest) <=>
              \A S \in SUBSET Procs :
                 (dest \in S /\ \A z \in S : Sending(z) => p_sendto[z] \in S) => src \in S
      BY <1>3, <3>1, DeadlockFound
    <3>3. A!deadlock(src, dest) <=>
              \A S \in SUBSET Procs :
                 (dest \in S /\ \A z \in S : Sending(z) => p_sendto[z] \in S) => src \in S
      BY <1>2, <1>4, <2>5, SeenBefore
    <3>. QED  BY <2>2, <3>1, <3>2, <3>3
  <2>7. A!Accepts(call.party, call.p) <=> Accepts(call.party, call.p)
    BY <1>2, <1>4, <2>5, SeenBefore
  <2>8. /\ BeforeTyped' /\ Untouched' /\ failed' = "none" /\ UNCHANGED A!vars
        /\ A!sys_sendrec(call.p, call.party)'
        /\ ~A!deadlock(call.p, call.party)'
        /\ A!Accepts(call.party, call.p)' <=> point = "check"
    BY <1>2, <1>5, <2>1, <2>2, <2>4, <2>6, <2>7, GoesOnQuiet
  <2>9. Changed' /\ ChangedBuf'
    BY <1>4, <2>2, <2>4 DEF Changed, ChangedBuf, Own, ReceivePoints, fields
  <2>10. Known'
    BY <2>4, <2>8 DEF Known
  <2>. QED  BY <2>8, <2>9, <2>10 DEF Quiet, Begun
<1>7. CASE ~SendTests
  <2>1. call.at \in {"check", "copy", "clear", "wake"}
    BY <1>7 DEF SendChecks, SendCopies, SendClearsMsg, SendClearsFlag, At
  <2>2. ~A!deadlock(call.p, call.party) /\ A!Accepts(call.party, call.p)
    BY <1>4, <2>1 DEF Known
  <2>3. before.p_flags = p_flags /\ before.p_recvfrom = p_recvfrom
    BY <1>4, <2>1 DEF Changed
  <2>4. Accepts(call.party, call.p)
    BY <1>2, <1>4, <2>2, <2>3, SeenBefore
  <2>5. Receiving(call.party) /\ p_recvfrom[call.party] # NO_TASK
    BY <1>3, <2>4, IpcStepsAssumption DEF Accepts
  <2>6. p_msg[call.party] \/ call.at = "wake"
    BY <1>1, <1>3, <2>1, <2>5 DEF Fields, FieldsOf
  <2>7. ASSUME NEW point \in {"copy", "clear", "wake", "done"}, GoOn(point)
        PROVE  /\ BeforeTyped' /\ Untouched' /\ failed' = "none" /\ UNCHANGED A!vars
               /\ Known' /\ call'.at = point /\ call'.p = call.p /\ call'.party = call.party
               /\ UNCHANGED before
    <3>1. point \in SendPoints
      BY DEF SendPoints
    <3>2. /\ call'.at = point /\ call'.p = call.p /\ call'.party = call.party
          /\ UNCHANGED <<before, failed>>
      BY <1>1, <2>7, <3>1, GoneOn DEF GoOn
    <3>3. /\ BeforeTyped' /\ Untouched' /\ failed' = "none" /\ UNCHANGED A!vars
          /\ A!sys_sendrec(call.p, call.party)'
          /\ ~A!deadlock(call.p, call.party)'
          /\ A!Accepts(call.party, call.p)'
      BY <1>2, <1>5, <2>2, <3>2, GoesOnQuiet
    <3>. QED  BY <3>2, <3>3 DEF Known
  <2>8. CASE SendChecks
    <3>1. /\ GoOn("copy") /\ call.at = "check" /\ UNCHANGED fields
      BY <2>6, <2>8 DEF SendChecks, At
    <3>2. Changed' /\ ChangedBuf'
      BY <1>4, <2>7, <3>1 DEF Changed, ChangedBuf, Own, ReceivePoints, fields
    <3>. QED  BY <2>7, <3>1, <3>2 DEF Quiet, Begun
  <2>9. CASE SendCopies
    <3>1. /\ GoOn("clear") /\ call.at = "copy" /\ UNCHANGED <<p_flags, p_msg, p_recvfrom>>
          /\ buf' = [buf EXCEPT ![call.party] = buf[call.p]]
      BY <2>6, <2>9 DEF SendCopies, At
    <3>2. Changed'
      BY <1>4, <2>7, <3>1 DEF Changed
    <3>3. PICK b \in Bodies : buf = [before.buf EXCEPT ![call.p] = Own(b)]
      BY <1>4, <3>1 DEF ChangedBuf
    <3>4. buf' = [before.buf EXCEPT ![call.p] = Own(b), ![call.party] = Own(b)]
      BY <1>3, <1>4, <3>1, <3>3 DEF BeforeTyped
    <3>5. ChangedBuf'
      BY <2>7, <3>1, <3>4 DEF ChangedBuf, Own, ReceivePoints
    <3>. QED  BY <2>7, <3>1, <3>2, <3>5 DEF Quiet, Begun
  <2>10. CASE SendClearsMsg
    <3>1. /\ GoOn("wake") /\ call.at = "clear" /\ UNCHANGED <<p_flags, p_recvfrom, buf>>
          /\ p_msg' = [p_msg EXCEPT ![call.party] = FALSE]
      BY <2>10 DEF SendClearsMsg, At
    <3>2. Changed' /\ ChangedBuf'
      BY <1>4, <2>7, <3>1 DEF Changed, ChangedBuf, Own, ReceivePoints
    <3>. QED  BY <2>7, <3>1, <3>2 DEF Quiet, Begun
  <2>11. CASE SendClearsFlag
    <3>1. /\ GoOn("done") /\ call.at = "wake" /\ UNCHANGED <<p_msg, p_recvfrom, buf>>
          /\ p_flags' = [p_flags EXCEPT ![call.party] = @ \ {"RECEIVING"}]
      BY <2>11 DEF SendClearsFlag, At
    <3>2. Changed' /\ ChangedBuf'
      BY <1>4, <2>7, <3>1 DEF Changed, ChangedBuf, Own, ReceivePoints
    <3>. QED  BY <2>7, <3>1, <3>2 DEF Quiet, Begun
  <2>. QED  BY <1>7, <2>8, <2>9, <2>10, <2>11
<1>. QED  BY <1>6, <1>7

\* The steps that end a call show what Ipc does in one.
LEMMA SendEnds ==
    ASSUME SoundInv, Quiet, ~nested, UNCHANGED nested, SendPanics \/ SendDone \/ SendAppends
    PROVE  Quiet' /\ \E b \in Bodies : A!msg_send(call.p, call.party, b)
<1>1. Typed /\ TypeOK /\ Calling /\ Fields /\ call \in Calls /\ IsFiniteSet(Procs)
  BY IpcStepsAssumption DEF SoundInv, Typed
<1>2. /\ call.at \in {"send", "done", "append"} /\ call.at # "user" /\ Up
  BY DEF SendPanics, SendDone, SendAppends, At
<1>3. PICK p \in Procs, dest \in Procs : p = call.p /\ dest = call.party /\ p # dest
  BY <1>1, <1>2 DEF Calling, SendPoints
<1>4. BeforeTyped /\ Untouched /\ Changed /\ ChangedBuf /\ Known /\ failed = "none" /\ ~InUser
  BY <1>2 DEF Quiet, Begun, InUser, NoCall
<1>5. A!sys_sendrec(p, dest) /\ ~panicked
  BY <1>2, <1>3, <1>4 DEF Known, Up
<1>6. CASE SendPanics
  <2>1. /\ call.at = "send" /\ deadlock(p, dest) /\ panicked' = TRUE
        /\ UNCHANGED <<fields, queues, call, before, failed>>
    BY <1>3, <1>6 DEF SendPanics, At
  <2>2. before.p_flags = p_flags /\ before.p_recvfrom = p_recvfrom
    BY <1>4, <2>1 DEF Changed
  <2>3. A!deadlock(p, dest)
    <3>1. deadlock(p, dest) <=>
              \A S \in SUBSET Procs :
                 (dest \in S /\ \A z \in S : Sending(z) => p_sendto[z] \in S) => p \in S
      BY <1>3, DeadlockFound
    <3>2. A!deadlock(p, dest) <=>
              \A S \in SUBSET Procs :
                 (dest \in S /\ \A z \in S : Sending(z) => p_sendto[z] \in S) => p \in S
      BY <1>2, <1>4, <2>2, SeenBefore
    <3>. QED  BY <2>1, <3>1, <3>2
  <2>4. ~InUser'
    BY <1>4, <2>1 DEF InUser
  <2>5. A!SendPanics(p, dest)
    BY <1>4, <1>5, <2>1, <2>3, <2>4 DEF A!SendPanics, Seen
  <2>6. PICK b \in Bodies : A!msg_send(p, dest, b)
    BY <1>4, <2>1, <2>5 DEF ChangedBuf, A!msg_send
  <2>7. \A d \in Procs : QueueOf(d)' = QueueOf(d)
    BY <2>1, QueuesSame
  <2>8. BeforeTyped' /\ Untouched' /\ Changed' /\ ChangedBuf' /\ failed' = "none"
    <3>1. BeforeTyped' /\ Untouched' /\ failed' = "none"
      BY <1>4, <2>1, <2>7 DEF BeforeTyped, Untouched, fields
    <3>2. Changed' /\ ChangedBuf'
      BY <1>4, <2>1 DEF Changed, ChangedBuf, Own, fields, ReceivePoints
    <3>. QED  BY <3>1, <3>2
  <2>9. Known'
    BY <2>1 DEF Known
  <2>. QED  BY <1>3, <2>6, <2>8, <2>9 DEF Quiet, Begun
<1>7. CASE SendDone
  <2>1. /\ call.at = "done" /\ p_recvfrom' = [p_recvfrom EXCEPT ![dest] = NO_TASK]
        /\ UNCHANGED <<p_flags, p_msg, p_sendto, has_int_msg, buf, queues, panicked>>
    BY <1>3, <1>7 DEF SendDone, At
  <2>2. /\ ~Sending(dest) /\ ~Receiving(dest) /\ ~Free(dest)
        /\ ~Sending(p) /\ Runnable(p) /\ ~Receiving(p)
    <3>1. ~Sending(dest) /\ ~Receiving(dest) /\ ~Free(dest)
      BY <1>1, <1>3, <2>1 DEF Calling
    <3>2. Runnable(p)
      <4>1. call.at \in SendPoints \cup {"receive", "take_int", "taken", "pick", "unlink", "flag"}
        BY <2>1 DEF SendPoints
      <4>. QED  BY <1>1, <1>3, <4>1 DEF Calling
    <3>. QED  BY <3>1, <3>2 DEF Runnable, Sending, Receiving
  <2>3. Runnable(dest)
    BY <1>1, <1>3, <2>2 DEF TypeOK, Runnable, Sending, Receiving, Free
  <2>4. /\ ~p_msg[dest] /\ p_sendto[dest] = NO_TASK
        /\ ~p_msg[p] /\ p_sendto[p] = NO_TASK /\ p_recvfrom[p] = NO_TASK
    BY <1>1, <1>3, <2>2 DEF Fields, FieldsOf
  <2>5. Return
    BY <1>3, <1>7, <2>2, <2>3, <2>4 DEF SendDone
  <2>6. InUser' /\ call'.at = "user" /\ failed' = "none"
    BY <1>1, <1>4, <2>5, Returned DEF InUser
  <2>7. PICK b \in Bodies : buf = [before.buf EXCEPT ![p] = Own(b), ![dest] = Own(b)]
    BY <1>3, <1>4, <2>1 DEF ChangedBuf
  <2>8. ~A!deadlock(p, dest) /\ A!Accepts(dest, p)
    BY <1>3, <1>4, <2>1 DEF Known
  <2>9. /\ p_flags = [before.p_flags EXCEPT ![dest] = @ \ {"RECEIVING"}]
        /\ p_msg = [before.p_msg EXCEPT ![dest] = FALSE]
        /\ p_recvfrom = before.p_recvfrom
    BY <1>3, <1>4, <2>1 DEF Changed
  <2>10. before.q_sending = [d \in Procs |-> QueueOf(d)']
    BY <1>4, <2>1, QueuesSame DEF Untouched
  <2>11. A!SendDelivers(p, dest, b)
    BY <1>3, <1>4, <1>5, <2>1, <2>6, <2>7, <2>8, <2>9, <2>10
       DEF A!SendDelivers, Seen, Own, Untouched
  <2>. QED  BY <1>3, <2>6, <2>11 DEF Quiet, A!msg_send
<1>8. CASE SendAppends
  <2>1. /\ call.at = "append"
        /\ p_flags' = [p_flags EXCEPT ![p] = @ \cup {"SENDING"}]
        /\ p_sendto' = [p_sendto EXCEPT ![p] = dest]
        /\ p_msg' = [p_msg EXCEPT ![p] = TRUE]
        /\ Return
        /\ UNCHANGED <<p_recvfrom, has_int_msg, buf, panicked>>
    BY <1>3, <1>8, AppendReturns DEF SendAppends, At
  <2>2. InUser' /\ call'.at = "user" /\ failed' = "none"
    BY <1>1, <1>4, <2>1, Returned DEF InUser
  <2>3. PICK b \in Bodies : buf = [before.buf EXCEPT ![p] = Own(b)]
    BY <1>3, <1>4, <2>1 DEF ChangedBuf
  <2>4. ~A!deadlock(p, dest) /\ ~A!Accepts(dest, p)
    BY <1>3, <1>4, <2>1 DEF Known
  <2>5. /\ p_flags = before.p_flags /\ p_msg = before.p_msg
        /\ p_recvfrom = before.p_recvfrom
    BY <1>4, <2>1 DEF Changed
  <2>6. \A d \in Procs : QueueOf(d)' = IF d = dest THEN Append(QueueOf(d), p) ELSE QueueOf(d)
    BY <1>1, <1>3, <1>8, AppendsSound
  <2>7. [d \in Procs |-> QueueOf(d)'] = [before.q_sending EXCEPT ![dest] = Append(@, p)]
    BY <1>4, <2>6 DEF Untouched
  <2>8. A!SendBlocks(p, dest, b)
    BY <1>3, <1>4, <1>5, <2>1, <2>2, <2>3, <2>4, <2>5, <2>7
       DEF A!SendBlocks, Seen, Own, Untouched
  <2>. QED  BY <1>3, <2>2, <2>8 DEF Quiet, A!msg_send
<1>. QED  BY <1>6, <1>7, <1>8

\* The sender that msg_receive finds: the one Ipc takes, in the state that is
\* asserted of it.
LEMMA PicksRight ==
    ASSUME SoundInv, Quiet, ~nested, At("pick")
    PROVE  /\ p_from = NULL => \A x \in Procs : ~A!Offers(call.p, call.party, x)
           /\ p_from # NULL => /\ p_from \in Procs /\ A!Offers(call.p, call.party, p_from)
                               /\ ReceiveAsserts
<1>1. Typed /\ TypeOK /\ Calling /\ Fields /\ Linked /\ call \in Calls
      /\ NULL \notin Procs /\ NO_TASK \notin Procs /\ ANY \notin Procs /\ INTERRUPT \notin Procs
      /\ ANY # INTERRUPT
  BY IpcStepsAssumption DEF SoundInv, Typed
<1>2. call.at = "pick" /\ call.at \in ReceivePoints /\ call.at # "user"
  BY DEF At, ReceivePoints
<1>3. PICK p \in Procs, q \in Sources : p = call.p /\ q = call.party
  BY <1>1, <1>2 DEF Calling, Calls
<1>4. BeforeTyped /\ Untouched /\ Changed
  BY <1>2 DEF Quiet, Begun
<1>5. before.p_flags = p_flags /\ before.p_recvfrom = p_recvfrom
  BY <1>2, <1>4 DEF Changed
<1>6. \A from : A!Offers(p, q, from) <=>
          IF q = ANY THEN QueueOf(p) # <<>> /\ from = Head(QueueOf(p))
          ELSE from = q /\ Sending(from) /\ p_sendto[from] = p
  BY <1>2, <1>4, <1>5, SeenBefore
<1>7. PICK l : l = QueueOf(p)
  OBVIOUS
<1>8. /\ l \in Seq(Procs) /\ q_sending[p] = Nth(l, 1)
      /\ \A x \in Procs : A!Lists(l, x) <=> Sending(x) /\ p_sendto[x] = p
  BY <1>1, <1>7 DEF Linked, Chain
<1>9. /\ q_sending[p] = NULL <=> l = <<>>
      /\ q_sending[p] # NULL => /\ q_sending[p] = Head(l) /\ q_sending[p] \in Procs
                                /\ Sending(q_sending[p]) /\ p_sendto[q_sending[p]] = p
  <2>1. CASE l = <<>>
    BY <1>8, <2>1 DEF Nth
  <2>2. CASE l # <<>>
    <3>1. 1 \in 1..Len(l) /\ l[1] \in Procs /\ Head(l) = l[1]
      BY <1>8, <2>2
    <3>2. q_sending[p] = l[1] /\ A!Lists(l, l[1])
      BY <1>8, <3>1 DEF Nth, A!Lists
    <3>. QED  BY <1>1, <1>8, <2>2, <3>1, <3>2
  <2>. QED  BY <2>1, <2>2
<1>10. ASSUME p_from = NULL, NEW x \in Procs  PROVE ~A!Offers(p, q, x)
  <2>1. CASE q = ANY
    BY <1>1, <1>3, <1>6, <1>7, <1>9, <1>10, <2>1 DEF p_from
  <2>2. CASE q \in Procs
    <3>1. ~(Sending(q) /\ p_sendto[q] = p)
      BY <1>1, <1>3, <1>10, <2>2 DEF p_from
    <3>. QED  BY <1>1, <1>6, <2>2, <3>1
  <2>3. CASE q = INTERRUPT
    BY <1>1, <1>6, <2>3
  <2>. QED  BY <2>1, <2>2, <2>3 DEF Sources
<1>11. ASSUME p_from # NULL
       PROVE  /\ p_from \in Procs /\ Sending(p_from) /\ p_sendto[p_from] = p
              /\ A!Offers(p, q, p_from)
  <2>1. CASE q = ANY
    <3>1. p_from = q_sending[p]
      BY <1>1, <1>3, <2>1 DEF p_from
    <3>. QED  BY <1>6, <1>7, <1>9, <1>11, <2>1, <3>1
  <2>2. CASE q \in Procs
    <3>1. p_from = q /\ Sending(q) /\ p_sendto[q] = p
      BY <1>1, <1>3, <1>11, <2>2 DEF p_from
    <3>. QED  BY <1>1, <1>6, <2>2, <3>1
  <2>3. CASE q = INTERRUPT
    BY <1>1, <1>3, <1>11, <2>3 DEF p_from
  <2>. QED  BY <2>1, <2>2, <2>3 DEF Sources
<1>12. ASSUME p_from # NULL  PROVE ReceiveAsserts
  <2>1. PICK f \in Procs : f = p_from
    BY <1>11, <1>12
  <2>2. Sending(f) /\ p_sendto[f] = p
    BY <1>11, <1>12, <2>1
  <2>3. /\ p_flags[f] = {"SENDING"} /\ p_msg[f] /\ p_recvfrom[f] = NO_TASK
    BY <1>1, <1>2, <2>2 DEF Fields, FieldsOf, Receiving
  <2>4. Runnable(p) /\ ~Sending(p) /\ ~Receiving(p)
    BY <1>1, <1>2, <1>3 DEF Calling, Runnable, Sending, Receiving
  <2>5. ~p_msg[p] /\ p_sendto[p] = NO_TASK /\ p_recvfrom[p] = NO_TASK
    BY <1>1, <1>2, <2>4 DEF Fields, FieldsOf
  <2>6. q_sending[p] # NULL
    <3>1. A!Lists(l, f)
      BY <1>8, <2>2
    <3>2. l # <<>>
      BY <3>1 DEF A!Lists
    <3>. QED  BY <1>9, <3>2
  <2>. QED  BY <1>3, <2>1, <2>2, <2>3, <2>4, <2>5, <2>6 DEF ReceiveAsserts
<1>. QED  BY <1>3, <1>10, <1>11, <1>12

LEMMA ReceiveQuiet ==
    ASSUME SoundInv, Quiet, ~nested, UNCHANGED nested,
           ReceiveTests \/ ReceivePicks \/ ReceiveFlags \/ ReceiveSetsMsg \/ ReceiveSetsFrom
    PROVE  Quiet' /\ UNCHANGED A!vars
<1>1. Typed /\ TypeOK /\ Calling /\ Fields /\ call \in Calls
  BY DEF SoundInv, Typed
<1>2. /\ call.at \in {"receive", "pick", "flag", "msg", "from"} /\ call.at # "user" /\ Up
      /\ call.at \in ReceivePoints
      /\ UNCHANGED <<queues, p_sendto, has_int_msg, panicked>>
  BY DEF ReceiveTests, ReceivePicks, ReceiveFlags, ReceiveSetsMsg, ReceiveSetsFrom, At, fields,
     ReceivePoints
<1>3. BeforeTyped /\ Untouched /\ Changed /\ ChangedBuf /\ Known /\ failed = "none"
  BY <1>2 DEF Quiet, Begun
<1>4. A!sys_sendrec(call.p, call.party) /\ buf = [before.buf EXCEPT ![call.p] = Own(EMPTY)]
  BY <1>2, <1>3 DEF Known, Up, ChangedBuf
<1>5. ASSUME NEW point \in ReceivePoints, GoOn(point)
      PROVE  /\ call'.at = point /\ call'.p = call.p /\ call'.party = call.party
             /\ call'.from = call.from /\ UNCHANGED <<before, failed>>
             /\ call'.at # "user"
  BY <1>1, <1>5, GoneOn DEF GoOn, ReceivePoints
<1>6. ASSUME call'.at \in ReceivePoints \ {"taken"}, call'.p = call.p, call'.party = call.party,
             UNCHANGED <<before, failed>>
      PROVE  /\ BeforeTyped' /\ Untouched' /\ failed' = "none" /\ UNCHANGED A!vars
             /\ A!sys_sendrec(call.p, call.party)'
             /\ A!IntReady(call.p, call.party)' <=> A!IntReady(call.p, call.party)
             /\ \A x \in Procs : A!Offers(call.p, call.party, x)' <=> A!Offers(call.p, call.party, x)
  <2>1. call'.at # "user"
    BY <1>6 DEF ReceivePoints
  <2>. QED  BY <1>2, <1>4, <1>6, <2>1, GoesOnQuiet
<1>7. ASSUME call'.at \in ReceivePoints \ {"taken"}, call'.p = call.p, UNCHANGED <<before, buf>>
      PROVE  ChangedBuf'
  BY <1>4, <1>7 DEF ChangedBuf, Own, ReceivePoints
<1>8. CASE ReceiveTests
  <2>1. PICK point \in {"take_int", "pick"} :
           /\ GoOn(point)
           /\ point = "take_int" <=> has_int_msg[call.p] /\ call.party \in {ANY, INTERRUPT}
    BY <1>8 DEF ReceiveTests
  <2>2. call.at = "receive" /\ UNCHANGED fields /\ point \in ReceivePoints
    BY <1>8 DEF ReceiveTests, At, ReceivePoints
  <2>3. before.p_flags = p_flags /\ before.p_recvfrom = p_recvfrom
    BY <1>3, <2>2 DEF Changed
  <2>4. A!IntReady(call.p, call.party) <=> point = "take_int"
    BY <1>2, <1>3, <2>1, <2>3, SeenBefore
  <2>5. Changed' /\ ChangedBuf'
    BY <1>3, <1>5, <1>7, <2>1, <2>2 DEF Changed, fields
  <2>6. Known'
    BY <1>5, <1>6, <2>1, <2>2, <2>4 DEF Known
  <2>. QED  BY <1>5, <1>6, <2>1, <2>2, <2>5, <2>6 DEF Quiet, Begun
<1>9. CASE ReceivePicks
  <2>1. At("pick") /\ call.at = "pick" /\ UNCHANGED fields /\ ~A!IntReady(call.p, call.party)
    BY <1>3, <1>9 DEF ReceivePicks, At, Known
  <2>2. CASE p_from = NULL
    <3>1. GoOn("flag") /\ "flag" \in ReceivePoints
      BY <1>9, <2>2 DEF ReceivePicks, ReceivePoints
    <3>2. \A x \in Procs : ~A!Offers(call.p, call.party, x)
      BY <2>1, <2>2, PicksRight
    <3>3. Changed' /\ ChangedBuf'
      BY <1>3, <1>5, <1>7, <2>1, <3>1 DEF Changed, fields
    <3>4. Known'
      BY <1>5, <1>6, <2>1, <3>1, <3>2 DEF Known
    <3>. QED  BY <1>5, <1>6, <3>1, <3>3, <3>4 DEF Quiet, Begun
  <2>3. CASE p_from # NULL
    <3>1. p_from \in Procs /\ A!Offers(call.p, call.party, p_from) /\ ReceiveAsserts
      BY <2>1, <2>3, PicksRight
    <3>2. /\ call' = [call EXCEPT !.at = "unlink", !.from = p_from]
          /\ UNCHANGED <<before, failed>>
      BY <1>9, <2>3, <3>1 DEF ReceivePicks
    <3>3. /\ call'.at = "unlink" /\ call'.p = call.p /\ call'.party = call.party
          /\ call'.from = p_from /\ call'.at \in ReceivePoints
      BY <1>1, <3>2 DEF Calls, ReceivePoints
    <3>4. Changed' /\ ChangedBuf'
      BY <1>3, <1>7, <2>1, <3>2, <3>3 DEF Changed, fields
    <3>5. PICK f \in Procs : f = p_from
      BY <3>1
    <3>6. A!Offers(call.p, call.party, f)'
      BY <1>6, <3>1, <3>2, <3>3, <3>5
    <3>7. A!Offers(call.p, call.party, call.from)'
      BY <3>3, <3>5, <3>6 DEF A!Offers, A!Sending
    <3>8. Known'
      BY <1>6, <2>1, <3>2, <3>3, <3>7 DEF Known
    <3>. QED  BY <1>6, <3>2, <3>3, <3>4, <3>8 DEF Quiet, Begun
  <2>. QED  BY <2>2, <2>3
<1>10. CASE ~ReceiveTests /\ ~ReceivePicks
  <2>1. call.at \in {"flag", "msg", "from"}
    BY <1>10 DEF ReceiveFlags, ReceiveSetsMsg, ReceiveSetsFrom, At
  <2>2. ~A!IntReady(call.p, call.party) /\ \A x \in Procs : ~A!Offers(call.p, call.party, x)
    BY <1>3, <2>1 DEF Known
  <2>3. ASSUME NEW point \in {"msg", "from", "block"}, GoOn(point)
        PROVE  /\ BeforeTyped' /\ Untouched' /\ failed' = "none" /\ UNCHANGED A!vars /\ Known'
               /\ call'.at = point /\ call'.p = call.p /\ call'.party = call.party
               /\ UNCHANGED before /\ call'.at \in ReceivePoints
    <3>1. point \in ReceivePoints
      BY DEF ReceivePoints
    <3>2. Known'
      BY <1>5, <1>6, <2>2, <2>3, <3>1 DEF Known
    <3>. QED  BY <1>5, <1>6, <2>3, <3>1, <3>2
  <2>4. CASE ReceiveFlags
    <3>1. /\ GoOn("msg") /\ call.at = "flag" /\ UNCHANGED <<p_msg, p_recvfrom, buf>>
          /\ p_flags' = [p_flags EXCEPT ![call.p] = @ \cup {"RECEIVING"}]
      BY <2>4 DEF ReceiveFlags, At
    <3>2. Changed' /\ ChangedBuf'
      BY <1>3, <1>7, <2>3, <3>1 DEF Changed
    <3>. QED  BY <2>3, <3>1, <3>2 DEF Quiet, Begun
  <2>5. CASE ReceiveSetsMsg
    <3>1. /\ GoOn("from") /\ call.at = "msg" /\ UNCHANGED <<p_flags, p_recvfrom, buf>>
          /\ p_msg' = [p_msg EXCEPT ![call.p] = TRUE]
      BY <2>5 DEF ReceiveSetsMsg, At
    <3>2. Changed' /\ ChangedBuf'
      BY <1>3, <1>7, <2>3, <3>1 DEF Changed
    <3>. QED  BY <2>3, <3>1, <3>2 DEF Quiet, Begun
  <2>6. CASE ReceiveSetsFrom
    <3>1. /\ GoOn("block") /\ call.at = "from" /\ UNCHANGED <<p_flags, p_msg, buf>>
          /\ p_recvfrom' = [p_recvfrom EXCEPT ![call.p] = call.party]
      BY <2>6 DEF ReceiveSetsFrom, At
    <3>2. Changed' /\ ChangedBuf'
      BY <1>3, <1>7, <2>3, <3>1 DEF Changed
    <3>. QED  BY <2>3, <3>1, <3>2 DEF Quiet, Begun
  <2>. QED  BY <1>10, <2>4, <2>5, <2>6
<1>. QED  BY <1>8, <1>9, <1>10

\* The copy of a latched interrupt is the first of the two steps of ReceiveInt.
LEMMA IntQuiet ==
    ASSUME SoundInv, Quiet, ~nested, UNCHANGED nested, ReceiveInt
    PROVE  Quiet' /\ UNCHANGED A!vars
<1>1. Typed /\ TypeOK /\ Calling /\ call \in Calls
  BY DEF SoundInv, Typed
<1>2. /\ call.at = "take_int" /\ call.at \in ReceivePoints /\ "taken" \in ReceivePoints /\ Up
      /\ buf' = [buf EXCEPT ![call.p] = IntMsg]
      /\ has_int_msg' = [has_int_msg EXCEPT ![call.p] = FALSE]
      /\ GoOn("taken")
      /\ UNCHANGED <<p_flags, p_msg, p_recvfrom, p_sendto, queues, panicked>>
  BY DEF ReceiveInt, At, ReceivePoints
<1>3. PICK p \in Procs, q \in Sources : p = call.p /\ q = call.party
  BY <1>1, <1>2 DEF Calling, Calls
<1>4. /\ call'.at = "taken" /\ call'.p = p /\ call'.party = q
      /\ UNCHANGED <<before, failed>>
  BY <1>1, <1>2, <1>3, GoneOn DEF GoOn
<1>5. BeforeTyped /\ Untouched /\ Changed /\ ChangedBuf /\ Known /\ failed = "none"
  BY <1>2 DEF Quiet, Begun
<1>6. ~InUser /\ ~InUser'
  BY <1>2, <1>4 DEF InUser, NoCall
<1>7. A!sys_sendrec(p, q) /\ A!IntReady(p, q)
  BY <1>2, <1>3, <1>5 DEF Known, Up
<1>8. A!sys_sendrec(p, q)' /\ A!IntReady(p, q)' /\ UNCHANGED A!vars
  BY <1>2, <1>4, <1>6, <1>7, StaysKnown
<1>9. A!sys_sendrec(call.p, call.party)' /\ A!IntReady(call.p, call.party)'
  BY <1>4, <1>8 DEF A!sys_sendrec, A!IntReady, A!Runnable, A!Free
<1>10. BeforeTyped' /\ Changed'
  BY <1>2, <1>4, <1>5 DEF BeforeTyped, Changed
<1>11. Untouched'
  <2>1. \A d \in Procs : QueueOf(d)' = QueueOf(d)
    BY <1>2, QueuesSame
  <2>. QED  BY <1>2, <1>3, <1>4, <1>5, <2>1 DEF Untouched
<1>12. ChangedBuf'
  <2>1. buf = [before.buf EXCEPT ![p] = Own(EMPTY)]
    BY <1>2, <1>3, <1>5 DEF ChangedBuf
  <2>2. buf' = [before.buf EXCEPT ![p] = IntMsg]
    BY <1>2, <1>3, <1>5, <2>1 DEF BeforeTyped
  <2>. QED  BY <1>4, <2>2 DEF ChangedBuf, IntMsg
<1>13. Known'
  BY <1>4, <1>9 DEF Known
<1>. QED  BY <1>4, <1>5, <1>8, <1>10, <1>11, <1>12, <1>13 DEF Quiet, Begun

LEMMA ReceiveEnds ==
    ASSUME SoundInv, Quiet, ~nested, UNCHANGED nested, ReceiveIntDone \/ ReceiveTakes \/ ReceiveBlocks
    PROVE  Quiet' /\ A!msg_receive(call.p, call.party)
<1>1. Typed /\ TypeOK /\ Calling /\ Fields /\ Linked /\ call \in Calls /\ IsFiniteSet(Procs)
  BY IpcStepsAssumption DEF SoundInv, Typed
<1>2. /\ call.at \in {"taken", "unlink", "block"} /\ call.at # "user" /\ Up
      /\ call.at \in ReceivePoints
  BY DEF ReceiveIntDone, ReceiveTakes, ReceiveBlocks, At, ReceivePoints
<1>3. PICK p \in Procs, q \in Sources : p = call.p /\ q = call.party /\ p # q
  BY <1>1, <1>2 DEF Calling, Calls
<1>4. BeforeTyped /\ Untouched /\ Changed /\ ChangedBuf /\ Known /\ failed = "none" /\ ~InUser
  BY <1>2 DEF Quiet, Begun, InUser, NoCall
<1>5. /\ A!sys_sendrec(p, q) /\ ~panicked
      /\ call.at # "taken" => buf = [before.buf EXCEPT ![p] = Own(EMPTY)]
  BY <1>2, <1>3, <1>4 DEF Known, Up, ChangedBuf
<1>6. CASE ReceiveIntDone
  <2>1. call.at = "taken" /\ UNCHANGED <<fields, queues, panicked>>
    BY <1>3, <1>6 DEF ReceiveIntDone, At
  <2>2. Runnable(p) /\ ~Sending(p) /\ ~Receiving(p)
    BY <1>1, <1>3, <2>1 DEF Calling, Runnable, Sending, Receiving
  <2>3. ~p_msg[p] /\ p_sendto[p] = NO_TASK
    BY <1>1, <1>3, <2>2 DEF Fields, FieldsOf
  <2>a. has_int_msg = [before.has_int_msg EXCEPT ![p] = FALSE]
    BY <1>3, <1>4, <2>1 DEF Untouched
  <2>b. ~has_int_msg[p]
    BY <1>1, <1>3, <2>a DEF TypeOK
  <2>4. Return
    BY <1>3, <1>6, <2>2, <2>3, <2>b DEF ReceiveIntDone
  <2>5. InUser' /\ call'.at = "user" /\ failed' = "none"
    BY <1>1, <1>4, <2>4, Returned DEF InUser
  <2>6. A!IntReady(p, q)
    BY <1>3, <1>4, <2>1 DEF Known
  <2>7. /\ p_flags = before.p_flags /\ p_msg = before.p_msg /\ p_recvfrom = before.p_recvfrom
    BY <1>4, <2>1 DEF Changed
  <2>8. before.q_sending = [d \in Procs |-> QueueOf(d)']
    BY <1>4, <2>1, QueuesSame DEF Untouched
  <2>9. buf = [before.buf EXCEPT ![p] = A!IntMsg]
    BY <1>3, <1>4, <2>1 DEF ChangedBuf, IntMsg, A!IntMsg
  <2>c. p_sendto = before.p_sendto
    BY <1>4 DEF Untouched
  <2>d. /\ p_flags' = before.p_flags /\ p_msg' = before.p_msg /\ p_recvfrom' = before.p_recvfrom
        /\ p_sendto' = before.p_sendto /\ panicked' = panicked
        /\ has_int_msg' = [before.has_int_msg EXCEPT ![p] = FALSE]
        /\ buf' = [before.buf EXCEPT ![p] = A!IntMsg]
    BY <2>1, <2>7, <2>9, <2>a, <2>c DEF fields
  <2>e. InUser' /\ ~nested' /\ ~InUser
    BY <1>4, <2>5
  <2>10. A!ReceiveInt(p, q)
    <3>. HIDE DEF A!IntMsg
    <3>. QED  BY <1>5, <2>6, <2>8, <2>d, <2>e DEF A!ReceiveInt, Seen
  <2>. QED  BY <1>3, <2>5, <2>10 DEF Quiet, A!msg_receive
<1>7. CASE ReceiveTakes
  <2>1. PICK from \in Procs : from = call.from /\ Sending(from) /\ p_sendto[from] = p
    BY <1>1, <1>3, <1>7 DEF ReceiveTakes, At, Calling
  <2>2. /\ call.at = "unlink"
        /\ p_msg' = [p_msg EXCEPT ![from] = FALSE]
        /\ p_sendto' = [p_sendto EXCEPT ![from] = NO_TASK]
        /\ p_flags' = [p_flags EXCEPT ![from] = @ \ {"SENDING"}]
        /\ buf' = [buf EXCEPT ![p] = buf[from]]
        /\ Return
        /\ UNCHANGED <<p_recvfrom, has_int_msg, panicked>>
    BY <1>3, <1>7, <2>1, TakeReturns DEF ReceiveTakes, At
  <2>3. InUser' /\ call'.at = "user" /\ failed' = "none"
    BY <1>1, <1>4, <2>2, Returned DEF InUser
  <2>4. ~A!IntReady(p, q) /\ A!Offers(p, q, from)
    BY <1>3, <1>4, <2>1, <2>2 DEF Known
  <2>5. /\ p_flags = before.p_flags /\ p_msg = before.p_msg /\ p_recvfrom = before.p_recvfrom
    BY <1>4, <2>2 DEF Changed
  <2>a. call.at # "taken"
    BY <2>2
  <2>b. /\ buf = [before.buf EXCEPT ![p] = Own(EMPTY)]
        /\ has_int_msg = before.has_int_msg /\ p_sendto = before.p_sendto
        /\ before.q_sending = [d \in Procs |-> QueueOf(d)]
    BY <1>4, <1>5, <2>a DEF Untouched
  <2>6. from # p
    <3>1. ~Sending(p)
      BY <1>1, <1>3, <2>2 DEF Calling, Runnable, Sending
    <3>. QED  BY <2>1, <3>1
  <2>7. buf' = [before.buf EXCEPT ![p] = before.buf[from]]
    BY <1>4, <2>2, <2>6, <2>b DEF BeforeTyped
  <2>8. \A d \in Procs : QueueOf(d)' = IF d = p THEN A!Without(QueueOf(d), from) ELSE QueueOf(d)
    BY <1>1, <1>3, <1>7, <2>1, TakesSound
  <2>9. [d \in Procs |-> QueueOf(d)'] = [before.q_sending EXCEPT ![p] = A!Without(@, from)]
    BY <1>4, <2>8 DEF Untouched
  <2>c. p_recvfrom' = before.p_recvfrom /\ has_int_msg' = before.has_int_msg /\ panicked' = panicked
        /\ p_msg' = [before.p_msg EXCEPT ![from] = FALSE]
        /\ p_sendto' = [before.p_sendto EXCEPT ![from] = NO_TASK]
        /\ p_flags' = [before.p_flags EXCEPT ![from] = @ \ {"SENDING"}]
    BY <2>2, <2>5, <2>b
  <2>d. InUser' /\ ~nested' /\ ~InUser
    BY <1>4, <2>3
  <2>10. A!ReceiveFrom(p, q, from)
    BY <1>5, <2>4, <2>7, <2>9, <2>c, <2>d DEF A!ReceiveFrom, Seen
  <2>. QED  BY <1>3, <2>3, <2>10 DEF Quiet, A!msg_receive
<1>8. CASE ReceiveBlocks
  <2>1. call.at = "block" /\ UNCHANGED <<fields, queues, panicked>>
    BY <1>8 DEF ReceiveBlocks, At
  <2>2. /\ p_flags = [before.p_flags EXCEPT ![p] = @ \cup {"RECEIVING"}]
        /\ p_msg = [before.p_msg EXCEPT ![p] = TRUE]
        /\ p_recvfrom = [before.p_recvfrom EXCEPT ![p] = q]
    BY <1>3, <1>4, <2>1 DEF Changed
  <2>3. ~Runnable(p)
    BY <1>4, <2>2 DEF BeforeTyped, Runnable
  <2>4. Return
    BY <1>3, <1>8, <2>3 DEF ReceiveBlocks
  <2>5. InUser' /\ call'.at = "user" /\ failed' = "none"
    BY <1>1, <1>4, <2>4, Returned DEF InUser
  <2>6. ~A!IntReady(p, q) /\ \A x \in Procs : ~A!Offers(p, q, x)
    BY <1>3, <1>4, <2>1 DEF Known
  <2>7. before.q_sending = [d \in Procs |-> QueueOf(d)']
    BY <1>4, <2>1, QueuesSame DEF Untouched
  <2>a. call.at # "taken" /\ Own(EMPTY) = [source |-> p, body |-> EMPTY]
    BY <1>3, <2>1 DEF Own
  <2>b. /\ buf = [before.buf EXCEPT ![p] = [source |-> p, body |-> EMPTY]]
        /\ has_int_msg = before.has_int_msg /\ p_sendto = before.p_sendto
    BY <1>4, <1>5, <2>a DEF Untouched
  <2>c. /\ p_flags' = [before.p_flags EXCEPT ![p] = @ \cup {"RECEIVING"}]
        /\ p_msg' = [before.p_msg EXCEPT ![p] = TRUE]
        /\ p_recvfrom' = [before.p_recvfrom EXCEPT ![p] = q]
        /\ buf' = [before.buf EXCEPT ![p] = [source |-> p, body |-> EMPTY]]
        /\ has_int_msg' = before.has_int_msg /\ p_sendto' = before.p_sendto
        /\ panicked' = panicked
    BY <2>1, <2>2, <2>b DEF fields
  <2>d. InUser' /\ ~nested' /\ ~InUser
    BY <1>4, <2>5
  <2>8. A!ReceiveBlocks(p, q)
    BY <1>3, <1>5, <2>6, <2>7, <2>c, <2>d DEF A!ReceiveBlocks, Seen
  <2>. QED  BY <1>3, <2>5, <2>8 DEF Quiet, A!msg_receive
<1>. QED  BY <1>6, <1>7, <1>8

\* Between two calls the table is what Ipc sees.
LEMMA InformQuiet ==
    ASSUME SoundInv, Quiet, ~nested, UNCHANGED nested, NEW t \in Procs, inform_int(t)
    PROVE  Quiet' /\ A!inform_int(t)
<1>1. Typed /\ TypeOK /\ Fields
  BY DEF SoundInv, Typed
<1>2. /\ Up /\ InUser /\ InUser' /\ call.at = "user" /\ call'.at = "user"
      /\ UNCHANGED <<p_sendto, queues, panicked, call, before, failed>>
  BY InformSound DEF inform_int, InUser, NoCall
<1>3. Quiet'
  BY <1>2 DEF Quiet
<1>4. [d \in Procs |-> QueueOf(d)'] = [d \in Procs |-> QueueOf(d)]
  BY <1>2, QueuesSame
<1>5. A!AcceptsInt(t) <=> AcceptsInt(t)
  BY <1>2 DEF A!AcceptsInt, A!Receiving, AcceptsInt, Receiving, Seen
<1>6. CASE AcceptsInt(t)
  <2>1. p_msg[t]
    BY <1>1, <1>2, <1>6, IpcStepsAssumption DEF AcceptsInt, Fields, FieldsOf
  <2>2. /\ buf' = [buf EXCEPT ![t].source = INTERRUPT, ![t].body = HARD_INT]
        /\ p_msg' = [p_msg EXCEPT ![t] = FALSE]
        /\ has_int_msg' = [has_int_msg EXCEPT ![t] = FALSE]
        /\ p_flags' = [p_flags EXCEPT ![t] = @ \ {"RECEIVING"}]
        /\ p_recvfrom' = [p_recvfrom EXCEPT ![t] = NO_TASK]
    BY <1>6, <2>1 DEF inform_int
  <2>3. buf' = [buf EXCEPT ![t] = A!IntMsg]
    <3>1. buf[t] \in [source : Procs \cup {INTERRUPT}, body : Contents]
      BY <1>1 DEF Typed, Messages
    <3>2. [buf[t] EXCEPT !.source = INTERRUPT, !.body = HARD_INT] = A!IntMsg
      <4>1. PICK m : m = buf[t]
        OBVIOUS
      <4>2. PICK r : r = [m EXCEPT !.source = INTERRUPT, !.body = HARD_INT]
        OBVIOUS
      <4>3. /\ r \in [source : Procs \cup {INTERRUPT}, body : Contents]
            /\ r.source = INTERRUPT /\ r.body = HARD_INT
        BY <3>1, <4>1, <4>2 DEF Contents
      <4>4. r = [source |-> INTERRUPT, body |-> HARD_INT]
        BY ONLY <4>3
      <4>. QED  BY <4>1, <4>2, <4>4 DEF A!IntMsg
    <3>3. [buf EXCEPT ![t].source = INTERRUPT, ![t].body = HARD_INT]
             = [buf EXCEPT ![t] = [buf[t] EXCEPT !.source = INTERRUPT, !.body = HARD_INT]]
      BY <1>1, <3>1 DEF Typed
    <3>. QED  BY <2>2, <3>2, <3>3
  <2>4. A!InformWakes(t)
    BY <1>2, <1>4, <1>5, <1>6, <2>2, <2>3 DEF A!InformWakes, Seen, Up
  <2>. QED  BY <1>3, <2>4 DEF A!inform_int
<1>7. CASE ~AcceptsInt(t)
  <2>1. /\ has_int_msg' = [has_int_msg EXCEPT ![t] = TRUE]
        /\ UNCHANGED <<p_flags, p_msg, p_recvfrom, buf>>
    BY <1>7 DEF inform_int
  <2>2. A!InformLatches(t)
    BY <1>2, <1>4, <1>5, <1>7, <2>1 DEF A!InformLatches, Seen, Up
  <2>. QED  BY <1>3, <2>2 DEF A!inform_int
<1>. QED  BY <1>6, <1>7

LEMMA AbortQuiet ==
    ASSUME SoundInv, Quiet, ~nested, UNCHANGED nested, NEW target \in Procs,
           abort_ipc(target), IsFiniteSet(Procs)
    PROVE  Quiet' /\ A!abort_ipc(target)
<1>1. Typed /\ TypeOK /\ Fields /\ Linked /\ NO_TASK \notin Procs
  BY IpcStepsAssumption DEF SoundInv, Typed
<1> DEFINE sender(x)   == Sending(x) /\ p_sendto[x] = target
           receiver(x) == x # target /\ Receiving(x) /\ p_recvfrom[x] = target
<1>2. /\ ~Free(target) /\ Up /\ call = NoCall /\ Runnable(MM)
      /\ \A x \in Procs :
            /\ p_flags'[x] = IF x = target THEN {"RECEIVING"}
                             ELSE IF sender(x) \/ receiver(x) THEN {} ELSE p_flags[x]
            /\ p_sendto'[x] = IF sender(x) \/ x = target THEN NO_TASK ELSE p_sendto[x]
            /\ p_recvfrom'[x] = IF receiver(x) \/ x = target THEN NO_TASK ELSE p_recvfrom[x]
            /\ p_msg'[x] = IF sender(x) \/ receiver(x) \/ x = target THEN FALSE ELSE p_msg[x]
            /\ buf'[x] = IF receiver(x) /\ p_msg[x]
                         THEN [buf[x] EXCEPT !.body = SYSCALL_RET] ELSE buf[x]
            /\ next_sending'[x] =
                  IF sender(x) \/ x = target THEN NULL
                  ELSE IF Sending(target) /\ x = prev(p_sendto[target], target)
                  THEN next_sending[target] ELSE next_sending[x]
            /\ q_sending'[x] =
                  IF x = target THEN NULL
                  ELSE IF Sending(target) /\ x = p_sendto[target] /\ q_sending[x] = target
                  THEN next_sending[target] ELSE q_sending[x]
      /\ p_flags' = [x \in Procs |-> p_flags'[x]]
      /\ p_sendto' = [x \in Procs |-> p_sendto'[x]]
      /\ p_recvfrom' = [x \in Procs |-> p_recvfrom'[x]]
      /\ p_msg' = [x \in Procs |-> p_msg'[x]]
      /\ buf' = [x \in Procs |-> buf'[x]]
      /\ has_int_msg' = [has_int_msg EXCEPT ![target] = FALSE]
      /\ UNCHANGED <<panicked, call, before, failed>>
  BY AbortSteps
<1>. HIDE DEF sender, receiver
<1>3. /\ InUser /\ InUser' /\ call.at = "user" /\ call'.at = "user"
  BY <1>2 DEF InUser, NoCall
<1>4. Quiet'
  BY <1>2, <1>3 DEF Quiet
<1>5. \A d \in Procs :
         QueueOf(d)' = IF d = target THEN <<>>
                       ELSE IF Sending(target) /\ p_sendto[target] = d
                       THEN A!Without(QueueOf(d), target) ELSE QueueOf(d)
  BY AbortSound
<1>6. PICK senders, receivers :
         senders = A!AbortedSenders(target) /\ receivers = A!AbortedReceivers(target)
  OBVIOUS
<1>7. ASSUME NEW x \in Procs
      PROVE  /\ x \in senders <=> sender(x)
             /\ x \in receivers <=> receiver(x)
             /\ sender(x) => p_flags[x] = {"SENDING"}
             /\ receiver(x) => p_flags[x] = {"RECEIVING"} /\ p_msg[x]
  <2>1. A!Lists(QueueOf(target), x) <=> Sending(x) /\ p_sendto[x] = target
    BY <1>1 DEF Linked
  <2>2. x \in ToSet(QueueOf(target)) <=> A!Lists(QueueOf(target), x)
    <3>1. QueueOf(target) \in Seq(Procs)
      BY <1>1 DEF Linked, Chain
    <3>. QED  BY <3>1 DEF ToSet, A!Lists
  <2>3. senders = ToSet(QueueOf(target))
                    \cup {p \in Procs \ {target} : Sending(p) /\ p_sendto[p] = target}
    BY <1>3, <1>6 DEF A!AbortedSenders, A!Sending, A!ToSet, ToSet, Seen, Sending
  <2>4. receivers = {p \in Procs \ {target} : Receiving(p) /\ p_recvfrom[p] = target}
    BY <1>3, <1>6 DEF A!AbortedReceivers, A!Receiving, Seen, Receiving
  <2>5. FieldsOf(x)
    BY <1>1 DEF Fields
  <2>6. receiver(x) => p_flags[x] = {"RECEIVING"} /\ p_msg[x]
    BY <1>1, <1>3, <2>5 DEF FieldsOf, receiver
  <2>. QED  BY <2>1, <2>2, <2>3, <2>4, <2>5, <2>6 DEF sender, receiver, FieldsOf
<1>8. p_flags' = [x \in Procs |-> IF x = target THEN {"RECEIVING"}
                      ELSE p_flags[x] \ ((IF x \in senders THEN {"SENDING"} ELSE {})
                                    \cup (IF x \in receivers THEN {"RECEIVING"} ELSE {}))]
  <2>1. ASSUME NEW x \in Procs
        PROVE  p_flags'[x] = IF x = target THEN {"RECEIVING"}
                      ELSE p_flags[x] \ ((IF x \in senders THEN {"SENDING"} ELSE {})
                                    \cup (IF x \in receivers THEN {"RECEIVING"} ELSE {}))
    <3>1. p_flags'[x] = IF x = target THEN {"RECEIVING"}
                        ELSE IF sender(x) \/ receiver(x) THEN {} ELSE p_flags[x]
      BY <1>2
    <3>. QED  BY <1>7, <3>1
  <2>2. p_flags' = [x \in Procs |-> p_flags'[x]]
    BY <1>2
  <2>. QED  BY <2>1, <2>2
<1>9. p_sendto' = [x \in Procs |-> IF x \in senders \cup {target} THEN NO_TASK ELSE p_sendto[x]]
  BY <1>2, <1>7
<1>10. p_recvfrom' = [x \in Procs |-> IF x \in receivers \cup {target} THEN NO_TASK
                                                                    ELSE p_recvfrom[x]]
  BY <1>2, <1>7
<1>11. p_msg' = [x \in Procs |-> IF x \in (senders \cup receivers) \cup {target} THEN FALSE
                                                                         ELSE p_msg[x]]
  BY <1>2, <1>7
<1>12. buf' = [x \in Procs |-> IF x \in receivers THEN [buf[x] EXCEPT !.body = SYSCALL_RET]
                                                  ELSE buf[x]]
  BY <1>2, <1>7
<1>13. [d \in Procs |-> QueueOf(d)'] =
          [d \in Procs |-> IF d = target THEN <<>>
                           ELSE IF Sending(target) /\ p_sendto[target] = d
                           THEN A!Without([e \in Procs |-> QueueOf(e)][d], target)
                           ELSE [e \in Procs |-> QueueOf(e)][d]]
  BY <1>5
<1>14. A!abort_ipc(target)
  <2>1. /\ A!Runnable(MM) /\ ~A!Free(target) /\ (A!Sending(target) <=> Sending(target))
    BY <1>2, <1>3 DEF A!Runnable, A!Free, A!Sending, Runnable, Free, Sending, Seen
  <2>. QED  BY <1>2, <1>3, <1>6, <1>8, <1>9, <1>10, <1>11, <1>12, <1>13, <2>1
            DEF A!abort_ipc, Seen, Up
<1>. QED  BY <1>4, <1>14

-----------------------------------------------------------------------------
LEMMA InitQuiet == ASSUME Init  PROVE Quiet
BY DEF Init, Quiet, NoCall

LEMMA StepQuiet ==
    ASSUME SoundInv, Quiet, [Next]_vars
    PROVE  Quiet'
<1>1. IsFiniteSet(Procs) /\ IntTasks \subseteq Procs /\ UNCHANGED nested
  BY IpcStepsAssumption DEF Next, vars
<1>2. CASE nested
  BY <1>1, <1>2 DEF Quiet
<1>3. CASE ~nested /\ UNCHANGED vars
  <2>1. UNCHANGED <<fields, queues, panicked, nested, call, before, failed>>
    BY <1>3 DEF vars
  <2>2. CASE call.at = "user"
    BY <1>3, <2>1, <2>2 DEF Quiet
  <2>3. CASE call.at # "user"
    <3>1. BeforeTyped' /\ Untouched' /\ failed' = "none"
      BY <1>3, <2>1, <2>3, GoesOnQuiet DEF fields
    <3>2. Changed' /\ ChangedBuf'
      BY <1>3, <2>1, <2>3 DEF Quiet, Begun, Changed, ChangedBuf, Own, fields
    <3>3. Known'
      <4>1. /\ A!sys_sendrec(call.p, call.party)' <=> A!sys_sendrec(call.p, call.party)
            /\ A!deadlock(call.p, call.party)' <=> A!deadlock(call.p, call.party)
            /\ A!Accepts(call.party, call.p)' <=> A!Accepts(call.party, call.p)
            /\ A!IntReady(call.p, call.party)' <=> A!IntReady(call.p, call.party)
            /\ \A x \in Procs : A!Offers(call.p, call.party, x)' <=> A!Offers(call.p, call.party, x)
        BY <1>3, <2>1, <2>3, GoesOnQuiet DEF fields
      <4>2. A!Offers(call.p, call.party, call.from)' <=> A!Offers(call.p, call.party, call.from)
        <5>1. PICK p, q, f : p = call.p /\ q = call.party /\ f = call.from
          OBVIOUS
        <5>2. ~InUser /\ ~InUser'
          BY <2>1, <2>3 DEF InUser, NoCall
        <5>3. A!Offers(p, q, f)' <=> A!Offers(p, q, f)
          BY <1>3, <2>1, <5>2, StaysKnown
        <5>. QED  BY <2>1, <5>1, <5>3 DEF A!Offers, A!Sending
      <4>. QED  BY <1>3, <2>1, <2>3, <4>1, <4>2 DEF Quiet, Known
    <3>. QED  BY <3>1, <3>2, <3>3 DEF Quiet, Begun
  <2>. QED  BY <2>2, <2>3
<1>4. CASE ~nested /\ Next
  <2>1. CASE \E p \in Procs : sys_sendrec(p)
    BY <1>1, <1>4, <2>1, EnterQuiet
  <2>2. CASE msg_send
    BY <1>1, <1>4, <2>2, SendQuiet, SendEnds DEF msg_send
  <2>3. CASE msg_receive
    BY <1>1, <1>4, <2>3, ReceiveQuiet, IntQuiet, ReceiveEnds DEF msg_receive
  <2>4. CASE \E t \in IntTasks : inform_int(t)
    BY <1>1, <1>4, <2>4, InformQuiet
  <2>5. CASE \E target \in Procs \ Native : abort_ipc(target)
    BY <1>1, <1>4, <2>5, AbortQuiet
  <2>. QED  BY <1>4, <2>1, <2>2, <2>3, <2>4, <2>5 DEF Next
<1>. QED  BY <1>2, <1>3, <1>4

\* The invariant: the lists are sound at every point of a call, and without
\* interrupts inside it the table differs from what it was when the call began
\* by exactly the assignments made so far.
LEMMA StepsInvariant == Spec => []StepsInv
<1>1. Init => StepsInv
  BY InitSound, InitQuiet, IpcStepsAssumption DEF StepsInv
<1>2. StepsInv /\ [Next]_vars => StepsInv'
  BY StepSound, StepQuiet DEF StepsInv
<1>. QED  BY <1>1, <1>2, PTL DEF Spec

\* In a system whose interrupts wait until a kernel call has ended, none of the
\* assertions about the process table in msg_send, msg_receive, block, unblock and
\* inform_int ever fails, for any number of processes.
THEOREM AssertionsAlwaysHold == Spec => []AssertionsHold
<1>1. StepsInv => AssertionsHold
  BY DEF StepsInv, Quiet, AssertionsHold
<1>. QED  BY <1>1, StepsInvariant, PTL

LEMMA StepImplements ==
    ASSUME StepsInv, [Next]_vars
    PROVE  [A!Next]_(A!vars)
<1>1. IsFiniteSet(Procs) /\ IntTasks \subseteq Procs /\ UNCHANGED nested
  BY IpcStepsAssumption DEF Next, vars
<1>2. SoundInv /\ Quiet
  BY DEF StepsInv
<1>3. CASE nested
  BY <1>1, <1>3 DEF A!vars, Seen, Each
<1>4. CASE ~nested /\ UNCHANGED vars
  <2>1. UNCHANGED <<fields, queues, panicked, nested, call, before>>
    BY <1>4 DEF vars
  <2>2. [d \in Procs |-> QueueOf(d)'] = [d \in Procs |-> QueueOf(d)]
    BY <2>1, QueuesSame
  <2>. QED  BY <1>4, <2>1, <2>2 DEF A!vars, Seen, InUser, fields
<1>5. CASE ~nested /\ \E p \in Procs : sys_sendrec(p)
  <2>1. PICK p \in Procs : sys_sendrec(p)
    BY <1>5
  <2>2. /\ InUser /\ call'.at # "user"
        /\ before' = [p_flags |-> p_flags, p_msg |-> p_msg,
                      p_recvfrom |-> p_recvfrom, p_sendto |-> p_sendto,
                      has_int_msg |-> has_int_msg, buf |-> buf,
                      q_sending |-> [d \in Procs |-> QueueOf(d)]]
        /\ UNCHANGED panicked
    BY <2>1 DEF sys_sendrec, Enter
  <2>3. ~InUser'
    BY <2>2 DEF InUser, NoCall
  <2>. QED  BY <1>1, <1>5, <2>2, <2>3 DEF A!vars, Seen
<1>6. CASE ~nested /\ msg_send
  <2>1. CASE SendPanics \/ SendDone \/ SendAppends
    <3>1. PICK b \in Bodies : A!msg_send(call.p, call.party, b)
      BY <1>1, <1>2, <1>6, <2>1, SendEnds
    <3>2. call.at \in SendPoints
      BY <2>1 DEF SendPanics, SendDone, SendAppends, At, SendPoints
    <3>3. PICK p \in Procs, dest \in Procs : p = call.p /\ dest = call.party
      BY <1>2, <3>2 DEF SoundInv, Calling, SendPoints
    <3>4. A!msg_send(p, dest, b)
      BY <3>1, <3>3
    <3>. QED  BY <3>4 DEF A!Next
  <2>2. CASE ~(SendPanics \/ SendDone \/ SendAppends)
    BY <1>1, <1>2, <1>6, <2>2, SendQuiet DEF msg_send
  <2>. QED  BY <2>1, <2>2
<1>7. CASE ~nested /\ msg_receive
  <2>1. CASE ReceiveIntDone \/ ReceiveTakes \/ ReceiveBlocks
    <3>1. A!msg_receive(call.p, call.party)
      BY <1>1, <1>2, <1>7, <2>1, ReceiveEnds
    <3>2. call.at \in ReceivePoints /\ call.at # "user"
      BY <2>1 DEF ReceiveIntDone, ReceiveTakes, ReceiveBlocks, At, ReceivePoints
    <3>3. PICK p \in Procs, q \in Sources : p = call.p /\ q = call.party
      BY <1>2, <3>2 DEF SoundInv, Typed, Calling, Calls
    <3>4. A!msg_receive(p, q)
      BY <3>1, <3>3
    <3>5. q \in A!Sources
      BY DEF A!Sources, Sources
    <3>. QED  BY <3>4, <3>5 DEF A!Next
  <2>2. CASE ~(ReceiveIntDone \/ ReceiveTakes \/ ReceiveBlocks)
    BY <1>1, <1>2, <1>7, <2>2, ReceiveQuiet, IntQuiet DEF msg_receive
  <2>. QED  BY <2>1, <2>2
<1>8. CASE ~nested /\ \E t \in IntTasks : inform_int(t)
  <2>1. PICK t \in IntTasks : inform_int(t)
    BY <1>8
  <2>2. A!inform_int(t)
    BY <1>1, <1>2, <1>8, <2>1, InformQuiet
  <2>. QED  BY <2>2 DEF A!Next
<1>9. CASE ~nested /\ \E target \in Procs \ Native : abort_ipc(target)
  <2>1. PICK target \in Procs \ Native : abort_ipc(target)
    BY <1>9
  <2>2. A!abort_ipc(target)
    BY <1>1, <1>2, <1>9, <2>1, AbortQuiet
  <2>. QED  BY <2>2 DEF A!Next
<1>. QED  BY <1>3, <1>4, <1>5, <1>6, <1>7, <1>8, <1>9 DEF Next

LEMMA InitImplements == ASSUME Init  PROVE A!Init
<1>1. InUser /\ call = NoCall
  BY DEF Init, InUser
<1>2. IsFiniteSet(Procs)
  BY IpcStepsAssumption
<1>3. [d \in Procs |-> QueueOf(d)] = [d \in Procs |-> <<>>]
  <2>1. ASSUME NEW d \in Procs  PROVE QueueOf(d) = <<>>
    <3>1. Chain(q_sending[d], next_sending, <<>>)
      BY EmptyChain DEF Init
    <3>. QED  BY <1>2, <3>1, ListIs
  <2>. QED  BY <2>1
<1>4. CASE nested
  <2>1. [p \in Procs |-> IF p \in Native \cup {} THEN {} ELSE {"FREE_SLOT"}]
           = [p \in Procs |-> IF p \in Native THEN {} ELSE {"FREE_SLOT"}]
    OBVIOUS
  <2>2. {} \in SUBSET (Procs \ Native)
    OBVIOUS
  <2>. QED  BY <1>4, <2>1, <2>2 DEF A!Init, Seen, Each, Init
<1>5. CASE ~nested
  BY <1>1, <1>3, <1>5 DEF A!Init, Seen, Init
<1>. QED  BY <1>4, <1>5

\* A kernel call with interrupts held off is one atomic step: the statements
\* of msg_send and msg_receive on the linked list, the interrupts between the
\* calls and abort_ipc implement Ipc, for any number of processes.
THEOREM IpcImplemented == Spec => ImplementsIpc
<1>1. Init => A!Init
  BY InitImplements
<1>2. StepsInv /\ [Next]_vars => [A!Next]_(A!vars)
  BY StepImplements
<1>. QED  BY <1>1, <1>2, StepsInvariant, PTL DEF Spec, ImplementsIpc, A!Spec
=============================================================================
