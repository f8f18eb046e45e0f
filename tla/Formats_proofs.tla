----------------------------- MODULE Formats_proofs -----------------------------
(***************************************************************************)
(* Proofs about Formats.  Folds and flattened sequences come first: they   *)
(* are recursive, and what they compute is shown by induction over the     *)
(* set of numbers for which it holds.                                      *)
(***************************************************************************)
EXTENDS Formats, FiniteSetTheorems, FunctionTheorems, SequenceTheorems,
        WellFoundedInduction, TLAPS

(***************************************************************************)
(* Induction over the natural numbers, about a set                         *)
(***************************************************************************)

(* A set of numbers that has 0 and each successor has them all.            *)
LEMMA NatInd ==
    ASSUME NEW S \in SUBSET Nat, 0 \in S, \A n \in S : n + 1 \in S
    PROVE  S = Nat
  <1> SUFFICES ASSUME Nat \ S # {} PROVE FALSE
    OBVIOUS
  <1> DEFINE R == OpToRel(<, Nat)
  <1>1. IsWellFoundedOn(R, Nat)
    BY NatLessThanWellFounded
  <1>2. PICK n \in Nat \ S : \A m \in Nat \ S : ~(<<m, n>> \in R)
    <2> HIDE DEF R
    <2> QED BY <1>1, WFMin
  <1>3. \A m \in Nat \ S : ~(m < n)
    BY <1>2 DEF OpToRel
  <1>4. n - 1 \in Nat
    OBVIOUS
  <1>5. n - 1 \in S
    BY <1>3, <1>4
  <1> QED BY <1>5

(***************************************************************************)
(* Folds of a step function st \in [X \X T -> X]                           *)
(***************************************************************************)

IsStep(st, X, T) == st \in [X \X T -> X]

(* The states a fold goes through.                                         *)
IsRun(run, st, base, seq) ==
    /\ DOMAIN run = 0 .. Len(seq)
    /\ run[0] = base
    /\ \A i \in 1 .. Len(seq) : run[i] = st[<<run[i - 1], seq[i]>>]

Run(st, base, seq) == CHOOSE run : IsRun(run, st, base, seq)
Fold(st, base, seq) == Run(st, base, seq)[Len(seq)]

(* Two runs are the same.                                                  *)
LEMMA RunUnique ==
    ASSUME NEW st, NEW base, NEW seq, Len(seq) \in Nat,
           NEW r, NEW s, IsRun(r, st, base, seq), IsRun(s, st, base, seq)
    PROVE  \A i \in 0 .. Len(seq) : r[i] = s[i]
  <1> DEFINE Q == {n \in Nat : n <= Len(seq) => r[n] = s[n]}
  <1>1. 0 \in Q
    BY DEF IsRun
  <1>2. \A n \in Q : n + 1 \in Q
    <2> SUFFICES ASSUME NEW n \in Q, n + 1 <= Len(seq) PROVE r[n + 1] = s[n + 1]
      OBVIOUS
    <2>1. r[n] = s[n] /\ n + 1 \in 1 .. Len(seq) /\ n + 1 - 1 = n
      OBVIOUS
    <2>2. r[n + 1] = st[<<r[n], seq[n + 1]>>] /\ s[n + 1] = st[<<s[n], seq[n + 1]>>]
      BY <2>1 DEF IsRun
    <2> QED BY <2>1, <2>2
  <1>3. Q = Nat
    <2> HIDE DEF Q
    <2> QED BY <1>1, <1>2, NatInd DEF Q
  <1> QED BY <1>3

(* There is a run, and it stays within X.                                  *)
LEMMA RunExists ==
    ASSUME NEW X, NEW T, NEW st, IsStep(st, X, T), NEW base \in X, NEW seq \in Seq(T)
    PROVE  \E run \in [0 .. Len(seq) -> X] : IsRun(run, st, base, seq)
  <1> USE DEF IsStep
  <1> DEFINE Upto(n, run) == /\ run[0] = base
                             /\ \A i \in 1 .. n : run[i] = st[<<run[i - 1], seq[i]>>]
             P(n) == n <= Len(seq) => \E run \in [0 .. n -> X] : Upto(n, run)
             Q == {n \in Nat : P(n)}
  <1>1. P(0)
    <2>1. [i \in 0 .. 0 |-> base] \in [0 .. 0 -> X] /\ Upto(0, [i \in 0 .. 0 |-> base])
      OBVIOUS
    <2> QED BY <2>1
  <1>2. ASSUME NEW n \in Nat, P(n), n + 1 <= Len(seq)
        PROVE  \E run \in [0 .. n + 1 -> X] : Upto(n + 1, run)
    <2>0. n <= Len(seq)
      BY <1>2
    <2>1. PICK run \in [0 .. n -> X] : Upto(n, run)
      BY <1>2, <2>0
    <2> DEFINE new == [i \in 0 .. n + 1 |->
                         IF i = n + 1 THEN st[<<run[n], seq[n + 1]>>] ELSE run[i]]
    <2>2. seq[n + 1] \in T /\ run[n] \in X
      BY <1>2, ElementOfSeq
    <2>3. new \in [0 .. n + 1 -> X]
      BY <2>2
    <2>4. Upto(n + 1, new)
      <3>1. new[0] = base
        BY <2>1
      <3>2. ASSUME NEW i \in 1 .. n + 1 PROVE new[i] = st[<<new[i - 1], seq[i]>>]
        <4>1. CASE i = n + 1
          <5>1. i - 1 = n /\ n \in 0 .. n + 1 /\ n # n + 1 /\ i \in 0 .. n + 1
            BY <4>1
          <5>2. new[i - 1] = run[n] /\ new[i] = st[<<run[n], seq[n + 1]>>]
            BY <5>1, <4>1
          <5> QED BY <5>2, <4>1
        <4>2. CASE i # n + 1
          <5>1. i \in 1 .. n /\ i - 1 \in 0 .. n /\ i - 1 # n + 1 /\ i \in 0 .. n + 1
            BY <4>2
          <5> QED BY <5>1, <2>1
        <4> QED BY <4>1, <4>2
      <3> QED BY <3>1, <3>2
    <2> HIDE DEF new, Upto
    <2> QED BY <2>3, <2>4
  <1>3. ASSUME NEW n \in Nat, P(n) PROVE P(n + 1)
    BY <1>2, <1>3
  <1>4. Q = Nat
    <2> HIDE DEF P
    <2>1. 0 \in Q /\ \A n \in Q : n + 1 \in Q
      BY <1>1, <1>3
    <2> QED BY <2>1, NatInd
  <1>5. Len(seq) \in Nat /\ Len(seq) <= Len(seq)
    OBVIOUS
  <1>6. P(Len(seq))
    <2> HIDE DEF P
    <2> QED BY <1>4, <1>5
  <1>7. PICK run \in [0 .. Len(seq) -> X] : Upto(Len(seq), run)
    <2> HIDE DEF Upto
    <2> QED BY <1>5, <1>6
  <1> QED BY <1>7 DEF IsRun

(* Any run shows what the fold is.                                         *)
LEMMA FoldIs ==
    ASSUME NEW st, NEW base, NEW seq, Len(seq) \in Nat,
           NEW run, IsRun(run, st, base, seq)
    PROVE  Fold(st, base, seq) = run[Len(seq)]
  <1>1. IsRun(Run(st, base, seq), st, base, seq)
    BY DEF Run
  <1> QED BY <1>1, RunUnique DEF Fold

LEMMA FoldType ==
    ASSUME NEW X, NEW T, NEW st, IsStep(st, X, T), NEW base \in X, NEW seq \in Seq(T)
    PROVE  /\ Fold(st, base, seq) \in X
           /\ IsRun(Run(st, base, seq), st, base, seq)
           /\ \A i \in 0 .. Len(seq) : Run(st, base, seq)[i] \in X
  <1>1. PICK run \in [0 .. Len(seq) -> X] : IsRun(run, st, base, seq)
    BY RunExists
  <1>2. IsRun(Run(st, base, seq), st, base, seq)
    BY <1>1 DEF Run
  <1>3. Len(seq) \in Nat
    OBVIOUS
  <1>4. \A i \in 0 .. Len(seq) : Run(st, base, seq)[i] = run[i]
    BY <1>1, <1>2, <1>3, RunUnique
  <1> QED BY <1>2, <1>3, <1>4 DEF Fold

LEMMA FoldEmpty ==
    ASSUME NEW st, NEW base
    PROVE  Fold(st, base, <<>>) = base
  <1> DEFINE run == [i \in 0 .. 0 |-> base]
  <1>1. IsRun(run, st, base, <<>>)
    BY DEF IsRun
  <1>2. Fold(st, base, <<>>) = run[Len(<<>>)]
    BY <1>1, FoldIs, Len(<<>>) \in Nat
  <1> QED BY <1>2

LEMMA FoldConcat ==
    ASSUME NEW X, NEW T, NEW st, IsStep(st, X, T), NEW base \in X,
           NEW s \in Seq(T), NEW t \in Seq(T)
    PROVE  Fold(st, base, s \o t) = Fold(st, Fold(st, base, s), t)
  <1> DEFINE m == Len(s)
             n == Len(t)
             r == Run(st, base, s)
             q == Run(st, r[m], t)
             run == [i \in 0 .. m + n |-> IF i <= m THEN r[i] ELSE q[i - m]]
  <1>1. /\ m \in Nat /\ n \in Nat /\ s \o t \in Seq(T) /\ Len(s \o t) = m + n
        /\ \A i \in 1 .. m : (s \o t)[i] = s[i]
        /\ \A i \in 1 .. n : (s \o t)[m + i] = t[i]
    OBVIOUS
  <1>2. IsRun(r, st, base, s) /\ r[m] \in X /\ Fold(st, base, s) = r[m]
    BY FoldType DEF Fold
  <1>3. IsRun(q, st, r[m], t) /\ Fold(st, r[m], t) = q[n]
    BY <1>2, FoldType DEF Fold
  <1> HIDE DEF r, q
  <1>4. IsRun(run, st, base, s \o t)
    <2>1. DOMAIN run = 0 .. Len(s \o t) /\ run[0] = base
      BY <1>1, <1>2 DEF IsRun
    <2>2. ASSUME NEW i \in 1 .. Len(s \o t)
          PROVE  run[i] = st[<<run[i - 1], (s \o t)[i]>>]
      <3> HIDE DEF m, n
      <3>1. CASE i <= m
        <4>1. i \in 1 .. m /\ i \in 0 .. m + n /\ i - 1 \in 0 .. m + n /\ i - 1 <= m
          BY <3>1, <1>1
        <4> QED BY <4>1, <1>1, <1>2, <3>1 DEF IsRun, m
      <3>2. CASE i = m + 1
        <4>1. /\ i \in 0 .. m + n /\ m \in 0 .. m + n /\ i - 1 = m /\ ~(i <= m)
              /\ 1 \in 1 .. n /\ i - m = 1 /\ m <= m
          BY <3>2, <1>1
        <4>2. run[i] = q[1] /\ run[i - 1] = r[m] /\ (s \o t)[i] = t[1]
          BY <4>1, <3>2, <1>1
        <4>3. q[1] = st[<<q[0], t[1]>>] /\ q[0] = r[m]
          BY <4>1, <1>3, 1 - 1 = 0 DEF IsRun, n
        <4> QED BY <4>2, <4>3
      <3>3. CASE i > m + 1
        <4> DEFINE j == i - m
        <4>1. /\ i \in 0 .. m + n /\ i - 1 \in 0 .. m + n /\ ~(i <= m) /\ ~(i - 1 <= m)
              /\ j \in 1 .. n /\ (i - 1) - m = j - 1 /\ m + j = i
          BY <3>3, <1>1
        <4>2. run[i] = q[j] /\ run[i - 1] = q[j - 1] /\ (s \o t)[i] = t[j]
          BY <4>1, <1>1
        <4>3. q[j] = st[<<q[j - 1], t[j]>>]
          BY <4>1, <1>3 DEF IsRun, n
        <4> QED BY <4>2, <4>3
      <3>4. i <= m \/ i = m + 1 \/ i > m + 1
        BY <1>1
      <3> HIDE DEF run
      <3> QED BY <3>1, <3>2, <3>3, <3>4
    <2> QED BY <2>1, <2>2 DEF IsRun
  <1>5. Fold(st, base, s \o t) = run[m + n]
    <2> HIDE DEF run
    <2>0. Len(s \o t) \in Nat
      BY <1>1
    <2>1. Fold(st, base, s \o t) = run[Len(s \o t)]
      BY <2>0, <1>4, FoldIs
    <2> QED BY <2>1, <1>1
  <1>6. run[m + n] = q[n]
    <2>1. CASE n = 0
      BY <2>1, <1>1, <1>3 DEF IsRun
    <2>2. CASE n # 0
      BY <2>2, <1>1
    <2> QED BY <2>1, <2>2
  <1> QED BY <1>2, <1>3, <1>5, <1>6

LEMMA FoldOne ==
    ASSUME NEW X, NEW T, NEW st, IsStep(st, X, T), NEW base \in X, NEW x \in T
    PROVE  Fold(st, base, <<x>>) = st[<<base, x>>]
  <1> DEFINE run == [i \in 0 .. 1 |-> IF i = 0 THEN base ELSE st[<<base, x>>]]
  <1>1. Len(<<x>>) = 1 /\ <<x>>[1] = x
    OBVIOUS
  <1>2. IsRun(run, st, base, <<x>>)
    BY <1>1 DEF IsRun
  <1>3. Fold(st, base, <<x>>) = run[1]
    BY <1>1, <1>2, FoldIs
  <1> QED BY <1>3

(* Append is one step more.                                                *)
LEMMA FoldAppend ==
    ASSUME NEW X, NEW T, NEW st, IsStep(st, X, T), NEW base \in X,
           NEW s \in Seq(T), NEW x \in T
    PROVE  Fold(st, base, Append(s, x)) = st[<<Fold(st, base, s), x>>]
  <1> DEFINE t == <<x>>
  <1>1. t \in Seq(T)
    OBVIOUS
  <1>2. Fold(st, base, s) \in X
    BY FoldType
  <1>3. Fold(st, base, s \o t) = Fold(st, Fold(st, base, s), t)
    <2> HIDE DEF t
    <2> QED BY <1>1, FoldConcat
  <1> DEFINE b == Fold(st, base, s)
  <1>4. Fold(st, b, <<x>>) = st[<<b, x>>]
    <2> HIDE DEF b
    <2> QED BY <1>2, FoldOne DEF b
  <1>5. Append(s, x) = s \o t
    BY <1>1
  <1> QED BY <1>1, <1>3, <1>4, <1>5

(***************************************************************************)
(* FoldLeft is a fold                                                      *)
(***************************************************************************)

LEMMA MaxUpto ==
    ASSUME NEW n \in Nat \ {0}
    PROVE  Max(1 .. n) = n
  BY DEF Max

(* The greatest of some numbers up to n + 1.                               *)
LEMMA MaxOfSome ==
    ASSUME NEW n \in Nat, NEW S \in SUBSET (1 .. n + 1), n + 1 \in S
    PROVE  Max(S) = n + 1 /\ S \ {Max(S)} \in SUBSET (1 .. n)
  <1>1. \A y \in S : n + 1 >= y
    OBVIOUS
  <1>2. \A x \in S : (\A y \in S : x >= y) => x = n + 1
    <2> SUFFICES ASSUME NEW x \in S, \A y \in S : x >= y PROVE x = n + 1
      OBVIOUS
    <2>1. x >= n + 1 /\ x \in 1 .. n + 1
      OBVIOUS
    <2> QED BY <2>1
  <1>3. Max(S) = n + 1
    BY <1>1, <1>2 DEF Max
  <1> QED BY <1>3

(* A function over the subsets of the positions that steps like st, within *)
(* X or as long as it stays there.                                         *)
IsSetFold(f, X, st, base, seq) ==
    /\ f \in [SUBSET (1 .. Len(seq)) -> X]
    /\ f[{}] = base
    /\ \A S \in SUBSET (1 .. Len(seq)) :
          S # {} => /\ Max(S) \in 1 .. Len(seq)
                    /\ f[S] = st[<<f[S \ {Max(S)}], seq[Max(S)]>>]

StepsOn(f, X, st, base, seq) ==
    /\ f[{}] = base
    /\ \A S \in SUBSET (1 .. Len(seq)) :
          S # {} /\ f[S \ {Max(S)}] \in X =>
             f[S] = st[<<f[S \ {Max(S)}], seq[Max(S)]>>]

(* FoldLeft computes over the subsets of the positions.                    *)
LEMMA SetFoldExists ==
    ASSUME NEW X, NEW T, NEW st, IsStep(st, X, T), NEW base \in X, NEW seq \in Seq(T)
    PROVE  \E f : IsSetFold(f, X, st, base, seq)
  <1> USE DEF IsStep
  <1> DEFINE Is(n, f) ==
               /\ f[{}] = base
               /\ \A S \in SUBSET (1 .. n) :
                     S # {} => /\ Max(S) \in 1 .. n
                               /\ f[S] = st[<<f[S \ {Max(S)}], seq[Max(S)]>>]
             P(n) == n <= Len(seq) => \E f \in [SUBSET (1 .. n) -> X] : Is(n, f)
             Q == {n \in Nat : P(n)}
  <1>1. P(0)
    <2> DEFINE f == [S \in SUBSET (1 .. 0) |-> base]
    <2>1. f \in [SUBSET (1 .. 0) -> X] /\ Is(0, f)
      <3>1. \A S \in SUBSET (1 .. 0) : S = {}
        OBVIOUS
      <3>2. {} \in SUBSET (1 .. 0)
        OBVIOUS
      <3> QED BY <3>1, <3>2
    <2> QED BY <2>1
  <1>2. ASSUME NEW n \in Nat, P(n), n + 1 <= Len(seq)
        PROVE  \E f \in [SUBSET (1 .. n + 1) -> X] : Is(n + 1, f)
    <2>0. n <= Len(seq)
      BY <1>2
    <2>1. PICK f \in [SUBSET (1 .. n) -> X] : Is(n, f)
      BY <1>2, <2>0
    <2> DEFINE g == [S \in SUBSET (1 .. n + 1) |->
                       IF n + 1 \in S THEN st[<<f[S \ {n + 1}], seq[n + 1]>>] ELSE f[S]]
    <2>2. seq[n + 1] \in T
      BY <1>2, ElementOfSeq
    <2>3. \A S \in SUBSET (1 .. n + 1) :
             IF n + 1 \in S THEN S \ {n + 1} \in SUBSET (1 .. n) ELSE S \in SUBSET (1 .. n)
      OBVIOUS
    <2>4. g \in [SUBSET (1 .. n + 1) -> X]
      <3> SUFFICES ASSUME NEW S \in SUBSET (1 .. n + 1) PROVE g[S] \in X
        OBVIOUS
      <3> QED BY <2>2, <2>3
    <2>5. g[{}] = base
      <3>1. {} \in SUBSET (1 .. n + 1) /\ n + 1 \notin {}
        OBVIOUS
      <3> QED BY <3>1, <2>1
    <2>6. ASSUME NEW S \in SUBSET (1 .. n + 1), S # {}
          PROVE  Max(S) \in 1 .. n + 1 /\ g[S] = st[<<g[S \ {Max(S)}], seq[Max(S)]>>]
      <3>1. CASE n + 1 \in S
        <4>1. Max(S) = n + 1 /\ S \ {n + 1} \in SUBSET (1 .. n)
          BY <3>1, MaxOfSome
        <4>2. S \ {n + 1} \in SUBSET (1 .. n + 1) /\ n + 1 \notin S \ {n + 1}
          OBVIOUS
        <4>3. g[S \ {n + 1}] = f[S \ {n + 1}]
          BY <4>2
        <4> QED BY <3>1, <4>1, <4>3
      <3>2. CASE n + 1 \notin S
        <4>1. S \in SUBSET (1 .. n) /\ n + 1 \notin S \ {Max(S)}
          BY <3>2
        <4>0. S \ {Max(S)} \in SUBSET (1 .. n + 1)
          OBVIOUS
        <4>2. Max(S) \in 1 .. n /\ f[S] = st[<<f[S \ {Max(S)}], seq[Max(S)]>>]
          BY <4>1, <2>1, <2>6
        <4>3. g[S] = f[S] /\ g[S \ {Max(S)}] = f[S \ {Max(S)}]
          BY <4>0, <4>1, <3>2
        <4>4. Max(S) \in 1 .. n + 1
          BY <4>2
        <4> HIDE DEF g
        <4> QED BY <4>2, <4>3, <4>4
      <3> QED BY <3>1, <3>2
    <2> HIDE DEF g
    <2> QED BY <2>4, <2>5, <2>6
  <1>3. ASSUME NEW n \in Nat, P(n) PROVE P(n + 1)
    BY <1>2, <1>3
  <1>4. Q = Nat
    <2> HIDE DEF P
    <2>1. 0 \in Q /\ \A n \in Q : n + 1 \in Q
      BY <1>1, <1>3
    <2> QED BY <2>1, NatInd
  <1>5. Len(seq) \in Nat
    OBVIOUS
  <1>6. P(Len(seq))
    <2> HIDE DEF P
    <2> QED BY <1>4, <1>5
  <1>7. \E f \in [SUBSET (1 .. Len(seq)) -> X] : Is(Len(seq), f)
    <2>1. Len(seq) <= Len(seq)
      BY <1>5
    <2> HIDE DEF Is
    <2> QED BY <1>6, <2>1
  <1> QED BY <1>7 DEF IsSetFold

(* A function that steps like st on X ends where the fold does.            *)
LEMMA SetFoldIs ==
    ASSUME NEW X, NEW T, NEW st, IsStep(st, X, T), NEW base \in X, NEW seq \in Seq(T),
           NEW f, StepsOn(f, X, st, base, seq)
    PROVE  f[1 .. Len(seq)] = Fold(st, base, seq)
  <1> USE DEF StepsOn
  <1> DEFINE run == [i \in 0 .. Len(seq) |-> f[1 .. i]]
             P(n) == n <= Len(seq) =>
                       /\ run[n] \in X
                       /\ n # 0 => run[n] = st[<<run[n - 1], seq[n]>>]
             Q == {n \in Nat : P(n)}
  <1>0. Len(seq) \in Nat
    OBVIOUS
  <1>1. run[0] = base
    <2>1. 1 .. 0 = {} /\ 0 \in 0 .. Len(seq)
      OBVIOUS
    <2> QED BY <2>1
  <1>2. P(0)
    BY <1>1
  <1>3. ASSUME NEW n \in Nat, P(n), n + 1 <= Len(seq)
        PROVE  run[n + 1] \in X /\ run[n + 1] = st[<<run[n], seq[n + 1]>>]
    <2>1. Max(1 .. n + 1) = n + 1 /\ (1 .. n + 1) \ {n + 1} = 1 .. n
      BY MaxUpto
    <2>2. 1 .. n + 1 \in SUBSET (1 .. Len(seq)) /\ 1 .. n + 1 # {}
      <3>1. n + 1 \in 1 .. n + 1
        OBVIOUS
      <3>2. \A i \in 1 .. n + 1 : i \in 1 .. Len(seq)
        BY <1>0, <1>3
      <3> QED BY <3>1, <3>2
    <2>3. n \in 0 .. Len(seq) /\ n + 1 \in 0 .. Len(seq) /\ n + 1 \in 1 .. Len(seq)
      BY <1>0, <1>3
    <2>4. run[n] = f[1 .. n] /\ run[n + 1] = f[1 .. n + 1] /\ run[n] \in X
      BY <2>3, <1>3
    <2>5. seq[n + 1] \in T
      BY <2>3, ElementOfSeq
    <2> HIDE DEF run
    <2>6. run[n + 1] = st[<<run[n], seq[n + 1]>>]
      BY <2>1, <2>2, <2>4
    <2> QED BY <2>4, <2>5, <2>6 DEF IsStep
  <1>4. ASSUME NEW n \in Nat, P(n) PROVE P(n + 1)
    <2>1. n + 1 - 1 = n
      OBVIOUS
    <2> HIDE DEF run
    <2> QED BY <1>3, <1>4, <2>1
  <1>5. Q = Nat
    <2> HIDE DEF P
    <2>1. 0 \in Q /\ \A n \in Q : n + 1 \in Q
      BY <1>2, <1>4
    <2> QED BY <2>1, NatInd
  <1>6. IsRun(run, st, base, seq)
    <2>1. ASSUME NEW i \in 1 .. Len(seq) PROVE run[i] = st[<<run[i - 1], seq[i]>>]
      <3>1. i \in Nat /\ i <= Len(seq) /\ i # 0
        BY <1>0
      <3>2. P(i)
        <4> HIDE DEF P
        <4> QED BY <3>1, <1>5
      <3> HIDE DEF run
      <3> QED BY <3>1, <3>2
    <2> QED BY <1>1, <2>1 DEF IsRun
  <1>7. Fold(st, base, seq) = run[Len(seq)]
    <2> HIDE DEF run
    <2> QED BY <1>0, <1>6, FoldIs
  <1> QED BY <1>0, <1>7

(* The run up to some place is the fold up to there.                       *)
LEMMA FoldPrefix ==
    ASSUME NEW X, NEW T, NEW st, IsStep(st, X, T), NEW base \in X,
           NEW s \in Seq(T), NEW n \in 0 .. Len(s)
    PROVE  Fold(st, base, SubSeq(s, 1, n)) = Run(st, base, s)[n]
  <1> DEFINE r == Run(st, base, s)
             p == SubSeq(s, 1, n)
             run == [i \in 0 .. n |-> r[i]]
  <1>1. Len(p) = n /\ n \in Nat /\ \A i \in 1 .. n : p[i] = s[i] /\ i \in 1 .. Len(s)
    OBVIOUS
  <1>2. IsRun(r, st, base, s)
    BY FoldType
  <1> HIDE DEF r, p
  <1>3. IsRun(run, st, base, p)
    <2>1. ASSUME NEW i \in 1 .. n PROVE run[i] = st[<<run[i - 1], p[i]>>]
      <3>1. i \in 0 .. n /\ i - 1 \in 0 .. n /\ i \in 1 .. Len(s)
        OBVIOUS
      <3>2. r[i] = st[<<r[i - 1], s[i]>>]
        BY <3>1, <1>2 DEF IsRun
      <3> QED BY <3>1, <3>2, <1>1
    <2>2. run[0] = base
      BY <1>2 DEF IsRun
    <2> HIDE DEF run
    <2>3. DOMAIN run = 0 .. Len(p)
      BY <1>1 DEF run
    <2> QED BY <1>1, <2>1, <2>2, <2>3 DEF IsRun
  <1>4. Fold(st, base, p) = run[n]
    <2> HIDE DEF run
    <2> QED BY <1>1, <1>3, FoldIs
  <1> QED BY <1>4 DEF r, p

(***************************************************************************)
(* FlattenSeq is the fold of \o                                            *)
(***************************************************************************)

Cat(T) == [x \in Seq(T) \X Seq(T) |-> x[1] \o x[2]]

LEMMA CatStep ==
    ASSUME NEW T
    PROVE  /\ IsStep(Cat(T), Seq(T), Seq(T))
           /\ \A x, y \in Seq(T) : Cat(T)[<<x, y>>] = x \o y
  <1>1. ASSUME NEW x \in Seq(T) \X Seq(T) PROVE x[1] \o x[2] \in Seq(T)
    <2>1. x[1] \in Seq(T) /\ x[2] \in Seq(T)
      OBVIOUS
    <2> QED BY <2>1
  <1>2. IsStep(Cat(T), Seq(T), Seq(T))
    BY <1>1 DEF IsStep, Cat
  <1>3. ASSUME NEW x \in Seq(T), NEW y \in Seq(T) PROVE Cat(T)[<<x, y>>] = x \o y
    <2> DEFINE xy == <<x, y>>
    <2>1. xy \in Seq(T) \X Seq(T) /\ xy[1] = x /\ xy[2] = y
      OBVIOUS
    <2> HIDE DEF xy
    <2>2. Cat(T)[xy] = xy[1] \o xy[2]
      BY <2>1 DEF Cat
    <2> QED BY <2>1, <2>2 DEF xy
  <1> QED BY <1>2, <1>3

LEMMA FlattenIs ==
    ASSUME NEW T, NEW seqs \in Seq(Seq(T))
    PROVE  FlattenSeq(seqs) = Fold(Cat(T), <<>>, seqs)
  <1> DEFINE n == Len(seqs)
             r == Run(Cat(T), <<>>, seqs)
  <1>1. n \in Nat /\ \A i \in 1 .. n : seqs[i] \in Seq(T)
    OBVIOUS
  <1>2. <<>> \in Seq(T)
    OBVIOUS
  <1>3. /\ IsRun(r, Cat(T), <<>>, seqs) /\ Fold(Cat(T), <<>>, seqs) = r[n]
        /\ \A i \in 0 .. n : r[i] \in Seq(T)
    BY <1>2, CatStep, FoldType DEF Fold
  <1> HIDE DEF r
  <1>4. r[0] = <<>> /\ \A i \in 1 .. n : r[i] = r[i - 1] \o seqs[i]
    <2>1. \A i \in 1 .. n : i - 1 \in 0 .. n
      OBVIOUS
    <2> QED BY <1>1, <1>3, <2>1, CatStep DEF IsRun
  <1>5. CASE n = 0
    <2>1. seqs = <<>>
      BY <1>5
    <2> QED BY <2>1, <1>3, <1>4, <1>5 DEF FlattenSeq
  <1>6. CASE n # 0
    <2> DEFINE it == [i \in 1 .. n |-> r[i]]
    <2>1. it = [i \in 1 .. n |-> IF i = 1 THEN seqs[i] ELSE it[i - 1] \o seqs[i]]
      <3>1. ASSUME NEW i \in 1 .. n
            PROVE  r[i] = IF i = 1 THEN seqs[i] ELSE it[i - 1] \o seqs[i]
        <4>1. CASE i = 1
          <5>1. r[1] = r[0] \o seqs[1] /\ seqs[1] \in Seq(T)
            <6>1. 1 \in 1 .. n /\ 1 - 1 = 0
              BY <4>1
            <6>2. r[1] = r[1 - 1] \o seqs[1] /\ seqs[1] \in Seq(T)
              BY <1>1, <1>4, <6>1
            <6> QED BY <6>1, <6>2
          <5> QED BY <4>1, <5>1, <1>4
        <4>2. CASE i # 1
          <5>1. i - 1 \in 1 .. n
            BY <4>2
          <5> QED BY <4>2, <5>1, <1>4
        <4> QED BY <4>1, <4>2
      <3> QED BY <3>1
    <2> HIDE DEF it
    <2>2. PICK f : /\ f = [i \in 1 .. n |-> IF i = 1 THEN seqs[i]
                                            ELSE f[i - 1] \o seqs[i]]
                   /\ FlattenSeq(seqs) = f[n]
      BY <2>1, <1>6 DEF FlattenSeq
    <2>3. \A i \in 1 .. n : f[i] = IF i = 1 THEN seqs[i] ELSE f[i - 1] \o seqs[i]
      BY <2>2
    <2> DEFINE P(i) == i + 1 <= n => f[i + 1] = r[i + 1]
               Q == {i \in Nat : P(i)}
    <2>4. P(0)
      <3>1. r[1] = r[0] \o seqs[1] /\ seqs[1] \in Seq(T)
        <4>1. 1 \in 1 .. n /\ 1 - 1 = 0
          BY <1>1, <1>6
        <4>2. r[1] = r[1 - 1] \o seqs[1] /\ seqs[1] \in Seq(T)
          BY <1>1, <1>4, <4>1
        <4> QED BY <4>1, <4>2
      <3> QED BY <3>1, <2>3, <1>1, <1>4, <1>6
    <2>5. ASSUME NEW i \in Nat, P(i) PROVE P(i + 1)
      <3> SUFFICES ASSUME (i + 1) + 1 <= n PROVE f[(i + 1) + 1] = r[(i + 1) + 1]
        OBVIOUS
      <3>1. /\ (i + 1) + 1 \in 1 .. n /\ (i + 1) + 1 # 1 /\ i + 1 <= n
            /\ ((i + 1) + 1) - 1 = i + 1
        BY <1>1
      <3>2. f[(i + 1) + 1] = f[i + 1] \o seqs[(i + 1) + 1]
        BY <2>3, <3>1
      <3>3. r[(i + 1) + 1] = r[i + 1] \o seqs[(i + 1) + 1]
        BY <1>4, <3>1
      <3> QED BY <2>5, <3>1, <3>2, <3>3
    <2>6. Q = Nat
      <3> HIDE DEF P
      <3>1. 0 \in Q /\ \A i \in Q : i + 1 \in Q
        BY <2>4, <2>5
      <3> QED BY <3>1, NatInd
    <2>7. n - 1 \in Nat /\ (n - 1) + 1 = n /\ n <= n
      BY <1>1, <1>6
    <2>8. P(n - 1)
      <3> HIDE DEF P
      <3> QED BY <2>6, <2>7
    <2> QED BY <2>2, <2>7, <2>8, <1>3
  <1> QED BY <1>5, <1>6

LEMMA FlattenProperties ==
    ASSUME NEW T
    PROVE  /\ FlattenSeq(<<>>) = <<>>
           /\ \A s \in Seq(Seq(T)) : FlattenSeq(s) \in Seq(T)
           /\ \A s \in Seq(Seq(T)), x \in Seq(T) :
                 FlattenSeq(Append(s, x)) = FlattenSeq(s) \o x
  <1> DEFINE V == Seq(T)
             st == Cat(T)
  <1>0. <<>> \in V /\ <<>> \in Seq(V)
    OBVIOUS
  <1>1. IsStep(st, V, V) /\ \A x, y \in V : st[<<x, y>>] = x \o y
    BY CatStep
  <1>2. \A s \in Seq(V) : FlattenSeq(s) = Fold(st, <<>>, s)
    BY FlattenIs
  <1> HIDE DEF V, st
  <1>3. FlattenSeq(<<>>) = <<>>
    BY <1>0, <1>2, FoldEmpty
  <1>4. ASSUME NEW s \in Seq(V) PROVE FlattenSeq(s) \in V
    BY <1>0, <1>1, <1>2, FoldType
  <1>5. ASSUME NEW s \in Seq(V), NEW x \in V
        PROVE  FlattenSeq(Append(s, x)) = FlattenSeq(s) \o x
    <2>1. Append(s, x) \in Seq(V)
      OBVIOUS
    <2>2. Fold(st, <<>>, Append(s, x)) = st[<<Fold(st, <<>>, s), x>>]
      BY <1>0, <1>1, FoldAppend
    <2>3. FlattenSeq(Append(s, x)) = st[<<FlattenSeq(s), x>>]
      BY <2>1, <2>2, <1>2
    <2> QED BY <2>3, <1>1, <1>4
  <1> QED BY <1>3, <1>4, <1>5 DEF V

(* The text up to each chunk, and the whole text behind it.                *)
Upto(T, chunks) == Run(Cat(T), <<>>, chunks)

LEMMA UptoProperties ==
    ASSUME NEW T, NEW chunks \in Seq(Seq(T))
    PROVE  /\ Upto(T, chunks)[0] = <<>>
           /\ \A i \in 0 .. Len(chunks) :
                 /\ Upto(T, chunks)[i] \in Seq(T)
                 /\ Upto(T, chunks)[i] = FlattenSeq(SubSeq(chunks, 1, i))
           /\ \A i \in 1 .. Len(chunks) :
                 Upto(T, chunks)[i] = Upto(T, chunks)[i - 1] \o chunks[i]
           /\ FlattenSeq(chunks) = Upto(T, chunks)[Len(chunks)]
  <1> DEFINE r == Upto(T, chunks)
             n == Len(chunks)
  <1>0. <<>> \in Seq(T) /\ n \in Nat /\ \A i \in 1 .. n : chunks[i] \in Seq(T)
    OBVIOUS
  <1>1. /\ IsRun(r, Cat(T), <<>>, chunks) /\ Fold(Cat(T), <<>>, chunks) = r[n]
        /\ \A i \in 0 .. n : r[i] \in Seq(T)
    BY <1>0, CatStep, FoldType DEF Fold, Upto
  <1>2. ASSUME NEW i \in 0 .. n PROVE r[i] = FlattenSeq(SubSeq(chunks, 1, i))
    <2>1. SubSeq(chunks, 1, i) \in Seq(Seq(T))
      OBVIOUS
    <2>2. Fold(Cat(T), <<>>, SubSeq(chunks, 1, i)) = r[i]
      <3> DEFINE V == Seq(T)
      <3>1. chunks \in Seq(V) /\ <<>> \in V /\ IsStep(Cat(T), V, V)
        BY CatStep
      <3> HIDE DEF V
      <3> QED BY <3>1, FoldPrefix DEF Upto
    <2> QED BY <2>1, <2>2, FlattenIs
  <1> HIDE DEF r
  <1>3. r[0] = <<>> /\ \A i \in 1 .. n : r[i] = r[i - 1] \o chunks[i]
    <2>1. \A i \in 1 .. n : i - 1 \in 0 .. n
      OBVIOUS
    <2> QED BY <1>0, <1>1, <2>1, CatStep DEF IsRun
  <1>4. FlattenSeq(chunks) = r[n]
    BY <1>1, FlattenIs
  <1> QED BY <1>1, <1>2, <1>3, <1>4 DEF r

(* A fold over a text made of chunks goes from state to state of z.        *)
Passes(z, X, st, chunks) ==
    /\ \A i \in 0 .. Len(chunks) : z[i] \in X
    /\ \A i \in 1 .. Len(chunks) : Fold(st, z[i - 1], chunks[i]) = z[i]

LEMMA FoldChunks ==
    ASSUME NEW X, NEW T, NEW st, IsStep(st, X, T), NEW chunks \in Seq(Seq(T)),
           NEW z, Passes(z, X, st, chunks)
    PROVE  Fold(st, z[0], FlattenSeq(chunks)) = z[Len(chunks)]
  <1> USE DEF Passes
  <1> DEFINE n == Len(chunks)
             g == Upto(T, chunks)
             P(i) == i <= n => Fold(st, z[0], g[i]) = z[i]
             Q == {i \in Nat : P(i)}
  <1>0. n \in Nat /\ n <= n /\ \A i \in 1 .. n : chunks[i] \in Seq(T)
    OBVIOUS
  <1>1. /\ g[0] = <<>> /\ \A i \in 0 .. n : g[i] \in Seq(T)
        /\ \A i \in 1 .. n : g[i] = g[i - 1] \o chunks[i]
        /\ FlattenSeq(chunks) = g[n]
    BY UptoProperties
  <1> HIDE DEF g
  <1>2. P(0)
    BY <1>1, FoldEmpty
  <1>3. ASSUME NEW i \in Nat, P(i) PROVE P(i + 1)
    <2> SUFFICES ASSUME i + 1 <= n PROVE Fold(st, z[0], g[i + 1]) = z[i + 1]
      OBVIOUS
    <2>1. i \in 0 .. n /\ 0 \in 0 .. n /\ i + 1 \in 1 .. n /\ (i + 1) - 1 = i /\ i <= n
      BY <1>0
    <2>2. g[i + 1] = g[i] \o chunks[i + 1] /\ g[i] \in Seq(T) /\ chunks[i + 1] \in Seq(T)
      BY <1>0, <1>1, <2>1
    <2>3. Fold(st, z[0], g[i]) = z[i]
      BY <1>3, <2>1
    <2>4. z[0] \in X /\ Fold(st, z[i], chunks[i + 1]) = z[i + 1]
      BY <2>1
    <2>5. Fold(st, z[0], g[i] \o chunks[i + 1]) = Fold(st, Fold(st, z[0], g[i]), chunks[i + 1])
      BY <2>2, <2>4, FoldConcat
    <2> QED BY <2>2, <2>3, <2>4, <2>5
  <1>4. Q = Nat
    <2> HIDE DEF P
    <2>1. 0 \in Q /\ \A i \in Q : i + 1 \in Q
      BY <1>2, <1>3
    <2> QED BY <2>1, NatInd
  <1>5. P(n)
    <2> HIDE DEF P
    <2> QED BY <1>0, <1>4
  <1> QED BY <1>0, <1>1, <1>5

(***************************************************************************)
(* Framing                                                                 *)
(***************************************************************************)

LEMMA DivProperties ==
    ASSUME NEW b \in Nat \ {0}, NEW n \in Nat
    PROVE  /\ n \div b \in Nat /\ n % b \in 0 .. b - 1
           /\ n = (n \div b) * b + (n % b)
           /\ \A m \in Nat : n < m * b => n \div b < m
  <1>1. n \div b \in Int /\ n % b \in 0 .. b - 1 /\ n = (n \div b) * b + (n % b)
    BY Z3
  <1> DEFINE q == n \div b
             r == n % b
  <1> HIDE DEF q, r
  <1>2. q \in Int /\ r \in 0 .. b - 1 /\ n = q * b + r
    BY <1>1 DEF q, r
  <1>3. q >= 0
    <2> SUFFICES ASSUME q <= -1 PROVE FALSE
      BY <1>2
    <2>1. q * b <= (-1) * b
      BY <1>2, Z3
    <2> QED BY <2>1, <1>2
  <1>4. ASSUME NEW m \in Nat, n < m * b PROVE q < m
    <2> SUFFICES ASSUME q >= m PROVE FALSE
      BY <1>2
    <2>1. q * b >= m * b /\ m * b \in Int /\ q * b \in Int
      BY <1>2, Z3
    <2> QED BY <2>1, <1>2, <1>4
  <1> QED BY <1>1, <1>3, <1>4 DEF q

LEMMA EncodeType ==
    ASSUME NEW n \in Nat
    PROVE  Encode(n) \in Seq(Byte) /\ Len(Encode(n)) = 4
  <1> DEFINE q == n \div BYTE
             r == q \div BYTE
             s == r \div BYTE
  <1>0. BYTE \in Nat \ {0}
    BY ByteAssumption
  <1>1. q \in Nat /\ n % BYTE \in Byte
    BY <1>0, DivProperties DEF Byte
  <1> HIDE DEF q
  <1>2. r \in Nat /\ q % BYTE \in Byte
    BY <1>0, <1>1, DivProperties DEF Byte
  <1> HIDE DEF r
  <1>3. s \in Nat /\ r % BYTE \in Byte
    BY <1>0, <1>2, DivProperties DEF Byte
  <1> HIDE DEF s
  <1>4. s % BYTE \in Byte
    BY <1>0, <1>3, DivProperties DEF Byte
  <1>5. Encode(n) = <<s % BYTE, r % BYTE, q % BYTE, n % BYTE>>
    BY DEF Encode, q, r, s
  <1> QED BY <1>1, <1>2, <1>3, <1>4, <1>5

(* A length is read as it was written, whatever follows it.                *)
LEMMA DecodeEncode ==
    ASSUME NEW n \in Nat, n < Lengths, NEW bytes,
           \A i \in 1 .. 4 : bytes[i] = Encode(n)[i]
    PROVE  Decode(bytes) = n
  <1> DEFINE B == BYTE
             q == n \div B
             r == q \div B
             s == r \div B
  <1>0. B \in Nat \ {0} /\ B * B \in Nat /\ (B * B) * B \in Nat
        /\ Lengths = ((B * B) * B) * B
    BY ByteAssumption, Z3 DEF Lengths
  <1>1. q \in Nat /\ n = q * B + (n % B) /\ q < (B * B) * B
    BY <1>0, DivProperties
  <1>2. /\ bytes[1] = s % B /\ bytes[2] = r % B /\ bytes[3] = q % B /\ bytes[4] = n % B
    <2>1. 1 \in 1 .. 4 /\ 2 \in 1 .. 4 /\ 3 \in 1 .. 4 /\ 4 \in 1 .. 4
      OBVIOUS
    <2>2. Encode(n) = <<s % B, r % B, q % B, n % B>>
      BY DEF Encode
    <2> HIDE DEF q, r, s
    <2> QED BY <2>1, <2>2
  <1> HIDE DEF q
  <1>3. r \in Nat /\ q = r * B + (q % B) /\ r < B * B
    BY <1>0, <1>1, DivProperties
  <1> HIDE DEF r
  <1>4. s \in Nat /\ r = s * B + (r % B) /\ s < B
    BY <1>0, <1>3, DivProperties
  <1> HIDE DEF s
  <1>5. s % B = s
    BY <1>0, <1>4
  <1>6. Decode(bytes) = ((bytes[1] * B + bytes[2]) * B + bytes[3]) * B + bytes[4]
    BY DEF Decode
  <1> HIDE DEF B
  <1> QED BY <1>1, <1>2, <1>3, <1>4, <1>5, <1>6

LEMMA FrameType ==
    ASSUME NEW m \in Seq(Byte), Len(m) < Lengths
    PROVE  /\ write_message(m) = Encode(Len(m)) \o m
           /\ write_message(m) \in Seq(Byte)
           /\ Len(write_message(m)) = 4 + Len(m)
  <1>1. Lengths \in Nat
    <2>1. BYTE \in Nat
      BY ByteAssumption
    <2> QED BY <2>1, Z3 DEF Lengths
  <1>2. Len(m) \in Nat /\ Len(m) % Lengths = Len(m)
    BY <1>1
  <1>3. Encode(Len(m)) \in Seq(Byte) /\ Len(Encode(Len(m))) = 4
    BY <1>2, EncodeType
  <1>4. write_message(m) = Encode(Len(m)) \o m
    BY <1>2 DEF write_message
  <1>5. ASSUME NEW code \in Seq(Byte), Len(code) = 4
        PROVE  code \o m \in Seq(Byte) /\ Len(code \o m) = 4 + Len(m)
    <2>1. code \o m \in Seq(Byte) /\ Len(code \o m) = Len(code) + Len(m)
      BY ConcatProperties
    <2> QED BY <2>1, <1>5
  <1> QED BY <1>3, <1>4, <1>5

(* What is read of a frame of which a bytes have arrived, with what        *)
(* follows it.                                                             *)
LEMMA ReadFrame ==
    ASSUME NEW m \in Seq(Byte), Len(m) < Lengths, NEW t \in Seq(Byte),
           NEW a \in 0 .. Len(write_message(m) \o t)
    PROVE  LET u == write_message(m) \o t
           IN  read_message(SubSeq(u, 1, a)) =
                 IF a < 4 THEN [result |-> "closed"]
                 ELSE IF Len(m) > MAX_FRAME_SIZE THEN [result |-> "tooLarge"]
                 ELSE IF a < 4 + Len(m) THEN [result |-> "closed"]
                 ELSE [result |-> "message", message |-> m,
                       rest |-> SubSeq(u, 4 + Len(m) + 1, a)]
  <1> DEFINE f == write_message(m)
             u == f \o t
             s == SubSeq(u, 1, a)
             n == Len(m)
             code == Encode(n)
             rest == SubSeq(s, 5, Len(s))
  <1>1. n \in Nat /\ f = code \o m /\ f \in Seq(Byte) /\ Len(f) = 4 + n
    BY FrameType
  <1>2. code \in Seq(Byte) /\ Len(code) = 4
    BY <1>1, EncodeType
  <1> HIDE DEF code, f
  <1>3. /\ u \in Seq(Byte) /\ Len(u) = 4 + n + Len(t) /\ Len(t) \in Nat
        /\ \A i \in 1 .. 4 : u[i] = code[i]
        /\ \A i \in 1 .. n : u[4 + i] = m[i]
    <2>1. \A i \in 1 .. 4 : f[i] = code[i]
      BY <1>1, <1>2
    <2>2. \A i \in 1 .. n : f[4 + i] = m[i]
      BY <1>1, <1>2
    <2>0. f \in Seq(Byte) /\ Len(f) \in Nat /\ Len(t) \in Nat
      BY <1>1
    <2>3. u \in Seq(Byte) /\ Len(u) = Len(f) + Len(t) /\ \A i \in 1 .. Len(f) : u[i] = f[i]
      BY <2>0
    <2> HIDE DEF u, n
    <2>4. \A i \in 1 .. 4 : i \in 1 .. Len(f)
      BY <1>1
    <2>5. \A i \in 1 .. n : 4 + i \in 1 .. Len(f)
      BY <1>1
    <2>6. \A i \in 1 .. 4 : u[i] = code[i]
      BY <2>1, <2>3, <2>4
    <2>7. \A i \in 1 .. n : u[4 + i] = m[i]
      BY <2>2, <2>3, <2>5
    <2>8. Len(u) = 4 + n + Len(t)
      BY <1>1, <2>0, <2>3
    <2> QED BY <2>0, <2>3, <2>6, <2>7, <2>8
  <1> HIDE DEF u
  <1>a. a \in 0 .. Len(u)
    BY DEF u, f
  <1>4. s \in Seq(Byte) /\ Len(s) = a /\ \A i \in 1 .. a : s[i] = u[i]
    BY <1>3, <1>a
  <1> HIDE DEF s
  <1>5. a >= 4 => Decode(s) = n
    <2> SUFFICES ASSUME a >= 4 PROVE Decode(s) = n
      OBVIOUS
    <2>1. \A i \in 1 .. 4 : s[i] = Encode(n)[i]
      BY <1>3, <1>4, <1>a DEF code
    <2>2. n < Lengths
      OBVIOUS
    <2> HIDE DEF n
    <2> QED BY <1>1, <2>1, <2>2, DecodeEncode
  <1>6. a >= 4 => Len(rest) = a - 4
    BY <1>4, <1>a
  <1>7. a >= 4 + n => /\ SubSeq(rest, 1, n) = m
                      /\ SubSeq(rest, n + 1, Len(rest)) = SubSeq(u, 4 + n + 1, a)
    <2> SUFFICES ASSUME a >= 4 + n
                 PROVE  /\ SubSeq(rest, 1, n) = m
                        /\ SubSeq(rest, n + 1, Len(rest)) = SubSeq(u, 4 + n + 1, a)
      OBVIOUS
    <2>1. /\ rest \in Seq(Byte) /\ Len(rest) = a - 4
          /\ \A i \in 1 .. a - 4 : rest[i] = s[i + 4] /\ s[i + 4] = u[i + 4]
      BY <1>1, <1>4, <1>a
    <2> HIDE DEF rest, n
    <2>2. SubSeq(rest, 1, n) = m
      <3> DEFINE x == SubSeq(rest, 1, n)
      <3>1. x \in Seq(Byte) /\ Len(x) = n /\ \A i \in 1 .. n : x[i] = rest[i]
        BY <1>1, <1>a, <2>1
      <3> HIDE DEF x
      <3>2. \A i \in 1 .. n : rest[i] = m[i]
        <4> SUFFICES ASSUME NEW i \in 1 .. n PROVE rest[i] = m[i]
          OBVIOUS
        <4>1. i \in 1 .. a - 4 /\ i + 4 = 4 + i
          BY <1>1, <1>a
        <4> QED BY <4>1, <2>1, <1>3
      <3>3. x = m
        BY <3>1, <3>2, SeqEqual, <1>1 DEF n
      <3> QED BY <3>3 DEF x
    <2>3. SubSeq(rest, n + 1, Len(rest)) = SubSeq(u, 4 + n + 1, a)
      <3> DEFINE x == SubSeq(rest, n + 1, Len(rest))
                 y == SubSeq(u, 4 + n + 1, a)
      <3>1. /\ x \in Seq(Byte) /\ Len(x) = a - 4 - n
            /\ \A i \in 1 .. a - 4 - n : x[i] = rest[n + i]
        BY <1>1, <1>a, <2>1
      <3>2. /\ y \in Seq(Byte) /\ Len(y) = a - 4 - n
            /\ \A i \in 1 .. a - 4 - n : y[i] = u[4 + n + i]
        <4>1. u \in Seq(Byte) /\ Len(u) \in Nat /\ a \in 0 .. Len(u) /\ n \in Nat
          BY <1>1, <1>3, <1>a
        <4>2. /\ 4 + n + 1 \in Int /\ a \in Int
              /\ \A i \in 4 + n + 1 .. a : i \in 1 .. Len(u)
          BY <4>1
        <4>3. \A i \in 4 + n + 1 .. a : u[i] \in Byte
          BY <4>1, <4>2, ElementOfSeq
        <4>4. /\ y \in Seq(Byte)
              /\ Len(y) = IF 4 + n + 1 <= a THEN a - (4 + n + 1) + 1 ELSE 0
              /\ \A i \in 1 .. a - (4 + n + 1) + 1 : y[i] = u[4 + n + 1 + i - 1]
          BY <4>2, <4>3, SubSeqProperties, SMTT(30)
        <4> HIDE DEF y
        <4> QED BY <4>1, <4>4
      <3> HIDE DEF x, y
      <3>3. \A i \in 1 .. a - 4 - n : x[i] = y[i]
        <4> SUFFICES ASSUME NEW i \in 1 .. a - 4 - n PROVE x[i] = y[i]
          OBVIOUS
        <4>1. n + i \in 1 .. a - 4 /\ (n + i) + 4 = 4 + n + i
          BY <1>1, <1>a
        <4> QED BY <4>1, <2>1, <3>1, <3>2
      <3>4. x = y
        BY <3>1, <3>2, <3>3, SeqEqual
      <3> QED BY <3>4 DEF x, y
    <2> QED BY <2>2, <2>3
  <1>8. read_message(s) =
          IF a < 4 THEN [result |-> "closed"]
          ELSE IF n > MAX_FRAME_SIZE THEN [result |-> "tooLarge"]
          ELSE IF a < 4 + n THEN [result |-> "closed"]
          ELSE [result |-> "message", message |-> m, rest |-> SubSeq(u, 4 + n + 1, a)]
    <2>0. read_message(s) =
            IF Len(s) < 4 THEN [result |-> "closed"]
            ELSE IF Decode(s) > MAX_FRAME_SIZE THEN [result |-> "tooLarge"]
            ELSE IF Len(rest) < Decode(s) THEN [result |-> "closed"]
            ELSE [result |-> "message", message |-> SubSeq(rest, 1, Decode(s)),
                  rest |-> SubSeq(rest, Decode(s) + 1, Len(rest))]
      BY DEF read_message
    <2> HIDE DEF rest, n
    <2>1. CASE a < 4
      BY <2>0, <2>1, <1>4
    <2>2. CASE a >= 4
      <3>1. Len(s) = a /\ ~(a < 4) /\ Decode(s) = n /\ Len(rest) = a - 4
        BY <2>2, <1>4, <1>5, <1>6, <1>a, <1>3
      <3>2. CASE n > MAX_FRAME_SIZE
        BY <2>0, <3>1, <3>2
      <3>3. CASE ~(n > MAX_FRAME_SIZE) /\ a < 4 + n
        <4>1. Len(rest) < n
          BY <3>1, <3>3, <1>1, <1>a, <1>3
        <4> QED BY <2>0, <3>1, <3>3, <4>1
      <3>4. CASE ~(n > MAX_FRAME_SIZE) /\ ~(a < 4 + n)
        <4>1. ~(Len(rest) < n) /\ a >= 4 + n
          BY <3>1, <3>4, <1>1, <1>a, <1>3
        <4>2. SubSeq(rest, 1, n) = m /\ SubSeq(rest, n + 1, Len(rest)) = SubSeq(u, 4 + n + 1, a)
          BY <4>1, <1>7
        <4> QED BY <2>0, <3>1, <3>4, <4>1, <4>2
      <3> QED BY <3>2, <3>3, <3>4
    <2>3. a < 4 \/ a >= 4
      BY <1>a, <1>3
    <2> QED BY <2>1, <2>2, <2>3
  <1> QED BY <1>8 DEF s, u, f, n

(***************************************************************************)
(* A connection                                                            *)
(***************************************************************************)

Frames(sent) == [j \in DOMAIN sent |-> write_message(sent[j])]

(* No length is cut.                                                       *)
AllFit(sent) == \A i \in DOMAIN sent : Len(sent[i]) < Lengths

(* The stream up to each message.                                          *)
Sent(sent) == Upto(Byte, Frames(sent))

LEMMA FramesType ==
    ASSUME NEW sent \in Seq(Seq(Byte)), AllFit(sent)
    PROVE  /\ Frames(sent) \in Seq(Seq(Byte)) /\ Len(Frames(sent)) = Len(sent)
           /\ \A i \in 1 .. Len(sent) : Frames(sent)[i] = write_message(sent[i])
  <1>1. \A i \in 1 .. Len(sent) : sent[i] \in Seq(Byte) /\ Len(sent[i]) < Lengths
    BY DEF AllFit
  <1>2. \A i \in 1 .. Len(sent) : write_message(sent[i]) \in Seq(Byte)
    BY <1>1, FrameType
  <1>3. DOMAIN sent = 1 .. Len(sent) /\ Len(sent) \in Nat
    OBVIOUS
  <1> QED BY <1>2, <1>3 DEF Frames

(* Each part of the stream is where the ones before it end.                *)
LEMMA SentProperties ==
    ASSUME NEW sent \in Seq(Seq(Byte)), AllFit(sent)
    PROVE  LET n == Len(sent)
               g == Sent(sent)
           IN  /\ g[0] = <<>>
               /\ \A i \in 0 .. n : g[i] \in Seq(Byte)
               /\ \A i \in 1 .. n : g[i] = g[i - 1] \o write_message(sent[i])
               /\ \A i \in 0 .. n :
                     FlattenSeq([j \in 1 .. i |-> write_message(sent[j])]) = g[i]
               /\ FlattenSeq(Frames(sent)) = g[n]
  <1> DEFINE n == Len(sent)
             g == Sent(sent)
             fs == Frames(sent)
  <1>1. /\ fs \in Seq(Seq(Byte)) /\ Len(fs) = n /\ n \in Nat
        /\ \A i \in 1 .. n : fs[i] = write_message(sent[i])
    BY FramesType
  <1>2. /\ g[0] = <<>>
        /\ \A i \in 0 .. n : g[i] \in Seq(Byte) /\ g[i] = FlattenSeq(SubSeq(fs, 1, i))
        /\ \A i \in 1 .. n : g[i] = g[i - 1] \o fs[i]
        /\ FlattenSeq(fs) = g[n]
    <2>1. fs \in Seq(Seq(Byte)) /\ Len(fs) = n
      BY <1>1
    <2> HIDE DEF fs
    <2>2. g = Upto(Byte, fs)
      BY DEF Sent, fs
    <2> HIDE DEF g, n
    <2> QED BY <2>1, <2>2, UptoProperties
  <1>3. ASSUME NEW i \in 0 .. n
        PROVE  SubSeq(fs, 1, i) = [j \in 1 .. i |-> write_message(sent[j])]
    <2> HIDE DEF fs
    <2>1. SubSeq(fs, 1, i) = [j \in 1 .. i |-> fs[j]]
      BY <1>1
    <2>2. \A j \in 1 .. i : j \in 1 .. n
      BY <1>1
    <2> QED BY <1>1, <2>1, <2>2
  <1> HIDE DEF g, fs
  <1>4. \A i \in 0 .. n : FlattenSeq([j \in 1 .. i |-> write_message(sent[j])]) = g[i]
    BY <1>2, <1>3
  <1>5. \A i \in 1 .. n : g[i] = g[i - 1] \o write_message(sent[i])
    BY <1>1, <1>2
  <1> QED BY <1>2, <1>4, <1>5 DEF g, fs

LEMMA SentIsPrefix ==
    ASSUME NEW sent \in Seq(Seq(Byte)), AllFit(sent), NEW k \in 0 .. Len(sent)
    PROVE  \E t \in Seq(Byte) : Sent(sent)[Len(sent)] = Sent(sent)[k] \o t
  <1> DEFINE n == Len(sent)
             g == Sent(sent)
             P(i) == k + i <= n => \E t \in Seq(Byte) : g[k + i] = g[k] \o t
             Q == {i \in Nat : P(i)}
  <1>1. /\ n \in Nat /\ \A i \in 0 .. n : g[i] \in Seq(Byte)
        /\ \A i \in 1 .. n : g[i] = g[i - 1] \o write_message(sent[i])
    <2>1. Len(sent) \in Nat
      OBVIOUS
    <2> QED BY <2>1, SentProperties, Zenon
  <1> HIDE DEF g
  <1>2. P(0)
    <2>1. g[k] \in Seq(Byte) /\ <<>> \in Seq(Byte) /\ k + 0 = k
      BY <1>1
    <2>2. g[k] = g[k] \o <<>>
      BY <2>1
    <2> QED BY <2>1, <2>2
  <1>3. ASSUME NEW i \in Nat, P(i), k + (i + 1) <= n
        PROVE  \E t \in Seq(Byte) : g[k + (i + 1)] = g[k] \o t
    <2> DEFINE j == k + (i + 1)
               f == write_message(sent[j])
    <2>1. k + i <= n /\ j \in 1 .. n /\ j - 1 = k + i
      BY <1>1, <1>3
    <2>2. PICK t \in Seq(Byte) : g[k + i] = g[k] \o t
      BY <1>3, <2>1
    <2>3. f \in Seq(Byte)
      <3>1. sent[j] \in Seq(Byte) /\ Len(sent[j]) < Lengths
        BY <2>1 DEF AllFit
      <3> QED BY <3>1, FrameType
    <2> HIDE DEF f
    <2>4. g[j] = (g[k] \o t) \o f
      <3> HIDE DEF j
      <3>1. g[j] = g[j - 1] \o f
        BY <1>1, <2>1 DEF f
      <3> QED BY <3>1, <2>1, <2>2
    <2>5. g[k] \in Seq(Byte)
      BY <1>1
    <2>6. t \o f \in Seq(Byte)
      BY <2>3, ConcatProperties
    <2>7. (g[k] \o t) \o f = g[k] \o (t \o f)
      <3>1. \A x, y, z \in Seq(Byte) : (x \o y) \o z = x \o (y \o z)
        BY ConcatAssociative, SMTT(30)
      <3> QED BY <2>3, <2>5, <3>1, Zenon
    <2> QED BY <2>4, <2>6, <2>7
  <1>4. Q = Nat
    <2> HIDE DEF P
    <2>0. \A i \in Nat : P(i) => P(i + 1)
      <3> USE DEF P
      <3> QED BY <1>3
    <2>1. 0 \in Q /\ \A i \in Q : i + 1 \in Q
      BY <1>2, <2>0
    <2> QED BY <2>1, NatInd
  <1>5. n - k \in Nat /\ k + (n - k) = n /\ n <= n
    BY <1>1
  <1>6. P(n - k)
    <2> HIDE DEF P
    <2> QED BY <1>4, <1>5
  <1> QED BY <1>5, <1>6 DEF g

(* What has been read and what is left, of a stream cut where it broke.    *)
StreamInv ==
    output.op = "stream" =>
       LET sent == input.messages
           k == Len(output.read)
           g == Sent(sent)
           n == Len(sent)
       IN  /\ output = [op |-> "stream", rest |-> output.rest, arrived |-> output.arrived,
                         read |-> output.read, end |-> output.end]
           /\ sent \in Conversations
           /\ output.end \in {"open", "closed", "tooLarge"}
           /\ AllFit(sent) =>
                /\ k \in 0 .. n
                /\ output.read = SubSeq(sent, 1, k)
                /\ output.arrived \in Len(g[k]) .. Len(g[n])
                /\ output.rest = SubSeq(g[n], Len(g[k]) + 1, output.arrived)
                /\ output.end = "closed" /\ k < n => output.arrived < Len(g[k + 1])
                /\ output.end = "tooLarge" =>
                     k < n /\ Len(sent[k + 1]) > MAX_FRAME_SIZE

(* What is behind a part of a sequence, and up to some place.              *)
LEMMA BehindPart ==
    ASSUME NEW S, NEW p \in Seq(S), NEW u \in Seq(S), NEW c \in Len(p) .. Len(p \o u),
           NEW b \in 0 .. Len(u)
    PROVE  SubSeq(p \o u, Len(p) + b + 1, c) = SubSeq(u, b + 1, c - Len(p))
  <1> DEFINE s == p \o u
             m == Len(p)
             a == c - m
             x == SubSeq(s, m + b + 1, c)
             y == SubSeq(u, b + 1, a)
  <1>1. /\ s \in Seq(S) /\ Len(s) = m + Len(u) /\ m \in Nat /\ Len(u) \in Nat
        /\ \A i \in 1 .. Len(u) : m + i \in 1 .. Len(s) /\ s[m + i] = u[i]
    OBVIOUS
  <1> HIDE DEF s
  <1>2. c \in m .. Len(s)
    BY DEF s
  <1> HIDE DEF m
  <1>3. a \in 0 .. Len(u) /\ c = m + a
    BY <1>1, <1>2
  <1> HIDE DEF a
  <1>4. /\ m + b + 1 \in Int /\ c \in Int /\ b + 1 \in Int /\ a \in Int
        /\ \A i \in m + b + 1 .. c : i \in 1 .. Len(s)
        /\ \A i \in b + 1 .. a : i \in 1 .. Len(u)
    BY <1>1, <1>2, <1>3
  <1>5. /\ \A i \in m + b + 1 .. c : s[i] \in S
        /\ \A i \in b + 1 .. a : u[i] \in S
    BY <1>1, <1>4, ElementOfSeq
  <1>6. /\ x \in Seq(S)
        /\ Len(x) = IF m + b + 1 <= c THEN c - (m + b + 1) + 1 ELSE 0
        /\ \A i \in 1 .. c - (m + b + 1) + 1 : x[i] = s[m + b + 1 + i - 1]
    BY <1>4, <1>5, SubSeqProperties
  <1>7. /\ y \in Seq(S)
        /\ Len(y) = IF b + 1 <= a THEN a - (b + 1) + 1 ELSE 0
        /\ \A i \in 1 .. a - (b + 1) + 1 : y[i] = u[b + 1 + i - 1]
    BY <1>4, <1>5, SubSeqProperties
  <1> HIDE DEF x, y
  <1>8. Len(x) = Len(y)
    BY <1>1, <1>3, <1>6, <1>7, SMTT(30)
  <1>9. ASSUME NEW i \in 1 .. Len(x) PROVE x[i] = y[i]
    <2>1. /\ i \in 1 .. c - (m + b + 1) + 1 /\ i \in 1 .. a - (b + 1) + 1
          /\ m + b + 1 + i - 1 = m + (b + i) /\ b + 1 + i - 1 = b + i
          /\ b + i \in 1 .. Len(u)
      BY <1>1, <1>3, <1>6
    <2> QED BY <2>1, <1>1, <1>6, <1>7
  <1>10. x = y
    BY <1>6, <1>7, <1>8, <1>9, SeqEqual
  <1> QED BY <1>10 DEF x, y, s, m, a

LEMMA ThreeParts ==
    \A p, f, t \in Seq(Byte) :
       /\ (p \o f) \o t = p \o (f \o t)
       /\ f \o t \in Seq(Byte) /\ Len(f \o t) = Len(f) + Len(t)
       /\ Len(p \o f) = Len(p) + Len(f)
       /\ Len(p \o (f \o t)) = Len(p) + Len(f) + Len(t)
       /\ Len(p) \in Nat /\ Len(f) \in Nat /\ Len(t) \in Nat
  <1> DEFINE S == Byte
  <1> HIDE DEF S
  <1> SUFFICES ASSUME NEW p \in Seq(S), NEW f \in Seq(S), NEW t \in Seq(S)
               PROVE  /\ (p \o f) \o t = p \o (f \o t)
                      /\ f \o t \in Seq(S) /\ Len(f \o t) = Len(f) + Len(t)
                      /\ Len(p \o f) = Len(p) + Len(f)
                      /\ Len(p \o (f \o t)) = Len(p) + Len(f) + Len(t)
                      /\ Len(p) \in Nat /\ Len(f) \in Nat /\ Len(t) \in Nat
    BY DEF S
  <1>1. f \o t \in Seq(S) /\ Len(f \o t) = Len(f) + Len(t) /\ Len(p \o f) = Len(p) + Len(f)
        /\ Len(p) \in Nat /\ Len(f) \in Nat /\ Len(t) \in Nat
    BY ConcatProperties
  <1> DEFINE u == f \o t
  <1> HIDE DEF u
  <1>2. u \in Seq(S) /\ Len(u) = Len(f) + Len(t)
    BY <1>1 DEF u
  <1>3. Len(p \o u) = Len(p) + Len(u)
    BY <1>2, ConcatProperties
  <1>4. Len(p \o u) = Len(p) + Len(f) + Len(t)
    BY <1>1, <1>2, <1>3
  <1>5. (p \o f) \o t = p \o u
    BY ConcatAssociative DEF u
  <1> QED BY <1>1, <1>4, <1>5 DEF u

(* One call of read_message says that the stream broke before next, that m *)
(* is too large, or that it is m, with the stream from next on left.       *)
ReadOne(r, m, next, s, arrived) ==
    \/ r = [result |-> "closed"] /\ arrived < next
    \/ r = [result |-> "tooLarge"] /\ Len(m) > MAX_FRAME_SIZE
    \/ /\ r = [result |-> "message", message |-> m, rest |-> SubSeq(s, next + 1, arrived)]
       /\ arrived \in next .. Len(s)

(* It does where p has been read, a frame with m is next and t follows it. *)
LEMMA ReadBehind ==
    ASSUME NEW p \in Seq(Byte), NEW m \in Seq(Byte), Len(m) < Lengths,
           NEW t \in Seq(Byte), NEW s, s = (p \o write_message(m)) \o t,
           NEW arrived \in Len(p) .. Len(s)
    PROVE  ReadOne(read_message(SubSeq(s, Len(p) + 1, arrived)), m,
                   Len(p \o write_message(m)), s, arrived)
  <1> DEFINE f == write_message(m)
             u == f \o t
             a == arrived - Len(p)
             len == Len(m)
             next == Len(p \o f)
             rest == SubSeq(s, Len(p) + 1, arrived)
             r == read_message(rest)
  <1>1. f \in Seq(Byte) /\ Len(f) = 4 + len /\ len \in Nat
    <2>1. Len(m) \in Nat
      OBVIOUS
    <2> QED BY <2>1, FrameType
  <1>2. r = read_message(SubSeq(s, Len(p) + 1, arrived)) /\ s = (p \o f) \o t
    OBVIOUS
  <1>3. \A c \in 0 .. Len(f \o t) :
          read_message(SubSeq(f \o t, 1, c)) =
            IF c < 4 THEN [result |-> "closed"]
            ELSE IF len > MAX_FRAME_SIZE THEN [result |-> "tooLarge"]
            ELSE IF c < 4 + len THEN [result |-> "closed"]
            ELSE [result |-> "message", message |-> m, rest |-> SubSeq(f \o t, 4 + len + 1, c)]
    BY ReadFrame
  <1> HIDE DEF f, len
  <1>4. /\ s = p \o u /\ u \in Seq(Byte) /\ Len(u) = Len(f) + Len(t)
        /\ next = Len(p) + Len(f) /\ Len(s) = Len(p) + Len(f) + Len(t)
        /\ Len(p) \in Nat /\ Len(t) \in Nat
    <2>1. /\ (p \o f) \o t = p \o (f \o t)
          /\ f \o t \in Seq(Byte) /\ Len(f \o t) = Len(f) + Len(t)
          /\ Len(p \o f) = Len(p) + Len(f)
          /\ Len(p \o (f \o t)) = Len(p) + Len(f) + Len(t)
          /\ Len(p) \in Nat /\ Len(f) \in Nat /\ Len(t) \in Nat
      <3>1. f \in Seq(Byte) /\ p \in Seq(Byte) /\ t \in Seq(Byte)
        BY <1>1
      <3> QED BY <3>1, ThreeParts, ZenonT(30)
    <2>2. s = p \o (f \o t)
      BY <2>1, <1>2
    <2> QED BY <2>1, <2>2
  <1> HIDE DEF u, next
  <1>5. a \in 0 .. Len(u) /\ arrived = Len(p) + a
    BY <1>1, <1>4
  <1>6. \A b \in 0 .. Len(u) : SubSeq(s, Len(p) + b + 1, arrived) = SubSeq(u, b + 1, a)
    <2>1. arrived \in Len(p) .. Len(p \o u)
      BY <1>4
    <2>2. \A b \in 0 .. Len(u) : SubSeq(p \o u, Len(p) + b + 1, arrived) = SubSeq(u, b + 1, a)
      BY <1>4, <2>1, BehindPart
    <2> QED BY <1>4, <2>2
  <1> HIDE DEF a
  <1>7. rest = SubSeq(u, 1, a)
    <2>1. 0 \in 0 .. Len(u) /\ Len(p) + 0 + 1 = Len(p) + 1 /\ 0 + 1 = 1
      BY <1>1, <1>4
    <2> QED BY <1>6, <2>1
  <1>8. a >= 4 + len => SubSeq(u, 4 + len + 1, a) = SubSeq(s, next + 1, arrived)
    <2> SUFFICES ASSUME a >= 4 + len
                 PROVE  SubSeq(u, 4 + len + 1, a) = SubSeq(s, next + 1, arrived)
      OBVIOUS
    <2> DEFINE b == 4 + len
    <2>1. b \in 0 .. Len(u) /\ Len(p) + b + 1 = next + 1
      BY <1>1, <1>4, <1>5
    <2> HIDE DEF b
    <2>2. SubSeq(s, Len(p) + b + 1, arrived) = SubSeq(u, b + 1, a)
      BY <1>6, <2>1
    <2> QED BY <2>1, <2>2 DEF b
  <1>9. r = IF a < 4 THEN [result |-> "closed"]
            ELSE IF len > MAX_FRAME_SIZE THEN [result |-> "tooLarge"]
            ELSE IF a < 4 + len THEN [result |-> "closed"]
            ELSE [result |-> "message", message |-> m, rest |-> SubSeq(u, 4 + len + 1, a)]
    BY <1>3, <1>5, <1>7 DEF u
  <1> HIDE DEF r, rest
  <1>10. \/ r = [result |-> "closed"] /\ arrived < next
         \/ r = [result |-> "tooLarge"] /\ len > MAX_FRAME_SIZE
         \/ /\ r = [result |-> "message", message |-> m,
                    rest |-> SubSeq(s, next + 1, arrived)]
            /\ arrived \in next .. Len(s)
    <2>1. CASE a < 4
      BY <2>1, <1>1, <1>4, <1>5, <1>9, SMTT(30)
    <2>2. CASE ~(a < 4) /\ len > MAX_FRAME_SIZE
      BY <2>2, <1>9
    <2>3. CASE ~(a < 4) /\ ~(len > MAX_FRAME_SIZE) /\ a < 4 + len
      BY <2>3, <1>1, <1>4, <1>5, <1>9
    <2>4. CASE ~(a < 4) /\ ~(len > MAX_FRAME_SIZE) /\ ~(a < 4 + len)
      <3>1. a >= 4 + len /\ arrived \in next .. Len(s)
        BY <2>4, <1>1, <1>4, <1>5
      <3>2. r = [result |-> "message", message |-> m, rest |-> SubSeq(u, 4 + len + 1, a)]
        BY <2>4, <1>9
      <3> QED BY <3>1, <3>2, <1>8
    <2> QED BY <2>1, <2>2, <2>3, <2>4
  <1> QED BY <1>10 DEF r, rest, len, f, next, ReadOne

(* The same behind the k messages already read.                            *)
LEMMA ReadNext ==
    ASSUME NEW sent \in Seq(Seq(Byte)), AllFit(sent), NEW k \in 0 .. Len(sent),
           NEW arrived \in Len(Sent(sent)[k]) .. Len(Sent(sent)[Len(sent)]), k < Len(sent)
    PROVE  LET g == Sent(sent)
               n == Len(sent)
               r == read_message(SubSeq(g[n], Len(g[k]) + 1, arrived))
           IN  ReadOne(r, sent[k + 1], Len(g[k + 1]), g[n], arrived)
  <1> DEFINE g == Sent(sent)
             n == Len(sent)
             p == g[k]
             m == sent[k + 1]
             s == g[n]
  <1>0. n \in Nat /\ k \in Nat /\ k + 1 \in 0 .. n /\ k + 1 \in 1 .. n /\ (k + 1) - 1 = k
    OBVIOUS
  <1>1. m \in Seq(Byte) /\ Len(m) < Lengths
    BY <1>0 DEF AllFit
  <1>2. p \in Seq(Byte) /\ g[k + 1] = p \o write_message(m)
    <2>1. g[k + 1] = g[(k + 1) - 1] \o write_message(m)
      BY <1>0, SentProperties
    <2> QED BY <1>0, <2>1, SentProperties
  <1>3. PICK t \in Seq(Byte) : s = g[k + 1] \o t
    BY <1>0, SentIsPrefix
  <1>4. arrived \in Len(p) .. Len(s)
    OBVIOUS
  <1> HIDE DEF p, m, s
  <1>5. s = (p \o write_message(m)) \o t
    BY <1>2, <1>3
  <1>6. ReadOne(read_message(SubSeq(s, Len(p) + 1, arrived)), m,
                Len(p \o write_message(m)), s, arrived)
    BY <1>1, <1>2, <1>4, <1>5, ReadBehind
  <1> QED BY <1>2, <1>6 DEF p, m, s

LEMMA InitStreamInv == Init => StreamInv
  BY DEF Init, StreamInv, Nothing

(***************************************************************************)
(* Where the output comes from                                             *)
(***************************************************************************)

(* The input never changes, and each output is what the operations make of *)
(* it.                                                                     *)
Prints(v, format, ps, text) ==
    \/ /\ format = "dotenv" /\ text = ExportDotenv(v, ps)
       /\ ps = Profiles(v) \/ \E p \in Profiles(v) : ps = {p}
    \/ /\ format = "json" /\ text = ExportJson(v, ps)
       /\ ps = Profiles(v) \/ \E p \in Profiles(v) : ps = {p}
    \/ \E p \in Profiles(v) : format = "shell" /\ ps = {p} /\ text = GetExport(v, p)
    \/ \E p \in Profiles(v) : format = "json" /\ ps = {p} /\ text = GetJson(v, p)

PrintIsMade == Prints(input.vault, output.format, output.profiles, output.text)
EvalIsMade ==
    \E p \in Profiles(input.vault) :
       output.profiles = {p} /\ output.shell = Eval(GetExport(input.vault, p))
ImportIsMade ==
    /\ output.before \in Targets /\ output.into \in Profiles(input.vault)
    /\ \E printed :
          /\ printed.format = output.format
          /\ Prints(input.vault, output.format, output.profiles, printed.text)
          /\ output.flat = IsFlat(printed)
          /\ output.after = Import(output.before, printed, output.into)

OutputIsMade ==
    /\ \/ input.kind = "vault" /\ input.vault \in Vaults
       \/ input.kind = "messages" /\ input.messages \in Conversations
    /\ output.op \in {"nothing", "print", "eval", "import", "expire", "stream"}
    /\ output.op \in {"print", "eval", "import", "expire"} => input.kind = "vault"
    /\ output.op = "stream" => input.kind = "messages"
    /\ output.op = "expire" =>
          /\ output.now \in Time /\ output.days \in Days
          /\ output.report = handle_expire(input.vault, output.now, output.days)
    /\ output.op = "print" => PrintIsMade
    /\ output.op = "eval" => EvalIsMade
    /\ output.op = "import" => ImportIsMade

LEMMA OutputIsMadeInductive ==
    /\ Init => OutputIsMade
    /\ OutputIsMade /\ [Next]_vars => OutputIsMade'
  <1> USE DEF OutputIsMade, Nothing
  <1>1. Init => OutputIsMade
    BY DEF Init
  <1>2. ASSUME OutputIsMade, [Next]_vars PROVE OutputIsMade'
    <2> USE <1>2
    <2>0. UNCHANGED input => /\ \/ input'.kind = "vault" /\ input'.vault \in Vaults
                                \/ input'.kind = "messages" /\ input'.messages \in Conversations
                             /\ input'.kind = input.kind
      OBVIOUS
    <2>1. CASE handle_export
      <3>1. PICK ps \in {{p} : p \in Profiles(input.vault)} \cup {Profiles(input.vault)} :
               \/ output' = [op |-> "print", format |-> "dotenv", profiles |-> ps,
                             text |-> ExportDotenv(input.vault, ps)]
               \/ output' = [op |-> "print", format |-> "json", profiles |-> ps,
                             text |-> ExportJson(input.vault, ps)]
        BY <2>1 DEF handle_export, Shows
      <3>2. PrintIsMade'
        <4>1. ps = Profiles(input.vault) \/ \E p \in Profiles(input.vault) : ps = {p}
          OBVIOUS
        <4>2. input' = input
          BY <2>1 DEF handle_export
        <4> QED BY ONLY <3>1, <4>1, <4>2 DEF PrintIsMade, Prints
      <3>3. output'.op = "print" /\ input.kind = "vault" /\ input' = input
        BY <2>1, <3>1 DEF handle_export, Start
      <3> QED BY <2>0, <3>2, <3>3
    <2>2. CASE handle_get
      <3>1. PICK p \in Profiles(input.vault) :
               \/ output' = [op |-> "print", format |-> "shell", profiles |-> {p},
                             text |-> GetExport(input.vault, p)]
               \/ output' = [op |-> "print", format |-> "json", profiles |-> {p},
                             text |-> GetJson(input.vault, p)]
        BY <2>2 DEF handle_get, Shows
      <3>2. output'.op = "print" /\ input.kind = "vault" /\ input' = input
        BY <2>2, <3>1 DEF handle_get, Start
      <3>3. PrintIsMade'
        BY ONLY <3>1, <3>2 DEF PrintIsMade, Prints
      <3> QED BY <2>0, <3>2, <3>3
    <2>3. CASE EvalExport
      <3>1. /\ output' = [op |-> "eval", profiles |-> output.profiles,
                          shell |-> Eval(output.text)]
            /\ output.op = "print" /\ output.format = "shell" /\ input' = input
        BY <2>3 DEF EvalExport
      <3>2. PICK p \in Profiles(input.vault) :
               output.profiles = {p} /\ output.text = GetExport(input.vault, p)
        <4>1. PrintIsMade
          BY <3>1
        <4> QED BY ONLY <3>1, <4>1 DEF PrintIsMade, Prints
      <3>3. EvalIsMade'
        BY ONLY <3>1, <3>2 DEF EvalIsMade
      <3> QED BY <2>0, <3>1, <3>3
    <2>4. CASE handle_import
      <3>1. PICK target \in Targets, p \in Profiles(input.vault) :
               output' = [op |-> "import", format |-> output.format,
                          profiles |-> output.profiles, into |-> p, before |-> target,
                          flat |-> IsFlat(output), after |-> Import(target, output, p)]
        BY <2>4 DEF handle_import
      <3>2. output.op = "print" /\ input' = input
        BY <2>4 DEF handle_import
      <3>3. PrintIsMade
        BY <3>2
      <3>4. ImportIsMade'
        <4>1. /\ output'.format = output.format /\ output'.profiles = output.profiles
              /\ output'.into = p /\ output'.before = target
              /\ output'.after = Import(target, output, p)
          BY ONLY <3>1
        <4>2. output'.flat = IsFlat(output)
          BY ONLY <3>1, Zenon
        <4> QED BY ONLY <3>2, <3>3, <4>1, <4>2, Zenon DEF ImportIsMade, PrintIsMade
      <3> QED BY <2>0, <3>1, <3>2, <3>4
    <2>5. CASE Expire
      BY <2>5 DEF Expire, Start
    <2>6. CASE Send
      BY <2>6 DEF Send, Start
    <2>7. CASE Receive
      BY <2>7 DEF Receive
    <2>8. CASE UNCHANGED vars
      <3>1. input' = input /\ output' = output
        BY <2>8 DEF vars
      <3> QED BY <3>1 DEF PrintIsMade, EvalIsMade, ImportIsMade
    <2> QED BY <2>1, <2>2, <2>3, <2>4, <2>5, <2>6, <2>7, <2>8 DEF Next
  <1> QED BY <1>1, <1>2

(***************************************************************************)
(* ReadsWhatWasSent                                                        *)
(***************************************************************************)

LEMMA SendStreamInv ==
    ASSUME OutputIsMade, Send
    PROVE  StreamInv'
  <1> DEFINE sent == input.messages
             n == Len(sent)
             g == Sent(sent)
  <1>1. sent \in Conversations /\ sent' = sent /\ sent \in Seq(Seq(Byte))
    BY FormatsAssumption DEF OutputIsMade, Send, Start
  <1>2. FlattenSeq([i \in DOMAIN sent |-> write_message(sent[i])]) = FlattenSeq(Frames(sent))
    BY DEF Frames
  <1>3. PICK a \in 0 .. Len(FlattenSeq(Frames(sent))) :
           output' = [op |-> "stream", rest |-> SubSeq(FlattenSeq(Frames(sent)), 1, a),
                      arrived |-> a, read |-> <<>>, end |-> "open"]
    BY <1>2 DEF Send
  <1>4. ASSUME AllFit(sent)
        PROVE  /\ Len(<<>>) = 0 /\ 0 \in 0 .. n /\ <<>> = SubSeq(sent, 1, 0)
               /\ a \in Len(g[0]) .. Len(g[n])
               /\ SubSeq(FlattenSeq(Frames(sent)), 1, a) = SubSeq(g[n], Len(g[0]) + 1, a)
    <2>1. g[0] = <<>> /\ FlattenSeq(Frames(sent)) = g[n]
      BY <1>1, <1>4, SentProperties
    <2>2. Len(<<>>) = 0 /\ 0 \in 0 .. n /\ <<>> = SubSeq(sent, 1, 0)
      BY <1>1
    <2> QED BY <2>1, <2>2
  <1> HIDE DEF g, sent, n
  <1>5. output'.op = "stream" /\ output'.rest = SubSeq(FlattenSeq(Frames(sent)), 1, a)
        /\ output'.arrived = a /\ output'.read = <<>> /\ output'.end = "open"
    BY <1>3
  <1>6. Len(output'.read) = 0
    BY <1>5
  <1>7. output' = [op |-> "stream", rest |-> output'.rest, arrived |-> output'.arrived,
                   read |-> output'.read, end |-> output'.end]
    BY <1>3
  <1> HIDE DEF StreamInv
  <1>8. input.messages' = sent
    BY <1>1 DEF sent
  <1> QED BY <1>1, <1>4, <1>5, <1>6, <1>7, <1>8 DEF StreamInv, g, n

LEMMA ReadOneResult ==
    ASSUME NEW r, NEW m, NEW next, NEW s, NEW arrived, ReadOne(r, m, next, s, arrived)
    PROVE  /\ r.result = "closed" => arrived < next
           /\ r.result = "tooLarge" => Len(m) > MAX_FRAME_SIZE
           /\ r.result = "message" =>
                /\ r = [result |-> "message", message |-> m,
                        rest |-> SubSeq(s, next + 1, arrived)]
                /\ arrived \in next .. Len(s)
  <1>1. CASE r = [result |-> "closed"] /\ arrived < next
    BY <1>1
  <1>2. CASE r = [result |-> "tooLarge"] /\ Len(m) > MAX_FRAME_SIZE
    BY <1>2
  <1>3. CASE /\ r = [result |-> "message", message |-> m,
                     rest |-> SubSeq(s, next + 1, arrived)]
             /\ arrived \in next .. Len(s)
    <2>1. r.result = "message"
      BY <1>3
    <2> QED BY <1>3, <2>1, Zenon
  <1> QED BY <1>1, <1>2, <1>3 DEF ReadOne

LEMMA ReceiveStreamInv ==
    ASSUME OutputIsMade, StreamInv, Receive
    PROVE  StreamInv'
  <1> DEFINE sent == input.messages
             n == Len(sent)
             g == Sent(sent)
             k == Len(output.read)
             r == read_message(output.rest)
  <1>0. /\ output.op = "stream" /\ output.end = "open" /\ sent' = sent
        /\ output' = IF r.result = "message"
                       THEN [output EXCEPT !.read = Append(@, r.message), !.rest = r.rest]
                       ELSE [output EXCEPT !.end = r.result]
    BY DEF Receive
  <1>1. /\ output = [op |-> "stream", rest |-> output.rest, arrived |-> output.arrived,
                     read |-> output.read, end |-> output.end]
        /\ sent \in Conversations
        /\ AllFit(sent) =>
             /\ k \in 0 .. n
             /\ output.read = SubSeq(sent, 1, k)
             /\ output.arrived \in Len(g[k]) .. Len(g[n])
             /\ output.rest = SubSeq(g[n], Len(g[k]) + 1, output.arrived)
    BY <1>0 DEF StreamInv
  <1>2. sent \in Seq(Seq(Byte)) /\ n \in Nat
    BY <1>1, FormatsAssumption
  <1>3. r.result \in {"message", "closed", "tooLarge"}
    BY DEF read_message
  <1> HIDE DEF g, sent, n, r, k
  <1>4. ASSUME AllFit(sent), ~(k < n) PROVE r = [result |-> "closed"]
    <2>1. k = n
      BY <1>1, <1>2, <1>4
    <2>2. Len(g[n]) \in Nat
      <3>1. n \in 0 .. n
        BY <1>2
      <3>2. g[n] \in Seq(Byte)
        BY <3>1, <1>2, <1>4, SentProperties DEF g, n
      <3> QED BY <3>2
    <2>3. /\ output.arrived \in Len(g[n]) .. Len(g[n])
          /\ output.rest = SubSeq(g[n], Len(g[n]) + 1, output.arrived)
      BY <1>1, <1>4, <2>1, Zenon
    <2>4. /\ output.arrived \in Int /\ Len(g[n]) + 1 \in Int
          /\ output.arrived < Len(g[n]) + 1
      BY <2>2, <2>3
    <2>5. output.rest = <<>>
      BY <2>3, <2>4, SubSeqEmpty
    <2>6. Len(<<>>) < 4
      OBVIOUS
    <2> QED BY <2>5, <2>6 DEF r, read_message
  <1>5. CASE r.result # "message"
    <2>1. /\ output'.op = "stream" /\ output'.rest = output.rest
          /\ output'.arrived = output.arrived /\ output'.read = output.read
          /\ output'.end = r.result
          /\ output' = [op |-> "stream", rest |-> output'.rest, arrived |-> output'.arrived,
                        read |-> output'.read, end |-> output'.end]
      BY <1>0, <1>1, <1>5
    <2>2. ASSUME AllFit(sent)
          PROVE  /\ r.result = "closed" /\ k < n => output.arrived < Len(g[k + 1])
                 /\ r.result = "tooLarge" => k < n /\ Len(sent[k + 1]) > MAX_FRAME_SIZE
      <3>1. CASE k < n
        <4>1. ReadOne(r, sent[k + 1], Len(g[k + 1]), g[n], output.arrived)
          BY <1>1, <1>2, <2>2, <3>1, ReadNext DEF g, n, r
        <4> QED BY <4>1, <3>1, ReadOneResult
      <3>2. CASE ~(k < n)
        BY <3>2, <1>4, <1>5, <2>2
      <3> QED BY <3>1, <3>2
    <2>3. input.messages' = sent /\ Len(output'.read) = k
      BY <1>0, <2>1 DEF sent, k
    <2> QED BY <1>1, <1>3, <1>5, <2>1, <2>2, <2>3 DEF StreamInv, g, n
  <1>6. CASE r.result = "message"
    <2>1. /\ output'.op = "stream" /\ output'.rest = r.rest
          /\ output'.arrived = output.arrived /\ output'.read = Append(output.read, r.message)
          /\ output'.end = "open"
          /\ output' = [op |-> "stream", rest |-> output'.rest, arrived |-> output'.arrived,
                        read |-> output'.read, end |-> output'.end]
      BY <1>0, <1>1, <1>6
    <2>2. ASSUME AllFit(sent)
          PROVE  /\ k + 1 \in 0 .. n /\ Len(output'.read) = k + 1
                 /\ output'.read = SubSeq(sent, 1, k + 1)
                 /\ output'.arrived \in Len(g[k + 1]) .. Len(g[n])
                 /\ output'.rest = SubSeq(g[n], Len(g[k + 1]) + 1, output'.arrived)
      <3>1. CASE k < n
        <4>1. ReadOne(r, sent[k + 1], Len(g[k + 1]), g[n], output.arrived)
          BY <1>1, <1>2, <2>2, <3>1, ReadNext DEF g, n, r
        <4>2. r = [result |-> "message", message |-> sent[k + 1],
                   rest |-> SubSeq(g[n], Len(g[k + 1]) + 1, output.arrived)]
              /\ output.arrived \in Len(g[k + 1]) .. Len(g[n])
          BY <4>1, <1>6, ReadOneResult
        <4>3. k + 1 \in 0 .. n /\ k + 1 \in 1 .. n /\ k \in Nat /\ (k + 1) - 1 = k
          BY <1>1, <1>2, <2>2, <3>1
        <4>4. Append(SubSeq(sent, 1, k), sent[k + 1]) = SubSeq(sent, 1, k + 1)
              /\ Len(SubSeq(sent, 1, k + 1)) = k + 1
          BY <4>3, <1>2 DEF n
        <4> QED BY <4>2, <4>3, <4>4, <2>1, <1>1, <2>2
      <3>2. CASE ~(k < n)
        BY <3>2, <1>4, <1>6, <2>2
      <3> QED BY <3>1, <3>2
    <2>3. input.messages' = sent
      BY <1>0 DEF sent
    <2> QED BY <1>1, <2>1, <2>2, <2>3 DEF StreamInv, g, n
  <1> QED BY <1>5, <1>6

LEMMA StreamInvInductive ==
    ASSUME OutputIsMade, StreamInv, [Next]_vars
    PROVE  StreamInv'
  <1>1. CASE Send
    BY <1>1, SendStreamInv
  <1>2. CASE Receive
    BY <1>2, ReceiveStreamInv
  <1>3. CASE UNCHANGED vars
    BY <1>3 DEF StreamInv, vars
  <1>4. CASE handle_export \/ handle_get \/ EvalExport \/ handle_import \/ Expire
    <2>1. output'.op # "stream"
      BY <1>4 DEF handle_export, handle_get, EvalExport, handle_import, Expire, Shows
    <2> QED BY <2>1 DEF StreamInv
  <1> QED BY <1>1, <1>2, <1>3, <1>4 DEF Next

(* The invariant says what is promised.                                    *)
LEMMA StreamInvImplies ==
    OutputIsMade /\ StreamInv => ReadsWhatWasSent
  <1> SUFFICES ASSUME OutputIsMade, StreamInv, output.op = "stream",
                      \A i \in DOMAIN input.messages : Len(input.messages[i]) < Lengths
               PROVE  LET sent == input.messages
                          Through(i) ==
                            Len(FlattenSeq([j \in 1 .. i |-> write_message(sent[j])]))
                          next == Len(output.read) + 1
                      IN  /\ IsPrefix(output.read, sent)
                          /\ output.end = "closed" /\ next <= Len(sent) =>
                               output.arrived < Through(next)
                          /\ output.end = "tooLarge" => Len(sent[next]) > MAX_FRAME_SIZE
    BY Zenon DEF ReadsWhatWasSent
  <1> DEFINE sent == input.messages
             n == Len(sent)
             g == Sent(sent)
             k == Len(output.read)
  <1>1. AllFit(sent)
    BY DEF AllFit
  <1>2. /\ sent \in Conversations
        /\ k \in 0 .. n
        /\ output.read = SubSeq(sent, 1, k)
        /\ output.end = "closed" /\ k < n => output.arrived < Len(g[k + 1])
        /\ output.end = "tooLarge" => k < n /\ Len(sent[k + 1]) > MAX_FRAME_SIZE
    BY <1>1 DEF StreamInv
  <1>3. sent \in Seq(Seq(Byte)) /\ n \in Nat
    BY <1>2, FormatsAssumption
  <1>4. IsPrefix(output.read, sent)
    <2> HIDE DEF k, sent
    <2>1. Len(output.read) = k
      BY DEF k
    <2>2. SubSeq(output.read, 1, k) = output.read
      BY <1>2, <1>3, <2>1
    <2> QED BY <1>2, <1>3, <2>1, <2>2 DEF IsPrefix
  <1>5. ASSUME k + 1 <= n
        PROVE  Len(FlattenSeq([j \in 1 .. k + 1 |-> write_message(sent[j])])) = Len(g[k + 1])
    <2>1. k + 1 \in 0 .. n
      BY <1>2, <1>3, <1>5
    <2> QED BY <2>1, <1>1, <1>3, SentProperties
  <1>6. k + 1 <= n => k < n
    BY <1>2, <1>3
  <1> HIDE DEF k, sent, n, g
  <1> QED BY <1>2, <1>4, <1>5, <1>6 DEF k, sent, n

(* However a connection breaks, the peer reads the first messages sent, in *)
(* order and whole (write_message, read_message, handle_connection).       *)
THEOREM PeersReadWhatWasSent == Spec => []ReadsWhatWasSent
  <1>1. Init => OutputIsMade /\ StreamInv
    BY OutputIsMadeInductive, InitStreamInv
  <1>2. OutputIsMade /\ StreamInv /\ [Next]_vars => (OutputIsMade /\ StreamInv)'
    BY OutputIsMadeInductive, StreamInvInductive
  <1>3. OutputIsMade /\ StreamInv => ReadsWhatWasSent
    BY StreamInvImplies
  <1> QED BY <1>1, <1>2, <1>3, PTL DEF Spec

(* What lk expire lists is expired or ends within the days asked for, and  *)
(* whatever it does not list is good past them.                            *)
THEOREM ExpirySilenceIsSafe == Spec => []SilenceIsSafe
  <1>1. OutputIsMade => SilenceIsSafe
    <2> SUFFICES ASSUME OutputIsMade, output.op = "expire",
                        output.now + output.days * DAY < WIDTH
                 PROVE  SilenceIsSafe
      BY DEF SilenceIsSafe
    <2> DEFINE now == output.now
               secs == output.days * DAY
               exp(n) == input.vault[n].expires
    <2>1. now \in Nat /\ secs \in Nat /\ WIDTH \in Nat \ {0}
      BY WidthAssumption, FormatsAssumption DEF OutputIsMade, Time
    <2>2. output.report = handle_expire(input.vault, now, output.days)
      BY DEF OutputIsMade
    <2> HIDE DEF now, secs
    <2>3. secs % WIDTH = secs /\ (now + secs) % WIDTH = now + secs
      BY <2>1 DEF now, secs
    <2>4. /\ output.report.expired = {n \in Expires(input.vault) : exp(n) <= now}
          /\ output.report.expiring =
               {n \in Expires(input.vault) : exp(n) > now /\ exp(n) <= now + secs}
      BY <2>2, <2>3 DEF handle_expire, expired_credentials, expiring_soon, secs
    <2>5. \A n \in Expires(input.vault) : exp(n) \in Nat
      BY WidthAssumption DEF Expires, Time
    <2> HIDE DEF exp
    <2>6. /\ output.report.expired \cap output.report.expiring = {}
          /\ \A n \in output.report.expired : exp(n) <= now
          /\ \A n \in output.report.expiring : exp(n) \in now .. now + secs
          /\ \A n \in Expires(input.vault)
                        \ (output.report.expired \cup output.report.expiring) :
                exp(n) > now + secs
      BY <2>1, <2>4, <2>5
    <2> QED BY <2>6 DEF SilenceIsSafe, now, secs, exp
  <1> QED BY <1>1, OutputIsMadeInductive, PTL DEF Spec

(***************************************************************************)
(* A shell reads what is printed                                           *)
(***************************************************************************)

Token == Character \cup {Export}
Mode == {"start", "word", "quoted", "escaped", "lost"}
Shells == [mode : Mode, word : Seq(Token), words : Seq(Seq(Token))]
Shell(mode, word, words) == [mode |-> mode, word |-> word, words |-> words]

ShellStep == [x \in Shells \X Token |-> ReadToken(x[1], x[2])]

LEMMA CharacterTokens ==
    /\ Letter \subseteq Token /\ Character \subseteq Token /\ Export \notin Character
    /\ {Blank, Newline, Return, Quote, DoubleQuote, Escape, Dollar, Hash} \subseteq Character
    /\ NeedsQuote \subseteq Character /\ Letter \cap NeedsQuote = {}
    /\ {Newline, Return, Quote, Escape, Export} \cap Letter = {}
  BY DEF Token, Character, Letter, Export, Blank, Newline, Return, Quote, DoubleQuote,
         Escape, Dollar, Hash, NeedsQuote

LEMMA ShellType ==
    ASSUME NEW mode \in Mode, NEW word \in Seq(Token), NEW words \in Seq(Seq(Token))
    PROVE  /\ Shell(mode, word, words) \in Shells
           /\ Shell(mode, word, words).mode = mode
           /\ Shell(mode, word, words).word = word
           /\ Shell(mode, word, words).words = words
  BY DEF Shell, Shells

(* What one token does.                                                    *)
LEMMA ReadTokenIs ==
    ASSUME NEW mode, NEW word \in Seq(Token), NEW words \in Seq(Seq(Token)), NEW c \in Token
    PROVE  /\ ReadToken(Shell("start", word, words), Export) = Shell("word", word, words)
           /\ ReadToken(Shell("quoted", word, words), Quote) = Shell("word", word, words)
           /\ c # Quote =>
                ReadToken(Shell("quoted", word, words), c)
                  = Shell("quoted", Append(word, c), words)
           /\ ReadToken(Shell("escaped", word, words), c)
                = Shell("word", Append(word, c), words)
           /\ ReadToken(Shell("word", word, words), Quote) = Shell("quoted", word, words)
           /\ ReadToken(Shell("word", word, words), Escape) = Shell("escaped", word, words)
           /\ ReadToken(Shell("word", word, words), Newline)
                = Shell("start", <<>>, Append(words, word))
           /\ c \notin NeedsQuote \cup {Export} =>
                ReadToken(Shell("word", word, words), c)
                  = Shell("word", Append(word, c), words)
  <1> USE DEF Export, Blank, Newline, Return, Quote, DoubleQuote, Escape, Dollar, Hash,
              NeedsQuote, Shell
  <1>1. ReadToken(Shell("start", word, words), Export) = Shell("word", word, words)
    BY DEF ReadToken
  <1>2. ReadToken(Shell("quoted", word, words), Quote) = Shell("word", word, words)
    BY DEF ReadToken
  <1>3. ASSUME c # Quote
        PROVE  ReadToken(Shell("quoted", word, words), c)
                 = Shell("quoted", Append(word, c), words)
    BY <1>3 DEF ReadToken
  <1>4. ReadToken(Shell("escaped", word, words), c) = Shell("word", Append(word, c), words)
    BY DEF ReadToken
  <1>5. ReadToken(Shell("word", word, words), Quote) = Shell("quoted", word, words)
    BY DEF ReadToken
  <1>6. ReadToken(Shell("word", word, words), Escape) = Shell("escaped", word, words)
    BY DEF ReadToken
  <1>7. ReadToken(Shell("word", word, words), Newline)
          = Shell("start", <<>>, Append(words, word))
    BY DEF ReadToken
  <1>8. ASSUME c \notin NeedsQuote \cup {Export}
        PROVE  ReadToken(Shell("word", word, words), c)
                 = Shell("word", Append(word, c), words)
    BY <1>8 DEF ReadToken
  <1> QED BY <1>1, <1>2, <1>3, <1>4, <1>5, <1>6, <1>7, <1>8

LEMMA ReadTokenType ==
    ASSUME NEW s \in Shells, NEW c \in Token
    PROVE  ReadToken(s, c) \in Shells
  <1>1. /\ s.mode \in Mode /\ s.word \in Seq(Token) /\ s.words \in Seq(Seq(Token))
        /\ s \in [mode : Mode, word : Seq(Token), words : Seq(Seq(Token))]
    BY DEF Shells
  <1> DEFINE more == Append(s.word, c)
             also == Append(s.words, s.word)
  <1>2. more \in Seq(Token) /\ also \in Seq(Seq(Token)) /\ <<>> \in Seq(Token)
    <2> DEFINE V == Seq(Token)
    <2>1. more \in V /\ <<>> \in V
      BY <1>1
    <2>2. s.word \in V /\ s.words \in Seq(V)
      BY <1>1
    <2> HIDE DEF V
    <2>3. also \in Seq(V)
      BY ONLY <2>2
    <2> QED BY <2>1, <2>3 DEF V
  <1> DEFINE set(m) == [s EXCEPT !.mode = m]
             longer == [s EXCEPT !.word = Append(@, c)]
             begun == [s EXCEPT !.mode = "word", !.word = Append(@, c)]
             done == [s EXCEPT !.mode = "start", !.word = <<>>, !.words = Append(@, s.word)]
  <1>3. /\ "start" \in Mode /\ "word" \in Mode /\ "quoted" \in Mode /\ "escaped" \in Mode
        /\ "lost" \in Mode
    BY DEF Mode
  <1>4. ASSUME NEW m \in Mode PROVE set(m) \in Shells
    BY ONLY <1>1, <1>4 DEF Shells
  <1>5. longer \in Shells
    BY ONLY <1>1, <1>2 DEF Shells
  <1>6. begun \in Shells
    BY ONLY <1>1, <1>2, <1>3 DEF Shells
  <1>7. done \in Shells
    BY ONLY <1>1, <1>2, <1>3 DEF Shells
  <1>8. /\ set("start") \in Shells /\ set("word") \in Shells /\ set("quoted") \in Shells
        /\ set("escaped") \in Shells /\ set("lost") \in Shells
    BY ONLY <1>3, <1>4
  <1>9. \/ ReadToken(s, c) \in {set("start"), set("word"), set("quoted"), set("escaped"),
                                set("lost")}
        \/ ReadToken(s, c) = longer \/ ReadToken(s, c) = begun \/ ReadToken(s, c) = done
    BY DEF ReadToken
  <1> HIDE DEF set, longer, begun, done
  <1> QED BY <1>5, <1>6, <1>7, <1>8, <1>9

LEMMA ShellStepIs ==
    /\ IsStep(ShellStep, Shells, Token)
    /\ \A s \in Shells, c \in Token : ShellStep[<<s, c>>] = ReadToken(s, c)
  BY ReadTokenType DEF IsStep, ShellStep

LEMMA ShellFold ==
    ASSUME NEW s \in Shells, NEW text \in Seq(Token)
    PROVE  FoldLeft(ReadToken, s, text) = Fold(ShellStep, s, text)
  <1> DEFINE n == Len(text)
             D == SUBSET (1 .. n)
  <1>1. DOMAIN text = 1 .. n /\ n \in Nat
    OBVIOUS
  <1>2. PICK f : IsSetFold(f, Shells, ShellStep, s, text)
    BY ShellStepIs, SetFoldExists
  <1>3. f = [S \in D |-> IF S = {} THEN s ELSE ReadToken(f[S \ {Max(S)}], text[Max(S)])]
    <2>1. ASSUME NEW S \in D, S # {}
          PROVE  f[S] = ReadToken(f[S \ {Max(S)}], text[Max(S)])
      <3>1. S \ {Max(S)} \in D /\ Max(S) \in 1 .. n
        BY <1>2, <2>1 DEF IsSetFold
      <3>2. f[S \ {Max(S)}] \in Shells /\ text[Max(S)] \in Token
        BY <1>2, <3>1, ElementOfSeq DEF IsSetFold
      <3> QED BY <1>2, <2>1, <3>2, ShellStepIs DEF IsSetFold
    <2> QED BY <1>2, <2>1 DEF IsSetFold
  <1>4. PICK g : /\ g = [S \in SUBSET DOMAIN text |->
                           IF S = {} THEN s ELSE ReadToken(g[S \ {Max(S)}], text[Max(S)])]
                 /\ FoldLeft(ReadToken, s, text) = g[DOMAIN text]
    BY <1>1, <1>3 DEF FoldLeft, MapThenFoldSet
  <1>5. StepsOn(g, Shells, ShellStep, s, text)
    <2>1. ASSUME NEW S \in D, S # {}, g[S \ {Max(S)}] \in Shells
          PROVE  g[S] = ShellStep[<<g[S \ {Max(S)}], text[Max(S)]>>]
      <3>1. Max(S) \in 1 .. n
        BY <1>2, <2>1 DEF IsSetFold
      <3>2. text[Max(S)] \in Token
        BY <3>1, ElementOfSeq
      <3> QED BY <1>1, <1>4, <2>1, <3>2, ShellStepIs
    <2>2. g[{}] = s
      BY <1>1, <1>4
    <2> QED BY <2>1, <2>2 DEF StepsOn
  <1>6. g[1 .. n] = Fold(ShellStep, s, text)
    BY <1>5, ShellStepIs, SetFoldIs
  <1> QED BY <1>1, <1>4, <1>6

(* A text grows by one more element of v.                                  *)
Grows(T, w, v) ==
    /\ w \o SubSeq(v, 1, 0) = w /\ w \o SubSeq(v, 1, Len(v)) = w \o v
    /\ \A i \in 0 .. Len(v) : w \o SubSeq(v, 1, i) \in Seq(T)
    /\ \A i \in 1 .. Len(v) :
          /\ v[i] \in T
          /\ w \o SubSeq(v, 1, i) = Append(w \o SubSeq(v, 1, i - 1), v[i])

LEMMA Grow ==
    ASSUME NEW T, NEW w \in Seq(T), NEW v \in Seq(T)
    PROVE  Grows(T, w, v)
  <1>1. w \o SubSeq(v, 1, 0) = w
    <2>1. SubSeq(v, 1, 0) = <<>>
      OBVIOUS
    <2> QED BY <2>1
  <1>2. SubSeq(v, 1, Len(v)) = v
    OBVIOUS
  <1>3. ASSUME NEW i \in 0 .. Len(v) PROVE w \o SubSeq(v, 1, i) \in Seq(T)
    <2>1. SubSeq(v, 1, i) \in Seq(T)
      OBVIOUS
    <2> QED BY <2>1
  <1>4. ASSUME NEW i \in 1 .. Len(v)
        PROVE  /\ v[i] \in T
               /\ w \o SubSeq(v, 1, i) = Append(w \o SubSeq(v, 1, i - 1), v[i])
    <2> DEFINE x == SubSeq(v, 1, i - 1)
    <2>1. v[i] \in T /\ x \in Seq(T)
      OBVIOUS
    <2>2. SubSeq(v, 1, i) = Append(x, v[i])
      OBVIOUS
    <2> HIDE DEF x
    <2>3. w \o Append(x, v[i]) = Append(w \o x, v[i])
      BY ONLY <2>1, w \in Seq(T)
    <2> QED BY <2>1, <2>2, <2>3 DEF x
  <1> QED BY <1>1, <1>2, <1>3, <1>4 DEF Grows

(* A fold that goes through the states of z.                               *)
GoesThrough(z, st, seq) == \A i \in 1 .. Len(seq) : st[<<z[i - 1], seq[i]>>] = z[i]

LEMMA FoldThrough ==
    ASSUME NEW X, NEW T, NEW st, IsStep(st, X, T), NEW seq \in Seq(T),
           NEW z, GoesThrough(z, st, seq)
    PROVE  Fold(st, z[0], seq) = z[Len(seq)]
  <1> USE DEF GoesThrough
  <1> DEFINE run == [i \in 0 .. Len(seq) |-> z[i]]
  <1>1. Len(seq) \in Nat
    OBVIOUS
  <1>2. \A i \in 1 .. Len(seq) : i \in 0 .. Len(seq) /\ i - 1 \in 0 .. Len(seq)
    OBVIOUS
  <1>3. IsRun(run, st, z[0], seq)
    BY <1>1, <1>2 DEF IsRun
  <1>4. Fold(st, z[0], seq) = run[Len(seq)]
    <2> HIDE DEF run
    <2> QED BY <1>1, <1>3, FoldIs
  <1> QED BY <1>1, <1>4

(* Characters that need no quotes are read as they are.                    *)
LEMMA ReadPlain ==
    ASSUME NEW w \in Seq(Token), NEW ws \in Seq(Seq(Token)), NEW v \in Seq(Token),
           \A i \in 1 .. Len(v) : v[i] \notin NeedsQuote \cup {Export}
    PROVE  /\ Fold(ShellStep, Shell("word", w, ws), v) = Shell("word", w \o v, ws)
           /\ Shell("word", w \o v, ws) \in Shells
  <1> DEFINE u(i) == w \o SubSeq(v, 1, i)
             z == [i \in 0 .. Len(v) |-> Shell("word", u(i), ws)]
  <1>0. "word" \in Mode
    BY DEF Mode
  <1>1. /\ u(0) = w /\ u(Len(v)) = w \o v /\ \A i \in 0 .. Len(v) : u(i) \in Seq(Token)
        /\ \A i \in 1 .. Len(v) : v[i] \in Token /\ u(i) = Append(u(i - 1), v[i])
    <2>1. Grows(Token, w, v)
      BY Grow
    <2> QED BY ONLY <2>1 DEF Grows
  <1>2. Len(v) \in Nat /\ \A i \in 1 .. Len(v) : i - 1 \in 0 .. Len(v) /\ i \in 0 .. Len(v)
    OBVIOUS
  <1> HIDE DEF u
  <1>3. ASSUME NEW i \in 1 .. Len(v) PROVE ShellStep[<<z[i - 1], v[i]>>] = z[i]
    <2>1. /\ u(i - 1) \in Seq(Token) /\ v[i] \in Token /\ u(i) = Append(u(i - 1), v[i])
          /\ v[i] \notin NeedsQuote \cup {Export}
      BY <1>1, <1>2
    <2>2. ReadToken(Shell("word", u(i - 1), ws), v[i]) = Shell("word", Append(u(i - 1), v[i]), ws)
      BY <2>1, ReadTokenIs
    <2>3. Shell("word", u(i - 1), ws) \in Shells
      BY <1>0, <2>1, ShellType
    <2>4. ShellStep[<<Shell("word", u(i - 1), ws), v[i]>>] = Shell("word", u(i), ws)
      BY <2>1, <2>2, <2>3, ShellStepIs
    <2> QED BY <1>2, <2>4
  <1>4. z[0] = Shell("word", w, ws) /\ z[Len(v)] = Shell("word", w \o v, ws)
    <2>1. 0 \in 0 .. Len(v) /\ Len(v) \in 0 .. Len(v)
      BY <1>2
    <2> QED BY <1>1, <2>1
  <1>5. Fold(ShellStep, z[0], v) = z[Len(v)]
    <2> HIDE DEF z
    <2>1. GoesThrough(z, ShellStep, v)
      BY <1>3 DEF GoesThrough
    <2> QED BY <2>1, ShellStepIs, FoldThrough
  <1>6. w \o v \in Seq(Token)
    OBVIOUS
  <1> HIDE DEF z
  <1> QED BY <1>0, <1>4, <1>5, <1>6, ShellType

(* What shell_quote makes of one character.                                *)
Quoted(c) == IF c = Quote THEN <<Quote, Escape, Quote, Quote>> ELSE <<c>>

LEMMA ReadQuoted ==
    ASSUME NEW w \in Seq(Token), NEW ws \in Seq(Seq(Token)), NEW c \in Token
    PROVE  /\ Fold(ShellStep, Shell("quoted", w, ws), Quoted(c))
                = Shell("quoted", Append(w, c), ws)
           /\ Quoted(c) \in Seq(Token)
           /\ Shell("quoted", w, ws) \in Shells
           /\ Shell("quoted", Append(w, c), ws) \in Shells
  <1> DEFINE at(mode, word) == Shell(mode, word, ws)
             more == Append(w, c)
  <1>1. more \in Seq(Token)
    OBVIOUS
  <1> HIDE DEF more
  <1>2. \A mode \in Mode : at(mode, w) \in Shells /\ at(mode, more) \in Shells
    BY <1>1, ShellType
  <1>3. /\ "word" \in Mode /\ "quoted" \in Mode /\ "escaped" \in Mode
        /\ Quote \in Token /\ Escape \in Token
    BY CharacterTokens DEF Mode, Token
  <1>4. CASE c # Quote
    <2>1. ReadToken(at("quoted", w), c) = at("quoted", more)
      BY <1>4, ReadTokenIs DEF more
    <2> HIDE DEF at
    <2>2. Fold(ShellStep, at("quoted", w), <<c>>) = ShellStep[<<at("quoted", w), c>>]
      BY <1>2, <1>3, ShellStepIs, FoldOne
    <2>3. <<c>> \in Seq(Token) /\ Quoted(c) = <<c>>
      BY <1>4 DEF Quoted
    <2> QED BY <1>2, <1>3, <2>1, <2>2, <2>3, ShellStepIs DEF at, more
  <1>5. CASE c = Quote
    <2> DEFINE z == [i \in 0 .. 4 |-> CASE i = 0 -> at("quoted", w) [] i = 1 -> at("word", w)
                                        [] i = 2 -> at("escaped", w) [] i = 3 -> at("word", more)
                                        [] i = 4 -> at("quoted", more)]
               four == <<Quote, Escape, Quote, Quote>>
    <2>1. /\ ReadToken(at("quoted", w), Quote) = at("word", w)
          /\ ReadToken(at("word", w), Escape) = at("escaped", w)
          /\ ReadToken(at("escaped", w), Quote) = at("word", more)
          /\ ReadToken(at("word", more), Quote) = at("quoted", more)
      <3>1. \A x \in Seq(Token) : /\ ReadToken(at("quoted", x), Quote) = at("word", x)
                                  /\ ReadToken(at("word", x), Escape) = at("escaped", x)
                                  /\ ReadToken(at("word", x), Quote) = at("quoted", x)
        BY <1>3, ReadTokenIs
      <3>2. ReadToken(at("escaped", w), Quote) = at("word", more)
        BY <1>5, ReadTokenIs DEF more
      <3> HIDE DEF at
      <3> QED BY <1>1, <3>1, <3>2
    <2>2. /\ four \in Seq(Token) /\ Len(four) = 4
          /\ four[1] = Quote /\ four[2] = Escape /\ four[3] = Quote /\ four[4] = Quote
      BY <1>3
    <2> HIDE DEF at, four
    <2>3. /\ z[0] = at("quoted", w) /\ z[1] = at("word", w) /\ z[2] = at("escaped", w)
          /\ z[3] = at("word", more) /\ z[4] = at("quoted", more)
      OBVIOUS
    <2> HIDE DEF z
    <2>4. /\ ShellStep[<<z[0], four[1]>>] = z[1] /\ ShellStep[<<z[1], four[2]>>] = z[2]
          /\ ShellStep[<<z[2], four[3]>>] = z[3] /\ ShellStep[<<z[3], four[4]>>] = z[4]
      BY <1>2, <1>3, <2>1, <2>2, <2>3, ShellStepIs
    <2>5. \A i \in 1 .. Len(four) : ShellStep[<<z[i - 1], four[i]>>] = z[i]
      <3> SUFFICES ASSUME NEW i \in 1 .. 4 PROVE ShellStep[<<z[i - 1], four[i]>>] = z[i]
        BY <2>2
      <3>1. \/ (i = 1 /\ i - 1 = 0) \/ (i = 2 /\ i - 1 = 1)
            \/ (i = 3 /\ i - 1 = 2) \/ (i = 4 /\ i - 1 = 3)
        OBVIOUS
      <3> QED BY <3>1, <2>4
    <2>6. Fold(ShellStep, z[0], four) = z[Len(four)]
      <3>1. GoesThrough(z, ShellStep, four)
        BY <2>5 DEF GoesThrough
      <3>2. four \in Seq(Token) /\ IsStep(ShellStep, Shells, Token)
        BY <2>2, ShellStepIs
      <3> QED BY ONLY <3>1, <3>2, FoldThrough
    <2>7. Quoted(c) = four
      BY <1>5 DEF Quoted, four
    <2> QED BY <1>2, <1>3, <2>2, <2>3, <2>6, <2>7 DEF at, more
  <1> QED BY <1>4, <1>5

LEMMA ShellReads ==
    /\ \A s \in Shells, c \in Token : Fold(ShellStep, s, <<c>>) = ReadToken(s, c)
    /\ \A s \in Shells, x, y \in Seq(Token) :
          Fold(ShellStep, s, x \o y) = Fold(ShellStep, Fold(ShellStep, s, x), y)
    /\ \A s \in Shells, x \in Seq(Token) : Fold(ShellStep, s, x) \in Shells
  <1>1. IsStep(ShellStep, Shells, Token)
    BY ShellStepIs
  <1>2. ASSUME NEW s \in Shells, NEW c \in Token
        PROVE  Fold(ShellStep, s, <<c>>) = ReadToken(s, c)
    <2>1. Fold(ShellStep, s, <<c>>) = ShellStep[<<s, c>>]
      BY <1>1, FoldOne
    <2> QED BY <2>1, ShellStepIs
  <1>3. ASSUME NEW s \in Shells, NEW x \in Seq(Token), NEW y \in Seq(Token)
        PROVE  Fold(ShellStep, s, x \o y) = Fold(ShellStep, Fold(ShellStep, s, x), y)
    BY <1>1, FoldConcat
  <1>4. ASSUME NEW s \in Shells, NEW x \in Seq(Token) PROVE Fold(ShellStep, s, x) \in Shells
    BY <1>1, FoldType
  <1> QED BY <1>2, <1>3, <1>4

Inside(v) == [i \in DOMAIN v |-> Quoted(v[i])]

LEMMA InsideType ==
    ASSUME NEW v \in Seq(Token)
    PROVE  Inside(v) \in Seq(Seq(Token)) /\ Len(Inside(v)) = Len(v)
  <1>1. \A c \in Token : Quoted(c) \in Seq(Token)
    <2>1. Quote \in Token /\ Escape \in Token
      BY CharacterTokens DEF Token
    <2> QED BY <2>1 DEF Quoted
  <1> DEFINE V == Seq(Token)
  <1>2. Len(v) \in Nat /\ DOMAIN v = 1 .. Len(v) /\ \A i \in 1 .. Len(v) : v[i] \in Token
    OBVIOUS
  <1>3. \A c \in Token : Quoted(c) \in V
    BY <1>1
  <1> HIDE DEF V
  <1>4. Inside(v) \in [1 .. Len(v) -> V]
    BY <1>2, <1>3 DEF Inside
  <1>5. Inside(v) \in Seq(V) /\ Len(Inside(v)) = Len(v)
    BY <1>2, <1>4
  <1> QED BY <1>5 DEF V

(* Inside quotes everything is read as it is.                              *)
LEMMA ReadInside ==
    ASSUME NEW w \in Seq(Token), NEW ws \in Seq(Seq(Token)), NEW v \in Seq(Token)
    PROVE  Fold(ShellStep, Shell("quoted", w, ws), FlattenSeq(Inside(v)))
             = Shell("quoted", w \o v, ws)
  <1> DEFINE u(i) == w \o SubSeq(v, 1, i)
             z == [i \in 0 .. Len(v) |-> Shell("quoted", u(i), ws)]
  <1>0. "quoted" \in Mode
    BY DEF Mode
  <1>1. /\ u(0) = w /\ u(Len(v)) = w \o v /\ \A i \in 0 .. Len(v) : u(i) \in Seq(Token)
        /\ \A i \in 1 .. Len(v) : v[i] \in Token /\ u(i) = Append(u(i - 1), v[i])
    <2>1. Grows(Token, w, v)
      BY Grow
    <2> QED BY ONLY <2>1 DEF Grows
  <1>2. /\ Len(v) \in Nat /\ 0 \in 0 .. Len(v) /\ Len(v) \in 0 .. Len(v) /\ DOMAIN v = 1 .. Len(v)
        /\ \A i \in 1 .. Len(v) : i - 1 \in 0 .. Len(v) /\ i \in 0 .. Len(v)
    OBVIOUS
  <1> HIDE DEF u
  <1>3. ASSUME NEW i \in 1 .. Len(v) PROVE Fold(ShellStep, z[i - 1], Inside(v)[i]) = z[i]
    <2>1. u(i - 1) \in Seq(Token) /\ v[i] \in Token /\ u(i) = Append(u(i - 1), v[i])
      BY <1>1, <1>2
    <2>2. Fold(ShellStep, Shell("quoted", u(i - 1), ws), Quoted(v[i]))
            = Shell("quoted", Append(u(i - 1), v[i]), ws)
      BY <2>1, ReadQuoted
    <2> QED BY <1>2, <2>1, <2>2 DEF Inside
  <1>4. z[0] = Shell("quoted", w, ws) /\ z[Len(v)] = Shell("quoted", w \o v, ws)
    BY <1>1, <1>2
  <1>5. \A i \in 0 .. Len(v) : z[i] \in Shells
    BY <1>0, <1>1, ShellType
  <1>6. Fold(ShellStep, z[0], FlattenSeq(Inside(v))) = z[Len(v)]
    <2> HIDE DEF z
    <2>1. Passes(z, Shells, ShellStep, Inside(v))
      BY <1>3, <1>5, InsideType DEF Passes
    <2>2. Inside(v) \in Seq(Seq(Token)) /\ Len(Inside(v)) = Len(v)
      BY InsideType
    <2>3. IsStep(ShellStep, Shells, Token)
      BY ShellStepIs
    <2>4. Fold(ShellStep, z[0], FlattenSeq(Inside(v))) = z[Len(Inside(v))]
      BY ONLY <2>1, <2>2, <2>3, FoldChunks
    <2> QED BY <2>2, <2>4
  <1> HIDE DEF z
  <1> QED BY <1>4, <1>6

(* A value is read as it was before shell_quote.                           *)
LEMMA ReadShellQuote ==
    ASSUME NEW w \in Seq(Token), NEW ws \in Seq(Seq(Token)), NEW v \in String
    PROVE  /\ Fold(ShellStep, Shell("word", w, ws), shell_quote(v))
                = Shell("word", w \o v, ws)
           /\ shell_quote(v) \in Seq(Token)
           /\ w \o v \in Seq(Token)
  <1>1. v \in Seq(Token) /\ w \o v \in Seq(Token)
    <2>1. v \in Seq(Token)
      BY DEF String, Token
    <2> QED BY <2>1
  <1> DEFINE at(mode, word) == Shell(mode, word, ws)
             f == FlattenSeq(Inside(v))
             e == w \o v
  <1>2. /\ "word" \in Mode /\ "quoted" \in Mode /\ Quote \in Token
    BY CharacterTokens DEF Mode, Token
  <1>3. f \in Seq(Token) /\ <<Quote>> \in Seq(Token)
    BY <1>1, <1>2, InsideType, FlattenProperties
  <1>4. /\ at("word", w) \in Shells /\ at("quoted", w) \in Shells
        /\ at("word", e) \in Shells /\ at("quoted", e) \in Shells
    BY <1>1, <1>2, ShellType
  <1>5. Fold(ShellStep, at("word", w), (<<Quote>> \o f) \o <<Quote>>) = at("word", e)
    <2>1. ReadToken(at("word", w), Quote) = at("quoted", w)
      BY <1>2, ReadTokenIs
    <2>2. ReadToken(at("quoted", e), Quote) = at("word", e)
      BY <1>1, <1>2, ReadTokenIs
    <2>3. Fold(ShellStep, at("quoted", w), f) = at("quoted", e)
      BY <1>1, ReadInside
    <2> DEFINE q == <<Quote>>
               a == at("word", w)
               b == at("quoted", w)
               c == at("quoted", e)
               d == at("word", e)
    <2>4. /\ a \in Shells /\ b \in Shells /\ c \in Shells /\ d \in Shells
          /\ f \in Seq(Token) /\ q \in Seq(Token)
          /\ Fold(ShellStep, b, f) = c
      BY <1>3, <1>4, <2>3
    <2>5. Fold(ShellStep, a, q) = b /\ Fold(ShellStep, c, q) = d
      BY ONLY <1>2, <2>1, <2>2, <2>4, ShellReads, Zenon
    <2> HIDE DEF a, b, c, d, q, f
    <2>6. q \o f \in Seq(Token)
      BY ONLY <2>4
    <2>7. Fold(ShellStep, a, (q \o f) \o q) = d
      <3>1. Fold(ShellStep, a, (q \o f) \o q) = Fold(ShellStep, Fold(ShellStep, a, q \o f), q)
        BY ONLY <2>4, <2>6, ShellReads, Zenon
      <3>2. Fold(ShellStep, a, q \o f) = Fold(ShellStep, Fold(ShellStep, a, q), f)
        BY ONLY <2>4, ShellReads, Zenon
      <3> QED BY ONLY <2>4, <2>5, <3>1, <3>2, Zenon
    <2> QED BY <2>7 DEF a, d, q
  <1>6. CASE v = <<>> \/ ToSet(v) \cap NeedsQuote # {}
    <2>1. shell_quote(v) = (<<Quote>> \o f) \o <<Quote>>
      <3>1. CASE v = <<>>
        <4>1. Inside(v) = <<>>
          BY <3>1 DEF Inside
        <4>2. f = <<>>
          BY <4>1, FlattenProperties
        <4>3. shell_quote(v) = <<Quote, Quote>>
          BY <3>1 DEF shell_quote
        <4> HIDE DEF f
        <4> QED BY ONLY <4>2, <4>3
      <3>2. CASE v # <<>>
        BY <1>6, <3>2 DEF shell_quote, Inside, Quoted
      <3> QED BY <3>1, <3>2
    <2> HIDE DEF f
    <2>2. shell_quote(v) \in Seq(Token)
      BY <1>3, <2>1
    <2> QED BY <1>1, <1>5, <2>1, <2>2 DEF f
  <1>7. CASE ~(v = <<>> \/ ToSet(v) \cap NeedsQuote # {})
    <2>1. shell_quote(v) = v
      BY <1>7 DEF shell_quote
    <2>2. \A i \in 1 .. Len(v) : v[i] \in ToSet(v) /\ v[i] \in Character
      BY DEF ToSet, String
    <2>3. \A i \in 1 .. Len(v) : v[i] \notin NeedsQuote \cup {Export}
      BY <1>7, <2>2, CharacterTokens
    <2> QED BY <1>1, <2>1, <2>3, ReadPlain
  <1> QED BY <1>6, <1>7

NameLetter == Letter \ {"="}
Word(key, value) == (UpperCase(key) \o <<"=">>) \o value

LEMMA UpperCaseType ==
    ASSUME NEW key \in String
    PROVE  /\ UpperCase(key) \in String /\ Len(UpperCase(key)) = Len(key)
           /\ IsName(key) => /\ UpperCase(key) \in Seq(NameLetter)
                             /\ UpperCase(key) # <<>>
  <1> DEFINE up(c) == CASE c = "a" -> "A" [] c = "b" -> "B" [] OTHER -> c
  <1>1. /\ \A c \in Character : up(c) \in Character
        /\ \A c \in NameLetter : up(c) \in NameLetter
    BY DEF Character, Letter, NameLetter
  <1>2. /\ Len(key) \in Nat /\ DOMAIN key = 1 .. Len(key)
        /\ \A i \in 1 .. Len(key) : key[i] \in Character
    BY DEF String
  <1>3. UpperCase(key) = [i \in 1 .. Len(key) |-> up(key[i])]
    BY <1>2 DEF UpperCase
  <1> HIDE DEF up
  <1>4. UpperCase(key) \in [1 .. Len(key) -> Character]
    BY <1>1, <1>2, <1>3
  <1>5. UpperCase(key) \in String /\ Len(UpperCase(key)) = Len(key)
    BY <1>2, <1>4 DEF String
  <1>6. ASSUME IsName(key)
        PROVE  UpperCase(key) \in Seq(NameLetter) /\ UpperCase(key) # <<>>
    <2>1. \A i \in 1 .. Len(key) : key[i] \in NameLetter
      BY <1>2, <1>6 DEF IsName, ToSet, NameLetter
    <2>2. UpperCase(key) \in [1 .. Len(key) -> NameLetter]
      BY <1>1, <1>3, <2>1
    <2>3. UpperCase(key) \in Seq(NameLetter)
      BY <1>2, <2>2
    <2>4. Len(key) # 0
      BY <1>6, <1>2 DEF IsName, String
    <2> QED BY <2>3, <2>4, <1>5
  <1> QED BY <1>5, <1>6

(* The name and "=" need no quotes.                                        *)
LEMMA NameIsPlain ==
    ASSUME NEW key \in String, IsName(key)
    PROVE  /\ UpperCase(key) \o <<"=">> \in Seq(Token)
           /\ \A i \in 1 .. Len(UpperCase(key) \o <<"=">>) :
                 (UpperCase(key) \o <<"=">>)[i] \notin NeedsQuote \cup {Export}
  <1>1. UpperCase(key) \in Seq(NameLetter)
    BY UpperCaseType
  <1>2. UpperCase(key) \in Seq(Letter) /\ <<"=">> \in Seq(Letter)
    BY <1>1 DEF NameLetter, Letter
  <1> DEFINE s == UpperCase(key) \o <<"=">>
  <1>3. s \in Seq(Letter)
    BY <1>2
  <1> HIDE DEF s
  <1>4. s \in Seq(Token)
    BY <1>3, CharacterTokens
  <1>5. \A i \in 1 .. Len(s) : s[i] \in Letter
    BY <1>3
  <1>6. \A i \in 1 .. Len(s) : s[i] \notin NeedsQuote \cup {Export}
    BY <1>5, CharacterTokens
  <1> QED BY <1>4, <1>6 DEF s

(* A line of lk get --export becomes a word.                               *)
LEMMA ReadExportLine ==
    ASSUME NEW ws \in Seq(Seq(Token)), NEW key \in String, IsName(key), NEW value \in String
    PROVE  /\ Fold(ShellStep, Shell("start", <<>>, ws), <<Export>> \o Assignment(key, value))
                = Shell("start", <<>>, Append(ws, Word(key, value)))
           /\ <<Export>> \o Assignment(key, value) \in Seq(Token)
           /\ Word(key, value) \in Seq(Token)
  <1> DEFINE name == UpperCase(key) \o <<"=">>
             quoted == shell_quote(value)
             at(mode, word) == Shell(mode, word, ws)
             end == Shell("start", <<>>, Append(ws, Word(key, value)))
             word == name \o value
             nl == <<Newline>>
             ex == <<Export>>
  <1>0. /\ "word" \in Mode /\ "start" \in Mode /\ Newline \in Token /\ Export \in Token
        /\ <<>> \in Seq(Token)
    BY CharacterTokens DEF Mode, Token
  <1>1. /\ name \in Seq(Token)
        /\ \A i \in 1 .. Len(name) : name[i] \notin NeedsQuote \cup {Export}
    BY NameIsPlain
  <1>2. Word(key, value) = word
    BY DEF Word
  <1> HIDE DEF name
  <1>3. Fold(ShellStep, at("word", <<>>), name) = at("word", name)
    <2>1. Fold(ShellStep, at("word", <<>>), name) = at("word", <<>> \o name)
      BY <1>0, <1>1, ReadPlain
    <2>2. <<>> \o name = name
      BY ONLY <1>1
    <2> QED BY <2>1, <2>2
  <1>4. /\ Fold(ShellStep, at("word", name), quoted) = at("word", word)
        /\ quoted \in Seq(Token) /\ word \in Seq(Token)
    BY <1>1, ReadShellQuote
  <1> HIDE DEF quoted, word
  <1>5. /\ ReadToken(at("start", <<>>), Export) = at("word", <<>>)
        /\ ReadToken(at("word", word), Newline) = end
    BY <1>0, <1>2, <1>4, ReadTokenIs
  <1>6. /\ at("start", <<>>) \in Shells /\ at("word", <<>>) \in Shells
        /\ at("word", name) \in Shells /\ at("word", word) \in Shells
    BY <1>0, <1>1, <1>4, ShellType
  <1> HIDE DEF at, end
  <1>7. /\ Fold(ShellStep, at("start", <<>>), ex) = at("word", <<>>)
        /\ Fold(ShellStep, at("word", word), nl) = end
        /\ ex \in Seq(Token) /\ nl \in Seq(Token)
    BY <1>0, <1>5, <1>6, ShellReads
  <1> HIDE DEF nl, ex
  <1>8. /\ name \o quoted \in Seq(Token) /\ (name \o quoted) \o nl \in Seq(Token)
        /\ ex \o ((name \o quoted) \o nl) \in Seq(Token)
    BY ONLY <1>1, <1>4, <1>7
  <1>9. Fold(ShellStep, at("start", <<>>), ex \o ((name \o quoted) \o nl)) = end
    <2>1. Fold(ShellStep, at("start", <<>>), ex \o ((name \o quoted) \o nl))
            = Fold(ShellStep, Fold(ShellStep, at("start", <<>>), ex), (name \o quoted) \o nl)
      BY ONLY <1>6, <1>7, <1>8, ShellReads, Zenon
    <2>2. Fold(ShellStep, at("word", <<>>), (name \o quoted) \o nl)
            = Fold(ShellStep, Fold(ShellStep, at("word", <<>>), name \o quoted), nl)
      BY ONLY <1>6, <1>7, <1>8, ShellReads, Zenon
    <2>3. Fold(ShellStep, at("word", <<>>), name \o quoted)
            = Fold(ShellStep, Fold(ShellStep, at("word", <<>>), name), quoted)
      BY ONLY <1>1, <1>4, <1>6, ShellReads, Zenon
    <2> QED BY ONLY <1>3, <1>4, <1>7, <2>1, <2>2, <2>3, Zenon
  <1>10. Assignment(key, value) = (name \o quoted) \o nl
    BY DEF Assignment, name, quoted, nl
  <1> QED BY <1>2, <1>4, <1>8, <1>9, <1>10 DEF at, end, ex

(* The lines of an export and the words they become, for keys and values.  *)
ExportLines(keys, vals) ==
    [i \in DOMAIN keys |-> <<Export>> \o Assignment(keys[i], vals[i])]
Words(keys, vals) == [i \in DOMAIN keys |-> Word(keys[i], vals[i])]

LEMMA ReadExportLines ==
    ASSUME NEW keys \in Seq(String), NEW vals \in Seq(String), Len(vals) = Len(keys),
           \A i \in 1 .. Len(keys) : IsName(keys[i])
    PROVE  /\ FoldLeft(ReadToken, Shell("start", <<>>, <<>>),
                       FlattenSeq(ExportLines(keys, vals)))
                = Shell("start", <<>>, Words(keys, vals))
           /\ Words(keys, vals) \in Seq(Seq(Token)) /\ Len(Words(keys, vals)) = Len(keys)
           /\ \A i \in 1 .. Len(keys) : Words(keys, vals)[i] = Word(keys[i], vals[i])
  <1> DEFINE n == Len(keys)
             V == Seq(Token)
             lines == ExportLines(keys, vals)
             words == Words(keys, vals)
             at(ws) == Shell("start", <<>>, ws)
             z == [i \in 0 .. n |-> at(SubSeq(words, 1, i))]
  <1>1. n \in Nat /\ DOMAIN keys = 1 .. n /\ 0 \in 0 .. n /\ n \in 0 .. n
    OBVIOUS
  <1>2. \A i \in 1 .. n : keys[i] \in String /\ vals[i] \in String /\ IsName(keys[i])
    OBVIOUS
  <1>3. /\ \A i \in 1 .. n : words[i] = Word(keys[i], vals[i])
        /\ \A i \in 1 .. n : lines[i] = <<Export>> \o Assignment(keys[i], vals[i])
    BY <1>1 DEF Words, ExportLines
  <1>4. <<>> \in V /\ <<>> \in Seq(V)
    OBVIOUS
  <1>5. ASSUME NEW i \in 1 .. n, NEW ws \in Seq(V)
        PROVE  /\ Fold(ShellStep, at(ws), lines[i]) = at(Append(ws, words[i]))
               /\ lines[i] \in V /\ words[i] \in V
    BY <1>2, <1>3, ReadExportLine, ZenonT(30)
  <1>6. /\ lines \in [1 .. n -> V] /\ words \in [1 .. n -> V]
    <2>1. \A i \in 1 .. n : lines[i] \in V /\ words[i] \in V
      BY <1>4, <1>5
    <2> HIDE DEF V
    <2> QED BY <1>1, <2>1 DEF Words, ExportLines
  <1>7. lines \in Seq(V) /\ Len(lines) = n /\ words \in Seq(V) /\ Len(words) = n
    <2> HIDE DEF V, lines, words, n
    <2> QED BY ONLY <1>1, <1>6
  <1>8. /\ \A i \in 1 .. n : SubSeq(words, 1, i) = Append(SubSeq(words, 1, i - 1), words[i])
        /\ SubSeq(words, 1, 0) = <<>> /\ SubSeq(words, 1, n) = words
        /\ \A i \in 0 .. n : SubSeq(words, 1, i) \in Seq(V)
    <2> HIDE DEF V, lines, words, n
    <2> QED BY ONLY <1>1, <1>7
  <1>9. \A ws \in Seq(V) : at(ws) \in Shells
    <2>1. "start" \in Mode
      BY DEF Mode
    <2> QED BY <2>1, <1>4, ShellType
  <1> HIDE DEF V, lines, words, n, at
  <1>10. Passes(z, Shells, ShellStep, lines)
    <2>1. \A i \in 0 .. Len(lines) : z[i] \in Shells
      BY <1>1, <1>7, <1>8, <1>9
    <2>2. ASSUME NEW i \in 1 .. Len(lines) PROVE Fold(ShellStep, z[i - 1], lines[i]) = z[i]
      <3>1. i \in 1 .. n /\ i \in 0 .. n /\ i - 1 \in 0 .. n
        BY <1>1, <1>7
      <3>2. SubSeq(words, 1, i) = Append(SubSeq(words, 1, i - 1), words[i])
        BY <1>8, <3>1
      <3>3. SubSeq(words, 1, i - 1) \in Seq(V)
        BY <1>8, <3>1
      <3> DEFINE ws == SubSeq(words, 1, i - 1)
      <3>4. Fold(ShellStep, at(ws), lines[i]) = at(Append(ws, words[i]))
        <4> HIDE DEF ws
        <4> QED BY <1>5, <3>1, <3>3 DEF ws
      <3> QED BY <3>1, <3>2, <3>4
    <2> HIDE DEF z
    <2> QED BY <2>1, <2>2 DEF Passes
  <1>11. z[0] = at(<<>>) /\ z[n] = at(words)
    BY <1>1, <1>8
  <1>12. Fold(ShellStep, z[0], FlattenSeq(lines)) = z[Len(lines)]
    <2> HIDE DEF z
    <2>1. IsStep(ShellStep, Shells, Token)
      BY ShellStepIs
    <2>2. lines \in Seq(Seq(Token))
      BY <1>7 DEF V
    <2> QED BY ONLY <1>10, <2>1, <2>2, FoldChunks
  <1>13. FlattenSeq(lines) \in Seq(Token)
    BY <1>7, FlattenProperties DEF V
  <1>14. FoldLeft(ReadToken, at(<<>>), FlattenSeq(lines)) = at(words)
    <2> HIDE DEF z
    <2>1. at(<<>>) \in Shells
      BY <1>4, <1>9
    <2>2. FoldLeft(ReadToken, at(<<>>), FlattenSeq(lines))
            = Fold(ShellStep, at(<<>>), FlattenSeq(lines))
      BY <1>13, <2>1, ShellFold
    <2> QED BY <1>7, <1>11, <1>12, <2>2
  <1> QED BY <1>3, <1>7, <1>14 DEF V, words, lines, n, at

(***************************************************************************)
(* Entries put into a map, one after another                               *)
(***************************************************************************)

LEMMA WithProperties ==
    ASSUME NEW map, NEW key, NEW value
    PROVE  /\ DOMAIN With(map, key, value) = DOMAIN map \cup {key}
           /\ With(map, key, value)[key] = value
           /\ \A k \in DOMAIN map : k # key => With(map, key, value)[k] = map[k]
  BY DEF With

Puts(r, keys, vals, n) == \A i \in 1 .. n : r[i] = With(r[i - 1], keys[i], vals[i])
Distinct(keys, n) == \A i, j \in 1 .. n : keys[i] = keys[j] => i = j

(* What is in the map after all were put.                                  *)
HasAll(map, base, keys, vals, n) ==
    /\ DOMAIN map = DOMAIN base \cup {keys[i] : i \in 1 .. n}
    /\ \A i \in 1 .. n : map[keys[i]] = vals[i]
    /\ \A k \in DOMAIN base \ {keys[i] : i \in 1 .. n} : map[k] = base[k]

LEMMA PutAll ==
    ASSUME NEW n \in Nat, NEW r, NEW keys, NEW vals,
           Puts(r, keys, vals, n), Distinct(keys, n)
    PROVE  HasAll(r[n], r[0], keys, vals, n)
  <1> DEFINE P(j) == j <= n => HasAll(r[j], r[0], keys, vals, j)
             Q == {j \in Nat : P(j)}
  <1>1. P(0)
    <2>1. \A i \in 1 .. 0 : FALSE
      OBVIOUS
    <2> QED BY <2>1 DEF HasAll
  <1>2. ASSUME NEW j \in Nat, P(j) PROVE P(j + 1)
    <2> SUFFICES ASSUME j + 1 <= n PROVE HasAll(r[j + 1], r[0], keys, vals, j + 1)
      OBVIOUS
    <2> DEFINE k == keys[j + 1]
               v == vals[j + 1]
               m == r[j]
               new == r[j + 1]
               b == r[0]
               before == {keys[i] : i \in 1 .. j}
               now == {keys[i] : i \in 1 .. j + 1}
    <2>1. j <= n /\ j + 1 \in 1 .. n /\ j + 1 - 1 = j
      OBVIOUS
    <2>2. new = With(m, k, v)
      BY <2>1 DEF Puts
    <2>3. /\ DOMAIN m = DOMAIN b \cup before
          /\ \A i \in 1 .. j : m[keys[i]] = vals[i]
          /\ \A x \in DOMAIN b \ before : m[x] = b[x]
      BY <1>2, <2>1 DEF HasAll
    <2>4. /\ DOMAIN new = DOMAIN m \cup {k} /\ new[k] = v
          /\ \A x \in DOMAIN m : x # k => new[x] = m[x]
      <3> HIDE DEF new, m, k, v
      <3> QED BY ONLY <2>2 DEF With
    <2>5. now = before \cup {k}
      <3>1. 1 .. j + 1 = (1 .. j) \cup {j + 1}
        OBVIOUS
      <3> QED BY <3>1
    <2>6. \A i \in 1 .. j : keys[i] # k /\ keys[i] \in before
      BY <2>1 DEF Distinct
    <2> HIDE DEF now, before, new, b, m
    <2>7. DOMAIN new = DOMAIN b \cup now
      BY <2>3, <2>4, <2>5
    <2>8. ASSUME NEW i \in 1 .. j + 1 PROVE new[keys[i]] = vals[i]
      <3>1. CASE i = j + 1
        BY <3>1, <2>4
      <3>2. CASE i # j + 1
        <4>1. i \in 1 .. j
          BY <3>2
        <4> QED BY <4>1, <2>3, <2>4, <2>6
      <3> QED BY <3>1, <3>2
    <2>9. \A x \in DOMAIN b \ now : new[x] = b[x]
      BY <2>3, <2>4, <2>5
    <2> QED BY <2>7, <2>8, <2>9 DEF HasAll, now, new, b
  <1>3. Q = Nat
    <2> HIDE DEF P
    <2>1. 0 \in Q /\ \A j \in Q : j + 1 \in Q
      BY <1>1, <1>2
    <2> QED BY <2>1, NatInd
  <1>4. P(n)
    <2> HIDE DEF P
    <2> QED BY <1>3
  <1> QED BY <1>4

Maps(K, Y) == UNION {[D -> Y] : D \in SUBSET K}

LEMMA WithType ==
    ASSUME NEW K, NEW Y, NEW map \in Maps(K, Y), NEW key \in K, NEW value \in Y
    PROVE  With(map, key, value) \in Maps(K, Y)
  <1>1. PICK D \in SUBSET K : map \in [D -> Y]
    BY DEF Maps
  <1>2. DOMAIN map = D /\ \A k \in D : map[k] \in Y
    BY <1>1
  <1> DEFINE new == With(map, key, value)
  <1>3. new \in [D \cup {key} -> Y]
    BY <1>2 DEF With
  <1>4. D \cup {key} \in SUBSET K
    OBVIOUS
  <1> HIDE DEF new
  <1> QED BY <1>3, <1>4 DEF Maps, new

(***************************************************************************)
(* The variables of the shell                                              *)
(***************************************************************************)

(* Words that assign something.                                            *)
Assignments == {w \in Seq(Token) : \E i \in DOMAIN w : w[i] = "="}
Envs == Maps(Seq(Token), Seq(Token))
AssignStep == [x \in Envs \X Assignments |-> Assign(x[1], x[2])]

LEMMA MinIs ==
    ASSUME NEW S \in SUBSET Nat, NEW m \in S, \A x \in S : m <= x
    PROVE  Min(S) = m
  <1>1. \A x \in S : (\A y \in S : x <= y) => x = m
    BY SMT
  <1> QED BY <1>1 DEF Min

LEMMA MinProperties ==
    ASSUME NEW S \in SUBSET Nat, S # {}
    PROVE  Min(S) \in S /\ \A x \in S : Min(S) <= x
  <1> DEFINE R == OpToRel(<, Nat)
  <1>1. IsWellFoundedOn(R, Nat)
    BY NatLessThanWellFounded
  <1>2. PICK m \in S : \A y \in S : ~(<<y, m>> \in R)
    <2> HIDE DEF R
    <2> QED BY <1>1, WFMin
  <1>3. ASSUME NEW y \in S PROVE m <= y
    <2>1. ~(y < m)
      BY <1>2 DEF OpToRel
    <2> QED BY <2>1
  <1> QED BY <1>3, MinIs

(* The first "=" ends the name.                                            *)
LEMMA AssignIs ==
    ASSUME NEW env \in Envs, NEW word \in Assignments
    PROVE  Assign(env, word) \in Envs
  <1> DEFINE S == {i \in DOMAIN word : word[i] = "="}
  <1>1. S \in SUBSET (1 .. Len(word)) /\ S # {} /\ S \in SUBSET Nat
    BY DEF Assignments
  <1>2. Min(S) \in 1 .. Len(word)
    BY <1>1, MinProperties
  <1> DEFINE eq == Min(S)
  <1>3. word \in Seq(Token) /\ Len(word) \in Nat
    BY DEF Assignments
  <1>4. SubSeq(word, 1, eq - 1) \in Seq(Token) /\ SubSeq(word, eq + 1, Len(word)) \in Seq(Token)
    <2> HIDE DEF S
    <2>1. \A i \in 1 .. Len(word) : word[i] \in Token
      BY <1>3
    <2>2. eq \in 1 .. Len(word)
      BY <1>2
    <2> HIDE DEF eq
    <2> QED BY ONLY <1>3, <2>2
  <1>5. Assign(env, word) = With(env, SubSeq(word, 1, eq - 1), SubSeq(word, eq + 1, Len(word)))
    BY DEF Assign
  <1> HIDE DEF eq
  <1> QED BY <1>4, <1>5, WithType DEF Envs

LEMMA AssignStepIs ==
    /\ IsStep(AssignStep, Envs, Assignments)
    /\ \A env \in Envs, w \in Assignments : AssignStep[<<env, w>>] = Assign(env, w)
  BY AssignIs DEF IsStep, AssignStep

LEMMA AssignFold ==
    ASSUME NEW env \in Envs, NEW words \in Seq(Assignments)
    PROVE  FoldLeft(Assign, env, words) = Fold(AssignStep, env, words)
  <1> DEFINE n == Len(words)
             D == SUBSET (1 .. n)
  <1>1. DOMAIN words = 1 .. n /\ n \in Nat
    OBVIOUS
  <1>2. PICK f : IsSetFold(f, Envs, AssignStep, env, words)
    BY AssignStepIs, SetFoldExists
  <1>3. f = [S \in D |-> IF S = {} THEN env ELSE Assign(f[S \ {Max(S)}], words[Max(S)])]
    <2>1. ASSUME NEW S \in D, S # {}
          PROVE  f[S] = Assign(f[S \ {Max(S)}], words[Max(S)])
      <3>1. S \ {Max(S)} \in D /\ Max(S) \in 1 .. n
        BY <1>2, <2>1 DEF IsSetFold
      <3>2. f[S \ {Max(S)}] \in Envs /\ words[Max(S)] \in Assignments
        BY <1>2, <3>1, ElementOfSeq DEF IsSetFold
      <3> QED BY <1>2, <2>1, <3>2, AssignStepIs DEF IsSetFold
    <2> QED BY <1>2, <2>1 DEF IsSetFold
  <1>4. PICK g : /\ g = [S \in SUBSET DOMAIN words |->
                           IF S = {} THEN env ELSE Assign(g[S \ {Max(S)}], words[Max(S)])]
                 /\ FoldLeft(Assign, env, words) = g[DOMAIN words]
    BY <1>1, <1>3 DEF FoldLeft, MapThenFoldSet
  <1>5. StepsOn(g, Envs, AssignStep, env, words)
    <2>1. ASSUME NEW S \in D, S # {}, g[S \ {Max(S)}] \in Envs
          PROVE  g[S] = AssignStep[<<g[S \ {Max(S)}], words[Max(S)]>>]
      <3>1. Max(S) \in 1 .. n
        BY <1>2, <2>1 DEF IsSetFold
      <3>2. words[Max(S)] \in Assignments
        BY <3>1, ElementOfSeq
      <3> QED BY <1>1, <1>4, <2>1, <3>2, AssignStepIs
    <2>2. g[{}] = env
      BY <1>1, <1>4
    <2> QED BY <2>1, <2>2 DEF StepsOn
  <1>6. g[1 .. n] = Fold(AssignStep, env, words)
    BY <1>5, AssignStepIs, SetFoldIs
  <1> QED BY <1>1, <1>4, <1>6

(* A text in three parts.                                                  *)
LEMMA PartsOf ==
    ASSUME NEW T, NEW a \in Seq(T), NEW x \in T, NEW b \in Seq(T),
           NEW w, w = (a \o <<x>>) \o b
    PROVE  /\ w \in Seq(T) /\ Len(w) = Len(a) + 1 + Len(b)
           /\ \A i \in 1 .. Len(a) : w[i] = a[i]
           /\ w[Len(a) + 1] = x
           /\ SubSeq(w, 1, Len(a)) = a
           /\ SubSeq(w, Len(a) + 2, Len(w)) = b
  <1> DEFINE m == Len(a)
             n == Len(b)
             ax == a \o <<x>>
  <1>1. m \in Nat /\ n \in Nat
    OBVIOUS
  <1>2. /\ ax \in Seq(T) /\ Len(ax) = m + 1 /\ ax[m + 1] = x
        /\ \A i \in 1 .. m : ax[i] = a[i]
    OBVIOUS
  <1> HIDE DEF ax
  <1>3. /\ w \in Seq(T) /\ Len(w) = m + 1 + n
        /\ \A i \in 1 .. m + 1 : w[i] = ax[i]
        /\ \A i \in 1 .. n : w[m + 1 + i] = b[i]
    BY <1>2 DEF ax
  <1>4. (\A i \in 1 .. m : w[i] = a[i]) /\ w[m + 1] = x
    BY <1>1, <1>2, <1>3
  <1>5. SubSeq(w, 1, m) = a
    <2> DEFINE s == SubSeq(w, 1, m)
    <2>1. s \in Seq(T) /\ Len(s) = m /\ \A i \in 1 .. m : s[i] = w[i]
      BY <1>1, <1>3
    <2> HIDE DEF s
    <2> QED BY <2>1, <1>4, SeqEqual DEF s
  <1>6. SubSeq(w, m + 2, Len(w)) = b
    <2> DEFINE s == SubSeq(w, m + 2, Len(w))
    <2>0. \A i \in 1 .. n : m + 2 + i - 1 = m + 1 + i
      BY <1>1
    <2>1. s \in Seq(T) /\ Len(s) = n /\ \A i \in 1 .. n : s[i] = w[m + 1 + i]
      BY <1>1, <1>3, <2>0
    <2> HIDE DEF s
    <2> QED BY <2>1, <1>3, SeqEqual DEF s
  <1> QED BY <1>3, <1>4, <1>5, <1>6

LEMMA AssignWord ==
    ASSUME NEW env \in Envs, NEW key \in String, IsName(key), NEW value \in String
    PROVE  /\ Word(key, value) \in Assignments
           /\ Assign(env, Word(key, value)) = With(env, UpperCase(key), value)
  <1> DEFINE a == UpperCase(key)
             w == Word(key, value)
             m == Len(a)
             S == {i \in DOMAIN w : w[i] = "="}
  <1>1. a \in Seq(NameLetter)
    BY UpperCaseType
  <1>2. a \in Seq(Token) /\ value \in Seq(Token) /\ "=" \in Token
    BY <1>1, CharacterTokens DEF NameLetter, String, Token, Letter
  <1>3. m \in Nat /\ \A i \in 1 .. m : a[i] # "="
    BY <1>1 DEF NameLetter
  <1>4. w = (a \o <<"=">>) \o value
    BY DEF Word
  <1> HIDE DEF a, w
  <1>5. /\ w \in Seq(Token) /\ Len(w) = m + 1 + Len(value)
        /\ \A i \in 1 .. m : w[i] = a[i]
        /\ w[m + 1] = "="
        /\ SubSeq(w, 1, m) = a
        /\ SubSeq(w, m + 2, Len(w)) = value
    BY ONLY <1>2, <1>4, PartsOf
  <1>6. DOMAIN w = 1 .. Len(w) /\ Len(value) \in Nat /\ Len(w) \in Nat
    BY ONLY <1>5, <1>2
  <1>7. m + 1 \in S /\ \A i \in S : m + 1 <= i
    <2>1. m + 1 \in S
      BY <1>3, <1>5, <1>6
    <2>2. ASSUME NEW i \in S, i < m + 1 PROVE FALSE
      <3>1. i \in 1 .. m
        BY <2>2, <1>3, <1>6
      <3> QED BY <3>1, <1>3, <1>5
    <2>3. S \subseteq Nat
      BY <1>6
    <2> QED BY <2>1, <2>2, <2>3, <1>3
  <1>8. Min(S) = m + 1
    <2>1. S \in SUBSET Nat
      BY <1>6
    <2> HIDE DEF S
    <2> QED BY <1>7, <2>1, MinIs
  <1>9. (m + 1) - 1 = m /\ (m + 1) + 1 = m + 2
    BY <1>3
  <1>10. Assign(env, w) = With(env, a, value)
    <2>1. Assign(env, w) = With(env, SubSeq(w, 1, Min(S) - 1), SubSeq(w, Min(S) + 1, Len(w)))
      BY DEF Assign
    <2> HIDE DEF S
    <2> QED BY <2>1, <1>5, <1>8, <1>9
  <1>11. w \in Assignments
    BY <1>5, <1>7 DEF Assignments
  <1> QED BY <1>10, <1>11 DEF a, w

Uppers(keys) == [i \in DOMAIN keys |-> UpperCase(keys[i])]

(* A shell that evaluates an export has each value under its name.         *)
LEMMA EvalExportLines ==
    ASSUME NEW keys \in Seq(String), NEW vals \in Seq(String), Len(vals) = Len(keys),
           \A i \in 1 .. Len(keys) : IsName(keys[i]),
           Distinct(Uppers(keys), Len(keys))
    PROVE  LET shell == Eval(FlattenSeq(ExportLines(keys, vals)))
           IN  /\ shell.kind = "variables"
               /\ HasAll(shell.env, <<>>, Uppers(keys), vals, Len(keys))
  <1> DEFINE n == Len(keys)
             text == FlattenSeq(ExportLines(keys, vals))
             words == Words(keys, vals)
             first == Shell("start", <<>>, <<>>)
             ups == Uppers(keys)
  <1>1. /\ FoldLeft(ReadToken, first, text) = Shell("start", <<>>, words)
        /\ Len(words) = n /\ \A i \in 1 .. n : words[i] = Word(keys[i], vals[i])
        /\ words \in Seq(Seq(Token))
    BY ReadExportLines
  <1>2. /\ n \in Nat /\ DOMAIN keys = 1 .. n
        /\ \A i \in 1 .. n : keys[i] \in String /\ vals[i] \in String /\ IsName(keys[i])
    OBVIOUS
  <1>3. <<>> \in Envs
    <2>1. <<>> \in [{} -> Seq(Token)]
      OBVIOUS
    <2> QED BY <2>1 DEF Envs, Maps
  <1> HIDE DEF words
  <1>4. \A i \in 1 .. n : words[i] \in Assignments
    BY <1>1, <1>2, <1>3, AssignWord
  <1>5. words \in Seq(Assignments)
    <2>1. DOMAIN words = 1 .. n /\ words = [i \in 1 .. n |-> words[i]]
      BY <1>1
    <2>2. words \in [1 .. n -> Assignments]
      BY <1>4, <2>1
    <2> QED BY <1>2, <2>2
  <1> DEFINE r == Run(AssignStep, <<>>, words)
  <1>6. /\ IsRun(r, AssignStep, <<>>, words) /\ Fold(AssignStep, <<>>, words) = r[n]
        /\ \A i \in 0 .. n : r[i] \in Envs
    <2>1. IsStep(AssignStep, Envs, Assignments)
      BY AssignStepIs
    <2>2. /\ IsRun(r, AssignStep, <<>>, words)
          /\ \A i \in 0 .. Len(words) : r[i] \in Envs
      BY ONLY <1>3, <1>5, <2>1, FoldType
    <2> QED BY <1>1, <2>2 DEF Fold
  <1> HIDE DEF r
  <1>7. Puts(r, ups, vals, n)
    <2>1. ASSUME NEW i \in 1 .. n PROVE r[i] = With(r[i - 1], ups[i], vals[i])
      <3>1. i - 1 \in 0 .. n /\ r[i - 1] \in Envs
        BY <1>2, <1>6
      <3>2. r[i] = AssignStep[<<r[i - 1], words[i]>>]
        BY <1>1, <1>6 DEF IsRun
      <3>3. r[i] = Assign(r[i - 1], words[i])
        BY <3>1, <3>2, <1>4, AssignStepIs
      <3>4. Assign(r[i - 1], Word(keys[i], vals[i]))
              = With(r[i - 1], UpperCase(keys[i]), vals[i])
        BY <3>1, <1>2, AssignWord
      <3>5. ups[i] = UpperCase(keys[i])
        BY <1>2 DEF Uppers
      <3> QED BY <1>1, <3>3, <3>4, <3>5
    <2> QED BY <2>1 DEF Puts
  <1>8. r[0] = <<>>
    BY <1>6 DEF IsRun
  <1>9. HasAll(r[n], <<>>, ups, vals, n)
    <2> HIDE DEF ups, n
    <2>1. HasAll(r[n], r[0], ups, vals, n)
      BY <1>2, <1>7, PutAll DEF ups, n
    <2> QED BY <2>1, <1>8
  <1>10. Eval(text) = [kind |-> "variables", env |-> r[n]]
    <2>1. FoldLeft(Assign, <<>>, words) = r[n]
      BY <1>3, <1>5, <1>6, AssignFold
    <2>2. first = [mode |-> "start", word |-> <<>>, words |-> <<>>]
      BY DEF Shell
    <2>3. /\ Shell("start", <<>>, words).mode = "start"
          /\ Shell("start", <<>>, words).words = words
      BY DEF Shell
    <2> HIDE DEF text, first
    <2> QED BY <1>1, <2>1, <2>2, <2>3 DEF Eval
  <1> HIDE DEF r, text
  <1>11. Eval(text).kind = "variables" /\ Eval(text).env = r[n]
    BY <1>10
  <1> QED BY <1>9, <1>11 DEF text

(***************************************************************************)
(* Vaults are finite, and their names can be put in an order               *)
(***************************************************************************)

IsVault(v) ==
    /\ IsFiniteSet(DOMAIN v) /\ DOMAIN v \subseteq String \X String
    /\ v \in [DOMAIN v -> [value : String, expires : Time \cup {Never}]]

Enumerates(q, S) ==
    /\ q \in Seq(S) /\ Distinct(q, Len(q))
    /\ S = {q[i] : i \in 1 .. Len(q)}

LEMMA SetToSeqEnumerates ==
    ASSUME NEW S, IsFiniteSet(S)
    PROVE  Enumerates(SetToSeq(S), S)
  <1> DEFINE n == Cardinality(S)
             q == SetToSeq(S)
  <1>1. n \in Nat /\ ExistsBijection(1 .. n, S)
    BY FS_CardinalityType
  <1>2. PICK b \in Bijection(1 .. n, S) : TRUE
    BY <1>1 DEF ExistsBijection
  <1>3. b \in [1 .. n -> S] /\ IsInjective(b)
    BY <1>2 DEF Bijection, Injection
  <1>4. q \in [1 .. n -> S] /\ IsInjective(q)
    BY <1>3 DEF SetToSeq
  <1> HIDE DEF q
  <1>5. q \in Injection(1 .. n, S)
    BY <1>4 DEF Injection
  <1>6. IsFiniteSet(1 .. n) /\ Cardinality(1 .. n) = n
    <2>1. 1 \in Int /\ n \in Int
      BY <1>1
    <2>2. n - 1 + 1 = n /\ (1 > n => n = 0)
      BY <1>1
    <2> HIDE DEF n
    <2> QED BY <1>1, <2>1, <2>2, FS_Interval
  <1>7. q \in Surjection(1 .. n, S)
    BY <1>5, <1>6, FS_Injection
  <1>8. \A x \in S : \E i \in 1 .. n : q[i] = x
    BY <1>7 DEF Surjection
  <1>9. q \in Seq(S) /\ Len(q) = n
    BY <1>1, <1>4
  <1>10. Distinct(q, n)
    BY <1>4 DEF Distinct, IsInjective
  <1>11. S = {q[i] : i \in 1 .. n}
    BY <1>4, <1>8
  <1> QED BY <1>9, <1>10, <1>11 DEF Enumerates, q

LEMMA ImageIsFinite ==
    ASSUME NEW D, IsFiniteSet(D), NEW T, NEW f \in [D -> T],
           \A t \in T : \E d \in D : f[d] = t
    PROVE  IsFiniteSet(T)
  <1>1. f \in Surjection(D, T)
    BY Fun_IsSurj
  <1> QED BY <1>1, FS_Surjection

LEMMA NamesAreFinite ==
    ASSUME NEW v, IsVault(v)
    PROVE  /\ IsFiniteSet(Profiles(v)) /\ Profiles(v) \subseteq String
           /\ \A p : /\ IsFiniteSet(Keys(v, p)) /\ Keys(v, p) \subseteq String
                     /\ \A k : k \in Keys(v, p) <=> <<p, k>> \in DOMAIN v
  <1> USE DEF IsVault
  <1>1. ASSUME NEW n \in DOMAIN v PROVE n[1] \in String /\ n[2] \in String /\ n = <<n[1], n[2]>>
    BY <1>1
  <1>2. IsFiniteSet(Profiles(v))
    <2> DEFINE f == [n \in DOMAIN v |-> n[1]]
    <2>1. f \in [DOMAIN v -> Profiles(v)] /\ \A t \in Profiles(v) : \E d \in DOMAIN v : f[d] = t
      BY DEF Profiles
    <2> HIDE DEF f
    <2> QED BY <2>1, ImageIsFinite
  <1>3. ASSUME NEW p
        PROVE  /\ IsFiniteSet(Keys(v, p)) /\ Keys(v, p) \subseteq String
               /\ \A k : k \in Keys(v, p) <=> <<p, k>> \in DOMAIN v
    <2> DEFINE D == {n \in DOMAIN v : n[1] = p}
               f == [n \in D |-> n[2]]
    <2>1. f \in [D -> Keys(v, p)] /\ \A t \in Keys(v, p) : \E d \in D : f[d] = t
      BY DEF Keys
    <2>2. IsFiniteSet(D)
      BY FS_Subset
    <2>3. IsFiniteSet(Keys(v, p))
      <3> HIDE DEF f, D
      <3> QED BY <2>1, <2>2, ImageIsFinite
    <2>4. Keys(v, p) \subseteq String
      BY <1>1 DEF Keys
    <2>5. ASSUME NEW k PROVE k \in Keys(v, p) <=> <<p, k>> \in DOMAIN v
      <3>1. <<p, k>>[1] = p /\ <<p, k>>[2] = k
        OBVIOUS
      <3>2. <<p, k>> \in DOMAIN v => k \in Keys(v, p)
        BY <3>1 DEF Keys
      <3>3. ASSUME k \in Keys(v, p) PROVE <<p, k>> \in DOMAIN v
        <4>1. PICK n \in DOMAIN v : n[1] = p /\ n[2] = k
          BY <3>3 DEF Keys
        <4> QED BY <4>1, <1>1
      <3> QED BY <3>2, <3>3
    <2> QED BY <2>3, <2>4, <2>5
  <1> QED BY <1>1, <1>2, <1>3 DEF Profiles

(* The keys of a profile in the order of printing, and their values.       *)
KeysOf(v, p) == Sorted(Keys(v, p))
ValuesOf(v, p) == [i \in DOMAIN KeysOf(v, p) |-> v[<<p, KeysOf(v, p)[i]>>].value]

LEMMA KeysOfType ==
    ASSUME NEW v, IsVault(v), NEW p
    PROVE  /\ KeysOf(v, p) \in Seq(String) /\ Enumerates(KeysOf(v, p), Keys(v, p))
           /\ ValuesOf(v, p) \in Seq(String) /\ Len(ValuesOf(v, p)) = Len(KeysOf(v, p))
           /\ \A i \in 1 .. Len(KeysOf(v, p)) :
                 /\ <<p, KeysOf(v, p)[i]>> \in DOMAIN v
                 /\ ValuesOf(v, p)[i] = v[<<p, KeysOf(v, p)[i]>>].value
  <1> DEFINE q == KeysOf(v, p)
             n == Len(q)
  <1>1. Enumerates(q, Keys(v, p))
    BY NamesAreFinite, SetToSeqEnumerates DEF KeysOf, Sorted
  <1>2. Keys(v, p) \subseteq String /\ \A k \in Keys(v, p) : <<p, k>> \in DOMAIN v
    BY NamesAreFinite
  <1> HIDE DEF q
  <1>3. q \in Seq(Keys(v, p)) /\ q \in Seq(String) /\ DOMAIN q = 1 .. n /\ n \in Nat
    BY <1>1, <1>2 DEF Enumerates
  <1>4. ASSUME NEW i \in 1 .. n
        PROVE  <<p, q[i]>> \in DOMAIN v /\ v[<<p, q[i]>>].value \in String
    <2>1. q[i] \in Keys(v, p)
      BY <1>3
    <2>2. <<p, q[i]>> \in DOMAIN v
      BY <1>2, <2>1
    <2> QED BY <2>2 DEF IsVault
  <1>5. ValuesOf(v, p) = [i \in 1 .. n |-> v[<<p, q[i]>>].value]
    BY <1>3 DEF ValuesOf, q
  <1>6. ValuesOf(v, p) \in [1 .. n -> String]
    BY <1>4, <1>5
  <1>7. ValuesOf(v, p) \in Seq(String) /\ Len(ValuesOf(v, p)) = n
    BY <1>3, <1>6
  <1> QED BY <1>1, <1>3, <1>4, <1>5, <1>7 DEF q

(***************************************************************************)
(* ShellGetsTheValues                                                      *)
(***************************************************************************)

(* The names of a vault in the profiles ps, and what the properties ask of *)
(* them.                                                                   *)
In(v, ps) == {n \in DOMAIN v : n[1] \in ps}
Apart(v, ps) == \A m, n \in In(v, ps) : UpperCase(m[2]) = UpperCase(n[2]) => m = n
Named(v, ps) == \A n \in In(v, ps) : Newline \notin ToSet(n[1]) /\ IsName(n[2])

LEMMA InProfile ==
    ASSUME NEW v, IsVault(v), NEW p
    PROVE  In(v, {p}) = {<<p, k>> : k \in Keys(v, p)}
  <1>1. \A n \in DOMAIN v : n = <<n[1], n[2]>>
    BY DEF IsVault
  <1>2. \A k : k \in Keys(v, p) <=> <<p, k>> \in DOMAIN v
    BY NamesAreFinite
  <1>3. ASSUME NEW n \in In(v, {p}) PROVE \E k \in Keys(v, p) : n = <<p, k>>
    <2>1. n \in DOMAIN v /\ n[1] = p
      BY DEF In
    <2>2. n = <<p, n[2]>>
      BY <1>1, <2>1
    <2> QED BY <1>2, <2>1, <2>2
  <1>4. ASSUME NEW k \in Keys(v, p) PROVE <<p, k>> \in In(v, {p})
    BY <1>2 DEF In
  <1> QED BY <1>3, <1>4

(* The names in upper case tell the keys of the profile apart.             *)
LEMMA UppersDistinct ==
    ASSUME NEW v, IsVault(v), NEW p, Apart(v, {p})
    PROVE  Distinct(Uppers(KeysOf(v, p)), Len(KeysOf(v, p)))
  <1> DEFINE q == KeysOf(v, p)
             n == Len(q)
  <1>1. q \in Seq(String) /\ Enumerates(q, Keys(v, p))
    BY KeysOfType
  <1> HIDE DEF q
  <1>2. DOMAIN q = 1 .. n
    BY <1>1
  <1>3. ASSUME NEW i \in 1 .. n, NEW j \in 1 .. n, Uppers(q)[i] = Uppers(q)[j]
        PROVE  i = j
    <2>1. q[i] \in Keys(v, p) /\ q[j] \in Keys(v, p)
      BY <1>1 DEF Enumerates
    <2>2. <<p, q[i]>> \in In(v, {p}) /\ <<p, q[j]>> \in In(v, {p})
      BY <2>1, InProfile
    <2>3. UpperCase(<<p, q[i]>>[2]) = UpperCase(<<p, q[j]>>[2])
      BY <1>2, <1>3 DEF Uppers
    <2>4. <<p, q[i]>> = <<p, q[j]>>
      BY <2>2, <2>3 DEF Apart
    <2>5. q[i] = q[j]
      BY <2>4
    <2> QED BY <1>1, <2>5 DEF Enumerates, Distinct
  <1> QED BY <1>3 DEF Distinct, q

(* The shell, for any vault.                                               *)
LEMMA EvalGetExport ==
    ASSUME NEW v, IsVault(v), NEW p, Apart(v, {p}), Named(v, {p})
    PROVE  LET shell == Eval(GetExport(v, p))
               env == shell.env
           IN  /\ shell.kind # "invalid"
               /\ DOMAIN env = {UpperCase(n[2]) : n \in In(v, {p})}
               /\ \A n \in In(v, {p}) : env[UpperCase(n[2])] = v[n].value
  <1> DEFINE q == KeysOf(v, p)
             vals == ValuesOf(v, p)
             n == Len(q)
             shell == Eval(GetExport(v, p))
             env == shell.env
             ups == Uppers(q)
  <1>1. /\ q \in Seq(String) /\ Enumerates(q, Keys(v, p))
        /\ vals \in Seq(String) /\ Len(vals) = n
        /\ \A i \in 1 .. n : /\ <<p, q[i]>> \in DOMAIN v
                             /\ vals[i] = v[<<p, q[i]>>].value
    BY KeysOfType
  <1>2. DOMAIN q = 1 .. n /\ n \in Nat
    BY <1>1
  <1>3. In(v, {p}) = {<<p, k>> : k \in Keys(v, p)}
    BY InProfile
  <1>4. Distinct(ups, n)
    BY UppersDistinct
  <1>5. ExportLines(q, vals)
          = [i \in DOMAIN q |-> <<Export>> \o Assignment(q[i], v[<<p, q[i]>>].value)]
    <2> HIDE DEF q, vals
    <2> QED BY <1>1, <1>2 DEF ExportLines
  <1>6. shell = Eval(FlattenSeq(ExportLines(q, vals)))
    BY <1>5 DEF GetExport, KeysOf
  <1> HIDE DEF q, vals, shell
  <1>7. \A i \in 1 .. n : q[i] \in Keys(v, p) /\ IsName(q[i])
    <2>1. ASSUME NEW i \in 1 .. n PROVE q[i] \in Keys(v, p) /\ IsName(q[i])
      <3>1. q[i] \in Keys(v, p)
        BY <1>1 DEF Enumerates
      <3>2. <<p, q[i]>> \in In(v, {p})
        BY <3>1, <1>3
      <3>3. IsName(<<p, q[i]>>[2])
        BY <3>2 DEF Named
      <3> QED BY <3>1, <3>3
    <2> QED BY <2>1
  <1>8. HasAll(env, <<>>, ups, vals, n) /\ shell.kind = "variables"
    BY <1>1, <1>4, <1>6, <1>7, EvalExportLines
  <1> HIDE DEF env
  <1>9. \A i \in 1 .. n : ups[i] = UpperCase(q[i])
    BY <1>2 DEF Uppers
  <1> HIDE DEF ups, n
  <1>10. \A k \in Keys(v, p) : \E i \in 1 .. n : k = q[i]
    BY <1>1 DEF Enumerates, n
  <1>11. DOMAIN env = {UpperCase(m[2]) : m \in In(v, {p})}
    <2>1. DOMAIN env = {ups[i] : i \in 1 .. n}
      <3>1. DOMAIN <<>> = {}
        OBVIOUS
      <3> QED BY <3>1, <1>8 DEF HasAll
    <2>2. ASSUME NEW i \in 1 .. n PROVE ups[i] \in {UpperCase(m[2]) : m \in In(v, {p})}
      <3>1. <<p, q[i]>> \in In(v, {p}) /\ <<p, q[i]>>[2] = q[i]
        BY <1>3, <1>7
      <3> QED BY <3>1, <1>9
    <2>3. ASSUME NEW m \in In(v, {p}) PROVE UpperCase(m[2]) \in {ups[i] : i \in 1 .. n}
      <3>1. PICK k \in Keys(v, p) : m = <<p, k>>
        BY <1>3
      <3>2. m[2] = k
        BY <3>1
      <3> QED BY <3>2, <1>9, <1>10
    <2> QED BY <2>1, <2>2, <2>3
  <1>12. ASSUME NEW m \in In(v, {p}) PROVE env[UpperCase(m[2])] = v[m].value
    <2>1. PICK k \in Keys(v, p) : m = <<p, k>>
      BY <1>3
    <2>2. m[2] = k
      BY <2>1
    <2>3. PICK i \in 1 .. n : k = q[i]
      BY <1>10
    <2>4. env[ups[i]] = vals[i]
      BY <1>8 DEF HasAll
    <2>5. vals[i] = v[<<p, q[i]>>].value /\ ups[i] = UpperCase(q[i])
      BY <1>1, <1>9 DEF n
    <2> QED BY <2>1, <2>2, <2>3, <2>4, <2>5
  <1> QED BY <1>8, <1>11, <1>12 DEF env, shell

LEMMA VaultsAreVaults == \A v \in Vaults \cup Targets : IsVault(v)
  BY FormatsAssumption DEF IsVault

LEMMA MadeOutputIsEvaluated ==
    ASSUME OutputIsMade
    PROVE  ShellGetsTheValues
  <1> SUFFICES ASSUME output.op = "eval", NamesStayApart(output.profiles),
                      WellNamed(output.profiles)
               PROVE  /\ output.shell.kind # "invalid"
                      /\ DOMAIN output.shell.env
                           = {UpperCase(n[2]) : n \in Printed(output.profiles)}
                      /\ \A n \in Printed(output.profiles) :
                            output.shell.env[UpperCase(n[2])] = input.vault[n].value
    BY Zenon DEF ShellGetsTheValues
  <1> DEFINE v == input.vault
             ps == output.profiles
  <1>1. EvalIsMade /\ v \in Vaults
    BY DEF OutputIsMade
  <1>2. PICK p \in Profiles(v) : ps = {p} /\ output.shell = Eval(GetExport(v, p))
    BY <1>1, Zenon DEF EvalIsMade
  <1>3. IsVault(v)
    BY <1>1, VaultsAreVaults
  <1>4. Printed(ps) = In(v, ps)
    BY DEF Printed, In
  <1>5. Apart(v, ps) /\ Named(v, ps)
    BY <1>4 DEF NamesStayApart, WellNamed, Apart, Named
  <1> DEFINE shell == Eval(GetExport(v, p))
  <1>6. /\ shell.kind # "invalid"
        /\ DOMAIN shell.env = {UpperCase(n[2]) : n \in In(v, {p})}
        /\ \A n \in In(v, {p}) : shell.env[UpperCase(n[2])] = v[n].value
    <2> HIDE DEF v
    <2> QED BY <1>2, <1>3, <1>5, EvalGetExport
  <1> HIDE DEF shell
  <1>7. output.shell = shell /\ Printed(ps) = In(v, {p})
    BY <1>2, <1>4 DEF shell
  <1> QED BY <1>6, <1>7

(* Whatever a profile holds, a shell that evaluates the printed export has *)
(* each value, to the character, under its name: no value ends its quotes  *)
(* early, runs into the next line or is expanded (handle_get, shell_quote). *)
THEOREM ShellsGetTheValues == Spec => []ShellGetsTheValues
  BY MadeOutputIsEvaluated, OutputIsMadeInductive, PTL DEF Spec

(***************************************************************************)
(* The lines of a text                                                     *)
(***************************************************************************)

Texts == Seq(Seq(Token))
SomeLines == Texts \ {<<>>}
LineStep == [x \in SomeLines \X Token |-> AddCharacter(x[1], x[2])]

LEMMA AddCharacterIs ==
    ASSUME NEW done \in Texts, NEW line \in Seq(Token), NEW c \in Token
    PROVE  /\ Append(done, line) \in SomeLines
           /\ c # Newline => AddCharacter(Append(done, line), c) = Append(done, Append(line, c))
           /\ AddCharacter(Append(done, line), Newline) = Append(Append(done, line), <<>>)
  <1> DEFINE V == Seq(Token)
             more == Append(line, c)
             n == Len(done)
             ls == Append(done, line)
  <1>1. done \in Seq(V) /\ line \in V /\ more \in V /\ n \in Nat
    BY DEF Texts
  <1> HIDE DEF V, more
  <1>2. /\ ls \in Seq(V) /\ Len(ls) = n + 1 /\ ls[n + 1] = line
        /\ \A i \in 1 .. n : ls[i] = done[i]
    BY <1>1
  <1>3. ls \in SomeLines
    BY <1>1, <1>2 DEF SomeLines, Texts, V
  <1>4. [ls EXCEPT ![Len(ls)] = more] = Append(done, more)
    <2> HIDE DEF ls
    <2>1. ls = [i \in 1 .. n + 1 |-> ls[i]]
      BY <1>2, <1>1
    <2> DEFINE new == [ls EXCEPT ![Len(ls)] = more]
    <2>2. new = [i \in 1 .. n + 1 |-> IF i = n + 1 THEN more ELSE ls[i]]
      BY <1>2, <2>1
    <2>3. \A i \in 1 .. n + 1 : ls[i] \in V
      BY <1>2
    <2>4. new \in [1 .. n + 1 -> V]
      BY <1>1, <2>2, <2>3
    <2>5. new \in Seq(V) /\ Len(new) = n + 1
      <3> HIDE DEF new
      <3> QED BY <1>1, <2>4
    <2>6. \A i \in 1 .. n : new[i] = done[i]
      BY <1>1, <1>2, <2>2
    <2>7. new[n + 1] = more
      BY <1>1, <2>2
    <2>8. Append(done, more) \in Seq(V) /\ Len(Append(done, more)) = n + 1
          /\ \A i \in 1 .. n + 1 : Append(done, more)[i] = IF i = n + 1 THEN more ELSE done[i]
      BY <1>1
    <2>9. \A i \in 1 .. n + 1 : new[i] = Append(done, more)[i]
      BY <1>1, <2>6, <2>7, <2>8
    <2> HIDE DEF new
    <2> QED BY <2>5, <2>8, <2>9, SeqEqual DEF new
  <1>5. c # Newline => AddCharacter(ls, c) = Append(done, more)
    <2> SUFFICES ASSUME c # Newline PROVE AddCharacter(ls, c) = Append(done, more)
      OBVIOUS
    <2>1. AddCharacter(ls, c) = [ls EXCEPT ![Len(ls)] = Append(ls[Len(ls)], c)]
      BY DEF AddCharacter
    <2>2. ls[Len(ls)] = line
      BY <1>2
    <2> HIDE DEF ls
    <2> QED BY <1>4, <2>1, <2>2 DEF more
  <1>6. AddCharacter(ls, Newline) = Append(ls, <<>>)
    BY DEF AddCharacter
  <1> QED BY <1>3, <1>5, <1>6 DEF more

LEMMA LinesEndOpen ==
    ASSUME NEW ls \in SomeLines
    PROVE  \E done \in Texts, line \in Seq(Token) : ls = Append(done, line)
  <1> DEFINE V == Seq(Token)
             n == Len(ls)
             done == SubSeq(ls, 1, n - 1)
  <1>1. ls \in Seq(V) /\ n \in Nat /\ n # 0
    BY DEF SomeLines, Texts
  <1> HIDE DEF V
  <1>2. ls[n] \in V /\ done \in Seq(V) /\ Len(done) = n - 1
    BY <1>1, SMTT(30)
  <1>3. ls = Append(done, ls[n])
    BY <1>1
  <1> QED BY <1>2, <1>3 DEF V, Texts

LEMMA LineStepIs ==
    /\ IsStep(LineStep, SomeLines, Token)
    /\ \A ls \in SomeLines, c \in Token : LineStep[<<ls, c>>] = AddCharacter(ls, c)
  <1>1. ASSUME NEW ls \in SomeLines, NEW c \in Token PROVE AddCharacter(ls, c) \in SomeLines
    <2>1. PICK done \in Texts, line \in Seq(Token) : ls = Append(done, line)
      BY LinesEndOpen
    <2>2. Append(line, c) \in Seq(Token) /\ <<>> \in Seq(Token)
      OBVIOUS
    <2>3. Append(done, Append(line, c)) \in SomeLines /\ ls \in Texts
      BY <2>2, AddCharacterIs DEF SomeLines
    <2>4. Append(ls, <<>>) \in SomeLines
      BY <2>2, <2>3, AddCharacterIs
    <2>5. CASE c = Newline
      <3>1. AddCharacter(ls, Newline) = Append(ls, <<>>)
        BY <2>1, <2>5, AddCharacterIs
      <3> QED BY <2>4, <2>5, <3>1
    <2>6. CASE c # Newline
      <3>1. AddCharacter(ls, c) = Append(done, Append(line, c))
        BY <2>1, <2>6, AddCharacterIs
      <3> QED BY <2>3, <3>1
    <2> QED BY <2>5, <2>6
  <1> QED BY <1>1 DEF IsStep, LineStep

LEMMA LineFold ==
    ASSUME NEW ls \in SomeLines, NEW text \in Seq(Token)
    PROVE  FoldLeft(AddCharacter, ls, text) = Fold(LineStep, ls, text)
  <1> DEFINE n == Len(text)
             D == SUBSET (1 .. n)
  <1>1. DOMAIN text = 1 .. n /\ n \in Nat
    OBVIOUS
  <1>2. PICK f : IsSetFold(f, SomeLines, LineStep, ls, text)
    BY LineStepIs, SetFoldExists
  <1>3. f = [S \in D |-> IF S = {} THEN ls ELSE AddCharacter(f[S \ {Max(S)}], text[Max(S)])]
    <2>1. ASSUME NEW S \in D, S # {}
          PROVE  f[S] = AddCharacter(f[S \ {Max(S)}], text[Max(S)])
      <3>1. S \ {Max(S)} \in D /\ Max(S) \in 1 .. n
        BY <1>2, <2>1 DEF IsSetFold
      <3>2. f[S \ {Max(S)}] \in SomeLines /\ text[Max(S)] \in Token
        BY <1>2, <3>1, ElementOfSeq DEF IsSetFold
      <3> QED BY <1>2, <2>1, <3>2, LineStepIs DEF IsSetFold
    <2> QED BY <1>2, <2>1 DEF IsSetFold
  <1>4. PICK g : /\ g = [S \in SUBSET DOMAIN text |->
                           IF S = {} THEN ls ELSE AddCharacter(g[S \ {Max(S)}], text[Max(S)])]
                 /\ FoldLeft(AddCharacter, ls, text) = g[DOMAIN text]
    BY <1>1, <1>3 DEF FoldLeft, MapThenFoldSet
  <1>5. StepsOn(g, SomeLines, LineStep, ls, text)
    <2>1. ASSUME NEW S \in D, S # {}, g[S \ {Max(S)}] \in SomeLines
          PROVE  g[S] = LineStep[<<g[S \ {Max(S)}], text[Max(S)]>>]
      <3>1. Max(S) \in 1 .. n
        BY <1>2, <2>1 DEF IsSetFold
      <3>2. text[Max(S)] \in Token
        BY <3>1, ElementOfSeq
      <3> QED BY <1>1, <1>4, <2>1, <3>2, LineStepIs
    <2>2. g[{}] = ls
      BY <1>1, <1>4
    <2> QED BY <2>1, <2>2 DEF StepsOn
  <1>6. g[1 .. n] = Fold(LineStep, ls, text)
    BY <1>5, LineStepIs, SetFoldIs
  <1> QED BY <1>1, <1>4, <1>6

(* A text of lines, each ended: what a fold over it makes of them.         *)
Lined(text, lines) ==
    \A done \in Texts : Fold(LineStep, Append(done, <<>>), text) = Append(done \o lines, <<>>)

LEMMA LinedOne ==
    ASSUME NEW l \in Seq(Token), \A i \in 1 .. Len(l) : l[i] # Newline
    PROVE  Lined(l \o <<Newline>>, <<l>>) /\ l \o <<Newline>> \in Seq(Token)
  <1>0. Newline \in Token /\ <<>> \in Seq(Token)
    BY CharacterTokens DEF Token
  <1>1. l \o <<Newline>> \in Seq(Token)
    BY <1>0
  <1>2. ASSUME NEW done \in Texts
        PROVE  Fold(LineStep, Append(done, <<>>), l \o <<Newline>>)
                 = Append(done \o <<l>>, <<>>)
    <2> DEFINE u(i) == <<>> \o SubSeq(l, 1, i)
               z == [i \in 0 .. Len(l) |-> Append(done, u(i))]
    <2>1. /\ u(0) = <<>> /\ u(Len(l)) = <<>> \o l /\ \A i \in 0 .. Len(l) : u(i) \in Seq(Token)
          /\ \A i \in 1 .. Len(l) : l[i] \in Token /\ u(i) = Append(u(i - 1), l[i])
      <3>1. Grows(Token, <<>>, l)
        BY <1>0, Grow
      <3> QED BY ONLY <3>1 DEF Grows
    <2>2. <<>> \o l = l
      OBVIOUS
    <2>3. /\ Len(l) \in Nat /\ 0 \in 0 .. Len(l) /\ Len(l) \in 0 .. Len(l)
          /\ \A i \in 1 .. Len(l) : i - 1 \in 0 .. Len(l) /\ i \in 0 .. Len(l)
      OBVIOUS
    <2> HIDE DEF u
    <2>4. ASSUME NEW i \in 1 .. Len(l) PROVE LineStep[<<z[i - 1], l[i]>>] = z[i]
      <3>1. u(i - 1) \in Seq(Token) /\ l[i] \in Token /\ u(i) = Append(u(i - 1), l[i])
        BY <2>1, <2>3
      <3>2. /\ Append(done, u(i - 1)) \in SomeLines
            /\ AddCharacter(Append(done, u(i - 1)), l[i]) = Append(done, Append(u(i - 1), l[i]))
        BY <3>1, AddCharacterIs
      <3>3. LineStep[<<Append(done, u(i - 1)), l[i]>>] = Append(done, u(i))
        BY <3>1, <3>2, LineStepIs
      <3> QED BY <2>3, <3>3
    <2>5. z[0] = Append(done, <<>>) /\ z[Len(l)] = Append(done, l)
      BY <2>1, <2>2, <2>3
    <2>6. Fold(LineStep, Append(done, <<>>), l) = Append(done, l)
      <3> HIDE DEF z
      <3>1. GoesThrough(z, LineStep, l)
        BY <2>4 DEF GoesThrough
      <3>2. Fold(LineStep, z[0], l) = z[Len(l)]
        BY ONLY <3>1, LineStepIs, FoldThrough, l \in Seq(Token)
      <3> QED BY <2>5, <3>2
    <2> DEFINE a == Append(done, <<>>)
               b == Append(done, l)
    <2>7. a \in SomeLines /\ b \in SomeLines
      BY <1>0, AddCharacterIs
    <2>8. AddCharacter(b, Newline) = Append(b, <<>>)
      BY <1>0, AddCharacterIs
    <2>9. b = done \o <<l>>
      <3> DEFINE V == Seq(Token)
      <3>1. done \in Seq(V) /\ l \in V
        BY DEF Texts
      <3> HIDE DEF V
      <3> QED BY ONLY <3>1
    <2> HIDE DEF a, b
    <2>10. Fold(LineStep, a, l \o <<Newline>>) = Fold(LineStep, Fold(LineStep, a, l), <<Newline>>)
      <3> DEFINE nl == <<Newline>>
      <3>1. nl \in Seq(Token) /\ IsStep(LineStep, SomeLines, Token)
        BY <1>0, LineStepIs
      <3> HIDE DEF nl
      <3>2. Fold(LineStep, a, l \o nl) = Fold(LineStep, Fold(LineStep, a, l), nl)
        BY ONLY <2>7, <3>1, FoldConcat, l \in Seq(Token)
      <3> QED BY <3>2 DEF nl
    <2>11. Fold(LineStep, b, <<Newline>>) = AddCharacter(b, Newline)
      <3>1. IsStep(LineStep, SomeLines, Token)
        BY LineStepIs
      <3>2. Fold(LineStep, b, <<Newline>>) = LineStep[<<b, Newline>>]
        BY ONLY <1>0, <2>7, <3>1, FoldOne
      <3> QED BY <1>0, <2>7, <3>2, LineStepIs
    <2>12. Fold(LineStep, a, l) = b
      BY <2>6 DEF a, b
    <2> QED BY <2>8, <2>9, <2>10, <2>11, <2>12 DEF a
  <1>3. Lined(l \o <<Newline>>, <<l>>)
    BY <1>2 DEF Lined
  <1> QED BY <1>1, <1>3

LEMMA LinedConcat ==
    ASSUME NEW s \in Seq(Token), NEW t \in Seq(Token), NEW ls \in Texts, NEW ms \in Texts,
           Lined(s, ls), Lined(t, ms)
    PROVE  Lined(s \o t, ls \o ms) /\ ls \o ms \in Texts
  <1> DEFINE V == Seq(Token)
  <1>0. ls \in Seq(V) /\ ms \in Seq(V)
    BY DEF Texts
  <1>1. ls \o ms \in Texts
    <2> HIDE DEF V
    <2>1. ls \o ms \in Seq(V)
      BY ONLY <1>0
    <2> QED BY <2>1 DEF V, Texts
  <1>2. ASSUME NEW done \in Texts
        PROVE  Fold(LineStep, Append(done, <<>>), s \o t) = Append(done \o (ls \o ms), <<>>)
    <2> DEFINE a == Append(done, <<>>)
               x == done \o ls
    <2>0. done \in Seq(V)
      BY DEF Texts
    <2>1. a \in SomeLines
      <3>1. <<>> \in Seq(Token) /\ Newline \in Token
        BY CharacterTokens
      <3> QED BY <3>1, AddCharacterIs
    <2>2. x \in Texts /\ x \o ms = done \o (ls \o ms)
      <3> HIDE DEF V
      <3>1. x \in Seq(V) /\ x \o ms = done \o (ls \o ms)
        BY ONLY <1>0, <2>0
      <3> QED BY <3>1 DEF V, Texts
    <2>3. Fold(LineStep, a, s) = Append(x, <<>>)
      BY DEF Lined
    <2> HIDE DEF x
    <2>4. Fold(LineStep, Append(x, <<>>), t) = Append(x \o ms, <<>>)
      BY <2>2 DEF Lined
    <2> HIDE DEF a
    <2>5. Fold(LineStep, a, s \o t) = Fold(LineStep, Fold(LineStep, a, s), t)
      <3>1. IsStep(LineStep, SomeLines, Token)
        BY LineStepIs
      <3> QED BY ONLY <2>1, <3>1, FoldConcat, s \in Seq(Token), t \in Seq(Token)
    <2> QED BY <2>2, <2>3, <2>4, <2>5 DEF a
  <1> QED BY <1>1, <1>2 DEF Lined

(***************************************************************************)
(* Reading a line                                                          *)
(***************************************************************************)

White == {Blank, Return}

LEMMA MaxProperties ==
    ASSUME NEW n \in Nat, NEW S \in SUBSET (1 .. n), S # {}
    PROVE  Max(S) \in S /\ \A x \in S : x <= Max(S)
  <1> DEFINE R == {n - x : x \in S}
             m == n - Min(R)
  <1>1. R \in SUBSET Nat /\ R # {}
    BY SMT
  <1>2. Min(R) \in R /\ \A y \in R : Min(R) <= y
    <2> HIDE DEF R
    <2> QED BY <1>1, MinProperties
  <1>3. m \in S
    <2>1. PICK x \in S : Min(R) = n - x
      BY <1>2
    <2>2. x \in Nat /\ n - (n - x) = x
      OBVIOUS
    <2> QED BY <2>1, <2>2
  <1>4. ASSUME NEW x \in S PROVE x <= m
    <2>1. n - x \in R
      OBVIOUS
    <2>2. Min(R) <= n - x /\ Min(R) \in Nat /\ x \in Nat
      BY <1>1, <1>2, <2>1
    <2> HIDE DEF R
    <2> QED BY <2>2
  <1> HIDE DEF m
  <1>5. \A x \in S : (\A y \in S : y <= x) => x = m
    BY <1>3, <1>4
  <1>6. Max(S) = m
    BY <1>3, <1>4, <1>5 DEF Max
  <1> QED BY <1>3, <1>4, <1>6

(* What does not begin with white space does not after Trim.               *)
LEMMA TrimHead ==
    ASSUME NEW T, NEW s \in Seq(T), s # <<>>, s[1] \notin White
    PROVE  Trim(s) # <<>> /\ Trim(s)[1] = s[1]
  <1> DEFINE inner == {i \in DOMAIN s : s[i] \notin White}
             n == Len(s)
  <1>1. n \in Nat /\ 1 \in 1 .. n /\ DOMAIN s = 1 .. n
    OBVIOUS
  <1>2. 1 \in inner /\ inner \in SUBSET (1 .. n)
    BY <1>1
  <1>3. Trim(s) = SubSeq(s, Min(inner), Max(inner))
    BY <1>2 DEF Trim, White
  <1> HIDE DEF inner
  <1>4. Min(inner) = 1
    <2>1. inner \in SUBSET Nat /\ \A x \in inner : 1 <= x
      BY <1>2
    <2> QED BY <1>2, <2>1, MinIs
  <1>5. Max(inner) \in 1 .. n
    <2>1. Max(inner) \in inner
      BY <1>1, <1>2, MaxProperties
    <2> QED BY <1>2, <2>1
  <1> DEFINE m == Max(inner)
  <1>6. m \in 1 .. n
    BY <1>5
  <1> HIDE DEF m
  <1>7. SubSeq(s, 1, m) # <<>> /\ SubSeq(s, 1, m)[1] = s[1]
    BY <1>1, <1>6
  <1> QED BY <1>3, <1>4, <1>7 DEF m

(* What neither begins nor ends with white space stays as it is.           *)
LEMMA TrimWhole ==
    ASSUME NEW T, NEW s \in Seq(T), s # <<>>, s[1] \notin White, s[Len(s)] \notin White
    PROVE  Trim(s) = s
  <1> DEFINE inner == {i \in DOMAIN s : s[i] \notin White}
             n == Len(s)
  <1>1. n \in Nat /\ 1 \in 1 .. n /\ n \in 1 .. n /\ DOMAIN s = 1 .. n
    OBVIOUS
  <1>2. 1 \in inner /\ n \in inner /\ inner \in SUBSET (1 .. n)
    BY <1>1
  <1>3. Trim(s) = SubSeq(s, Min(inner), Max(inner))
    BY <1>2 DEF Trim, White
  <1> HIDE DEF inner
  <1>4. Min(inner) = 1
    <2>1. inner \in SUBSET Nat /\ \A x \in inner : 1 <= x
      BY <1>2
    <2> QED BY <1>2, <2>1, MinIs
  <1>5. Max(inner) = n
    <2>1. Max(inner) \in inner /\ n <= Max(inner)
      BY <1>1, <1>2, MaxProperties
    <2> DEFINE m == Max(inner)
    <2>2. m \in 1 .. n /\ n <= m
      BY <1>2, <2>1
    <2> HIDE DEF m
    <2>3. n \in Nat
      BY <1>1
    <2>4. m = n
      <3> HIDE DEF n
      <3> QED BY ONLY <2>2, <2>3
    <2> QED BY <2>4 DEF m
  <1> QED BY <1>1, <1>3, <1>4, <1>5

LEMMA TrimEmpty == Trim(<<>>) = <<>>
  <1>1. {i \in DOMAIN <<>> : <<>>[i] \notin {Blank, Return}} = {}
    OBVIOUS
  <1> QED BY <1>1 DEF Trim

(* A text is its characters, one after another.                            *)
LEMMA FlattenSingletons ==
    ASSUME NEW T, NEW s \in Seq(T), NEW chunks, chunks = [i \in DOMAIN s |-> <<s[i]>>]
    PROVE  FlattenSeq(chunks) = s /\ chunks \in Seq(Seq(T)) /\ Len(chunks) = Len(s)
  <1> DEFINE n == Len(s)
             V == Seq(T)
  <1>1. n \in Nat /\ DOMAIN s = 1 .. n /\ \A i \in 1 .. n : s[i] \in T
    OBVIOUS
  <1>2. chunks \in Seq(V) /\ Len(chunks) = n
    <2>1. \A i \in 1 .. n : <<s[i]>> \in V
      BY <1>1
    <2> HIDE DEF V
    <2>2. chunks \in [1 .. n -> V]
      BY <1>1, <2>1
    <2> QED BY ONLY <1>1, <2>2
  <1> DEFINE g == Upto(T, chunks)
             P(i) == i <= n => g[i] = SubSeq(s, 1, i)
             Q == {i \in Nat : P(i)}
  <1>3. /\ g[0] = <<>> /\ \A i \in 1 .. n : g[i] = g[i - 1] \o chunks[i]
        /\ FlattenSeq(chunks) = g[n]
    <2>1. chunks \in Seq(Seq(T)) /\ Len(chunks) = n
      BY <1>2
    <2> HIDE DEF n
    <2> QED BY ONLY <2>1, UptoProperties
  <1> HIDE DEF g, V
  <1>4. P(0)
    <2>1. SubSeq(s, 1, 0) = <<>>
      OBVIOUS
    <2> QED BY <1>3, <2>1
  <1>5. ASSUME NEW i \in Nat, P(i), i + 1 <= n PROVE g[i + 1] = SubSeq(s, 1, i + 1)
    <2>1. i + 1 \in 1 .. n /\ i + 1 - 1 = i /\ i <= n
      BY <1>1, <1>5
    <2>2. g[i + 1] = g[i] \o chunks[i + 1] /\ g[i] = SubSeq(s, 1, i)
      <3>1. g[i + 1] = g[(i + 1) - 1] \o chunks[i + 1]
        BY ONLY <1>3, <2>1
      <3> QED BY <3>1, <1>5, <2>1
    <2>3. chunks[i + 1] = <<s[i + 1]>>
      BY <1>1, <2>1
    <2>4. SubSeq(s, 1, i) \o <<s[i + 1]>> = SubSeq(s, 1, i + 1)
      BY ONLY <1>1, <2>1, s \in Seq(T), i \in Nat
    <2> QED BY <2>2, <2>3, <2>4
  <1>6. ASSUME NEW i \in Nat, P(i) PROVE P(i + 1)
    BY <1>5, <1>6
  <1>7. Q = Nat
    <2> HIDE DEF P
    <2>1. 0 \in Q /\ \A i \in Q : i + 1 \in Q
      BY <1>4, <1>6
    <2> QED BY <2>1, NatInd
  <1>8. P(n)
    <2> HIDE DEF P
    <2> QED BY <1>1, <1>7
  <1>9. g[n] = s
    BY <1>1, <1>8
  <1> QED BY <1>2, <1>3, <1>9 DEF V

(* A value that a line of dotenv carries.                                  *)
Plain(v) == ToSet(v) \cap {Quote, Newline} = {} /\ (v # <<>> => Return \notin {v[1], v[Len(v)]})

(* What shell_quote makes of it: itself, or itself in quotes; one line,    *)
(* with no white space around it, from which strip_quotes gets it back.    *)
LEMMA ShellQuoteIs ==
    ASSUME NEW v \in String, Plain(v)
    PROVE  LET sq == shell_quote(v)
           IN  /\ sq \in Seq(Character) /\ sq # <<>>
               /\ sq[1] \notin White /\ sq[Len(sq)] \notin White
               /\ \A i \in 1 .. Len(sq) : sq[i] # Newline
               /\ strip_quotes(sq) = v
  <1> DEFINE sq == shell_quote(v)
             n == Len(v)
             q == (<<Quote>> \o v) \o <<Quote>>
  <1>1. v \in Seq(Character) /\ n \in Nat /\ Quote \in Character
    BY CharacterTokens DEF String
  <1>2. \A i \in 1 .. n : v[i] \in ToSet(v)
    BY <1>1 DEF ToSet
  <1>3. \A i \in 1 .. n : v[i] # Quote /\ v[i] # Newline /\ v[i] \in Character
    BY <1>1, <1>2 DEF Plain
  <1>4. Quote \notin White /\ Quote # Newline /\ White = {Blank, Return} /\ Quote # DoubleQuote
        /\ {Blank, DoubleQuote, Newline, Quote} \subseteq NeedsQuote
    BY DEF White, Quote, Blank, Return, Newline, DoubleQuote, NeedsQuote
  <1>5. CASE v = <<>> \/ ToSet(v) \cap NeedsQuote # {}
    <2>1. sq = q
      <3>1. CASE v = <<>>
        <4>1. sq = <<Quote, Quote>>
          BY <3>1 DEF shell_quote
        <4> QED BY ONLY <3>1, <4>1
      <3>2. CASE v # <<>>
        <4>1. FlattenSeq([i \in DOMAIN v |-> <<v[i]>>]) = v
          BY <1>1, FlattenSingletons
        <4>2. [i \in DOMAIN v |-> IF v[i] = Quote THEN <<Quote, Escape, Quote, Quote>>
                                  ELSE <<v[i]>>]
                = [i \in DOMAIN v |-> <<v[i]>>]
          BY <1>1, <1>3
        <4> QED BY <1>5, <3>2, <4>1, <4>2 DEF shell_quote
      <3> QED BY <3>1, <3>2
    <2> DEFINE one == <<Quote>>
               b == one \o v
    <2>2. b \in Seq(Character) /\ Len(b) = n + 1 /\ b[1] = Quote
          /\ \A i \in 1 .. n : b[i + 1] = v[i]
      BY <1>1
    <2> HIDE DEF b
    <2>3. /\ q \in Seq(Character) /\ Len(q) = n + 2 /\ q[n + 2] = Quote
          /\ \A i \in 1 .. n + 1 : q[i] = b[i]
      BY <1>1, <2>2 DEF b
    <2> HIDE DEF q
    <2>4. q[1] = Quote /\ q[Len(q)] = Quote /\ q # <<>>
      BY <1>1, <2>2, <2>3
    <2>5. \A i \in 1 .. n : q[i + 1] = v[i]
      BY <1>1, <2>2, <2>3
    <2>6. ASSUME NEW i \in 1 .. Len(q) PROVE q[i] # Newline
      <3>1. i = 1 \/ i = Len(q) \/ (i - 1 \in 1 .. n /\ (i - 1) + 1 = i)
        BY <1>1, <2>3
      <3>2. CASE i = 1 \/ i = Len(q)
        BY <3>2, <2>4, <1>4
      <3>3. CASE i - 1 \in 1 .. n /\ (i - 1) + 1 = i
        <4> DEFINE k == i - 1
        <4>1. k \in 1 .. n /\ k + 1 = i
          BY <3>3
        <4> HIDE DEF k
        <4> QED BY <4>1, <2>5, <1>3
      <3> QED BY <3>1, <3>2, <3>3
    <2>7. strip_quotes(q) = v
      <3>1. strip_quotes(q) = SubSeq(q, 2, Len(q) - 1)
        BY <2>3, <2>4, <1>1 DEF strip_quotes
      <3> DEFINE t == SubSeq(q, 2, Len(q) - 1)
      <3>0. \A i \in 1 .. n : 2 + i - 1 = i + 1
        BY <1>1
      <3>2. t \in Seq(Character) /\ Len(t) = n /\ \A i \in 1 .. n : t[i] = q[i + 1]
        BY <1>1, <2>3, <3>0
      <3> HIDE DEF t
      <3>3. t = v
        BY <1>1, <2>5, <3>2, SeqEqual
      <3> QED BY <3>1, <3>3 DEF t
    <2> HIDE DEF sq
    <2> QED BY <1>4, <2>1, <2>3, <2>4, <2>6, <2>7 DEF sq
  <1>6. CASE ~(v = <<>> \/ ToSet(v) \cap NeedsQuote # {})
    <2>1. sq = v
      BY <1>6 DEF shell_quote
    <2>2. 1 \in 1 .. n /\ n \in 1 .. n
      BY <1>1, <1>6
    <2>3. \A i \in 1 .. n : v[i] \notin NeedsQuote
      BY <1>2, <1>6
    <2>4. v[1] \notin White /\ v[n] \notin White
      BY <1>4, <1>6, <2>2, <2>3 DEF Plain
    <2>5. v[1] # Quote /\ v[1] # DoubleQuote
      BY <1>4, <2>2, <2>3
    <2>6. strip_quotes(v) = v
      BY <2>5 DEF strip_quotes
    <2> HIDE DEF sq
    <2> QED BY <1>1, <1>3, <1>6, <2>1, <2>4, <2>6 DEF sq
  <1> QED BY <1>5, <1>6

Entries(es) == [kind |-> "entries", entries |-> es]

(* Neither an empty line nor one that begins with a hash is an entry.      *)
LEMMA ReadNoEntry ==
    ASSUME NEW es, NEW l \in Seq(Token), l = <<>> \/ l[1] = Hash
    PROVE  ReadLine(Entries(es), l) = Entries(es)
  <1>1. CASE l = <<>>
    BY <1>1, TrimEmpty DEF ReadLine, Entries
  <1>2. CASE l # <<>>
    <2>1. l[1] = Hash /\ Hash \notin White
      BY <1>2 DEF White, Hash, Blank, Return
    <2>2. Trim(l) # <<>> /\ Trim(l)[1] = Hash
      BY <1>2, <2>1, TrimHead
    <2> QED BY <2>2 DEF ReadLine, Entries
  <1> QED BY <1>1, <1>2

Body(key, v) == (UpperCase(key) \o <<"=">>) \o shell_quote(v)

(* The parts of a line `NAME=value`.                                       *)
LEMMA BodyParts ==
    ASSUME NEW key \in String, IsName(key), NEW v \in String, Plain(v)
    PROVE  LET b == Body(key, v)
               a == UpperCase(key)
           IN  /\ b \in Seq(Character) /\ b # <<>> /\ b[1] \in NameLetter
               /\ b[Len(b)] \notin White
               /\ \A i \in 1 .. Len(b) : b[i] # Newline
               /\ Min({i \in DOMAIN b : b[i] = "="}) = Len(a) + 1
               /\ {i \in DOMAIN b : b[i] = "="} # {}
               /\ SubSeq(b, 1, Len(a)) = a /\ Trim(a) = a /\ a # <<>>
               /\ SubSeq(b, Len(a) + 2, Len(b)) = shell_quote(v)
  <1> DEFINE a == UpperCase(key)
             sq == shell_quote(v)
             b == Body(key, v)
             m == Len(a)
             n == Len(sq)
             S == {i \in DOMAIN b : b[i] = "="}
  <1>1. a \in Seq(NameLetter) /\ a # <<>>
    BY UpperCaseType
  <1>2. /\ sq \in Seq(Character) /\ sq # <<>> /\ sq[n] \notin White
        /\ \A i \in 1 .. n : sq[i] # Newline
    BY ShellQuoteIs
  <1>3. b = (a \o <<"=">>) \o sq
    BY DEF Body
  <1>4. /\ "=" \in Character /\ NameLetter \subseteq Character /\ "=" # Newline
        /\ "=" \notin NameLetter /\ Newline \notin NameLetter /\ NameLetter \cap White = {}
    BY DEF NameLetter, Character, Letter, Newline, White, Blank, Return
  <1> HIDE DEF a, sq, b
  <1>5. a \in Seq(Character)
    BY <1>1, <1>4
  <1>6. m \in Nat /\ n \in Nat /\ m # 0 /\ n # 0 /\ \A i \in 1 .. m : a[i] \in NameLetter
    BY <1>1, <1>2
  <1>7. /\ b \in Seq(Character) /\ Len(b) = m + 1 + n
        /\ \A i \in 1 .. m : b[i] = a[i]
        /\ b[m + 1] = "="
        /\ SubSeq(b, 1, m) = a /\ SubSeq(b, m + 2, Len(b)) = sq
    BY ONLY <1>2, <1>3, <1>4, <1>5, PartsOf
  <1>8. \A i \in 1 .. n : b[m + 1 + i] = sq[i]
    <2> DEFINE ax == a \o <<"=">>
    <2>1. ax \in Seq(Character) /\ Len(ax) = m + 1 /\ b = ax \o sq
      BY <1>3, <1>4, <1>5
    <2> HIDE DEF ax
    <2> QED BY ONLY <2>1, <1>2, <1>6
  <1>9. DOMAIN b = 1 .. m + 1 + n /\ b # <<>>
    BY <1>6, <1>7
  <1>10. b[1] \in NameLetter /\ a[1] \in NameLetter /\ a[m] \in NameLetter
    <2>1. 1 \in 1 .. m /\ m \in 1 .. m
      BY <1>6
    <2> QED BY <1>6, <1>7, <2>1
  <1>11. b[Len(b)] \notin White
    <2>1. n \in 1 .. n
      BY <1>6
    <2>2. b[m + 1 + n] = sq[n]
      BY <1>8, <2>1
    <2> QED BY <1>2, <1>7, <2>2
  <1>12. ASSUME NEW i \in 1 .. Len(b) PROVE b[i] # Newline
    <2>1. CASE i \in 1 .. m
      BY <2>1, <1>4, <1>6, <1>7
    <2>2. CASE i = m + 1
      BY <2>2, <1>4, <1>7
    <2>3. CASE i > m + 1
      <3> DEFINE k == i - (m + 1)
      <3>1. k \in 1 .. n /\ m + 1 + k = i
        BY <2>3, <1>6, <1>7
      <3> HIDE DEF k
      <3> QED BY <3>1, <1>2, <1>8
    <2>4. i \in 1 .. m \/ i = m + 1 \/ i > m + 1
      BY <1>6
    <2> QED BY <2>1, <2>2, <2>3, <2>4
  <1>13. m + 1 \in S /\ S \in SUBSET Nat /\ \A i \in S : m + 1 <= i
    <2>1. m + 1 \in S /\ S \in SUBSET Nat
      BY <1>6, <1>7, <1>9
    <2>2. ASSUME NEW i \in S, i < m + 1 PROVE FALSE
      <3>1. i \in 1 .. m
        BY <2>2, <1>6, <1>9
      <3> QED BY <3>1, <1>4, <1>6, <1>7
    <2> QED BY <2>1, <2>2, <1>6
  <1>14. Min(S) = m + 1 /\ S # {}
    <2> HIDE DEF S
    <2> QED BY <1>13, MinIs
  <1>15. Trim(a) = a
    BY <1>1, <1>4, <1>10, TrimWhole
  <1> QED BY <1>1, <1>7, <1>9, <1>10, <1>11, <1>12, <1>14, <1>15 DEF a, sq, b

LEMMA ParseBody ==
    ASSUME NEW key \in String, IsName(key), NEW v \in String, Plain(v),
           NEW l, l = Body(key, v) \/ (l[1] = Export /\ Tail(l) = Body(key, v))
    PROVE  ParseLine(l) = [kind |-> "entry", key |-> UpperCase(key), value |-> v]
  <1> DEFINE b == Body(key, v)
             a == UpperCase(key)
             sq == shell_quote(v)
             S == {i \in DOMAIN b : b[i] = "="}
             m == Len(a)
  <1>1. /\ b \in Seq(Character) /\ b # <<>> /\ b[1] \in NameLetter /\ b[Len(b)] \notin White
        /\ Min(S) = m + 1 /\ S # {}
        /\ SubSeq(b, 1, m) = a /\ Trim(a) = a /\ a # <<>>
        /\ SubSeq(b, m + 2, Len(b)) = sq
    BY BodyParts
  <1>2. Trim(sq) = sq /\ strip_quotes(sq) = v
    <2>1. /\ sq \in Seq(Character) /\ sq # <<>> /\ sq[1] \notin White
          /\ sq[Len(sq)] \notin White /\ strip_quotes(sq) = v
      BY ShellQuoteIs
    <2> HIDE DEF sq
    <2> QED BY <2>1, TrimWhole
  <1>3. m \in Nat
    <2>1. a \in String
      BY UpperCaseType
    <2> QED BY <2>1 DEF String
  <1>4. b[1] # Export /\ b[1] \notin White
    BY <1>1 DEF NameLetter, Letter, Export, White, Blank, Return
  <1> HIDE DEF b, a, sq
  <1>5. Trim(b) = b
    BY <1>1, <1>4, TrimWhole
  <1>6. (IF l[1] = Export THEN Trim(Tail(l)) ELSE l) = b
    <2>1. l = b \/ (l[1] = Export /\ Tail(l) = b)
      BY DEF b
    <2>2. CASE l = b
      <3>1. l[1] # Export
        BY <1>4, <2>2
      <3> QED BY <2>2, <3>1
    <2>3. CASE l[1] = Export /\ Tail(l) = b
      BY <1>5, <2>3
    <2> QED BY <2>1, <2>2, <2>3
  <1>7. m + 1 - 1 = m /\ m + 1 + 1 = m + 2
    BY <1>3
  <1> HIDE DEF m, S
  <1>8. Trim(SubSeq(b, 1, Min(S) - 1)) = a
    <2>0. Min(S) = m + 1
      BY <1>1, Zenon
    <2>1. Min(S) - 1 = m
      BY ONLY <2>0, <1>3
    <2>2. SubSeq(b, 1, m) = a /\ Trim(a) = a
      BY <1>1
    <2> QED BY ONLY <2>1, <2>2, Zenon
  <1>9. strip_quotes(Trim(SubSeq(b, Min(S) + 1, Len(b)))) = v
    BY <1>1, <1>2, <1>7
  <1>10. ~(S = {} \/ Trim(SubSeq(b, 1, Min(S) - 1)) = <<>>)
    BY <1>1, <1>8
  <1> QED BY <1>6, <1>8, <1>9, <1>10 DEF ParseLine, S, a

Pairs == String \X String
Reads == {Entries(es) : es \in Seq(Pairs)}

(* Lines that are no error.                                                *)
GoodLines == {l \in Seq(Token) : \A r \in Reads : ReadLine(r, l) \in Reads}
ReadStep == [x \in Reads \X GoodLines |-> ReadLine(x[1], x[2])]

(* A line `NAME=value`, or `export NAME=value`, is one entry more.         *)
LEMMA ReadAssignmentLine ==
    ASSUME NEW key \in String, IsName(key), NEW v \in String, Plain(v),
           NEW l, l \in {Body(key, v), <<Export>> \o Body(key, v)}
    PROVE  /\ l \in GoodLines
           /\ \A i \in 1 .. Len(l) : l[i] # Newline
           /\ \A es \in Seq(Pairs) :
                 ReadLine(Entries(es), l) = Entries(Append(es, <<UpperCase(key), v>>))
  <1> DEFINE b == Body(key, v)
             a == UpperCase(key)
             pair == <<a, v>>
  <1>1. /\ b \in Seq(Character) /\ b # <<>> /\ b[1] \in NameLetter /\ b[Len(b)] \notin White
        /\ \A i \in 1 .. Len(b) : b[i] # Newline
    BY BodyParts
  <1>2. /\ NameLetter \cap White = {} /\ Hash \notin NameLetter /\ Export \notin White
        /\ Export # Hash /\ Export # Newline /\ Character \subseteq Token /\ Export \in Token
    BY DEF NameLetter, Letter, White, Hash, Export, Newline, Blank, Return, Token
  <1> HIDE DEF b
  <1>3. b \in Seq(Token) /\ Len(b) \in Nat /\ Len(b) # 0
    BY <1>1, <1>2
  <1>4. /\ l \in Seq(Token) /\ l # <<>> /\ l[1] \notin White /\ l[Len(l)] \notin White
        /\ \A i \in 1 .. Len(l) : l[i] # Newline
        /\ l[1] # Hash /\ (l = b \/ (l[1] = Export /\ Tail(l) = b))
    <2>1. CASE l = b
      <3>1. b[1] \notin White /\ b[1] # Hash
        BY <1>1, <1>2
      <3> QED BY <2>1, <3>1, <1>1, <1>3
    <2>2. CASE l = <<Export>> \o b
      <3>1. /\ l \in Seq(Token) /\ l # <<>> /\ l[1] = Export /\ Len(l) = Len(b) + 1
            /\ \A i \in 1 .. Len(b) : l[i + 1] = b[i]
            /\ Tail(l) = b
        BY <1>2, <1>3, <2>2
      <3>2. l[Len(l)] \notin White
        <4>1. Len(b) \in 1 .. Len(b)
          BY <1>3
        <4> QED BY <1>1, <3>1, <4>1
      <3>3. ASSUME NEW i \in 1 .. Len(l) PROVE l[i] # Newline
        <4>1. CASE i = 1
          BY <4>1, <3>1, <1>2
        <4>2. CASE i # 1
          <5> DEFINE k == i - 1
          <5>1. k \in 1 .. Len(b) /\ k + 1 = i
            BY <4>2, <3>1, <1>3
          <5> HIDE DEF k
          <5> QED BY <5>1, <3>1, <1>1
        <4> QED BY <4>1, <4>2
      <3> QED BY <1>2, <3>1, <3>2, <3>3
    <2> QED BY <2>1, <2>2 DEF b
  <1>5. Trim(l) = l
    BY <1>4, TrimWhole
  <1>6. ParseLine(l) = [kind |-> "entry", key |-> a, value |-> v]
    <2>1. l = Body(key, v) \/ (l[1] = Export /\ Tail(l) = Body(key, v))
      BY <1>4 DEF b
    <2> QED BY <2>1, ParseBody
  <1>7. pair \in Pairs
    BY UpperCaseType DEF Pairs
  <1> HIDE DEF a
  <1>8. ASSUME NEW es \in Seq(Pairs)
        PROVE  ReadLine(Entries(es), l) = Entries(Append(es, pair))
    BY <1>4, <1>5, <1>6 DEF ReadLine, Entries
  <1>9. l \in GoodLines
    <2>1. ASSUME NEW r \in Reads PROVE ReadLine(r, l) \in Reads
      <3>1. PICK es \in Seq(Pairs) : r = Entries(es)
        BY DEF Reads
      <3>2. Append(es, pair) \in Seq(Pairs)
        BY <1>7
      <3> QED BY <1>8, <3>1, <3>2 DEF Reads
    <2> QED BY <1>4, <2>1 DEF GoodLines
  <1> QED BY <1>4, <1>8, <1>9 DEF a

LEMMA NoEntryLineIsGood ==
    ASSUME NEW l \in Seq(Token), l = <<>> \/ l[1] = Hash
    PROVE  l \in GoodLines /\ \A es \in Seq(Pairs) : ReadLine(Entries(es), l) = Entries(es)
  <1>1. \A es : ReadLine(Entries(es), l) = Entries(es)
    BY ReadNoEntry
  <1> QED BY <1>1 DEF GoodLines, Reads

LEMMA ReadStepIs ==
    /\ IsStep(ReadStep, Reads, GoodLines)
    /\ \A r \in Reads, l \in GoodLines : ReadStep[<<r, l>>] = ReadLine(r, l)
    /\ \A es \in Seq(Pairs) : Entries(es) \in Reads
  BY DEF IsStep, ReadStep, GoodLines, Reads

LEMMA ReadFold ==
    ASSUME NEW r \in Reads, NEW lines \in Seq(GoodLines)
    PROVE  FoldLeft(ReadLine, r, lines) = Fold(ReadStep, r, lines)
  <1> DEFINE n == Len(lines)
             D == SUBSET (1 .. n)
  <1>1. DOMAIN lines = 1 .. n /\ n \in Nat
    OBVIOUS
  <1>2. PICK f : IsSetFold(f, Reads, ReadStep, r, lines)
    BY ReadStepIs, SetFoldExists
  <1>3. f = [S \in D |-> IF S = {} THEN r ELSE ReadLine(f[S \ {Max(S)}], lines[Max(S)])]
    <2>1. ASSUME NEW S \in D, S # {}
          PROVE  f[S] = ReadLine(f[S \ {Max(S)}], lines[Max(S)])
      <3>1. S \ {Max(S)} \in D /\ Max(S) \in 1 .. n
        BY <1>2, <2>1 DEF IsSetFold
      <3>2. f[S \ {Max(S)}] \in Reads /\ lines[Max(S)] \in GoodLines
        BY <1>2, <3>1, ElementOfSeq DEF IsSetFold
      <3> QED BY <1>2, <2>1, <3>2, ReadStepIs DEF IsSetFold
    <2> QED BY <1>2, <2>1 DEF IsSetFold
  <1>4. PICK g : /\ g = [S \in SUBSET DOMAIN lines |->
                           IF S = {} THEN r ELSE ReadLine(g[S \ {Max(S)}], lines[Max(S)])]
                 /\ FoldLeft(ReadLine, r, lines) = g[DOMAIN lines]
    BY <1>1, <1>3 DEF FoldLeft, MapThenFoldSet
  <1>5. StepsOn(g, Reads, ReadStep, r, lines)
    <2>1. ASSUME NEW S \in D, S # {}, g[S \ {Max(S)}] \in Reads
          PROVE  g[S] = ReadStep[<<g[S \ {Max(S)}], lines[Max(S)]>>]
      <3>1. Max(S) \in 1 .. n
        BY <1>2, <2>1 DEF IsSetFold
      <3>2. lines[Max(S)] \in GoodLines
        BY <3>1, ElementOfSeq
      <3> QED BY <1>1, <1>4, <2>1, <3>2, ReadStepIs
    <2>2. g[{}] = r
      BY <1>1, <1>4
    <2> QED BY <2>1, <2>2 DEF StepsOn
  <1>6. g[1 .. n] = Fold(ReadStep, r, lines)
    BY <1>5, ReadStepIs, SetFoldIs
  <1> QED BY <1>1, <1>4, <1>6

(***************************************************************************)
(* Pieces of a dotenv text                                                 *)
(***************************************************************************)

Pair(v, n) == <<UpperCase(n[2]), v[n].value>>

(* The entries es are those of the names N, each once.                     *)
Brings(es, v, N) ==
    /\ es \in Seq(Pairs)
    /\ \A i, j \in 1 .. Len(es) : es[i][1] = es[j][1] => i = j
    /\ \A i \in 1 .. Len(es) : \E n \in N : es[i] = Pair(v, n)
    /\ \A n \in N : \E i \in 1 .. Len(es) : es[i] = Pair(v, n)

LEMMA BringsConcat ==
    ASSUME NEW v, NEW ps, Apart(v, ps), NEW N \in SUBSET In(v, ps), NEW M \in SUBSET In(v, ps),
           N \cap M = {}, NEW es, NEW fs, Brings(es, v, N), Brings(fs, v, M)
    PROVE  Brings(es \o fs, v, N \cup M)
  <1> DEFINE q == es \o fs
             m == Len(es)
             k == Len(fs)
  <1>1. es \in Seq(Pairs) /\ fs \in Seq(Pairs) /\ m \in Nat /\ k \in Nat
    BY DEF Brings
  <1>2. /\ q \in Seq(Pairs) /\ Len(q) = m + k
        /\ \A i \in 1 .. m : q[i] = es[i]
        /\ \A i \in 1 .. k : q[m + i] = fs[i]
    BY ONLY <1>1
  <1> HIDE DEF q
  <1>3. ASSUME NEW i \in 1 .. Len(q)
        PROVE  \/ i \in 1 .. m /\ q[i] = es[i]
               \/ \E j \in 1 .. k : i = m + j /\ q[i] = fs[j]
    <2>1. CASE i <= m
      BY <2>1, <1>2
    <2>2. CASE i > m
      <3> DEFINE j == i - m
      <3>1. j \in 1 .. k /\ m + j = i
        BY <2>2, <1>1, <1>2
      <3> HIDE DEF j
      <3> QED BY <3>1, <1>2
    <2> QED BY <2>1, <2>2, <1>1
  <1>4. ASSUME NEW i \in 1 .. m, NEW j \in 1 .. k PROVE es[i][1] # fs[j][1]
    <2>1. PICK n \in N : es[i] = Pair(v, n)
      BY DEF Brings
    <2>2. PICK o \in M : fs[j] = Pair(v, o)
      BY DEF Brings
    <2>3. UpperCase(n[2]) = UpperCase(o[2]) => n = o
      BY DEF Apart
    <2>4. n # o
      OBVIOUS
    <2> QED BY <2>1, <2>2, <2>3, <2>4 DEF Pair
  <1>5. ASSUME NEW i \in 1 .. Len(q), NEW j \in 1 .. Len(q), q[i][1] = q[j][1] PROVE i = j
    <2>1. CASE i \in 1 .. m /\ q[i] = es[i]
      <3>1. CASE j \in 1 .. m /\ q[j] = es[j]
        BY <1>5, <2>1, <3>1 DEF Brings
      <3>2. ASSUME NEW y \in 1 .. k, q[j] = fs[y] PROVE FALSE
        BY <1>4, <1>5, <2>1, <3>2
      <3> QED BY <1>3, <3>1, <3>2
    <2>2. ASSUME NEW x \in 1 .. k, i = m + x, q[i] = fs[x] PROVE i = j
      <3>1. CASE j \in 1 .. m /\ q[j] = es[j]
        BY <1>4, <1>5, <2>2, <3>1
      <3>2. ASSUME NEW y \in 1 .. k, j = m + y, q[j] = fs[y] PROVE i = j
        <4>1. x = y
          BY <1>5, <2>2, <3>2 DEF Brings
        <4> QED BY <4>1, <2>2, <3>2
      <3> QED BY <1>3, <3>1, <3>2
    <2> QED BY <1>3, <2>1, <2>2
  <1>6. ASSUME NEW i \in 1 .. Len(q) PROVE \E n \in N \cup M : q[i] = Pair(v, n)
    <2>1. CASE i \in 1 .. m /\ q[i] = es[i]
      <3>1. PICK n \in N : es[i] = Pair(v, n)
        BY <2>1 DEF Brings
      <3> QED BY <2>1, <3>1
    <2>2. ASSUME NEW j \in 1 .. k, q[i] = fs[j] PROVE \E n \in N \cup M : q[i] = Pair(v, n)
      <3>1. PICK n \in M : fs[j] = Pair(v, n)
        BY DEF Brings
      <3> QED BY <2>2, <3>1
    <2> QED BY <1>3, <2>1, <2>2
  <1>7. ASSUME NEW n \in N \cup M PROVE \E i \in 1 .. Len(q) : q[i] = Pair(v, n)
    <2>1. CASE n \in N
      <3>1. PICK i \in 1 .. m : es[i] = Pair(v, n)
        BY <2>1 DEF Brings
      <3>2. i \in 1 .. Len(q)
        BY <1>1, <1>2
      <3> QED BY <3>1, <3>2, <1>2
    <2>2. CASE n \in M
      <3>1. PICK i \in 1 .. k : fs[i] = Pair(v, n)
        BY <2>2 DEF Brings
      <3>2. m + i \in 1 .. Len(q)
        BY <1>1, <1>2
      <3> QED BY <3>1, <3>2, <1>2
    <2> QED BY <2>1, <2>2
  <1> QED BY <1>2, <1>5, <1>6, <1>7 DEF Brings, q

(* What reading the lines adds.                                            *)
Gives(lines, es) ==
    \A fs \in Seq(Pairs) : Fold(ReadStep, Entries(fs), lines) = Entries(fs \o es)

LEMMA GivesOne ==
    ASSUME NEW l \in GoodLines, NEW es \in Seq(Pairs),
           \A fs \in Seq(Pairs) : ReadLine(Entries(fs), l) = Entries(fs \o es)
    PROVE  Gives(<<l>>, es)
  <1>1. IsStep(ReadStep, Reads, GoodLines)
    BY ReadStepIs
  <1>2. ASSUME NEW fs \in Seq(Pairs) PROVE Fold(ReadStep, Entries(fs), <<l>>) = Entries(fs \o es)
    <2> DEFINE r == Entries(fs)
    <2>1. r \in Reads /\ l \in GoodLines
      BY ReadStepIs
    <2> HIDE DEF r
    <2>2. Fold(ReadStep, r, <<l>>) = ReadStep[<<r, l>>]
      BY ONLY <1>1, <2>1, FoldOne
    <2>3. ReadStep[<<r, l>>] = ReadLine(r, l)
      BY <2>1, ReadStepIs
    <2> QED BY <2>2, <2>3 DEF r
  <1> QED BY <1>2 DEF Gives

LEMMA GivesConcat ==
    ASSUME NEW ls \in Seq(GoodLines), NEW ms \in Seq(GoodLines), NEW es \in Seq(Pairs),
           NEW fs \in Seq(Pairs), Gives(ls, es), Gives(ms, fs)
    PROVE  Gives(ls \o ms, es \o fs)
  <1>1. ASSUME NEW gs \in Seq(Pairs)
        PROVE  Fold(ReadStep, Entries(gs), ls \o ms) = Entries(gs \o (es \o fs))
    <2> DEFINE r == Entries(gs)
    <2>1. r \in Reads /\ IsStep(ReadStep, Reads, GoodLines)
      BY ReadStepIs
    <2>2. Fold(ReadStep, r, ls) = Entries(gs \o es)
      BY DEF Gives
    <2>3. gs \o es \in Seq(Pairs) /\ (gs \o es) \o fs = gs \o (es \o fs)
      OBVIOUS
    <2>4. Fold(ReadStep, Entries(gs \o es), ms) = Entries((gs \o es) \o fs)
      BY <2>3 DEF Gives
    <2> HIDE DEF r
    <2>5. Fold(ReadStep, r, ls \o ms) = Fold(ReadStep, Fold(ReadStep, r, ls), ms)
      BY ONLY <2>1, FoldConcat, ls \in Seq(GoodLines), ms \in Seq(GoodLines)
    <2> QED BY <2>2, <2>3, <2>4, <2>5 DEF r
  <1> QED BY <1>1 DEF Gives

(* A text whose lines are the entries of the names N.                      *)
Piece(v, text, N) ==
    /\ text \in Seq(Token)
    /\ \E lines \in Seq(GoodLines), es \in Seq(Pairs) :
          Lined(text, lines) /\ Gives(lines, es) /\ Brings(es, v, N)

LEMMA GoodLinesAreTexts == Seq(GoodLines) \subseteq Texts
  <1> DEFINE V == Seq(Token)
  <1>1. GoodLines \subseteq V
    BY DEF GoodLines
  <1>2. Seq(GoodLines) \subseteq Seq(V)
    <2> HIDE DEF V
    <2> QED BY <1>1
  <1> QED BY <1>2 DEF Texts

LEMMA PieceConcat ==
    ASSUME NEW v, NEW ps, Apart(v, ps), NEW N \in SUBSET In(v, ps), NEW M \in SUBSET In(v, ps),
           N \cap M = {}, NEW s, NEW t, Piece(v, s, N), Piece(v, t, M)
    PROVE  Piece(v, s \o t, N \cup M)
  <1>1. PICK ls \in Seq(GoodLines), es \in Seq(Pairs) :
           Lined(s, ls) /\ Gives(ls, es) /\ Brings(es, v, N)
    BY DEF Piece
  <1>2. PICK ms \in Seq(GoodLines), fs \in Seq(Pairs) :
           Lined(t, ms) /\ Gives(ms, fs) /\ Brings(fs, v, M)
    BY DEF Piece
  <1>3. /\ ls \in Texts /\ ms \in Texts /\ s \in Seq(Token) /\ t \in Seq(Token)
        /\ es \in Seq(Pairs) /\ fs \in Seq(Pairs)
    BY <1>1, <1>2, GoodLinesAreTexts DEF Piece, Brings
  <1>4. Lined(s \o t, ls \o ms)
    BY <1>1, <1>2, <1>3, LinedConcat
  <1>5. Gives(ls \o ms, es \o fs)
    BY <1>1, <1>2, <1>3, GivesConcat
  <1>6. Brings(es \o fs, v, N \cup M)
    BY <1>1, <1>2, BringsConcat
  <1>7. ls \o ms \in Seq(GoodLines)
    OBVIOUS
  <1>8. s \o t \in Seq(Token)
    BY <1>3
  <1>9. es \o fs \in Seq(Pairs)
    BY <1>3
  <1> DEFINE both == es \o fs
             lines == ls \o ms
  <1>10. /\ lines \in Seq(GoodLines) /\ both \in Seq(Pairs)
         /\ Lined(s \o t, lines) /\ Gives(lines, both) /\ Brings(both, v, N \cup M)
    BY <1>4, <1>5, <1>6, <1>7, <1>9
  <1> HIDE DEF both, lines
  <1> QED BY <1>8, <1>10 DEF Piece

LEMMA PieceOfNothing ==
    ASSUME NEW v
    PROVE  Piece(v, <<>>, {})
  <1> DEFINE none == <<>>
  <1>1. none \in Seq(Token) /\ none \in Seq(GoodLines) /\ none \in Seq(Pairs)
    OBVIOUS
  <1>2. Lined(none, none)
    <2>1. ASSUME NEW done \in Texts
          PROVE  Fold(LineStep, Append(done, <<>>), <<>>) = Append(done \o <<>>, <<>>)
      <3>1. done \o <<>> = done
        BY DEF Texts
      <3> QED BY <3>1, FoldEmpty
    <2> QED BY <2>1 DEF Lined
  <1>3. Gives(none, none)
    <2>1. ASSUME NEW fs \in Seq(Pairs)
          PROVE  Fold(ReadStep, Entries(fs), <<>>) = Entries(fs \o <<>>)
      <3>1. fs \o <<>> = fs
        OBVIOUS
      <3> QED BY <3>1, FoldEmpty
    <2> QED BY <2>1 DEF Gives
  <1>4. Brings(none, v, {})
    BY DEF Brings
  <1> QED BY <1>1, <1>2, <1>3, <1>4 DEF Piece

(* A line that is no entry.                                                *)
LEMMA PieceOfNoEntry ==
    ASSUME NEW v, NEW l \in Seq(Token), \A i \in 1 .. Len(l) : l[i] # Newline,
           l = <<>> \/ l[1] = Hash
    PROVE  Piece(v, l \o <<Newline>>, {})
  <1> DEFINE none == <<>>
             one == <<l>>
  <1>1. Lined(l \o <<Newline>>, one) /\ l \o <<Newline>> \in Seq(Token)
    BY LinedOne
  <1>2. /\ l \in GoodLines
        /\ \A es \in Seq(Pairs) : ReadLine(Entries(es), l) = Entries(es \o none)
    <2>1. \A es \in Seq(Pairs) : es \o none = es
      OBVIOUS
    <2> QED BY <2>1, NoEntryLineIsGood
  <1>3. none \in Seq(Pairs) /\ one \in Seq(GoodLines)
    BY <1>2
  <1>4. Gives(one, none)
    <2> HIDE DEF none
    <2> QED BY <1>2, <1>3, GivesOne
  <1>5. Brings(none, v, {})
    BY DEF Brings
  <1> QED BY <1>1, <1>3, <1>4, <1>5 DEF Piece

(* A line with an entry, as ExportProfile and as GetExport print it.       *)
LEMMA PieceOfEntry ==
    ASSUME NEW v, IsVault(v), NEW n \in DOMAIN v, IsName(n[2]), Plain(v[n].value),
           NEW l, l \in {Body(n[2], v[n].value), <<Export>> \o Body(n[2], v[n].value)}
    PROVE  Piece(v, l \o <<Newline>>, {n})
  <1> DEFINE key == n[2]
             val == v[n].value
             pair == <<UpperCase(key), val>>
             es == <<pair>>
             one == <<l>>
  <1>1. key \in String /\ val \in String
    BY DEF IsVault
  <1>2. /\ l \in GoodLines /\ \A i \in 1 .. Len(l) : l[i] # Newline
        /\ \A fs \in Seq(Pairs) : ReadLine(Entries(fs), l) = Entries(Append(fs, pair))
    BY <1>1, ReadAssignmentLine, ZenonT(30)
  <1>3. pair \in Pairs /\ pair = Pair(v, n)
    BY <1>1, UpperCaseType DEF Pairs, Pair
  <1>4. l \in Seq(Token)
    BY <1>2 DEF GoodLines
  <1> HIDE DEF pair
  <1>5. es \in Seq(Pairs) /\ Len(es) = 1 /\ es[1] = pair
        /\ \A fs \in Seq(Pairs) : Append(fs, pair) = fs \o es
    BY <1>3
  <1>6. Lined(l \o <<Newline>>, one) /\ l \o <<Newline>> \in Seq(Token)
    BY <1>2, <1>4, LinedOne
  <1>7. one \in Seq(GoodLines)
    BY <1>2
  <1> HIDE DEF es
  <1>8. Gives(one, es)
    <2>1. \A fs \in Seq(Pairs) : ReadLine(Entries(fs), l) = Entries(fs \o es)
      BY <1>2, <1>5
    <2> QED BY <1>2, <1>5, <2>1, GivesOne
  <1>9. Brings(es, v, {n})
    <2>1. \A i \in 1 .. Len(es) : i = 1 /\ 1 \in 1 .. Len(es)
      BY <1>5
    <2>2. 1 \in 1 .. Len(es)
      BY <1>5
    <2> QED BY <1>3, <1>5, <2>1, <2>2 DEF Brings
  <1> QED BY <1>5, <1>6, <1>7, <1>8, <1>9 DEF Piece

(* Pieces of names that are apart make a piece.                            *)
ArePieces(v, ps, chunks, Ns) ==
    /\ chunks \in Seq(Seq(Token))
    /\ \A i \in 1 .. Len(chunks) : Ns[i] \subseteq In(v, ps) /\ Piece(v, chunks[i], Ns[i])
    /\ \A i, j \in 1 .. Len(chunks) : i # j => Ns[i] \cap Ns[j] = {}

LEMMA PieceFlatten ==
    ASSUME NEW v, NEW ps, Apart(v, ps), NEW chunks, NEW Ns, ArePieces(v, ps, chunks, Ns)
    PROVE  Piece(v, FlattenSeq(chunks), UNION {Ns[i] : i \in 1 .. Len(chunks)})
  <1> USE DEF ArePieces
  <1> DEFINE n == Len(chunks)
             g == Upto(Token, chunks)
             all(i) == UNION {Ns[j] : j \in 1 .. i}
             P(i) == i <= n => Piece(v, g[i], all(i))
             Q == {i \in Nat : P(i)}
  <1>1. /\ g[0] = <<>> /\ \A i \in 1 .. n : g[i] = g[i - 1] \o chunks[i]
        /\ FlattenSeq(chunks) = g[n]
    BY UptoProperties, ZenonT(30)
  <1>2. n \in Nat
    OBVIOUS
  <1> HIDE DEF g
  <1>3. P(0)
    <2>1. all(0) = {}
      OBVIOUS
    <2> QED BY <2>1, <1>1, PieceOfNothing
  <1>4. ASSUME NEW i \in Nat, P(i), i + 1 <= n PROVE Piece(v, g[i + 1], all(i + 1))
    <2>1. i + 1 \in 1 .. n /\ i + 1 - 1 = i /\ i <= n
      BY <1>2, <1>4
    <2>2. g[i + 1] = g[i] \o chunks[i + 1]
      <3>1. g[i + 1] = g[(i + 1) - 1] \o chunks[i + 1]
        BY ONLY <1>1, <2>1
      <3>2. (i + 1) - 1 = i
        OBVIOUS
      <3> QED BY ONLY <3>1, <3>2, Zenon
    <2>3. Piece(v, g[i], all(i)) /\ Piece(v, chunks[i + 1], Ns[i + 1])
      BY <1>4, <2>1
    <2>4. all(i + 1) = all(i) \cup Ns[i + 1]
      <3>1. 1 .. i + 1 = (1 .. i) \cup {i + 1}
        BY <2>1
      <3> QED BY <3>1
    <2>5. \A j \in 1 .. i : j \in 1 .. n /\ j # i + 1
      BY <1>2, <2>1
    <2>6. all(i) \subseteq In(v, ps) /\ Ns[i + 1] \subseteq In(v, ps) /\ all(i) \cap Ns[i + 1] = {}
      BY <2>1, <2>5
    <2> DEFINE N == all(i)
               M == Ns[i + 1]
               s == g[i]
               t == chunks[i + 1]
    <2>7. /\ N \in SUBSET In(v, ps) /\ M \in SUBSET In(v, ps) /\ N \cap M = {}
          /\ Piece(v, s, N) /\ Piece(v, t, M) /\ Apart(v, ps)
      BY <2>3, <2>6
    <2> HIDE DEF N, M, s, t
    <2>8. Piece(v, s \o t, N \cup M)
      BY ONLY <2>7, PieceConcat
    <2> QED BY <2>2, <2>4, <2>8 DEF N, M, s, t
  <1>5. ASSUME NEW i \in Nat, P(i) PROVE P(i + 1)
    BY <1>4, <1>5
  <1>6. Q = Nat
    <2> HIDE DEF P
    <2>1. 0 \in Q /\ \A i \in Q : i + 1 \in Q
      BY <1>3, <1>5
    <2> QED BY <2>1, NatInd
  <1>7. P(n)
    <2> HIDE DEF P
    <2> QED BY <1>2, <1>6
  <1> QED BY <1>1, <1>2, <1>7

(* The values of the names in the profiles are carried by lines.           *)
AllPlain(v, ps) == \A n \in In(v, ps) : Plain(v[n].value)

(* Lines of the entries of one profile, with or without `export `.         *)
EntryLines(v, p, prefix) ==
    [i \in DOMAIN KeysOf(v, p) |-> (prefix \o Body(KeysOf(v, p)[i], ValuesOf(v, p)[i]))
                                    \o <<Newline>>]

LEMMA PieceOfProfile ==
    ASSUME NEW v, IsVault(v), NEW ps, NEW p \in ps, Apart(v, ps), Named(v, ps),
           AllPlain(v, ps), NEW prefix, prefix \in {<<>>, <<Export>>}
    PROVE  Piece(v, FlattenSeq(EntryLines(v, p, prefix)), In(v, {p}))
  <1> DEFINE q == KeysOf(v, p)
             vals == ValuesOf(v, p)
             n == Len(q)
             lines == EntryLines(v, p, prefix)
             Ns == [i \in 1 .. n |-> {<<p, q[i]>>}]
  <1>1. /\ q \in Seq(String) /\ Enumerates(q, Keys(v, p))
        /\ \A i \in 1 .. n : <<p, q[i]>> \in DOMAIN v /\ vals[i] = v[<<p, q[i]>>].value
    BY KeysOfType
  <1>2. DOMAIN q = 1 .. n /\ n \in Nat
    BY <1>1
  <1>3. lines = [i \in 1 .. n |-> (prefix \o Body(q[i], vals[i])) \o <<Newline>>]
    BY <1>2 DEF EntryLines
  <1> HIDE DEF q, vals, lines
  <1>4. ASSUME NEW i \in 1 .. n
        PROVE  /\ Piece(v, lines[i], Ns[i]) /\ lines[i] \in Seq(Token)
               /\ Ns[i] \subseteq In(v, ps)
    <2> DEFINE m == <<p, q[i]>>
               b == Body(m[2], v[m].value)
    <2>1. m \in DOMAIN v /\ m[1] = p /\ m[2] = q[i] /\ vals[i] = v[m].value
      BY <1>1
    <2>2. m \in In(v, ps)
      BY <2>1 DEF In
    <2>3. IsName(m[2]) /\ Plain(v[m].value)
      BY <2>2 DEF Named, AllPlain
    <2>4. lines[i] = (prefix \o b) \o <<Newline>>
      BY <1>3, <2>1
    <2>5. prefix \o b \in {b, <<Export>> \o b}
      <3>1. m[2] \in String /\ v[m].value \in String
        BY <2>1 DEF IsVault
      <3>2. b \in Seq(Character)
        BY <2>3, <3>1, BodyParts
      <3> HIDE DEF b
      <3>3. <<>> \o b = b
        BY ONLY <3>2
      <3> QED BY <3>3
    <2>6. Piece(v, (prefix \o b) \o <<Newline>>, {m})
      <3> DEFINE l == prefix \o b
      <3>1. l \in {Body(m[2], v[m].value), <<Export>> \o Body(m[2], v[m].value)}
        BY <2>5
      <3> HIDE DEF l, m
      <3> QED BY <2>1, <2>3, <3>1, PieceOfEntry DEF l
    <2>7. Ns[i] = {m}
      OBVIOUS
    <2> HIDE DEF m, b, Ns
    <2>8. Piece(v, lines[i], Ns[i])
      BY <2>4, <2>6, <2>7
    <2> QED BY <2>2, <2>7, <2>8 DEF Piece
  <1>5. ASSUME NEW i \in 1 .. n, NEW j \in 1 .. n, i # j PROVE Ns[i] \cap Ns[j] = {}
    <2>1. q[i] # q[j]
      BY <1>1, <1>5 DEF Enumerates, Distinct
    <2>2. <<p, q[i]>> # <<p, q[j]>>
      BY <2>1
    <2> QED BY <2>2
  <1>6. UNION {Ns[i] : i \in 1 .. n} = In(v, {p})
    <2>1. In(v, {p}) = {<<p, k>> : k \in Keys(v, p)}
      BY InProfile
    <2>2. Keys(v, p) = {q[i] : i \in 1 .. n}
      BY <1>1 DEF Enumerates
    <2> QED BY <2>1, <2>2, ZenonT(30)
  <1>7. lines \in Seq(Seq(Token)) /\ Len(lines) = n
    <2> DEFINE V == Seq(Token)
    <2>1. \A i \in 1 .. n : lines[i] \in V
      BY <1>4
    <2>2. DOMAIN lines = 1 .. n /\ lines = [i \in 1 .. n |-> lines[i]]
      BY <1>3
    <2> HIDE DEF V
    <2>3. lines \in [1 .. n -> V]
      BY ONLY <2>1, <2>2
    <2>4. lines \in Seq(V) /\ Len(lines) = n
      BY ONLY <1>2, <2>3
    <2> QED BY <2>4 DEF V
  <1> HIDE DEF Ns, n
  <1>8. Piece(v, FlattenSeq(lines), UNION {Ns[i] : i \in 1 .. Len(lines)})
    <2>1. \A i \in 1 .. Len(lines) : Ns[i] \subseteq In(v, ps) /\ Piece(v, lines[i], Ns[i])
      BY <1>4, <1>7
    <2>2. \A i, j \in 1 .. Len(lines) : i # j => Ns[i] \cap Ns[j] = {}
      BY <1>5, <1>7
    <2>3. lines \in Seq(Seq(Token)) /\ Apart(v, ps)
      BY <1>7
    <2>4. ArePieces(v, ps, lines, Ns)
      BY ONLY <2>1, <2>2, <2>3 DEF ArePieces
    <2> QED BY ONLY <2>3, <2>4, PieceFlatten
  <1>9. Piece(v, FlattenSeq(lines), In(v, {p}))
    BY <1>6, <1>7, <1>8 DEF n
  <1> QED BY <1>9 DEF lines

LEMMA EntryLinesAre ==
    ASSUME NEW v, IsVault(v), NEW ps, NEW p \in ps, Named(v, ps), AllPlain(v, ps)
    PROVE  LET q == KeysOf(v, p)
           IN  /\ [i \in DOMAIN q |-> Assignment(q[i], v[<<p, q[i]>>].value)]
                    = EntryLines(v, p, <<>>)
               /\ [i \in DOMAIN q |-> <<Export>> \o Assignment(q[i], v[<<p, q[i]>>].value)]
                    = EntryLines(v, p, <<Export>>)
  <1> DEFINE q == KeysOf(v, p)
             vals == ValuesOf(v, p)
             n == Len(q)
  <1>1. /\ q \in Seq(String) /\ Enumerates(q, Keys(v, p))
        /\ \A i \in 1 .. n : <<p, q[i]>> \in DOMAIN v /\ vals[i] = v[<<p, q[i]>>].value
    BY KeysOfType
  <1>2. DOMAIN q = 1 .. n
    BY <1>1
  <1>3. EntryLines(v, p, <<>>) = [i \in 1 .. n |-> (<<>> \o Body(q[i], vals[i])) \o <<Newline>>]
    BY <1>2 DEF EntryLines
  <1>4. EntryLines(v, p, <<Export>>)
          = [i \in 1 .. n |-> (<<Export>> \o Body(q[i], vals[i])) \o <<Newline>>]
    BY <1>2 DEF EntryLines
  <1> HIDE DEF q, vals
  <1>5. ASSUME NEW i \in 1 .. n
        PROVE  LET a == Assignment(q[i], v[<<p, q[i]>>].value)
               IN  /\ a = (<<>> \o Body(q[i], vals[i])) \o <<Newline>>
                   /\ <<Export>> \o a = (<<Export>> \o Body(q[i], vals[i])) \o <<Newline>>
    <2> DEFINE m == <<p, q[i]>>
               x == v[m].value
               b == Body(q[i], x)
    <2>1. m \in DOMAIN v /\ m[1] = p /\ m[2] = q[i] /\ vals[i] = x
      BY <1>1
    <2>2. IsName(q[i]) /\ Plain(x) /\ q[i] \in String /\ x \in String
      <3>1. m \in In(v, ps)
        BY <2>1 DEF In
      <3>2. IsName(m[2]) /\ Plain(v[m].value)
        BY <3>1 DEF Named, AllPlain
      <3>3. m[2] \in String /\ v[m].value \in String
        BY <2>1 DEF IsVault
      <3> QED BY <2>1, <3>2, <3>3
    <2> HIDE DEF x
    <2>3. b \in Seq(Character)
      BY <2>2, BodyParts
    <2>4. Assignment(q[i], x) = b \o <<Newline>>
      BY DEF Assignment, Body
    <2>5. b \in Seq(Token) /\ Export \in Token /\ Newline \in Token
      BY <2>3, CharacterTokens DEF Token
    <2> HIDE DEF b
    <2>6. <<>> \o b = b /\ <<Export>> \o (b \o <<Newline>>) = (<<Export>> \o b) \o <<Newline>>
      BY ONLY <2>5
    <2>7. b = Body(q[i], vals[i])
      BY <2>1 DEF b
    <2> QED BY <2>4, <2>6, <2>7 DEF x
  <1> QED BY <1>2, <1>3, <1>4, <1>5 DEF q

LEMMA PieceOfGetExport ==
    ASSUME NEW v, IsVault(v), NEW p, Apart(v, {p}), Named(v, {p}), AllPlain(v, {p})
    PROVE  Piece(v, GetExport(v, p), In(v, {p}))
  <1> DEFINE ps == {p}
  <1>1. p \in ps /\ Apart(v, ps) /\ Named(v, ps) /\ AllPlain(v, ps)
    OBVIOUS
  <1> HIDE DEF ps
  <1>2. GetExport(v, p) = FlattenSeq(EntryLines(v, p, <<Export>>))
    BY <1>1, EntryLinesAre DEF GetExport, KeysOf
  <1>3. Piece(v, FlattenSeq(EntryLines(v, p, <<Export>>)), In(v, {p}))
    BY <1>1, PieceOfProfile
  <1> QED BY <1>2, <1>3

LEMMA PieceOfExport ==
    ASSUME NEW v, IsVault(v), NEW ps, NEW p \in ps \cap Profiles(v), Apart(v, ps),
           Named(v, ps), AllPlain(v, ps)
    PROVE  Piece(v, ExportProfile(v, p), In(v, {p}))
  <1> DEFINE q == KeysOf(v, p)
             head == <<Hash, Blank>> \o p
             body == FlattenSeq(EntryLines(v, p, <<>>))
             nl == <<Newline>>
  <1>1. p \in ps /\ q \in Seq(String) /\ Enumerates(q, Keys(v, p))
    BY KeysOfType
  <1>2. PICK m \in DOMAIN v : m[1] = p
    BY DEF Profiles
  <1>3. m \in In(v, {p}) /\ m \in In(v, ps) /\ m[2] \in Keys(v, p) /\ p \in String
    BY <1>2 DEF In, Keys, IsVault
  <1>4. q # <<>>
    <2>1. PICK i \in 1 .. Len(q) : TRUE
      BY <1>1, <1>3 DEF Enumerates
    <2> HIDE DEF q
    <2> QED BY <2>1, <1>1
  <1>5. ExportProfile(v, p) = ((head \o nl) \o body) \o nl
    <2>1. [i \in DOMAIN q |-> Assignment(q[i], v[<<p, q[i]>>].value)] = EntryLines(v, p, <<>>)
      BY EntryLinesAre
    <2>2. Sorted(Keys(v, p)) = q
      BY DEF KeysOf
    <2> HIDE DEF q
    <2>3. ExportProfile(v, p)
            = ((head \o nl)
               \o FlattenSeq([i \in DOMAIN q |-> Assignment(q[i], v[<<p, q[i]>>].value)])) \o nl
      BY <2>2, <1>4 DEF ExportProfile
    <2> QED BY <2>1, <2>3
  <1>6. Piece(v, body, In(v, {p}))
    BY <1>1, PieceOfProfile
  <1>7. Piece(v, head \o nl, {})
    <2>1. /\ p \in Seq(Token) /\ Hash \in Token /\ Blank \in Token
          /\ Hash # Newline /\ Blank # Newline
      <3>1. p \in Seq(Character)
        BY <1>3 DEF String
      <3>2. Character \subseteq Token
        BY CharacterTokens
      <3>3. p \in Seq(Token)
        BY ONLY <3>1, <3>2
      <3>4. Hash \in Character /\ Blank \in Character
        BY DEF Character
      <3>5. Hash # Newline /\ Blank # Newline
        BY DEF Hash, Blank, Newline
      <3> QED BY <3>2, <3>3, <3>4, <3>5
    <2>2. \A i \in 1 .. Len(p) : p[i] # Newline
      <3>1. Newline \notin ToSet(p)
        BY <1>2, <1>3 DEF Named
      <3>2. DOMAIN p = 1 .. Len(p)
        BY <2>1
      <3> QED BY <3>1, <3>2 DEF ToSet
    <2>3. /\ head \in Seq(Token) /\ head # <<>> /\ head[1] = Hash
          /\ \A i \in 1 .. Len(head) : head[i] # Newline
      <3>1. /\ head \in Seq(Token) /\ Len(head) = Len(p) + 2 /\ head[1] = Hash /\ head[2] = Blank
            /\ \A i \in 1 .. Len(p) : head[i + 2] = p[i]
        BY <2>1
      <3>2. Len(p) \in Nat
        BY <2>1
      <3> HIDE DEF head
      <3>3. ASSUME NEW i \in 1 .. Len(head) PROVE head[i] # Newline
        <4>1. CASE i = 1 \/ i = 2
          BY <4>1, <3>1, <2>1
        <4>2. CASE i # 1 /\ i # 2
          <5> DEFINE k == i - 2
          <5>1. k \in 1 .. Len(p) /\ k + 2 = i
            BY <4>2, <3>1, <3>2
          <5> HIDE DEF k
          <5> QED BY <5>1, <3>1, <2>2
        <4> QED BY <4>1, <4>2
      <3> QED BY <3>1, <3>2, <3>3
    <2> HIDE DEF head
    <2> QED BY <2>3, PieceOfNoEntry
  <1>8. Piece(v, nl, {})
    <2> DEFINE none == <<>>
    <2>1. none \in Seq(Token) /\ Len(none) = 0 /\ \A i \in 1 .. Len(none) : none[i] # Newline
      OBVIOUS
    <2>2. none \o nl = nl
      BY CharacterTokens DEF Token
    <2>3. Piece(v, none \o nl, {})
      BY <2>1, PieceOfNoEntry
    <2> QED BY <2>2, <2>3
  <1> DEFINE N == In(v, {p})
             s == head \o nl
  <1>9. N \in SUBSET In(v, ps) /\ {} \in SUBSET In(v, ps)
    BY DEF In
  <1> HIDE DEF N, s, body, nl, head
  <1>10. Piece(v, s \o body, {} \cup N)
    <2>1. Piece(v, s, {}) /\ Piece(v, body, N) /\ {} \cap N = {}
      BY <1>6, <1>7 DEF N, s
    <2> QED BY ONLY <2>1, <1>9, PieceConcat, Apart(v, ps)
  <1>11. Piece(v, (s \o body) \o nl, N)
    <2> DEFINE t == s \o body
    <2>1. Piece(v, t, N) /\ Piece(v, nl, {}) /\ N \cap {} = {}
      <3>1. {} \cup N = N
        OBVIOUS
      <3> QED BY <1>8, <1>10, <3>1
    <2> HIDE DEF t
    <2>2. Piece(v, t \o nl, N \cup {})
      BY ONLY <2>1, <1>9, PieceConcat, Apart(v, ps)
    <2>3. N \cup {} = N
      OBVIOUS
    <2> QED BY <2>2, <2>3 DEF t
  <1> QED BY <1>5, <1>11 DEF s, N

LEMMA PieceOfExportDotenv ==
    ASSUME NEW v, IsVault(v), NEW ps \in SUBSET Profiles(v), Apart(v, ps), Named(v, ps),
           AllPlain(v, ps)
    PROVE  Piece(v, ExportDotenv(v, ps), In(v, ps))
  <1> DEFINE q == Sorted(ps)
             n == Len(q)
             chunks == [i \in DOMAIN q |-> ExportProfile(v, q[i])]
             Ns == [i \in 1 .. n |-> In(v, {q[i]})]
  <1>1. Enumerates(q, ps)
    <2>1. IsFiniteSet(ps)
      BY NamesAreFinite, FS_Subset
    <2> QED BY <2>1, SetToSeqEnumerates DEF Sorted
  <1>2. ExportDotenv(v, ps) = FlattenSeq(chunks)
    BY DEF ExportDotenv
  <1> HIDE DEF q
  <1>3. q \in Seq(ps) /\ DOMAIN q = 1 .. n /\ n \in Nat
    BY <1>1 DEF Enumerates
  <1>4. ASSUME NEW i \in 1 .. n
        PROVE  /\ Piece(v, chunks[i], Ns[i]) /\ chunks[i] \in Seq(Token)
               /\ Ns[i] \subseteq In(v, ps)
    <2>1. q[i] \in ps \cap Profiles(v)
      BY <1>3
    <2>2. Piece(v, ExportProfile(v, q[i]), In(v, {q[i]}))
      BY <2>1, PieceOfExport
    <2>3. chunks[i] = ExportProfile(v, q[i]) /\ Ns[i] = In(v, {q[i]})
      BY <1>3
    <2>4. In(v, {q[i]}) \subseteq In(v, ps)
      BY <2>1 DEF In
    <2> HIDE DEF chunks, Ns
    <2> QED BY <2>2, <2>3, <2>4 DEF Piece
  <1>5. ASSUME NEW i \in 1 .. n, NEW j \in 1 .. n, i # j PROVE Ns[i] \cap Ns[j] = {}
    <2>1. q[i] # q[j]
      BY <1>1, <1>5 DEF Enumerates, Distinct
    <2> QED BY <2>1 DEF In
  <1>6. UNION {Ns[i] : i \in 1 .. n} = In(v, ps)
    <2>1. ps = {q[i] : i \in 1 .. n}
      BY <1>1 DEF Enumerates
    <2>2. ASSUME NEW m \in In(v, ps) PROVE \E i \in 1 .. n : m \in Ns[i]
      <3>1. m \in DOMAIN v /\ m[1] \in ps
        BY DEF In
      <3>2. PICK i \in 1 .. n : m[1] = q[i]
        BY <2>1, <3>1
      <3> QED BY <3>1, <3>2 DEF In
    <2>3. ASSUME NEW i \in 1 .. n PROVE Ns[i] \subseteq In(v, ps)
      BY <1>4
    <2> HIDE DEF Ns
    <2> QED BY <2>2, <2>3
  <1>7. chunks \in Seq(Seq(Token)) /\ Len(chunks) = n
    <2> DEFINE V == Seq(Token)
    <2>1. \A i \in 1 .. n : chunks[i] \in V
      BY <1>4
    <2>2. DOMAIN chunks = 1 .. n /\ chunks = [i \in 1 .. n |-> chunks[i]]
      BY <1>3
    <2> HIDE DEF V
    <2>3. chunks \in [1 .. n -> V]
      BY ONLY <2>1, <2>2
    <2>4. chunks \in Seq(V) /\ Len(chunks) = n
      BY ONLY <1>3, <2>3
    <2> QED BY <2>4 DEF V
  <1> HIDE DEF Ns, n, chunks
  <1>8. ArePieces(v, ps, chunks, Ns)
    BY <1>4, <1>5, <1>7 DEF ArePieces
  <1>9. Piece(v, FlattenSeq(chunks), UNION {Ns[i] : i \in 1 .. Len(chunks)})
    BY ONLY <1>8, PieceFlatten, Apart(v, ps)
  <1> QED BY <1>2, <1>6, <1>7, <1>9 DEF n

(* The entries of a text are the names it was made of.                     *)
LEMMA PieceParse ==
    ASSUME NEW v, NEW text, NEW N, Piece(v, text, N)
    PROVE  \E es : parse_dotenv_str(text) = Entries(es) /\ Brings(es, v, N)
  <1>1. PICK lines \in Seq(GoodLines), es \in Seq(Pairs) :
           Lined(text, lines) /\ Gives(lines, es) /\ Brings(es, v, N)
    BY DEF Piece
  <1> DEFINE none == <<>>
             first == Append(none, none)
             read == Entries(none)
             all == Append(lines, none)
  <1>2. /\ text \in Seq(Token) /\ none \in Seq(Token) /\ none \in Seq(Pairs)
        /\ es \in Seq(Pairs)
    BY <1>1 DEF Piece, Brings
  <1>3. none \in Texts
    BY DEF Texts
  <1>4. first \in SomeLines
    <2>1. Newline \in Token
      BY CharacterTokens
    <2> QED BY <1>2, <1>3, <2>1, AddCharacterIs
  <1>5. first = <<none>>
    OBVIOUS
  <1>6. none \in GoodLines /\ \A fs \in Seq(Pairs) : ReadLine(Entries(fs), none) = Entries(fs)
    BY <1>2, NoEntryLineIsGood
  <1>7. read \in Reads
    BY <1>2, ReadStepIs
  <1>8. none \o lines = lines /\ none \o es = es
    BY <1>2
  <1>9. Lines(text) = all
    <2>1. FoldLeft(AddCharacter, first, text) = Fold(LineStep, first, text)
      BY <1>2, <1>4, LineFold
    <2>2. Fold(LineStep, first, text) = Append(none \o lines, none)
      BY <1>1, <1>3 DEF Lined
    <2> HIDE DEF first
    <2> QED BY <2>1, <2>2, <1>5, <1>8 DEF Lines
  <1>10. all \in Seq(GoodLines)
    BY <1>6
  <1>11. Fold(ReadStep, read, lines) = Entries(es)
    <2>1. Fold(ReadStep, Entries(none), lines) = Entries(none \o es)
      BY <1>1, <1>2 DEF Gives
    <2> QED BY <2>1, <1>8
  <1>12. parse_dotenv_str(text) = Fold(ReadStep, read, all)
    <2>1. parse_dotenv_str(text) = FoldLeft(ReadLine, read, all)
      BY <1>9 DEF parse_dotenv_str, Entries
    <2> HIDE DEF read, all
    <2> QED BY <2>1, <1>7, <1>10, ReadFold
  <1> HIDE DEF none, read
  <1>13. Fold(ReadStep, read, Append(lines, none)) = ReadStep[<<Fold(ReadStep, read, lines), none>>]
    <2>1. IsStep(ReadStep, Reads, GoodLines)
      BY ReadStepIs
    <2> QED BY ONLY <1>6, <1>7, <2>1, FoldAppend, lines \in Seq(GoodLines)
  <1>14. ReadStep[<<Entries(es), none>>] = Entries(es)
    <2>1. Entries(es) \in Reads
      BY <1>2, ReadStepIs
    <2>2. ReadStep[<<Entries(es), none>>] = ReadLine(Entries(es), none)
      BY <1>6, <2>1, ReadStepIs
    <2> QED BY <1>2, <1>6, <2>2
  <1> QED BY <1>1, <1>11, <1>12, <1>13, <1>14

(***************************************************************************)
(* Entries set in a vault                                                  *)
(***************************************************************************)

Credentials == [value : String, expires : Time \cup {Never}]
Stores == Maps(String \X String, Credentials)
Settings == String \X String \X String
SetStep == [x \in Stores \X Settings |-> Set(x[1], x[2])]

LEMMA SetIs ==
    ASSUME NEW store \in Stores, NEW t \in Settings
    PROVE  Set(store, t) \in Stores
  <1> DEFINE name == <<t[1], t[2]>>
             new == [value |-> t[3], expires |-> Never]
  <1>1. t[1] \in String /\ t[2] \in String /\ t[3] \in String
    BY DEF Settings
  <1>2. name \in String \X String
    BY <1>1
  <1>3. new \in Credentials
    BY <1>1 DEF Credentials
  <1>4. Set(store, t) = With(store, name, new)
    BY DEF Set
  <1> HIDE DEF name, new
  <1> QED BY <1>2, <1>3, <1>4, WithType DEF Stores

LEMMA SetStepIs ==
    /\ IsStep(SetStep, Stores, Settings)
    /\ \A store \in Stores, t \in Settings : SetStep[<<store, t>>] = Set(store, t)
  <1>1. \A x \in Stores \X Settings : Set(x[1], x[2]) \in Stores
    BY SetIs
  <1>2. IsStep(SetStep, Stores, Settings)
    BY <1>1 DEF IsStep, SetStep
  <1>3. ASSUME NEW store \in Stores, NEW t \in Settings
        PROVE  SetStep[<<store, t>>] = Set(store, t)
    <2> DEFINE x == <<store, t>>
    <2>1. x \in Stores \X Settings /\ x[1] = store /\ x[2] = t
      OBVIOUS
    <2> HIDE DEF x
    <2>2. SetStep[x] = Set(x[1], x[2])
      BY <2>1 DEF SetStep
    <2> QED BY <2>1, <2>2 DEF x
  <1> QED BY <1>2, <1>3

LEMMA SetFold ==
    ASSUME NEW store \in Stores, NEW entries \in Seq(Settings)
    PROVE  FoldLeft(Set, store, entries) = Fold(SetStep, store, entries)
  <1> DEFINE n == Len(entries)
             D == SUBSET (1 .. n)
  <1>1. DOMAIN entries = 1 .. n /\ n \in Nat
    OBVIOUS
  <1>2. PICK f : IsSetFold(f, Stores, SetStep, store, entries)
    BY SetStepIs, SetFoldExists
  <1>3. f = [S \in D |-> IF S = {} THEN store ELSE Set(f[S \ {Max(S)}], entries[Max(S)])]
    <2>1. ASSUME NEW S \in D, S # {}
          PROVE  f[S] = Set(f[S \ {Max(S)}], entries[Max(S)])
      <3>1. S \ {Max(S)} \in D /\ Max(S) \in 1 .. n
        BY <1>2, <2>1 DEF IsSetFold
      <3>2. f[S \ {Max(S)}] \in Stores /\ entries[Max(S)] \in Settings
        BY <1>2, <3>1, ElementOfSeq DEF IsSetFold
      <3> QED BY <1>2, <2>1, <3>2, SetStepIs DEF IsSetFold
    <2> QED BY <1>2, <2>1 DEF IsSetFold
  <1>4. PICK g : /\ g = [S \in SUBSET DOMAIN entries |->
                           IF S = {} THEN store ELSE Set(g[S \ {Max(S)}], entries[Max(S)])]
                 /\ FoldLeft(Set, store, entries) = g[DOMAIN entries]
    BY <1>1, <1>3 DEF FoldLeft, MapThenFoldSet
  <1>5. StepsOn(g, Stores, SetStep, store, entries)
    <2>1. ASSUME NEW S \in D, S # {}, g[S \ {Max(S)}] \in Stores
          PROVE  g[S] = SetStep[<<g[S \ {Max(S)}], entries[Max(S)]>>]
      <3>1. Max(S) \in 1 .. n
        BY <1>2, <2>1 DEF IsSetFold
      <3>2. entries[Max(S)] \in Settings
        BY <3>1, ElementOfSeq
      <3> QED BY <1>1, <1>4, <2>1, <3>2, SetStepIs
    <2>2. g[{}] = store
      BY <1>1, <1>4
    <2> QED BY <2>1, <2>2 DEF StepsOn
  <1>6. g[1 .. n] = Fold(SetStep, store, entries)
    BY <1>5, SetStepIs, SetFoldIs
  <1> QED BY <1>1, <1>4, <1>6

(* An import whose entries are for different places has them all.          *)
PlacesOf(entries) == [i \in DOMAIN entries |-> <<entries[i][1], entries[i][2]>>]
RecordsOf(entries) == [i \in DOMAIN entries |-> [value |-> entries[i][3], expires |-> Never]]

LEMMA SetAll ==
    ASSUME NEW store \in Stores, NEW entries \in Seq(Settings),
           Distinct(PlacesOf(entries), Len(entries))
    PROVE  HasAll(FoldLeft(Set, store, entries), store, PlacesOf(entries), RecordsOf(entries),
                  Len(entries))
  <1> DEFINE n == Len(entries)
             r == Run(SetStep, store, entries)
             names == PlacesOf(entries)
             recs == RecordsOf(entries)
  <1>1. DOMAIN entries = 1 .. n /\ n \in Nat
    OBVIOUS
  <1>2. /\ IsRun(r, SetStep, store, entries) /\ FoldLeft(Set, store, entries) = r[n]
        /\ \A i \in 0 .. n : r[i] \in Stores
    <2>1. IsStep(SetStep, Stores, Settings)
      BY SetStepIs
    <2> QED BY <2>1, SetFold, FoldType DEF Fold
  <1> HIDE DEF r
  <1>3. r[0] = store
    BY <1>2 DEF IsRun
  <1>4. Puts(r, names, recs, n)
    <2>1. ASSUME NEW i \in 1 .. n PROVE r[i] = With(r[i - 1], names[i], recs[i])
      <3>1. i - 1 \in 0 .. n /\ entries[i] \in Settings
        BY ElementOfSeq
      <3>2. r[i] = SetStep[<<r[i - 1], entries[i]>>]
        BY <1>2 DEF IsRun
      <3>3. r[i] = Set(r[i - 1], entries[i])
        BY <1>2, <3>1, <3>2, SetStepIs
      <3>4. names[i] = <<entries[i][1], entries[i][2]>>
        BY <1>1 DEF PlacesOf
      <3>5. recs[i] = [value |-> entries[i][3], expires |-> Never]
        BY <1>1 DEF RecordsOf
      <3> QED BY <3>3, <3>4, <3>5 DEF Set
    <2> QED BY <2>1 DEF Puts
  <1> HIDE DEF names, recs
  <1>5. HasAll(r[n], r[0], names, recs, n)
    BY <1>1, <1>4, PutAll DEF names
  <1> QED BY <1>2, <1>3, <1>5 DEF names, recs

(* Every name n of N comes to the place at[n], with its value, and the     *)
(* rest stays.                                                             *)
IsBrought(after, before, v, N, at) ==
    /\ DOMAIN after = DOMAIN before \cup {at[n] : n \in N}
    /\ \A n \in N : after[at[n]].value = v[n].value
    /\ \A n \in DOMAIN before \ {at[m] : m \in N} : after[n] = before[n]

Setting(v, at, n) == <<at[n][1], at[n][2], v[n].value>>

Carries(entries, v, N, at) ==
    /\ at \in [N -> String \X String]
    /\ entries \in Seq(Settings)
    /\ Distinct(PlacesOf(entries), Len(entries))
    /\ \A i \in 1 .. Len(entries) : \E n \in N : entries[i] = Setting(v, at, n)
    /\ \A n \in N : \E i \in 1 .. Len(entries) : entries[i] = Setting(v, at, n)

LEMMA CarriedIsBrought ==
    ASSUME NEW v, NEW N, NEW at, NEW entries, Carries(entries, v, N, at), NEW store \in Stores
    PROVE  IsBrought(FoldLeft(Set, store, entries), store, v, N, at)
  <1> DEFINE after == FoldLeft(Set, store, entries)
             n == Len(entries)
             names == PlacesOf(entries)
             recs == RecordsOf(entries)
  <1>1. HasAll(after, store, names, recs, n)
    BY SetAll DEF Carries
  <1>2. entries \in Seq(Settings) /\ DOMAIN entries = 1 .. n
    BY DEF Carries
  <1>3. \A i \in 1 .. n : /\ names[i] = <<entries[i][1], entries[i][2]>>
                          /\ recs[i].value = entries[i][3]
    BY <1>2 DEF PlacesOf, RecordsOf
  <1> HIDE DEF after, names, recs, n
  <1>4. ASSUME NEW m \in N, NEW i \in 1 .. n, entries[i] = Setting(v, at, m)
        PROVE  names[i] = at[m] /\ recs[i].value = v[m].value
    <2>1. at[m] \in String \X String
      BY DEF Carries
    <2>2. at[m] = <<at[m][1], at[m][2]>>
      BY <2>1
    <2>3. /\ entries[i][1] = at[m][1] /\ entries[i][2] = at[m][2]
          /\ entries[i][3] = v[m].value
      BY <1>4 DEF Setting
    <2> QED BY <1>3, <2>2, <2>3
  <1>5. \A i \in 1 .. n : \E m \in N : entries[i] = Setting(v, at, m)
    BY DEF Carries, n
  <1>6. \A m \in N : \E i \in 1 .. n : entries[i] = Setting(v, at, m)
    BY DEF Carries, n
  <1>7. {names[i] : i \in 1 .. n} = {at[m] : m \in N}
    <2>1. ASSUME NEW i \in 1 .. n PROVE names[i] \in {at[m] : m \in N}
      BY <1>4, <1>5
    <2>2. ASSUME NEW m \in N PROVE at[m] \in {names[i] : i \in 1 .. n}
      <3>1. PICK i \in 1 .. n : entries[i] = Setting(v, at, m)
        BY <1>6
      <3>2. names[i] = at[m]
        BY <1>4, <3>1
      <3> QED BY <3>2
    <2> QED BY <2>1, <2>2
  <1>8. ASSUME NEW m \in N PROVE after[at[m]].value = v[m].value
    <2>1. PICK i \in 1 .. n : entries[i] = Setting(v, at, m)
      BY <1>6
    <2>2. after[names[i]] = recs[i]
      BY <1>1 DEF HasAll
    <2>3. names[i] = at[m] /\ recs[i].value = v[m].value
      BY <1>4, <2>1
    <2> QED BY <2>2, <2>3
  <1>9. /\ DOMAIN after = DOMAIN store \cup {at[m] : m \in N}
        /\ \A x \in DOMAIN store \ {at[m] : m \in N} : after[x] = store[x]
    BY <1>1, <1>7 DEF HasAll
  <1> QED BY <1>8, <1>9 DEF IsBrought, after

LEMMA VaultIsStore ==
    ASSUME NEW v, IsVault(v)
    PROVE  v \in Stores
  <1> DEFINE D == DOMAIN v
  <1>1. D \in SUBSET (String \X String) /\ v \in [D -> Credentials]
    BY DEF IsVault, Credentials
  <1> HIDE DEF D
  <1> QED BY <1>1 DEF Stores, Maps

(* What an import is made of.                                              *)
LEMMA ImportBrings ==
    ASSUME NEW before, IsVault(before), NEW printed, NEW into, NEW v, NEW N, NEW at, NEW read,
           read = Triples(printed, into), read.kind # "invalid",
           Carries(read.entries, v, N, at)
    PROVE  IsBrought(Import(before, printed, into), before, v, N, at)
  <1>1. before \in Stores
    BY VaultIsStore
  <1>2. Import(before, printed, into) = FoldLeft(Set, before, read.entries)
    BY DEF Import
  <1> QED BY <1>1, <1>2, CarriedIsBrought

(***************************************************************************)
(* The imports                                                             *)
(***************************************************************************)

LEMMA DotenvImport ==
    ASSUME NEW v, IsVault(v), NEW ps, NEW printed, NEW into \in String,
           printed.format # "json", Piece(v, printed.text, In(v, ps)),
           NEW before, IsVault(before)
    PROVE  IsBrought(Import(before, printed, into), before, v, In(v, ps),
                     [n \in In(v, ps) |-> <<into, UpperCase(n[2])>>])
  <1> DEFINE N == In(v, ps)
             at == [n \in N |-> <<into, UpperCase(n[2])>>]
  <1>1. PICK es : parse_dotenv_str(printed.text) = Entries(es) /\ Brings(es, v, N)
    BY PieceParse
  <1> DEFINE entries == [i \in DOMAIN es |-> <<into, es[i][1], es[i][2]>>]
             read == Entries(entries)
  <1>2. es \in Seq(Pairs) /\ DOMAIN es = 1 .. Len(es) /\ Len(es) \in Nat
    BY <1>1 DEF Brings
  <1>3. read = Triples(printed, into) /\ read.kind # "invalid" /\ read.entries = entries
    BY <1>1 DEF Triples, Entries
  <1>4. /\ DOMAIN entries = 1 .. Len(es)
        /\ \A i \in 1 .. Len(es) : entries[i] = <<into, es[i][1], es[i][2]>>
    BY <1>2
  <1>5. ASSUME NEW i \in 1 .. Len(es) PROVE entries[i] \in Settings
    <2>1. es[i] \in Pairs
      BY <1>2
    <2>2. es[i][1] \in String /\ es[i][2] \in String
      BY <2>1 DEF Pairs
    <2> QED BY <1>4, <2>2 DEF Settings
  <1>6. entries \in Seq(Settings) /\ Len(entries) = Len(es)
    <2>1. entries \in [1 .. Len(es) -> Settings]
      BY <1>2, <1>5
    <2> HIDE DEF entries
    <2> QED BY <1>2, <2>1
  <1>7. at \in [N -> String \X String]
    <2>1. \A n \in N : n[2] \in String
      BY DEF In, IsVault
    <2>2. \A n \in N : UpperCase(n[2]) \in String
      BY <2>1, UpperCaseType
    <2> QED BY <2>2
  <1>8. \A n \in N : Setting(v, at, n) = <<into, Pair(v, n)[1], Pair(v, n)[2]>>
    BY DEF Setting, Pair
  <1> HIDE DEF N, at, entries, read
  <1>9. \A i \in 1 .. Len(es) : \E n \in N : entries[i] = Setting(v, at, n)
    <2>1. \A i \in 1 .. Len(es) : \E n \in N : es[i] = Pair(v, n)
      BY <1>1 DEF Brings
    <2> QED BY <2>1, <1>4, <1>8
  <1>10. \A n \in N : \E i \in 1 .. Len(es) : entries[i] = Setting(v, at, n)
    <2>1. \A n \in N : \E i \in 1 .. Len(es) : es[i] = Pair(v, n)
      BY <1>1 DEF Brings
    <2> QED BY <2>1, <1>4, <1>8
  <1>11. Distinct(PlacesOf(entries), Len(entries))
    <2>1. ASSUME NEW i \in 1 .. Len(es), NEW j \in 1 .. Len(es),
                 PlacesOf(entries)[i] = PlacesOf(entries)[j]
          PROVE  i = j
      <3>1. PlacesOf(entries)[i] = <<into, es[i][1]>> /\ PlacesOf(entries)[j] = <<into, es[j][1]>>
        BY <1>4 DEF PlacesOf
      <3>2. es[i][1] = es[j][1]
        <4>1. PlacesOf(entries)[i][2] = es[i][1] /\ PlacesOf(entries)[j][2] = es[j][1]
          BY ONLY <3>1
        <4> QED BY ONLY <4>1, <2>1, Zenon
      <3> QED BY <1>1, <3>2 DEF Brings
    <2> QED BY <1>6, <2>1 DEF Distinct
  <1>12. Carries(read.entries, v, N, at)
    BY <1>3, <1>6, <1>7, <1>9, <1>10, <1>11 DEF Carries
  <1>13. IsBrought(Import(before, printed, into), before, v, N, at)
    BY <1>3, <1>12, ImportBrings
  <1> QED BY <1>13 DEF N, at

(* The entries of a JSON import, in any order.                             *)
LEMMA SettingsCarry ==
    ASSUME NEW v, IsVault(v), NEW N \in SUBSET DOMAIN v, NEW at \in [N -> String \X String],
           \A m, n \in N : at[m] = at[n] => m = n
    PROVE  Carries(SetToSeq({Setting(v, at, n) : n \in N}), v, N, at)
  <1> DEFINE T == {Setting(v, at, n) : n \in N}
             q == SetToSeq(T)
  <1>1. IsFiniteSet(N)
    BY FS_Subset DEF IsVault
  <1>2. IsFiniteSet(T)
    <2> DEFINE f == [n \in N |-> Setting(v, at, n)]
    <2>1. f \in [N -> T] /\ \A t \in T : \E n \in N : f[n] = t
      OBVIOUS
    <2> HIDE DEF f, T
    <2> QED BY <1>1, <2>1, ImageIsFinite
  <1>3. T \subseteq Settings
    <2>1. ASSUME NEW n \in N PROVE Setting(v, at, n) \in Settings
      <3>1. at[n] \in String \X String /\ v[n].value \in String
        BY DEF IsVault
      <3>2. at[n][1] \in String /\ at[n][2] \in String
        BY <3>1
      <3> QED BY <3>1, <3>2 DEF Setting, Settings
    <2> QED BY <2>1
  <1>4. Enumerates(q, T)
    BY <1>2, SetToSeqEnumerates
  <1> HIDE DEF q
  <1>5. q \in Seq(T) /\ q \in Seq(Settings) /\ DOMAIN q = 1 .. Len(q)
    <2>1. q \in Seq(T)
      BY <1>4 DEF Enumerates
    <2> HIDE DEF T
    <2> QED BY ONLY <2>1, <1>3
  <1>6. \A i \in 1 .. Len(q) : \E n \in N : q[i] = Setting(v, at, n)
    BY <1>5
  <1>7. \A n \in N : \E i \in 1 .. Len(q) : q[i] = Setting(v, at, n)
    <2>1. T = {q[i] : i \in 1 .. Len(q)}
      BY <1>4 DEF Enumerates
    <2>2. ASSUME NEW n \in N PROVE \E i \in 1 .. Len(q) : q[i] = Setting(v, at, n)
      <3> DEFINE x == Setting(v, at, n)
      <3>1. x \in T
        OBVIOUS
      <3> HIDE DEF x, T
      <3>2. \E i \in 1 .. Len(q) : q[i] = x
        BY ONLY <2>1, <3>1
      <3> QED BY <3>2 DEF x
    <2> QED BY <2>2
  <1>8. Distinct(PlacesOf(q), Len(q))
    <2>1. ASSUME NEW i \in 1 .. Len(q), NEW j \in 1 .. Len(q), PlacesOf(q)[i] = PlacesOf(q)[j]
          PROVE  i = j
      <3>1. PICK m \in N : q[i] = Setting(v, at, m)
        BY <1>6
      <3>2. PICK n \in N : q[j] = Setting(v, at, n)
        BY <1>6
      <3>3. at[m] = <<at[m][1], at[m][2]>> /\ at[n] = <<at[n][1], at[n][2]>>
        <4>1. at[m] \in String \X String /\ at[n] \in String \X String
          OBVIOUS
        <4> QED BY ONLY <4>1
      <3>4. PlacesOf(q)[i] = <<q[i][1], q[i][2]>> /\ PlacesOf(q)[j] = <<q[j][1], q[j][2]>>
        BY <1>5 DEF PlacesOf
      <3>5. q[i][1] = at[m][1] /\ q[i][2] = at[m][2] /\ q[j][1] = at[n][1] /\ q[j][2] = at[n][2]
        BY ONLY <3>1, <3>2 DEF Setting
      <3>6. PlacesOf(q)[i] = at[m] /\ PlacesOf(q)[j] = at[n]
        BY ONLY <3>3, <3>4, <3>5, Zenon
      <3>7. at[m] = at[n]
        BY ONLY <2>1, <3>6, Zenon
      <3>8. m = n
        BY <3>7
      <3>9. q[i] = q[j]
        BY ONLY <3>1, <3>2, <3>8, Zenon
      <3> QED BY <1>4, <3>9 DEF Enumerates, Distinct
    <2> QED BY <2>1 DEF Distinct
  <1> QED BY <1>5, <1>6, <1>7, <1>8 DEF Carries, q

(* An object of profiles.                                                  *)
LEMMA NestedImport ==
    ASSUME NEW v, IsVault(v), NEW ps, NEW printed, printed.format = "json",
           printed.text = ExportJson(v, ps), NEW into, NEW before, IsVault(before)
    PROVE  /\ IsMulti(printed.text.members)
           /\ IsBrought(Import(before, printed, into), before, v, In(v, ps),
                        [n \in In(v, ps) |-> n])
  <1> DEFINE obj == printed.text.members
             N == In(v, ps)
             at == [n \in N |-> n]
             members(p) == [k \in Keys(v, p) |-> Text(v[<<p, k>>].value)]
             triples == UNION {{<<p, k, obj[p].members[k]>> : k \in DOMAIN obj[p].members} :
                                 p \in {n \in DOMAIN obj : obj[n].kind = "object"}}
             T == {Setting(v, at, n) : n \in N}
  <1>0. \A x : Text(x).kind = "text" /\ Text(x).text = x
    BY DEF Text
  <1>1. /\ DOMAIN obj = ps
        /\ \A p \in ps : obj[p].kind = "object" /\ obj[p].members = members(p)
    <2>1. obj = [p \in ps |-> GetJson(v, p)]
      BY DEF ExportJson, Object
    <2>2. ASSUME NEW p \in ps
          PROVE  GetJson(v, p).kind = "object" /\ GetJson(v, p).members = members(p)
      BY DEF GetJson, Object
    <2> HIDE DEF obj, members
    <2> QED BY <2>1, <2>2
  <1> HIDE DEF obj
  <1>2. IsMulti(obj)
    BY <1>1 DEF IsMulti
  <1>3. \A n \in DOMAIN v : n = <<n[1], n[2]>>
    BY DEF IsVault
  <1>4. \A p : \A k : k \in Keys(v, p) <=> <<p, k>> \in DOMAIN v
    BY NamesAreFinite
  <1>5. ASSUME NEW p \in ps, NEW k \in Keys(v, p)
        PROVE  obj[p].members[k] = Text(v[<<p, k>>].value) /\ <<p, k>> \in N
    BY <1>1, <1>4 DEF In
  <1>6. ASSUME NEW n \in N
        PROVE  /\ n[1] \in ps /\ n[2] \in Keys(v, n[1])
               /\ Setting(v, at, n) = <<n[1], n[2], v[n].value>>
    <2>1. n \in DOMAIN v /\ n[1] \in ps /\ n = <<n[1], n[2]>>
      BY <1>3 DEF In
    <2> QED BY <2>1, <1>4 DEF Setting
  <1>7. {n \in DOMAIN obj : obj[n].kind = "object"} = ps
    BY <1>1
  <1>8. triples = UNION {{<<p, k, Text(v[<<p, k>>].value)>> : k \in Keys(v, p)} : p \in ps}
    <2> DEFINE found(p) == {<<p, k, obj[p].members[k]>> : k \in DOMAIN obj[p].members}
               made(p) == {<<p, k, Text(v[<<p, k>>].value)>> : k \in Keys(v, p)}
    <2>1. \A p \in ps : DOMAIN obj[p].members = Keys(v, p)
      BY <1>1
    <2>2. \A p \in ps : found(p) = made(p)
      BY <2>1, <1>5
    <2>3. triples = UNION {found(p) : p \in ps}
      BY <1>7
    <2> HIDE DEF triples, found, made
    <2>4. triples = UNION {made(p) : p \in ps}
      BY <2>2, <2>3
    <2> QED BY <2>4 DEF made
  <1> HIDE DEF triples
  <1>9. ASSUME NEW t \in triples PROVE t[3].kind = "text"
    <2>1. PICK p \in ps : \E k \in Keys(v, p) : t = <<p, k, Text(v[<<p, k>>].value)>>
      BY <1>8
    <2>2. PICK k \in Keys(v, p) : t = <<p, k, Text(v[<<p, k>>].value)>>
      BY <2>1
    <2> QED BY <2>2, <1>0
  <1>10. {<<t[1], t[2], t[3].text>> : t \in triples} = T
    <2>1. ASSUME NEW t \in triples PROVE <<t[1], t[2], t[3].text>> \in T
      <3>0. PICK p \in ps : \E k \in Keys(v, p) : t = <<p, k, Text(v[<<p, k>>].value)>>
        BY <1>8
      <3>1. PICK k \in Keys(v, p) : t = <<p, k, Text(v[<<p, k>>].value)>>
        BY <3>0
      <3> DEFINE n == <<p, k>>
      <3>2. n \in N /\ n[1] = p /\ n[2] = k
        BY <1>5
      <3>3. t[1] = n[1] /\ t[2] = n[2] /\ t[3].text = v[n].value
        BY <3>1, <3>2 DEF Text
      <3> HIDE DEF n
      <3>4. <<t[1], t[2], t[3].text>> = Setting(v, at, n)
        BY <3>2, <3>3, <1>6
      <3> QED BY <3>2, <3>4
    <2>2. ASSUME NEW n \in N PROVE \E t \in triples : Setting(v, at, n) = <<t[1], t[2], t[3].text>>
      <3> DEFINE t == <<n[1], n[2], Text(v[<<n[1], n[2]>>].value)>>
      <3>1. t \in triples
        <4> DEFINE p == n[1]
                   made == {<<p, k, Text(v[<<p, k>>].value)>> : k \in Keys(v, p)}
        <4>1. p \in ps /\ n[2] \in Keys(v, p)
          BY <1>6
        <4>2. t \in made
          BY <4>1
        <4> HIDE DEF t
        <4> QED BY <4>1, <4>2, <1>8
      <3>2. n = <<n[1], n[2]>>
        BY <1>3 DEF In
      <3>3. t[1] = n[1] /\ t[2] = n[2] /\ t[3].text = v[n].value
        BY <3>2 DEF Text
      <3> HIDE DEF t
      <3>4. Setting(v, at, n) = <<t[1], t[2], t[3].text>>
        BY <3>3, <1>6
      <3> QED BY <3>1, <3>4
    <2> QED BY <2>1, <2>2
  <1>11. Triples(printed, into) = Entries(SetToSeq(T))
    <2>1. Triples(printed, into) = parse_import_json(printed.text, into)
      BY DEF Triples
    <2>2. parse_import_json(printed.text, into)
            = Entries(SetToSeq({<<t[1], t[2], t[3].text>> : t \in triples}))
      BY <1>2, <1>1, <1>9 DEF parse_import_json, Entries, obj, triples
    <2> QED BY <2>1, <2>2, <1>10
  <1>12. Carries(SetToSeq(T), v, N, at)
    <2>1. N \in SUBSET DOMAIN v /\ \A n \in N : n \in String \X String
      BY DEF In, IsVault
    <2>2. at \in [N -> String \X String] /\ \A m, n \in N : at[m] = at[n] => m = n
      BY <2>1
    <2> HIDE DEF N, at
    <2> QED BY <2>1, <2>2, SettingsCarry
  <1> DEFINE read == Entries(SetToSeq(T))
  <1>13. read.kind # "invalid" /\ read.entries = SetToSeq(T)
    BY DEF Entries
  <1> HIDE DEF read, T, N, at
  <1>14. IsBrought(Import(before, printed, into), before, v, N, at)
    <2>1. read = Triples(printed, into)
      BY <1>11 DEF read
    <2> QED BY <1>12, <1>13, <2>1, ImportBrings
  <1> QED BY <1>2, <1>14 DEF obj, N, at

(* An object of texts: the profile is the one asked for.                   *)
LEMMA FlatImport ==
    ASSUME NEW v, IsVault(v), NEW p \in Profiles(v), NEW printed, printed.format = "json",
           printed.text = GetJson(v, p), NEW into \in String, NEW before, IsVault(before)
    PROVE  /\ ~IsMulti(printed.text.members)
           /\ IsBrought(Import(before, printed, into), before, v, In(v, {p}),
                        [n \in In(v, {p}) |-> <<into, n[2]>>])
  <1> DEFINE obj == printed.text.members
             N == In(v, {p})
             at == [n \in N |-> <<into, n[2]>>]
             triples == {<<into, k, obj[k]>> : k \in DOMAIN obj}
             T == {Setting(v, at, n) : n \in N}
  <1>0. \A x : Text(x).kind = "text" /\ Text(x).text = x
    BY DEF Text
  <1>1. /\ DOMAIN obj = Keys(v, p)
        /\ \A k \in Keys(v, p) : obj[k] = Text(v[<<p, k>>].value)
    BY DEF GetJson, Object
  <1> HIDE DEF obj
  <1>2. ~IsMulti(obj)
    <2>1. PICK n \in DOMAIN v : n[1] = p
      BY DEF Profiles
    <2>2. n[2] \in Keys(v, p)
      BY <2>1 DEF Keys
    <2>3. obj[n[2]].kind = "text"
      BY <1>0, <1>1, <2>2
    <2> QED BY <1>1, <2>2, <2>3 DEF IsMulti
  <1>3. N = {<<p, k>> : k \in Keys(v, p)}
    BY InProfile
  <1>4. ASSUME NEW n \in N
        PROVE  Setting(v, at, n) = <<into, n[2], v[n].value>>
    BY DEF Setting
  <1>5. ASSUME NEW t \in triples PROVE t[3].kind = "text"
    <2>1. PICK k \in Keys(v, p) : t = <<into, k, obj[k]>>
      BY <1>1
    <2> QED BY <2>1, <1>0, <1>1
  <1>6. {<<t[1], t[2], t[3].text>> : t \in triples} = T
    <2>1. ASSUME NEW t \in triples PROVE <<t[1], t[2], t[3].text>> \in T
      <3>1. PICK k \in Keys(v, p) : t = <<into, k, obj[k]>>
        BY <1>1
      <3> DEFINE n == <<p, k>>
      <3>2. n \in N /\ n[2] = k
        BY <1>3
      <3>3. t[1] = into /\ t[2] = n[2] /\ t[3].text = v[n].value
        BY <3>1, <3>2, <1>1 DEF Text
      <3> HIDE DEF n
      <3>4. <<t[1], t[2], t[3].text>> = Setting(v, at, n)
        BY <3>2, <3>3, <1>4
      <3> QED BY <3>2, <3>4
    <2>2. ASSUME NEW n \in N PROVE \E t \in triples : Setting(v, at, n) = <<t[1], t[2], t[3].text>>
      <3>1. PICK k \in Keys(v, p) : n = <<p, k>>
        BY <1>3
      <3> DEFINE t == <<into, k, obj[k]>>
      <3>2. t \in triples
        BY <1>1
      <3>3. t[1] = into /\ t[2] = n[2] /\ t[3].text = v[n].value
        BY <3>1, <1>1 DEF Text
      <3> HIDE DEF t
      <3>4. Setting(v, at, n) = <<t[1], t[2], t[3].text>>
        BY <3>3, <1>4
      <3> QED BY <3>2, <3>4
    <2> QED BY <2>1, <2>2
  <1>7. Triples(printed, into) = Entries(SetToSeq(T))
    <2>1. Triples(printed, into) = parse_import_json(printed.text, into)
      BY DEF Triples
    <2> HIDE DEF triples
    <2>2. parse_import_json(printed.text, into)
            = Entries(SetToSeq({<<t[1], t[2], t[3].text>> : t \in triples}))
      BY <1>2, <1>5 DEF parse_import_json, Entries, obj, triples
    <2> QED BY <2>1, <2>2, <1>6
  <1>8. Carries(SetToSeq(T), v, N, at)
    <2>1. N \in SUBSET DOMAIN v /\ \A n \in N : n \in String \X String
      BY DEF In, IsVault
    <2>2. at \in [N -> String \X String]
      BY <2>1
    <2>3. ASSUME NEW m \in N, NEW n \in N, at[m] = at[n] PROVE m = n
      <3>1. m[2] = n[2]
        <4>1. at[m][2] = m[2] /\ at[n][2] = n[2]
          OBVIOUS
        <4> QED BY ONLY <2>3, <4>1, Zenon
      <3>2. m = <<p, m[2]>> /\ n = <<p, n[2]>>
        BY <1>3
      <3> QED BY ONLY <3>1, <3>2, Zenon
    <2> HIDE DEF N, at
    <2> QED BY <2>1, <2>2, <2>3, SettingsCarry
  <1> DEFINE read == Entries(SetToSeq(T))
  <1>9. read.kind # "invalid" /\ read.entries = SetToSeq(T)
    BY DEF Entries
  <1> HIDE DEF read, T, N, at
  <1>10. IsBrought(Import(before, printed, into), before, v, N, at)
    <2>1. read = Triples(printed, into)
      BY <1>7 DEF read
    <2> QED BY <1>8, <1>9, <2>1, ImportBrings
  <1> QED BY <1>2, <1>10 DEF obj, N, at

(***************************************************************************)
(* ImportBringsTheExport                                                   *)
(***************************************************************************)

Places(N) == [n \in N |-> Place(n)]

LEMMA CarriedIsPlain ==
    ASSUME NEW ps, Carried(ps)
    PROVE  AllPlain(input.vault, ps)
  BY DEF Carried, AllPlain, Plain, Printed, In

LEMMA LinesImported ==
    ASSUME NEW v, IsVault(v), NEW ps, Apart(v, ps), Named(v, ps), AllPlain(v, ps),
           NEW printed, printed.format = output.format, output.flat = IsFlat(printed),
           \/ /\ output.format = "dotenv" /\ printed.text = ExportDotenv(v, ps)
              /\ ps \subseteq Profiles(v)
           \/ \E p : output.format = "shell" /\ ps = {p} /\ printed.text = GetExport(v, p),
           output.into \in String, NEW before, IsVault(before)
    PROVE  IsBrought(Import(before, printed, output.into), before, v, In(v, ps),
                     Places(In(v, ps)))
  <1>1. output.format # "json" /\ ~output.flat
    <2>1. output.format # "json"
      OBVIOUS
    <2> QED BY <2>1, Zenon DEF IsFlat
  <1>2. Piece(v, printed.text, In(v, ps))
    <2>1. CASE printed.text = ExportDotenv(v, ps) /\ ps \subseteq Profiles(v)
      BY <2>1, PieceOfExportDotenv
    <2>2. CASE \E p : ps = {p} /\ printed.text = GetExport(v, p)
      BY <2>2, PieceOfGetExport
    <2> QED BY <2>1, <2>2
  <1>3. Places(In(v, ps)) = [n \in In(v, ps) |-> <<output.into, UpperCase(n[2])>>]
    <2>1. \A n : Place(n) = <<output.into, UpperCase(n[2])>>
      BY <1>1 DEF Place
    <2> QED BY <2>1, Zenon DEF Places
  <1> QED BY <1>1, <1>2, <1>3, DotenvImport

LEMMA JsonImported ==
    ASSUME NEW v, IsVault(v), NEW ps, NEW printed,
           printed.format = "json", output.format = "json", output.flat = IsFlat(printed),
           \/ printed.text = ExportJson(v, ps)
           \/ \E p \in Profiles(v) : ps = {p} /\ printed.text = GetJson(v, p),
           output.into \in String, NEW before, IsVault(before)
    PROVE  IsBrought(Import(before, printed, output.into), before, v, In(v, ps),
                     Places(In(v, ps)))
  <1>1. CASE printed.text = ExportJson(v, ps)
    <2>1. /\ IsMulti(printed.text.members)
          /\ IsBrought(Import(before, printed, output.into), before, v, In(v, ps),
                       [n \in In(v, ps) |-> n])
      BY <1>1, NestedImport
    <2>2. ~output.flat
      BY <2>1, Zenon DEF IsFlat
    <2>3. Places(In(v, ps)) = [n \in In(v, ps) |-> n]
      <3>1. \A n : Place(n) = n
        BY <2>2 DEF Place
      <3> QED BY <3>1, Zenon DEF Places
    <2> QED BY <2>1, <2>3
  <1>2. CASE \E p \in Profiles(v) : ps = {p} /\ printed.text = GetJson(v, p)
    <2>1. PICK p \in Profiles(v) : ps = {p} /\ printed.text = GetJson(v, p)
      BY <1>2
    <2>2. /\ ~IsMulti(printed.text.members)
          /\ IsBrought(Import(before, printed, output.into), before, v, In(v, {p}),
                       [n \in In(v, {p}) |-> <<output.into, n[2]>>])
      BY <2>1, FlatImport
    <2>3. output.flat
      BY <2>2, Zenon DEF IsFlat
    <2>4. Places(In(v, ps)) = [n \in In(v, ps) |-> <<output.into, n[2]>>]
      <3>1. \A n : Place(n) = <<output.into, n[2]>>
        BY <2>3 DEF Place
      <3> QED BY <3>1, Zenon DEF Places
    <2> QED BY <2>1, <2>2, <2>4
  <1> QED BY <1>1, <1>2

LEMMA MadeOutputIsBrought ==
    ASSUME OutputIsMade
    PROVE  ImportBringsTheExport
  <1> DEFINE v == input.vault
             ps == output.profiles
             N == In(v, ps)
             lines == /\ NamesStayApart(ps) /\ WellNamed(ps) /\ Carried(ps)
  <1> SUFFICES ASSUME output.op = "import", output.format = "json" \/ lines
               PROVE  IsBrought(output.after, output.before, v, N, Places(N))
    <2>1. Printed(ps) = N
      BY DEF Printed, In
    <2>2. \A n \in N : Places(N)[n] = Place(n)
      BY DEF Places
    <2>3. {Places(N)[n] : n \in N} = {Place(n) : n \in N}
      BY <2>2
    <2> HIDE DEF N
    <2> QED BY <2>1, <2>2, <2>3, Zenon DEF ImportBringsTheExport, IsBrought
  <1>1. ImportIsMade /\ v \in Vaults
    BY DEF OutputIsMade
  <1>2. PICK printed :
           /\ printed.format = output.format
           /\ Prints(v, output.format, ps, printed.text)
           /\ output.flat = IsFlat(printed)
           /\ output.after = Import(output.before, printed, output.into)
    BY <1>1, Zenon DEF ImportIsMade
  <1>3. IsVault(v) /\ IsVault(output.before)
    BY <1>1, VaultsAreVaults DEF ImportIsMade
  <1>4. output.into \in String
    BY <1>1, <1>3, NamesAreFinite DEF ImportIsMade
  <1> DEFINE before == output.before
  <1>5. CASE output.format = "json"
    <2>1. \/ printed.text = ExportJson(v, ps)
          \/ \E p \in Profiles(v) : ps = {p} /\ printed.text = GetJson(v, p)
      BY <1>2, <1>5 DEF Prints
    <2>2. printed.format = "json" /\ output.flat = IsFlat(printed)
      BY <1>2, <1>5, Zenon
    <2> HIDE DEF v, ps, before
    <2> QED BY <1>2, <1>3, <1>4, <1>5, <2>1, <2>2, JsonImported DEF before
  <1>6. CASE output.format # "json"
    <2>1. \/ /\ output.format = "dotenv" /\ printed.text = ExportDotenv(v, ps)
             /\ ps \subseteq Profiles(v)
          \/ \E p : output.format = "shell" /\ ps = {p} /\ printed.text = GetExport(v, p)
      BY <1>2, <1>6 DEF Prints
    <2>2. AllPlain(v, ps)
      BY <1>6, CarriedIsPlain
    <2>3. Printed(ps) = In(v, ps)
      BY DEF Printed, In
    <2>4. Apart(v, ps) /\ Named(v, ps)
      BY <1>6, <2>3 DEF NamesStayApart, WellNamed, Apart, Named
    <2>5. printed.format = output.format /\ output.flat = IsFlat(printed)
      BY <1>2, Zenon
    <2> HIDE DEF v, ps, before
    <2> QED BY <1>2, <1>3, <1>4, <2>1, <2>2, <2>4, <2>5, LinesImported DEF before
  <1> QED BY <1>5, <1>6

(* What one device exports another imports, to the character: JSON any     *)
(* names and values, dotenv those a line can carry; each value comes to    *)
(* its place and nothing else of the vault changes (handle_export,         *)
(* handle_get, handle_import).                                             *)
THEOREM ImportsBringTheExport == Spec => []ImportBringsTheExport
  BY MadeOutputIsBrought, OutputIsMadeInductive, PTL DEF Spec
=============================================================================
