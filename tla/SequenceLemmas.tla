---------------------------- MODULE SequenceLemmas ----------------------------
(***************************************************************************)
(* What the proofs need to know of sequences beyond the library: the least *)
(* element of a set of numbers, induction over the numbers up to a bound   *)
(* in a first-order form (a set of numbers that is closed under successor),*)
(* recursive functions, and the edits made of them, element by element.    *)
(***************************************************************************)
EXTENDS WatchlistRows, Integers, SequenceTheorems, WellFoundedInduction, TLAPS

LEMMA LeastNumber ==
  ASSUME NEW T, T \subseteq Nat, T # {}
  PROVE  \E n \in T : \A m \in T : n <= m
<1>1. IsWellFoundedOn(OpToRel(<, Nat), Nat)
  BY NatLessThanWellFounded
<1>2. PICK n \in T : \A m \in T : <<m, n>> \notin OpToRel(<, Nat)
  BY <1>1, WFMin
<1>3. n \in Nat /\ \A m \in T : m \in Nat /\ ~(m < n)
  BY <1>2 DEF OpToRel
<1>4. \A m \in T : n <= m
  BY <1>3
<1> QED
  BY <1>4

LEMMA MinIsLeast ==
  ASSUME NEW T, T \subseteq Nat, T # {}
  PROVE  Min(T) \in T /\ \A m \in T : Min(T) <= m
<1>1. \E n \in T : \A m \in T : n <= m
  BY LeastNumber
<1> QED
  BY <1>1 DEF Min

(* Induction over 0..N, of which T is the set of numbers it has reached.   *)
LEMMA UpwardClosed ==
  ASSUME NEW N \in Nat, NEW T, 0 \in T,
         \A n \in 0..(N - 1) : n \in T => n + 1 \in T
  PROVE  0..N \subseteq T
<1> DEFINE Missed == (0..N) \ T
<1>1. SUFFICES ASSUME Missed # {} PROVE FALSE
  OBVIOUS
<1>2. Missed \subseteq Nat /\ Missed \subseteq 0..N
  OBVIOUS
<1> HIDE DEF Missed
<1>3. PICK n \in Missed : \A m \in Missed : n <= m
  BY <1>1, <1>2, LeastNumber
<1>4. n \in 0..N /\ n \notin T
  BY DEF Missed
<1>5. n - 1 \in 0..(N - 1) /\ n - 1 \in 0..N /\ (n - 1) + 1 = n /\ ~(n <= n - 1)
  BY <1>4
<1>6. n - 1 \in T
  BY <1>3, <1>5 DEF Missed
<1> QED
  BY <1>4, <1>5, <1>6

(* A function on 0..N that is defined step by step exists.                 *)
Stepwise(f, N, base, step) ==
  /\ f = [i \in 0..N |-> f[i]]
  /\ f[0] = base
  /\ \A i \in 1..N : f[i] = step[<<i, f[i - 1]>>]

LEMMA StepwiseExists ==
  ASSUME NEW N \in Nat, NEW base, NEW step
  PROVE  \E f : Stepwise(f, N, base, step)
<1> DEFINE Follows(f, n) ==
             f = [i \in 0..n |-> IF i = 0 THEN base ELSE step[<<i, f[i - 1]>>]]
           T == {n \in Nat : \E f : Follows(f, n)}
<1>1. 0 \in T
  <2> DEFINE f == [i \in 0..0 |-> base]
  <2>1. Follows(f, 0)
    OBVIOUS
  <2> QED
    BY <2>1
<1>2. ASSUME NEW n \in 0..(N - 1), n \in T
      PROVE  n + 1 \in T
  <2>1. PICK f : Follows(f, n)
    BY <1>2
  <2>2. n \in Nat
    OBVIOUS
  <2> DEFINE g == [i \in 0..(n + 1) |-> IF i <= n THEN f[i] ELSE step[<<n + 1, f[n]>>]]
  <2>3. \A i \in 0..n : g[i] = f[i]
    BY <2>2
  <2>4. g[n + 1] = step[<<n + 1, g[n]>>]
    BY <2>2, <2>3
  <2>5. g = [i \in 0..(n + 1) |-> g[i]]
    OBVIOUS
  <2> HIDE DEF g
  <2>6. \A i \in 0..n : f[i] = IF i = 0 THEN base ELSE step[<<i, f[i - 1]>>]
    BY <2>1
  <2>7. \A i \in 0..(n + 1) : g[i] = IF i = 0 THEN base ELSE step[<<i, g[i - 1]>>]
    <3> SUFFICES ASSUME NEW i \in 0..(n + 1)
                 PROVE  g[i] = IF i = 0 THEN base ELSE step[<<i, g[i - 1]>>]
      OBVIOUS
    <3>1. CASE i = n + 1
      <4>1. i # 0 /\ i - 1 = n
        BY <2>2, <3>1
      <4> QED
        BY <2>4, <3>1, <4>1
    <3>2. CASE i \in 0..n
      <4>1. i = 0 \/ i - 1 \in 0..n
        BY <2>2, <3>2
      <4> QED
        BY <2>3, <2>6, <3>2, <4>1
    <3> QED
      BY <2>2, <3>1, <3>2
  <2>8. Follows(g, n + 1)
    BY <2>5, <2>7
  <2> HIDE DEF Follows
  <2> QED
    BY <2>2, <2>8
<1>3. 0..N \subseteq T
  <2> HIDE DEF T
  <2> QED
    BY <1>1, <1>2, UpwardClosed
<1>4. PICK f : Follows(f, N)
  BY <1>3
<1>5. f = [i \in 0..N |-> f[i]] /\ f[0] = base
  BY <1>4
<1>6. \A i \in 1..N : f[i] = step[<<i, f[i - 1]>>]
  <2>1. \A i \in 1..N : i \in 0..N /\ i # 0
    OBVIOUS
  <2> QED
    BY <1>4, <2>1
<1> QED
  BY <1>5, <1>6 DEF Stepwise

(* How Sifted comes about.                                                 *)
LEMMA SiftedSteps ==
  ASSUME NEW S, NEW seq \in Seq(S), NEW keep
  PROVE  \E f : /\ Sifted(seq, keep) = f[Len(seq)]
                /\ f[0] = <<>>
                /\ \A n \in 1..Len(seq) :
                     f[n] = IF n \in keep THEN Append(f[n - 1], seq[n]) ELSE f[n - 1]
<1> DEFINE N == Len(seq)
           Next(f, n) == IF n \in keep THEN Append(f[n - 1], seq[n]) ELSE f[n - 1]
           Upto(f) == f = [n \in 0..N |-> IF n = 0 THEN <<>> ELSE Next(f, n)]
           step == [x \in (1..N) \X Seq(S) |->
                      IF x[1] \in keep THEN Append(x[2], seq[x[1]]) ELSE x[2]]
<1>1. N \in Nat /\ \A n \in 1..N : seq[n] \in S
  BY LenProperties, ElementOfSeq
<1>2. PICK f : Stepwise(f, N, <<>>, step)
  <2> HIDE DEF step, N
  <2> QED
    BY <1>1, StepwiseExists
<1>3. /\ f = [n \in 0..N |-> f[n]]
      /\ f[0] = <<>>
      /\ \A n \in 1..N : f[n] = step[<<n, f[n - 1]>>]
  <2> HIDE DEF step, N
  <2> QED
    BY <1>2 DEF Stepwise
<1> DEFINE T == {n \in Nat : f[n] \in Seq(S)}
<1>4. 0 \in T
  <2> HIDE DEF step
  <2> QED
    BY <1>3, EmptySeq
<1>5. ASSUME NEW n \in 0..(N - 1), n \in T
      PROVE  n + 1 \in T
  <2>1. n + 1 \in 1..N /\ (n + 1) - 1 = n /\ f[n] \in Seq(S) /\ seq[n + 1] \in S
    BY <1>1, <1>5
  <2>2. Append(f[n], seq[n + 1]) \in Seq(S)
    BY <2>1, AppendProperties
  <2>3. f[n + 1] = step[<<n + 1, f[n]>>]
    <3> HIDE DEF step, N
    <3> QED
      BY <1>3, <2>1
  <2>4. f[n + 1] \in {Append(f[n], seq[n + 1]), f[n]}
    BY <2>1, <2>3
  <2>5. f[n + 1] \in Seq(S)
    BY <2>1, <2>2, <2>4
  <2> QED
    BY <2>5
<1>6. 0..N \subseteq T
  <2> HIDE DEF T, step
  <2> QED
    BY <1>1, <1>4, <1>5, UpwardClosed
<1>7. \A n \in 1..N : f[n] = Next(f, n)
  <2> SUFFICES ASSUME NEW n \in 1..N PROVE f[n] = Next(f, n)
    OBVIOUS
  <2>1. n - 1 \in 0..N /\ f[n - 1] \in Seq(S)
    BY <1>1, <1>6
  <2>2. f[n] = step[<<n, f[n - 1]>>]
    <3> HIDE DEF step
    <3> QED
      BY <1>3
  <2> QED
    BY <2>1, <2>2
<1> HIDE DEF step, T
<1>8. Upto(f)
  <2>1. \A n \in 0..N : n = 0 \/ n \in 1..N
    BY <1>1
  <2>2. f = [n \in 0..N |-> f[n]]
    BY <1>3
  <2> HIDE DEF Next
  <2> QED
    BY <1>3, <1>7, <2>1, <2>2
<1> DEFINE u == CHOOSE g : Upto(g)
<1>9. Upto(u)
  <2> HIDE DEF Upto
  <2> QED
    BY <1>8
<1>10. Sifted(seq, keep) = u[N]
  BY DEF Sifted
<1>11. u[0] = <<>> /\ \A n \in 1..N : u[n] = Next(u, n)
  <2>1. \A n \in 1..N : n \in 0..N /\ n # 0
    BY <1>1
  <2> HIDE DEF u, Next
  <2> QED
    BY <1>1, <1>9, <2>1
<1> HIDE DEF u
<1> QED
  BY <1>10, <1>11

------------------------------------------------------------------------------
(* The elements of seq at the given places, in their order: element i of   *)
(* the result comes from place at[i].                                      *)
Drawn(at, r, seq, places) ==
  /\ at \in [DOMAIN r -> places]
  /\ \A i, j \in DOMAIN r : i < j => at[i] < at[j]
  /\ \A i \in DOMAIN r : r[i] = seq[at[i]]
  /\ \A k \in places : \E i \in DOMAIN r : at[i] = k

LEMMA DrawnNone ==
  ASSUME NEW seq
  PROVE  \E at : Drawn(at, <<>>, seq, {})
<1>1. Drawn(<<>>, <<>>, seq, {})
  BY DEF Drawn
<1> QED
  BY <1>1

LEMMA DrawnOneMore ==
  ASSUME NEW S, NEW r \in Seq(S), NEW seq, NEW at, NEW places \in SUBSET Nat,
         Drawn(at, r, seq, places),
         NEW n \in Nat, \A k \in places : k < n, seq[n] \in S
  PROVE  \E new : Drawn(new, Append(r, seq[n]), seq, places \cup {n})
<1> DEFINE q == Append(r, seq[n])
           L == Len(r)
           new == [i \in 1..(L + 1) |-> IF i = L + 1 THEN n ELSE at[i]]
<1>1. L \in Nat /\ DOMAIN r = 1..L
  BY LenProperties
<1>2. /\ q \in Seq(S) /\ DOMAIN q = 1..(L + 1)
      /\ \A i \in 1..L : q[i] = r[i]
      /\ q[L + 1] = seq[n]
  BY AppendProperties, LenProperties
<1>3. \A i \in 1..(L + 1) : i \in 1..L \/ i = L + 1
  BY <1>1
<1>4. \A i \in 1..L : new[i] = at[i] /\ at[i] \in places
  BY <1>1 DEF Drawn
<1>5. new[L + 1] = n /\ L + 1 \in 1..(L + 1) /\ \A i \in 1..L : i \in 1..(L + 1)
  BY <1>1
<1>6. new \in [DOMAIN q -> places \cup {n}]
  BY <1>2, <1>3, <1>4, <1>5
<1> HIDE DEF new, q, L
<1>7. \A i, j \in DOMAIN q : i < j => new[i] < new[j]
  <2> SUFFICES ASSUME NEW i \in DOMAIN q, NEW j \in DOMAIN q, i < j
               PROVE  new[i] < new[j]
    OBVIOUS
  <2>1. i \in 1..L
    BY <1>1, <1>2
  <2>2. CASE j = L + 1
    BY <1>4, <1>5, <2>1, <2>2
  <2>3. CASE j \in 1..L
    BY <1>1, <1>4, <2>1, <2>3 DEF Drawn
  <2> QED
    BY <1>2, <1>3, <2>2, <2>3
<1>8. \A i \in DOMAIN q : q[i] = seq[new[i]]
  BY <1>1, <1>2, <1>3, <1>4, <1>5 DEF Drawn
<1>9. \A k \in places \cup {n} : \E i \in DOMAIN q : new[i] = k
  BY <1>1, <1>2, <1>4, <1>5 DEF Drawn
<1>10. Drawn(new, q, seq, places \cup {n})
  BY <1>6, <1>7, <1>8, <1>9 DEF Drawn
<1> QED
  BY <1>10 DEF q

(* Sifting draws the elements at the places to keep. *)
LEMMA SiftedDrawn ==
  ASSUME NEW S, NEW seq \in Seq(S), NEW keep
  PROVE  /\ Sifted(seq, keep) \in Seq(S)
         /\ \E at : Drawn(at, Sifted(seq, keep), seq, DOMAIN seq \cap keep)
<1> DEFINE N == Len(seq)
<1>1. N \in Nat /\ DOMAIN seq = 1..N /\ \A n \in 1..N : seq[n] \in S
  BY LenProperties, ElementOfSeq
<1>2. PICK f : /\ Sifted(seq, keep) = f[N]
               /\ f[0] = <<>>
               /\ \A n \in 1..N :
                    f[n] = IF n \in keep THEN Append(f[n - 1], seq[n]) ELSE f[n - 1]
  BY SiftedSteps
<1> DEFINE Upto(n) == (1..n) \cap keep
           Reached(n) == f[n] \in Seq(S) /\ \E at : Drawn(at, f[n], seq, Upto(n))
           T == {n \in Nat : Reached(n)}
<1> HIDE DEF N
<1>3. 0 \in T
  <2>1. f[0] \in Seq(S)
    BY <1>2, EmptySeq
  <2>2. Upto(0) = {}
    OBVIOUS
  <2> QED
    BY <1>2, <2>1, <2>2, DrawnNone
<1>4. ASSUME NEW n \in 0..(N - 1), n \in T
      PROVE  n + 1 \in T
  <2>1. n + 1 \in 1..N /\ (n + 1) - 1 = n /\ n + 1 \in Nat /\ seq[n + 1] \in S
    BY <1>1
  <2>2. PICK at : f[n] \in Seq(S) /\ Drawn(at, f[n], seq, Upto(n))
    BY <1>4
  <2>3. f[n + 1] = IF n + 1 \in keep THEN Append(f[n], seq[n + 1]) ELSE f[n]
    BY <1>2, <2>1
  <2>4. CASE n + 1 \in keep
    <3>1. Upto(n + 1) = Upto(n) \cup {n + 1}
      BY <1>1, <2>4
    <3>2. Upto(n) \in SUBSET Nat /\ \A k \in Upto(n) : k < n + 1
      BY <1>1
    <3>3. f[n + 1] = Append(f[n], seq[n + 1])
      BY <2>3, <2>4
    <3> HIDE DEF Upto
    <3>4. \E new : Drawn(new, Append(f[n], seq[n + 1]), seq, Upto(n) \cup {n + 1})
      BY <2>1, <2>2, <3>2, DrawnOneMore
    <3>5. Append(f[n], seq[n + 1]) \in Seq(S)
      BY <2>1, <2>2, AppendProperties
    <3> QED
      BY <2>1, <3>1, <3>3, <3>4, <3>5
  <2>5. CASE n + 1 \notin keep
    <3>1. Upto(n + 1) = Upto(n)
      BY <1>1, <2>5
    <3> HIDE DEF Upto
    <3> QED
      BY <2>1, <2>2, <2>3, <2>5, <3>1
  <2> QED
    BY <2>4, <2>5
<1>5. N \in T
  <2> HIDE DEF T
  <2>1. 0..N \subseteq T
    BY <1>1, <1>3, <1>4, UpwardClosed
  <2> QED
    BY <1>1, <2>1
<1>6. Upto(N) = DOMAIN seq \cap keep
  BY <1>1
<1> QED
  BY <1>2, <1>5, <1>6

LEMMA RemovedDrawn ==
  ASSUME NEW S, NEW seq \in Seq(S), NEW k \in 1..Len(seq)
  PROVE  /\ RemoveAt(seq, k) \in Seq(S) /\ Len(RemoveAt(seq, k)) = Len(seq) - 1
         /\ \A i \in 1..(Len(seq) - 1) :
              RemoveAt(seq, k)[i] = IF i < k THEN seq[i] ELSE seq[i + 1]
         /\ \E at : Drawn(at, RemoveAt(seq, k), seq, DOMAIN seq \ {k})
<1> DEFINE r == RemoveAt(seq, k)
           n == Len(seq)
<1>1. n \in Nat /\ DOMAIN seq = 1..n /\ \A i \in 1..n : seq[i] \in S
  BY LenProperties, ElementOfSeq
<1>2. /\ SubSeq(seq, 1, k - 1) \in Seq(S) /\ Len(SubSeq(seq, 1, k - 1)) = k - 1
      /\ \A i \in 1..(k - 1) : SubSeq(seq, 1, k - 1)[i] = seq[i]
  <2>1. \A i \in 1..(k - 1) : seq[i] \in S
    BY <1>1
  <2> QED
    BY <1>1, <2>1, SubSeqProperties
<1>3. /\ SubSeq(seq, k + 1, n) \in Seq(S) /\ Len(SubSeq(seq, k + 1, n)) = n - k
      /\ \A i \in 1..(n - k) : SubSeq(seq, k + 1, n)[i] = seq[k + i]
  <2>1. \A i \in (k + 1)..n : seq[i] \in S
    BY <1>1
  <2>2. (IF k + 1 <= n THEN n - (k + 1) + 1 ELSE 0) = n - k
    <3> HIDE DEF n
    <3>1. k \in 1..n
      BY DEF n
    <3> QED
      BY <1>1, <3>1
  <2>3. \A i \in 1..(n - k) : (k + 1) + i - 1 = k + i
    BY <1>1
  <2> QED
    BY <1>1, <2>1, <2>2, <2>3, SubSeqProperties
<1>4. /\ r \in Seq(S) /\ Len(r) = n - 1
      /\ \A i \in 1..(n - 1) : r[i] = IF i < k THEN seq[i] ELSE seq[i + 1]
  <2> DEFINE front == SubSeq(seq, 1, k - 1)
             back == SubSeq(seq, k + 1, n)
  <2>0. r = front \o back
    BY DEF RemoveAt
  <2> HIDE DEF r, n, front, back
  <2>1. /\ r \in Seq(S) /\ Len(r) = (k - 1) + (n - k)
        /\ \A i \in 1..((k - 1) + (n - k)) :
             r[i] = IF i <= k - 1 THEN front[i] ELSE back[i - (k - 1)]
    <3>1. /\ front \in Seq(S) /\ Len(front) = k - 1
          /\ back \in Seq(S) /\ Len(back) = n - k
      BY <1>2, <1>3 DEF front, back
    <3> QED
      BY <2>0, <3>1, ConcatProperties
  <2>2. (k - 1) + (n - k) = n - 1
    BY <1>1
  <2>3. \A i \in 1..(n - 1) : (i <= k - 1 <=> i < k) /\ (i < k => i \in 1..(k - 1))
    BY <1>1
  <2>4. \A i \in 1..(n - 1) :
          ~(i < k) => i - (k - 1) \in 1..(n - k) /\ k + (i - (k - 1)) = i + 1
    BY <1>1
  <2>5. /\ \A i \in 1..(k - 1) : front[i] = seq[i]
        /\ \A i \in 1..(n - k) : back[i] = seq[k + i]
    BY <1>2, <1>3 DEF front, back
  <2> QED
    BY <2>1, <2>2, <2>3, <2>4, <2>5
<1>5. DOMAIN r = 1..(n - 1)
  BY <1>4, LenProperties
<1> HIDE DEF r, n
<1> DEFINE at == [i \in 1..(n - 1) |-> IF i < k THEN i ELSE i + 1]
<1>6. k \in 1..n
  BY DEF n
<1>7. at \in [1..(n - 1) -> (1..n) \ {k}]
  BY <1>1, <1>6
<1>8. \A i, j \in 1..(n - 1) : i < j => at[i] < at[j]
  BY <1>1, <1>6
<1>9. \A i \in 1..(n - 1) : r[i] = seq[at[i]]
  BY <1>4
<1>10. \A j \in (1..n) \ {k} : \E i \in 1..(n - 1) : at[i] = j
  <2> SUFFICES ASSUME NEW j \in (1..n) \ {k} PROVE \E i \in 1..(n - 1) : at[i] = j
    OBVIOUS
  <2>1. CASE j < k
    <3>1. j \in 1..(n - 1) /\ at[j] = j
      BY <1>1, <1>6, <2>1
    <3> QED
      BY <3>1
  <2>2. CASE ~(j < k)
    <3>1. j - 1 \in 1..(n - 1) /\ ~(j - 1 < k) /\ (j - 1) + 1 = j
      BY <1>1, <1>6, <2>2
    <3>2. at[j - 1] = j
      BY <3>1
    <3> QED
      BY <3>1, <3>2
  <2> QED
    BY <2>1, <2>2
<1>11. Drawn(at, r, seq, DOMAIN seq \ {k})
  <2> HIDE DEF at
  <2> QED
    BY <1>1, <1>5, <1>7, <1>8, <1>9, <1>10 DEF Drawn
<1> QED
  BY <1>4, <1>11 DEF r, n

LEMMA InsertedElements ==
  ASSUME NEW S, NEW seq \in Seq(S), NEW k \in 1..(Len(seq) + 1), NEW e \in S
  PROVE  /\ InsertAt(seq, k, e) \in Seq(S) /\ Len(InsertAt(seq, k, e)) = Len(seq) + 1
         /\ \A i \in 1..(Len(seq) + 1) :
              InsertAt(seq, k, e)[i] = IF i < k THEN seq[i]
                                       ELSE IF i = k THEN e ELSE seq[i - 1]
<1> DEFINE r == InsertAt(seq, k, e)
           n == Len(seq)
           front == SubSeq(seq, 1, k - 1)
           back == SubSeq(seq, k, n)
<1>1. n \in Nat /\ DOMAIN seq = 1..n /\ \A i \in 1..n : seq[i] \in S
  BY LenProperties, ElementOfSeq
<1>2. /\ front \in Seq(S) /\ Len(front) = k - 1
      /\ \A i \in 1..(k - 1) : front[i] = seq[i]
  <2>1. \A i \in 1..(k - 1) : seq[i] \in S
    BY <1>1
  <2> QED
    BY <1>1, <2>1, SubSeqProperties
<1>3. /\ back \in Seq(S) /\ Len(back) = n - k + 1
      /\ \A i \in 1..(n - k + 1) : back[i] = seq[k + i - 1]
  <2>1. \A i \in k..n : seq[i] \in S
    BY <1>1
  <2>2. (IF k <= n THEN n - k + 1 ELSE 0) = n - k + 1
    BY <1>1
  <2> QED
    BY <1>1, <2>1, <2>2, SubSeqProperties
<1>4. <<e>> \in Seq(S) /\ Len(<<e>>) = 1 /\ <<e>>[1] = e
  OBVIOUS
<1>5. r = (front \o <<e>>) \o back
  BY DEF InsertAt
<1> HIDE DEF r, n, front, back
<1>6. /\ front \o <<e>> \in Seq(S) /\ Len(front \o <<e>>) = k
      /\ \A i \in 1..k : (front \o <<e>>)[i] = IF i <= k - 1 THEN front[i] ELSE <<e>>[i - (k - 1)]
  <2>1. (k - 1) + 1 = k
    OBVIOUS
  <2> QED
    BY <1>2, <1>4, <2>1, ConcatProperties
<1>7. /\ r \in Seq(S) /\ Len(r) = n + 1
      /\ \A i \in 1..(n + 1) : r[i] = IF i <= k THEN (front \o <<e>>)[i] ELSE back[i - k]
  <2>1. k + (n - k + 1) = n + 1
    BY <1>1
  <2> DEFINE c == front \o <<e>>
  <2>2. r = c \o back
    BY <1>5
  <2>3. c \in Seq(S) /\ Len(c) = k
    BY <1>6
  <2> HIDE DEF c
  <2>4. /\ r \in Seq(S) /\ Len(r) = k + (n - k + 1)
        /\ \A i \in 1..(k + (n - k + 1)) : r[i] = IF i <= k THEN c[i] ELSE back[i - k]
    <3>1. back \in Seq(S) /\ Len(back) = n - k + 1
      BY <1>3
    <3>2. /\ r \in Seq(S) /\ Len(r) = Len(c) + Len(back)
          /\ \A i \in 1..(Len(c) + Len(back)) :
               r[i] = IF i <= Len(c) THEN c[i] ELSE back[i - Len(c)]
      BY <2>2, <2>3, <3>1, ConcatProperties
    <3> QED
      BY <2>3, <3>1, <3>2
  <2>5. c = front \o <<e>>
    BY DEF c
  <2> QED
    BY <2>1, <2>4, <2>5
<1>8. ASSUME NEW i \in 1..(n + 1)
      PROVE  r[i] = IF i < k THEN seq[i] ELSE IF i = k THEN e ELSE seq[i - 1]
  <2>1. CASE i < k
    <3>1. i \in 1..k /\ i \in 1..(k - 1) /\ i <= k - 1 /\ i <= k
      BY <2>1
    <3> QED
      BY <1>2, <1>6, <1>7, <2>1, <3>1
  <2>2. CASE i = k
    <3>1. i \in 1..k /\ ~(i <= k - 1) /\ i <= k /\ i - (k - 1) = 1 /\ ~(i < k)
      BY <2>2
    <3> QED
      BY <1>4, <1>6, <1>7, <2>2, <3>1
  <2>3. CASE i > k
    <3>1. ~(i <= k) /\ ~(i < k) /\ i # k /\ i - k \in 1..(n - k + 1) /\ k + (i - k) - 1 = i - 1
      BY <1>1, <2>3
    <3> QED
      BY <1>3, <1>7, <3>1
  <2> QED
    BY <2>1, <2>2, <2>3
<1> QED
  BY <1>7, <1>8 DEF r, n

------------------------------------------------------------------------------
(* The edits of a watchlist's rows.                                        *)
RowSet(syms) == [symbol : syms, pinned : BOOLEAN]

LEMMA PosOfFinds ==
  ASSUME NEW syms, NEW rows \in Seq(RowSet(syms)), NEW symbol
  PROVE  \/ PosOf(rows, symbol) = 0 /\ symbol \notin Symbols(rows)
         \/ /\ PosOf(rows, symbol) \in DOMAIN rows
            /\ rows[PosOf(rows, symbol)].symbol = symbol
            /\ symbol \in Symbols(rows)
<1> DEFINE I == {i \in 1..Len(rows) : rows[i].symbol = symbol}
<1>1. PosOf(rows, symbol) = IF I # {} THEN Min(I) ELSE 0
  BY DEF PosOf, SelectInSeq
<1>2. Len(rows) \in Nat /\ DOMAIN rows = 1..Len(rows) /\ I \subseteq Nat
  BY LenProperties
<1>3. CASE I = {}
  BY <1>1, <1>2, <1>3 DEF Symbols
<1>4. CASE I # {}
  <2>1. Min(I) \in I
    <3> HIDE DEF I
    <3> QED
      BY <1>2, <1>4, MinIsLeast
  <2> QED
    BY <1>1, <1>2, <1>4, <2>1 DEF Symbols
<1> QED
  BY <1>3, <1>4

LEMMA FirstUnpinnedFinds ==
  ASSUME NEW syms, NEW rows \in Seq(RowSet(syms))
  PROVE  LET p == FirstUnpinned(rows)
         IN  \/ p = 0 /\ \A i \in DOMAIN rows : rows[i].pinned
             \/ /\ p \in DOMAIN rows /\ ~rows[p].pinned
                /\ \A i \in DOMAIN rows : i < p => rows[i].pinned
<1> DEFINE I == {i \in 1..Len(rows) : ~rows[i].pinned}
<1>1. FirstUnpinned(rows) = IF I # {} THEN Min(I) ELSE 0
  BY DEF FirstUnpinned, SelectInSeq
<1>2. Len(rows) \in Nat /\ DOMAIN rows = 1..Len(rows) /\ I \subseteq Nat
  BY LenProperties
<1>3. CASE I = {}
  BY <1>1, <1>2, <1>3
<1>4. CASE I # {}
  <2>1. Min(I) \in I /\ \A i \in I : Min(I) <= i
    <3> HIDE DEF I
    <3> QED
      BY <1>2, <1>4, MinIsLeast
  <2>2. \A i \in DOMAIN rows : i < Min(I) => i \notin I
    <3> DEFINE m == Min(I)
    <3>1. \A i \in DOMAIN rows : i \in Nat
      BY <1>2
    <3>2. m \in Nat /\ \A i \in I : m <= i
      BY <1>2, <2>1
    <3> HIDE DEF I, m
    <3>3. \A i \in DOMAIN rows : i < m => i \notin I
      BY <3>1, <3>2
    <3> QED
      BY <3>3 DEF m
  <2> QED
    BY <1>1, <1>2, <1>4, <2>1, <2>2
<1> QED
  BY <1>3, <1>4

(* Rows drawn from others in their order. *)
LEMMA DrawnRows ==
  ASSUME NEW syms, NEW rows \in Seq(RowSet(syms)), NEW new \in Seq(RowSet(syms)), NEW at,
         NEW places \in SUBSET DOMAIN rows, Drawn(at, new, rows, places)
  PROVE  /\ EachOnce(rows) => EachOnce(new)
         /\ PinsLead(rows) => PinsLead(new)
         /\ Symbols(new) = {rows[k].symbol : k \in places}
<1>1. /\ DOMAIN rows \subseteq Nat
      /\ DOMAIN new \subseteq Nat
  BY LenProperties
<1>2. \A i \in DOMAIN new : at[i] \in DOMAIN rows /\ at[i] \in places /\ new[i] = rows[at[i]]
  BY DEF Drawn
<1>3. \A i, j \in DOMAIN new : at[i] = at[j] => i = j
  BY <1>1, <1>2 DEF Drawn
<1>4. EachOnce(rows) => EachOnce(new)
  BY <1>2, <1>3 DEF EachOnce
<1>5. PinsLead(rows) => PinsLead(new)
  BY <1>1, <1>2 DEF PinsLead, Drawn
<1>6. Symbols(new) = {rows[k].symbol : k \in places}
  BY <1>2 DEF Symbols, Drawn
<1> QED
  BY <1>4, <1>5, <1>6

LEMMA RemovedRows ==
  ASSUME NEW syms, NEW rows \in Seq(RowSet(syms)), NEW symbol
  PROVE  /\ Removed(rows, symbol) \in Seq(RowSet(syms))
         /\ EachOnce(rows) => EachOnce(Removed(rows, symbol))
         /\ PinsLead(rows) => PinsLead(Removed(rows, symbol))
         /\ Symbols(Removed(rows, symbol)) = Symbols(rows) \ {symbol}
<1> DEFINE keep == {i \in DOMAIN rows : rows[i].symbol # symbol}
           new == Sifted(rows, keep)
<1>1. new \in Seq(RowSet(syms)) /\ \E at : Drawn(at, new, rows, DOMAIN rows \cap keep)
  <2> HIDE DEF keep
  <2> QED
    BY SiftedDrawn
<1>2. DOMAIN rows \cap keep = keep /\ keep \in SUBSET DOMAIN rows
  OBVIOUS
<1>3. {rows[k].symbol : k \in keep} = Symbols(rows) \ {symbol}
  BY DEF Symbols
<1>4. Removed(rows, symbol) = new
  BY DEF Removed
<1> HIDE DEF keep, new
<1> QED
  BY <1>1, <1>2, <1>3, <1>4, DrawnRows

LEMMA TakenRows ==
  ASSUME NEW syms, NEW rows \in Seq(RowSet(syms)), NEW symbol \in Symbols(rows)
  PROVE  /\ Taken(rows, symbol) \in Seq(RowSet(syms))
         /\ EachOnce(rows) => /\ EachOnce(Taken(rows, symbol))
                              /\ Symbols(Taken(rows, symbol)) = Symbols(rows) \ {symbol}
         /\ PinsLead(rows) => PinsLead(Taken(rows, symbol))
<1> DEFINE p == PosOf(rows, symbol)
           new == RemoveAt(rows, p)
           places == DOMAIN rows \ {p}
<1>1. p \in DOMAIN rows /\ rows[p].symbol = symbol
  BY PosOfFinds
<1>2. p \in 1..Len(rows)
  BY <1>1, LenProperties
<1>3. new \in Seq(RowSet(syms)) /\ \E at : Drawn(at, new, rows, places)
  <2> HIDE DEF p
  <2> QED
    BY <1>2, RemovedDrawn
<1>4. EachOnce(rows) => {rows[k].symbol : k \in places} = Symbols(rows) \ {symbol}
  <2> HIDE DEF p
  <2> QED
    BY <1>1 DEF Symbols, EachOnce
<1>5. Taken(rows, symbol) = new
  BY DEF Taken
<1>6. places \in SUBSET DOMAIN rows
  OBVIOUS
<1> HIDE DEF p, new, places
<1> QED
  BY <1>3, <1>4, <1>5, <1>6, DrawnRows

(* A row appended to rows that do not have its symbol. *)
LEMMA AppendedRows ==
  ASSUME NEW syms, NEW rows \in Seq(RowSet(syms)), NEW row \in RowSet(syms)
  PROVE  /\ Append(rows, row) \in Seq(RowSet(syms))
         /\ EachOnce(rows) /\ row.symbol \notin Symbols(rows) => EachOnce(Append(rows, row))
         /\ PinsLead(rows) /\ ~row.pinned => PinsLead(Append(rows, row))
         /\ PinsLead(rows) /\ (\A i \in DOMAIN rows : rows[i].pinned)
              => PinsLead(Append(rows, row))
         /\ Symbols(Append(rows, row)) = Symbols(rows) \cup {row.symbol}
<1> DEFINE n == Len(rows)
           new == Append(rows, row)
<1>1. n \in Nat /\ DOMAIN rows = 1..n
  BY LenProperties
<1>2. /\ new \in Seq(RowSet(syms)) /\ Len(new) = n + 1
      /\ \A i \in 1..n : new[i] = rows[i]
      /\ new[n + 1] = row
  BY AppendProperties
<1>3. DOMAIN new = 1..(n + 1)
  BY <1>2, LenProperties
<1> HIDE DEF n, new
<1>4. /\ \A i \in DOMAIN new : i \in DOMAIN rows \/ i = n + 1
      /\ \A i \in DOMAIN rows : i \in DOMAIN new /\ i < n + 1
      /\ n + 1 \in DOMAIN new
      /\ DOMAIN new \subseteq Nat
  BY <1>1, <1>3
<1>5. EachOnce(rows) /\ row.symbol \notin Symbols(rows) => EachOnce(new)
  BY <1>1, <1>2, <1>4 DEF EachOnce, Symbols
<1>6. PinsLead(rows) /\ ~row.pinned => PinsLead(new)
  BY <1>1, <1>2, <1>4 DEF PinsLead
<1>7. PinsLead(rows) /\ (\A i \in DOMAIN rows : rows[i].pinned) => PinsLead(new)
  BY <1>1, <1>2, <1>4 DEF PinsLead
<1>8. Symbols(new) = Symbols(rows) \cup {row.symbol}
  BY <1>1, <1>2, <1>4 DEF Symbols
<1> QED
  BY <1>2, <1>5, <1>6, <1>7, <1>8 DEF new

LEMMA InsertedRows ==
  ASSUME NEW syms, NEW rows \in Seq(RowSet(syms)), NEW row \in RowSet(syms), NEW p \in 1..Len(rows)
  PROVE  /\ InsertAt(rows, p, row) \in Seq(RowSet(syms))
         /\ EachOnce(rows) /\ row.symbol \notin Symbols(rows) => EachOnce(InsertAt(rows, p, row))
         /\ PinsLead(rows) /\ row.pinned /\ ~rows[p].pinned /\ (\A i \in DOMAIN rows : i < p => rows[i].pinned)
              => PinsLead(InsertAt(rows, p, row))
         /\ Symbols(InsertAt(rows, p, row)) = Symbols(rows) \cup {row.symbol}
<1>0. p \in DOMAIN rows
  BY LenProperties
<1> DEFINE n == Len(rows)
           new == InsertAt(rows, p, row)
           old(i) == IF i < p THEN i ELSE i - 1
           now(i) == IF i < p THEN i ELSE i + 1
<1>1. n \in Nat /\ DOMAIN rows = 1..n
  BY LenProperties
<1>2. /\ new \in Seq(RowSet(syms)) /\ Len(new) = n + 1
      /\ \A i \in 1..(n + 1) : new[i] = IF i < p THEN rows[i] ELSE IF i = p THEN row ELSE rows[i - 1]
  <2> HIDE DEF old, now
  <2>1. p \in 1..(Len(rows) + 1)
    BY <1>1
  <2>2. /\ new \in Seq(RowSet(syms)) /\ Len(new) = n + 1
    BY <2>1, InsertedElements
  <2>3. \A i \in 1..(n + 1) :
          new[i] = IF i < p THEN rows[i] ELSE IF i = p THEN row ELSE rows[i - 1]
    BY <2>1, InsertedElements
  <2> QED
    BY <2>2, <2>3
<1>3. DOMAIN new = 1..(n + 1)
  BY <1>2, LenProperties
<1> HIDE DEF n, new
<1>4. /\ p \in DOMAIN new /\ new[p] = row
      /\ DOMAIN new \subseteq Nat /\ p \in Nat
  BY <1>0, <1>1, <1>2, <1>3
<1>5. \A i \in DOMAIN new : i # p => old(i) \in DOMAIN rows /\ new[i] = rows[old(i)]
  BY <1>0, <1>1, <1>2, <1>3
<1>6. \A i, j \in DOMAIN new : i # p /\ j # p =>
        (i < j => old(i) < old(j)) /\ (old(i) = old(j) => i = j)
  BY <1>4
<1>7. \A i \in DOMAIN rows : now(i) \in DOMAIN new /\ new[now(i)] = rows[i]
  BY <1>1, <1>2, <1>3
<1>8. \A i \in DOMAIN new : (i < p => old(i) < p) /\ (i > p => ~(old(i) < p))
  BY <1>4
<1> HIDE DEF old, now
<1>9. EachOnce(rows) /\ row.symbol \notin Symbols(rows) => EachOnce(new)
  BY <1>4, <1>5, <1>6 DEF EachOnce, Symbols
<1>10. PinsLead(rows) /\ row.pinned /\ ~rows[p].pinned /\ (\A i \in DOMAIN rows : i < p => rows[i].pinned)
       => PinsLead(new)
  <2> SUFFICES ASSUME PinsLead(rows), row.pinned, ~rows[p].pinned,
                      \A i \in DOMAIN rows : i < p => rows[i].pinned,
                      NEW i \in DOMAIN new, NEW j \in DOMAIN new, i < j, new[j].pinned
               PROVE  new[i].pinned
    BY DEF PinsLead
  <2>1. CASE i = p
    BY <1>4, <2>1
  <2>2. CASE i # p /\ j = p
    BY <1>4, <1>5, <1>8, <2>2
  <2>3. CASE i # p /\ j # p
    BY <1>5, <1>6, <2>3 DEF PinsLead
  <2> QED
    BY <2>1, <2>2, <2>3
<1>11. Symbols(new) = Symbols(rows) \cup {row.symbol}
  <2>1. Symbols(new) \subseteq Symbols(rows) \cup {row.symbol}
    BY <1>4, <1>5 DEF Symbols
  <2>2. Symbols(rows) \subseteq Symbols(new)
    BY <1>7 DEF Symbols
  <2>3. row.symbol \in Symbols(new)
    BY <1>4 DEF Symbols
  <2> QED
    BY <2>1, <2>2, <2>3
<1> QED
  BY <1>2, <1>9, <1>10, <1>11 DEF new

(* Row(symbol, pinned) as a member of RowSet(syms). *)
LEMMA RowIsARow ==
  ASSUME NEW syms, NEW symbol \in syms
  PROVE  /\ Row(symbol, TRUE) \in RowSet(syms) /\ Row(symbol, TRUE).pinned
         /\ Row(symbol, FALSE) \in RowSet(syms) /\ ~Row(symbol, FALSE).pinned
         /\ Row(symbol, TRUE).symbol = symbol /\ Row(symbol, FALSE).symbol = symbol
BY DEF Row, RowSet

LEMMA SymbolsOfRows ==
  ASSUME NEW syms, NEW rows \in Seq(RowSet(syms))
  PROVE  Symbols(rows) \subseteq syms
<1>1. \A i \in DOMAIN rows : rows[i] \in RowSet(syms)
  BY LenProperties, ElementOfSeq
<1> QED
  BY <1>1 DEF Symbols, RowSet

LEMMA AddedRows ==
  ASSUME NEW syms, NEW rows \in Seq(RowSet(syms)), NEW symbol \in syms
  PROVE  /\ Added(rows, symbol) \in Seq(RowSet(syms))
         /\ EachOnce(rows) => EachOnce(Added(rows, symbol))
         /\ PinsLead(rows) => PinsLead(Added(rows, symbol))
         /\ Symbols(Added(rows, symbol)) = Symbols(rows) \cup {symbol}
<1> DEFINE row == Row(symbol, FALSE)
<1>1. row \in RowSet(syms) /\ ~row.pinned /\ row.symbol = symbol
  BY RowIsARow
<1> HIDE DEF row
<1>2. CASE PosOf(rows, symbol) = 0
  <2>1. symbol \notin Symbols(rows)
    BY <1>2, PosOfFinds, LenProperties
  <2>2. Added(rows, symbol) = Append(rows, row)
    BY <1>2 DEF Added, row
  <2> QED
    BY <1>1, <2>1, <2>2, AppendedRows
<1>3. CASE PosOf(rows, symbol) # 0
  <2>1. symbol \in Symbols(rows)
    BY <1>3, PosOfFinds
  <2>2. Added(rows, symbol) = rows
    BY <1>3 DEF Added
  <2> QED
    BY <2>1, <2>2
<1> QED
  BY <1>2, <1>3

LEMMA PinnedRows ==
  ASSUME NEW syms, NEW rows \in Seq(RowSet(syms)), EachOnce(rows),
         NEW symbol \in Symbols(rows), NEW pinned \in BOOLEAN
  PROVE  /\ Pinned(rows, symbol, pinned) \in Seq(RowSet(syms))
         /\ EachOnce(Pinned(rows, symbol, pinned))
         /\ PinsLead(rows) => PinsLead(Pinned(rows, symbol, pinned))
         /\ Symbols(Pinned(rows, symbol, pinned)) = Symbols(rows)
<1> DEFINE rest == Taken(rows, symbol)
           first == FirstUnpinned(rest)
<1>1. /\ rest \in Seq(RowSet(syms)) /\ EachOnce(rest) /\ Symbols(rest) = Symbols(rows) \ {symbol}
      /\ PinsLead(rows) => PinsLead(rest)
  BY TakenRows
<1> HIDE DEF rest
<1>0. symbol \notin Symbols(rest) /\ Symbols(rest) \cup {symbol} = Symbols(rows)
  BY <1>1
<1>2. symbol \in syms
  BY SymbolsOfRows
<1>3. CASE pinned = TRUE
  <2> DEFINE row == Row(symbol, TRUE)
  <2>1. row \in RowSet(syms) /\ row.pinned /\ row.symbol = symbol
    BY <1>2, RowIsARow
  <2>2. Pinned(rows, symbol, TRUE) = IF first = 0 THEN Append(rest, row)
                                     ELSE InsertAt(rest, first, row)
    BY DEF Pinned, InsertBefore, rest
  <2>3. \/ first = 0 /\ \A i \in DOMAIN rest : rest[i].pinned
        \/ /\ first \in DOMAIN rest /\ ~rest[first].pinned
           /\ \A i \in DOMAIN rest : i < first => rest[i].pinned
    BY <1>1, FirstUnpinnedFinds
  <2>4. DOMAIN rest = 1..Len(rest) /\ Len(rest) \in Nat
    BY <1>1, LenProperties
  <2> HIDE DEF first, row
  <2>5. CASE first = 0 /\ \A i \in DOMAIN rest : rest[i].pinned
    <3>1. Pinned(rows, symbol, pinned) = Append(rest, row)
      BY <1>3, <2>2, <2>5
    <3>2. row.symbol \notin Symbols(rest)
      BY <1>0, <2>1
    <3>3. /\ Append(rest, row) \in Seq(RowSet(syms))
          /\ EachOnce(Append(rest, row))
          /\ Symbols(Append(rest, row)) = Symbols(rest) \cup {row.symbol}
          /\ PinsLead(rest) => PinsLead(Append(rest, row))
      BY <1>1, <2>1, <2>5, <3>2, AppendedRows
    <3> QED
      BY <1>0, <1>1, <2>1, <3>1, <3>3
  <2>6. CASE /\ first \in DOMAIN rest /\ ~rest[first].pinned
             /\ \A i \in DOMAIN rest : i < first => rest[i].pinned
    <3>1. first # 0 /\ first \in 1..Len(rest)
      BY <2>4, <2>6
    <3>2. Pinned(rows, symbol, pinned) = InsertAt(rest, first, row)
      BY <1>3, <2>2, <3>1
    <3>3. row.symbol \notin Symbols(rest)
      BY <1>0, <2>1
    <3>4. /\ InsertAt(rest, first, row) \in Seq(RowSet(syms))
          /\ EachOnce(InsertAt(rest, first, row))
          /\ Symbols(InsertAt(rest, first, row)) = Symbols(rest) \cup {row.symbol}
          /\ PinsLead(rest) => PinsLead(InsertAt(rest, first, row))
      BY <1>1, <2>1, <2>6, <3>1, <3>3, InsertedRows
    <3> QED
      BY <1>0, <1>1, <2>1, <3>2, <3>4
  <2> QED
    BY <2>3, <2>5, <2>6
<1>4. CASE pinned = FALSE
  <2> DEFINE row == Row(symbol, FALSE)
  <2>1. row \in RowSet(syms) /\ ~row.pinned /\ row.symbol = symbol
    BY <1>2, RowIsARow
  <2>2. Pinned(rows, symbol, FALSE) = Append(rest, row)
    BY DEF Pinned, InsertBefore, rest
  <2> HIDE DEF row
  <2>3. Pinned(rows, symbol, pinned) = Append(rest, row)
    BY <1>4, <2>2
  <2>4. row.symbol \notin Symbols(rest)
    BY <1>0, <2>1
  <2>5. /\ Append(rest, row) \in Seq(RowSet(syms))
        /\ EachOnce(Append(rest, row))
        /\ Symbols(Append(rest, row)) = Symbols(rest) \cup {row.symbol}
        /\ PinsLead(rest) => PinsLead(Append(rest, row))
    BY <1>1, <2>1, <2>4, AppendedRows
  <2> QED
    BY <1>0, <1>1, <2>1, <2>3, <2>5
<1> QED
  BY <1>3, <1>4

LEMMA MovedRows ==
  ASSUME NEW syms, NEW rows \in Seq(RowSet(syms)), EachOnce(rows), NEW symbol \in Symbols(rows), NEW before
  PROVE  /\ Moved(rows, symbol, before) \in Seq(RowSet(syms))
         /\ EachOnce(Moved(rows, symbol, before))
         /\ Symbols(Moved(rows, symbol, before)) = Symbols(rows)
<1> DEFINE rest == Taken(rows, symbol)
           row == rows[PosOf(rows, symbol)]
           place == PosOf(rest, before)
<1>1. /\ rest \in Seq(RowSet(syms)) /\ EachOnce(rest) /\ Symbols(rest) = Symbols(rows) \ {symbol}
  BY TakenRows
<1>0. symbol \notin Symbols(rest) /\ Symbols(rest) \cup {symbol} = Symbols(rows)
  <2> HIDE DEF rest
  <2> QED
    BY <1>1
<1>2. row \in RowSet(syms) /\ row.symbol = symbol
  <2>1. PosOf(rows, symbol) \in DOMAIN rows /\ row.symbol = symbol
    BY PosOfFinds
  <2> QED
    BY <2>1, LenProperties, ElementOfSeq
<1>3. Moved(rows, symbol, before) = IF place = 0 THEN Append(rest, row)
                                    ELSE InsertAt(rest, place, row)
  BY DEF Moved, InsertBefore
<1>4. place = 0 \/ place \in 1..Len(rest)
  <2> HIDE DEF rest
  <2> QED
    BY <1>1, PosOfFinds, LenProperties
<1> HIDE DEF rest, row, place
<1>5. CASE place = 0
  <2>1. row.symbol \notin Symbols(rest)
    BY <1>0, <1>2
  <2>2. /\ Append(rest, row) \in Seq(RowSet(syms))
        /\ EachOnce(Append(rest, row))
        /\ Symbols(Append(rest, row)) = Symbols(rest) \cup {row.symbol}
    BY <1>1, <1>2, <2>1, AppendedRows
  <2> QED
    BY <1>0, <1>2, <1>3, <1>5, <2>2
<1>6. CASE place # 0
  <2>1. Moved(rows, symbol, before) = InsertAt(rest, place, row) /\ place \in 1..Len(rest)
    BY <1>3, <1>4, <1>6
  <2>2. row.symbol \notin Symbols(rest)
    BY <1>0, <1>2
  <2>3. /\ InsertAt(rest, place, row) \in Seq(RowSet(syms))
        /\ EachOnce(InsertAt(rest, place, row))
        /\ Symbols(InsertAt(rest, place, row)) = Symbols(rest) \cup {row.symbol}
    BY <1>1, <1>2, <2>1, <2>2, InsertedRows
  <2> QED
    BY <1>0, <1>2, <2>1, <2>3
<1> QED
  BY <1>5, <1>6

------------------------------------------------------------------------------
(* A recursion whose steps stay in R. *)
LEMMA RecursionIn ==
  ASSUME NEW N \in Nat, NEW R, NEW base \in R, NEW step,
         \A n \in 1..N : \A r \in R : step[<<n, r>>] \in R
  PROVE  \E f : Stepwise(f, N, base, step) /\ \A n \in 0..N : f[n] \in R
<1>1. PICK f : Stepwise(f, N, base, step)
  BY StepwiseExists
<1> DEFINE T == {n \in Nat : f[n] \in R}
<1>2. 0 \in T
  BY <1>1 DEF Stepwise
<1>3. ASSUME NEW n \in 0..(N - 1), n \in T
      PROVE  n + 1 \in T
  <2>1. n + 1 \in 1..N /\ (n + 1) - 1 = n /\ f[n] \in R /\ n + 1 \in Nat
    BY <1>3
  <2>2. f[n + 1] = step[<<n + 1, f[n]>>]
    BY <1>1, <2>1 DEF Stepwise
  <2> QED
    BY <2>1, <2>2
<1>4. 0..N \subseteq T
  <2> HIDE DEF T
  <2> QED
    BY <1>2, <1>3, UpwardClosed
<1> QED
  BY <1>1, <1>4

(* All places are kept. *)
LEMMA SiftedAll ==
  ASSUME NEW S, NEW seq \in Seq(S), NEW keep, DOMAIN seq \subseteq keep
  PROVE  Sifted(seq, keep) = seq
<1> DEFINE N == Len(seq)
<1>1. N \in Nat /\ DOMAIN seq = 1..N /\ \A n \in 1..N : seq[n] \in S
  BY LenProperties, ElementOfSeq
<1>2. PICK f : /\ Sifted(seq, keep) = f[N]
               /\ f[0] = <<>>
               /\ \A n \in 1..N :
                    f[n] = IF n \in keep THEN Append(f[n - 1], seq[n]) ELSE f[n - 1]
  BY SiftedSteps
<1> DEFINE Same(n) == /\ f[n] \in Seq(S) /\ Len(f[n]) = n
                      /\ \A i \in 1..n : f[n][i] = seq[i]
           T == {n \in Nat : Same(n)}
<1> HIDE DEF N
<1>3. 0 \in T
  <2>1. f[0] \in Seq(S) /\ Len(f[0]) = 0
    BY <1>2, EmptySeq
  <2>2. \A i \in 1..0 : f[0][i] = seq[i]
    OBVIOUS
  <2> QED
    BY <2>1, <2>2
<1>4. ASSUME NEW n \in 0..(N - 1), n \in T
      PROVE  n + 1 \in T
  <2>1. n + 1 \in 1..N /\ (n + 1) - 1 = n /\ n + 1 \in Nat /\ seq[n + 1] \in S
    BY <1>1
  <2>2. f[n] \in Seq(S) /\ Len(f[n]) = n /\ \A i \in 1..n : f[n][i] = seq[i]
    BY <1>4
  <2>3. f[n + 1] = Append(f[n], seq[n + 1])
    BY <1>1, <1>2, <2>1
  <2>4. /\ f[n + 1] \in Seq(S) /\ Len(f[n + 1]) = n + 1
        /\ \A i \in 1..n : f[n + 1][i] = f[n][i]
        /\ f[n + 1][n + 1] = seq[n + 1]
    BY <2>1, <2>2, <2>3, AppendProperties
  <2>5. \A i \in 1..(n + 1) : i \in 1..n \/ i = n + 1
    BY <2>1
  <2>6. \A i \in 1..(n + 1) : f[n + 1][i] = seq[i]
    BY <2>2, <2>4, <2>5
  <2> QED
    BY <2>1, <2>4, <2>6
<1>5. Same(N)
  <2>1. 0..N \subseteq T
    <3> HIDE DEF T
    <3> QED
      BY <1>1, <1>3, <1>4, UpwardClosed
  <2> QED
    BY <1>1, <2>1
<1>6. f[N] = seq
  BY <1>1, <1>5, SeqEqual DEF N
<1> QED
  BY <1>2, <1>6

(* What sifting leaves. *)
LEMMA SiftedRange ==
  ASSUME NEW S, NEW seq \in Seq(S), NEW keep
  PROVE  /\ Sifted(seq, keep) \in Seq(S)
         /\ Range(Sifted(seq, keep)) = {seq[k] : k \in DOMAIN seq \cap keep}
<1> DEFINE r == Sifted(seq, keep)
           places == DOMAIN seq \cap keep
<1>1. r \in Seq(S) /\ \E at : Drawn(at, r, seq, places)
  BY SiftedDrawn
<1>2. PICK at : Drawn(at, r, seq, places)
  BY <1>1
<1> HIDE DEF r, places
<1>3. Range(r) = {seq[k] : k \in places}
  BY <1>2 DEF Drawn, Range
<1> QED
  BY <1>1, <1>3 DEF r, places

(* A flat sequence has the elements of its parts. *)
LEMMA Flattened ==
  ASSUME NEW S, NEW seqs \in Seq(Seq(S)), seqs # <<>>
  PROVE  /\ FlattenSeq(seqs) \in Seq(S)
         /\ Range(FlattenSeq(seqs)) = UNION {Range(seqs[k]) : k \in DOMAIN seqs}
<1> DEFINE N == Len(seqs)
           step == [x \in (1..N) \X Seq(S) |-> x[2] \o seqs[x[1]]]
<1>1. N \in Nat /\ N # 0 /\ DOMAIN seqs = 1..N /\ \A n \in 1..N : seqs[n] \in Seq(S)
  BY LenProperties, ElementOfSeq, EmptySeq
<1>2. ASSUME NEW n \in 1..N, NEW r \in Seq(S)
      PROVE  /\ step[<<n, r>>] = r \o seqs[n]
             /\ step[<<n, r>>] \in Seq(S)
             /\ Range(step[<<n, r>>]) = Range(r) \cup Range(seqs[n])
  <2>1. step[<<n, r>>] = r \o seqs[n]
    OBVIOUS
  <2> DEFINE s == seqs[n]
             c == r \o s
  <2>2. s \in Seq(S)
    BY <1>1
  <2> HIDE DEF s
  <2>3. /\ c \in Seq(S) /\ Len(c) = Len(r) + Len(s)
        /\ \A i \in 1..(Len(r) + Len(s)) :
             c[i] = IF i <= Len(r) THEN r[i] ELSE s[i - Len(r)]
    BY <2>2, ConcatProperties
  <2>4. /\ Len(r) \in Nat /\ DOMAIN r = 1..Len(r)
        /\ Len(s) \in Nat /\ DOMAIN s = 1..Len(s)
        /\ DOMAIN c = 1..(Len(r) + Len(s))
    BY <2>2, <2>3, LenProperties
  <2> HIDE DEF c
  <2>5. ASSUME NEW i \in DOMAIN c
        PROVE  c[i] \in Range(r) \cup Range(s)
    <3>1. CASE i <= Len(r)
      <4>1. i \in DOMAIN r /\ c[i] = r[i]
        BY <2>3, <2>4, <3>1
      <4> QED
        BY <4>1 DEF Range
    <3>2. CASE ~(i <= Len(r))
      <4>1. i - Len(r) \in DOMAIN s /\ c[i] = s[i - Len(r)]
        BY <2>3, <2>4, <3>2
      <4> QED
        BY <4>1 DEF Range
    <3> QED
      BY <3>1, <3>2
  <2>6. \A i \in DOMAIN r : i \in DOMAIN c /\ c[i] = r[i]
    BY <2>3, <2>4
  <2>7. \A i \in DOMAIN s : Len(r) + i \in DOMAIN c /\ c[Len(r) + i] = s[i]
    <3> SUFFICES ASSUME NEW i \in DOMAIN s
                 PROVE  Len(r) + i \in DOMAIN c /\ c[Len(r) + i] = s[i]
      OBVIOUS
    <3>1. /\ Len(r) + i \in 1..(Len(r) + Len(s))
          /\ ~(Len(r) + i <= Len(r))
          /\ (Len(r) + i) - Len(r) = i
      BY <2>4
    <3> QED
      BY <2>3, <2>4, <3>1
  <2>8. Range(r) \cup Range(s) \subseteq Range(c)
    BY <2>6, <2>7 DEF Range
  <2>9. Range(c) \subseteq Range(r) \cup Range(s)
    BY <2>5 DEF Range
  <2> QED
    BY <2>1, <2>3, <2>8, <2>9 DEF c, s
<1> HIDE DEF step
<1>3. PICK f : Stepwise(f, N, <<>>, step) /\ \A n \in 0..N : f[n] \in Seq(S)
  <2>1. <<>> \in Seq(S)
    BY EmptySeq
  <2> HIDE DEF N
  <2> QED
    BY <1>1, <1>2, <2>1, RecursionIn
<1> DEFINE UpTo(g) == g = [n \in 1..N |-> IF n = 1 THEN seqs[n] ELSE g[n - 1] \o seqs[n]]
           h == [n \in 1..N |-> f[n]]
           u == CHOOSE g : UpTo(g)
<1>4. \A n \in 1..N : f[n] = f[n - 1] \o seqs[n] /\ n - 1 \in 0..N
  <2> SUFFICES ASSUME NEW n \in 1..N PROVE f[n] = f[n - 1] \o seqs[n] /\ n - 1 \in 0..N
    OBVIOUS
  <2>1. n - 1 \in 0..N /\ f[n - 1] \in Seq(S)
    BY <1>1, <1>3
  <2>2. f[n] = step[<<n, f[n - 1]>>]
    BY <1>3 DEF Stepwise
  <2> QED
    BY <1>2, <2>1, <2>2
<1>5. f[0] = <<>> /\ f[1] = seqs[1]
  <2>1. f[0] = <<>>
    BY <1>3 DEF Stepwise
  <2>2. 1 \in 1..N /\ 1 - 1 = 0
    BY <1>1
  <2>3. <<>> \o seqs[1] = seqs[1]
    BY <1>1, <2>2, ConcatEmptySeq
  <2>4. f[1] = f[1 - 1] \o seqs[1]
    BY <1>4, <2>2
  <2> QED
    BY <2>1, <2>2, <2>3, <2>4
<1>6. UpTo(h)
  <2>1. \A n \in 1..N : h[n] = IF n = 1 THEN seqs[n] ELSE h[n - 1] \o seqs[n]
    <3> SUFFICES ASSUME NEW n \in 1..N
                 PROVE  h[n] = IF n = 1 THEN seqs[n] ELSE h[n - 1] \o seqs[n]
      OBVIOUS
    <3>1. n # 1 => n - 1 \in 1..N
      BY <1>1
    <3> HIDE DEF N
    <3> QED
      BY <1>4, <1>5, <3>1
  <2>2. h = [n \in 1..N |-> h[n]]
    OBVIOUS
  <2> HIDE DEF h, N
  <2> QED
    BY <2>1, <2>2
<1>7. UpTo(u)
  <2> HIDE DEF UpTo, h
  <2> QED
    BY <1>6
<1>8. FlattenSeq(seqs) = u[N]
  BY <1>1 DEF FlattenSeq
<1>9. \A n \in 1..N : u[n] = IF n = 1 THEN seqs[n] ELSE u[n - 1] \o seqs[n]
  <2> HIDE DEF u, N
  <2> QED
    BY <1>7
<1> HIDE DEF u, h, UpTo
<1> DEFINE Parts(D) == UNION {Range(seqs[k]) : k \in D}
           All(n) == Parts(1..n)
           Reached(n) == n # 0 => u[n] \in Seq(S) /\ Range(u[n]) = All(n)
           T == {n \in Nat : Reached(n)}
<1> HIDE DEF N
<1>10. 0 \in T
  OBVIOUS
<1>11. ASSUME NEW n \in 0..(N - 1), n \in T
       PROVE  n + 1 \in T
  <2>1. n \in Nat /\ n + 1 \in Nat /\ n + 1 \in 1..N /\ (n + 1) - 1 = n /\ n + 1 # 0
    BY <1>1
  <2>2. CASE n = 0
    <3>1. u[1] = seqs[1] /\ 1 \in 1..N /\ 1..1 = {1} /\ n + 1 = 1
      BY <1>9, <2>1, <2>2
    <3>2. u[1] \in Seq(S)
      BY <1>1, <3>1
    <3>3. Range(u[1]) = All(1)
      BY <3>1
    <3> QED
      BY <2>1, <3>1, <3>2, <3>3
  <2>3. CASE n # 0
    <3>1. u[n] \in Seq(S) /\ Range(u[n]) = All(n)
      BY <1>11, <2>3
    <3>2. u[n + 1] = u[n] \o seqs[n + 1]
      <4>1. n + 1 # 1
        BY <2>1, <2>3
      <4> QED
        BY <1>9, <2>1, <4>1
    <3>3. u[n + 1] \in Seq(S) /\ Range(u[n + 1]) = Range(u[n]) \cup Range(seqs[n + 1])
      BY <1>2, <2>1, <3>1, <3>2
    <3>4. All(n + 1) = All(n) \cup Range(seqs[n + 1])
      <4>1. 1..(n + 1) = (1..n) \cup {n + 1}
        BY <2>1
      <4>2. ASSUME NEW D, NEW k PROVE Parts(D \cup {k}) = Parts(D) \cup Range(seqs[k])
        <5>1. ASSUME NEW x \in Parts(D \cup {k}) PROVE x \in Parts(D) \cup Range(seqs[k])
          <6>1. PICK j \in D \cup {k} : x \in Range(seqs[j])
            OBVIOUS
          <6> QED
            BY <6>1
        <5>2. ASSUME NEW x \in Parts(D) PROVE x \in Parts(D \cup {k})
          <6>1. PICK j \in D : x \in Range(seqs[j])
            OBVIOUS
          <6> QED
            BY <6>1
        <5>3. ASSUME NEW x \in Range(seqs[k]) PROVE x \in Parts(D \cup {k})
          OBVIOUS
        <5> HIDE DEF Parts
        <5> QED
          BY <5>1, <5>2, <5>3
      <4> HIDE DEF Parts
      <4> QED
        BY <4>1, <4>2
    <3> HIDE DEF All, Parts
    <3> QED
      BY <2>1, <3>1, <3>3, <3>4
  <2> QED
    BY <2>2, <2>3
<1>12. Reached(N)
  <2>1. 0..N \subseteq T
    <3> HIDE DEF T
    <3> QED
      BY <1>1, <1>10, <1>11, UpwardClosed
  <2>2. N \in 0..N
    BY <1>1
  <2> HIDE DEF Reached
  <2> QED
    BY <2>1, <2>2
<1>13. FlattenSeq(seqs) \in Seq(S) /\ Range(FlattenSeq(seqs)) = All(N)
  <2> HIDE DEF All, Parts
  <2> QED
    BY <1>1, <1>8, <1>12
<1>14. All(N) = UNION {Range(seqs[k]) : k \in DOMAIN seqs}
  BY <1>1
<1> QED
  BY <1>13, <1>14

------------------------------------------------------------------------------
(* Elements rather than places. *)
LEMMA ElementsOfSeq ==
  ASSUME NEW S, NEW seq \in Seq(S)
  PROVE  /\ Range(seq) \subseteq S
         /\ DOMAIN seq = 1..Len(seq) /\ Len(seq) \in Nat
         /\ \A i \in DOMAIN seq : seq[i] \in S /\ seq[i] \in Range(seq)
<1>1. DOMAIN seq = 1..Len(seq) /\ Len(seq) \in Nat /\ \A i \in 1..Len(seq) : seq[i] \in S
  BY LenProperties, ElementOfSeq
<1>2. \A i \in DOMAIN seq : seq[i] \in S
  BY <1>1
<1> QED
  BY <1>1, <1>2 DEF Range

LEMMA AppendedRange ==
  ASSUME NEW S, NEW seq \in Seq(S), NEW e \in S
  PROVE  /\ Append(seq, e) \in Seq(S)
         /\ Range(Append(seq, e)) = Range(seq) \cup {e}
<1> DEFINE new == Append(seq, e)
           n == Len(seq)
<1>1. /\ new \in Seq(S) /\ Len(new) = n + 1 /\ new[n + 1] = e
      /\ \A i \in 1..n : new[i] = seq[i]
  BY AppendProperties
<1>2. n \in Nat /\ DOMAIN seq = 1..n /\ DOMAIN new = 1..(n + 1)
  BY <1>1, LenProperties
<1> HIDE DEF new, n
<1>3. /\ \A i \in DOMAIN new : i \in DOMAIN seq \/ i = n + 1
      /\ \A i \in DOMAIN seq : i \in DOMAIN new
      /\ n + 1 \in DOMAIN new
  BY <1>2
<1>4. Range(new) = Range(seq) \cup {e}
  BY <1>1, <1>2, <1>3 DEF Range
<1> QED
  BY <1>1, <1>4 DEF new

LEMMA InsertedRange ==
  ASSUME NEW S, NEW seq \in Seq(S), NEW k \in 1..Len(seq), NEW e \in S
  PROVE  /\ InsertAt(seq, k, e) \in Seq(S)
         /\ Range(InsertAt(seq, k, e)) = Range(seq) \cup {e}
<1> DEFINE new == InsertAt(seq, k, e)
           n == Len(seq)
<1>1. n \in Nat /\ DOMAIN seq = 1..n /\ k \in 1..n /\ k \in 1..(n + 1)
  BY LenProperties
<1>2. /\ new \in Seq(S) /\ Len(new) = n + 1
      /\ \A i \in 1..(n + 1) : new[i] = IF i < k THEN seq[i] ELSE IF i = k THEN e ELSE seq[i - 1]
  <2>1. k \in 1..(Len(seq) + 1)
    BY <1>1
  <2>2. /\ new \in Seq(S) /\ Len(new) = n + 1
    BY <2>1, InsertedElements
  <2>3. \A i \in 1..(n + 1) : new[i] = IF i < k THEN seq[i] ELSE IF i = k THEN e ELSE seq[i - 1]
    BY <2>1, InsertedElements
  <2> QED
    BY <2>2, <2>3
<1>3. \A i \in 1..(n + 1) : new[i] = IF i < k THEN seq[i] ELSE IF i = k THEN e ELSE seq[i - 1]
  <2> HIDE DEF new
  <2> QED
    BY <1>2
<1>4. DOMAIN new = 1..(n + 1)
  BY <1>2, LenProperties
<1> HIDE DEF new, n
<1>5. ASSUME NEW i \in DOMAIN new PROVE new[i] \in Range(seq) \cup {e}
  <2>1. (i < k => i \in DOMAIN seq) /\ (i > k => i - 1 \in DOMAIN seq)
    BY <1>1, <1>4
  <2>2. i < k \/ i = k \/ i > k
    BY <1>1, <1>4
  <2>3. i > k => ~(i < k) /\ i # k
    BY <1>1, <1>4
  <2> QED
    BY <1>3, <1>4, <2>1, <2>2, <2>3 DEF Range
<1>6. ASSUME NEW i \in DOMAIN seq PROVE \E j \in DOMAIN new : new[j] = seq[i]
  <2>1. CASE i < k
    BY <1>1, <1>3, <1>4, <2>1
  <2>2. CASE ~(i < k)
    <3>1. i + 1 \in DOMAIN new /\ ~(i + 1 < k) /\ i + 1 # k /\ (i + 1) - 1 = i
      BY <1>1, <1>4, <2>2
    <3>2. new[i + 1] = seq[i]
      BY <1>3, <1>4, <3>1
    <3> QED
      BY <3>1, <3>2
  <2> QED
    BY <2>1, <2>2
<1>7. k \in DOMAIN new /\ new[k] = e
  BY <1>1, <1>3, <1>4
<1>8. Range(new) = Range(seq) \cup {e}
  BY <1>5, <1>6, <1>7 DEF Range
<1> QED
  BY <1>2, <1>8 DEF new

(* Elements before the place and behind it stay. *)
LEMMA RemovedRange ==
  ASSUME NEW S, NEW seq \in Seq(S), NEW k \in DOMAIN seq
  PROVE  /\ RemoveAt(seq, k) \in Seq(S)
         /\ Range(RemoveAt(seq, k)) \subseteq Range(seq)
         /\ Range(seq) \subseteq Range(RemoveAt(seq, k)) \cup {seq[k]}
<1>1. k \in 1..Len(seq)
  BY LenProperties
<1> DEFINE new == RemoveAt(seq, k)
           places == DOMAIN seq \ {k}
<1>2. new \in Seq(S) /\ \E at : Drawn(at, new, seq, places)
  BY <1>1, RemovedDrawn
<1>3. PICK at : Drawn(at, new, seq, places)
  BY <1>2
<1> HIDE DEF new
<1>4. Range(new) = {seq[i] : i \in places}
  BY <1>3 DEF Drawn, Range
<1> QED
  BY <1>2, <1>4 DEF new, Range

LEMMA PrependedRange ==
  ASSUME NEW S, NEW seq \in Seq(S), NEW e \in S
  PROVE  /\ <<e>> \o seq \in Seq(S)
         /\ Range(<<e>> \o seq) = Range(seq) \cup {e}
<1> DEFINE new == <<e>> \o seq
           n == Len(seq)
           one == <<e>>
<1>1. one \in Seq(S) /\ Len(one) = 1 /\ one[1] = e
  OBVIOUS
<1> HIDE DEF one
<1>2. /\ one \o seq \in Seq(S) /\ Len(one \o seq) = 1 + n
      /\ \A i \in 1..(1 + n) : (one \o seq)[i] = IF i <= 1 THEN one[i] ELSE seq[i - 1]
  <2>1. /\ one \o seq \in Seq(S) /\ Len(one \o seq) = Len(one) + Len(seq)
        /\ \A i \in 1..(Len(one) + Len(seq)) :
             (one \o seq)[i] = IF i <= Len(one) THEN one[i] ELSE seq[i - Len(one)]
    BY <1>1, ConcatProperties
  <2> DEFINE c == one \o seq
  <2> HIDE DEF c
  <2>2. /\ c \in Seq(S) /\ Len(c) = 1 + n
        /\ \A i \in 1..(1 + n) : c[i] = IF i <= 1 THEN one[i] ELSE seq[i - 1]
    BY <1>1, <2>1 DEF c
  <2> QED
    BY <2>2 DEF c
<1>3. new = one \o seq
  BY DEF one
<1>4. n \in Nat /\ DOMAIN seq = 1..n /\ DOMAIN new = 1..(1 + n)
  BY <1>2, <1>3, LenProperties
<1>5. /\ new \in Seq(S)
      /\ \A i \in 1..(1 + n) : new[i] = IF i <= 1 THEN one[i] ELSE seq[i - 1]
  BY <1>2, <1>3
<1> HIDE DEF new, n
<1>6. ASSUME NEW i \in DOMAIN new PROVE new[i] \in Range(seq) \cup {e}
  <2>1. i = 1 \/ (~(i <= 1) /\ i - 1 \in DOMAIN seq)
    BY <1>4
  <2> QED
    BY <1>1, <1>4, <1>5, <2>1 DEF Range
<1>7. ASSUME NEW i \in DOMAIN seq PROVE i + 1 \in DOMAIN new /\ new[i + 1] = seq[i]
  <2>1. i + 1 \in DOMAIN new /\ ~(i + 1 <= 1) /\ (i + 1) - 1 = i
    BY <1>4
  <2> QED
    BY <1>4, <1>5, <2>1
<1>8. 1 \in DOMAIN new /\ new[1] = e
  BY <1>1, <1>4, <1>5
<1>9. Range(new) = Range(seq) \cup {e}
  BY <1>6, <1>7, <1>8 DEF Range
<1> QED
  BY <1>5, <1>9 DEF new

------------------------------------------------------------------------------
(* The edits of rows, duplicates or not. *)
LEMMA SymbolsAreOfRange ==
  ASSUME NEW rows
  PROVE  Symbols(rows) = {r.symbol : r \in Range(rows)}
BY DEF Symbols, Range

LEMMA TakenRange ==
  ASSUME NEW syms, NEW rows \in Seq(RowSet(syms)), NEW symbol \in Symbols(rows)
  PROVE  /\ Taken(rows, symbol) \in Seq(RowSet(syms))
         /\ Range(Taken(rows, symbol)) \subseteq Range(rows)
         /\ rows[PosOf(rows, symbol)] \in Range(rows)
         /\ rows[PosOf(rows, symbol)].symbol = symbol
         /\ Range(rows) \subseteq Range(Taken(rows, symbol)) \cup {rows[PosOf(rows, symbol)]}
<1>1. PosOf(rows, symbol) \in DOMAIN rows /\ rows[PosOf(rows, symbol)].symbol = symbol
  BY PosOfFinds
<1> DEFINE p == PosOf(rows, symbol)
<1>2. /\ RemoveAt(rows, p) \in Seq(RowSet(syms))
      /\ Range(RemoveAt(rows, p)) \subseteq Range(rows)
      /\ Range(rows) \subseteq Range(RemoveAt(rows, p)) \cup {rows[p]}
  <2>1. p \in DOMAIN rows
    BY <1>1
  <2> HIDE DEF p
  <2> QED
    BY <2>1, RemovedRange
<1>3. rows[p] \in Range(rows)
  BY <1>1 DEF Range
<1> QED
  BY <1>1, <1>2, <1>3 DEF Taken

LEMMA InsertedBeforeRange ==
  ASSUME NEW syms, NEW rows \in Seq(RowSet(syms)), NEW row \in RowSet(syms),
         NEW i, i = 0 \/ i \in DOMAIN rows
  PROVE  /\ InsertBefore(rows, i, row) \in Seq(RowSet(syms))
         /\ Range(InsertBefore(rows, i, row)) = Range(rows) \cup {row}
<1>1. CASE i = 0
  BY <1>1, AppendedRange DEF InsertBefore
<1>2. CASE i # 0
  <2>1. i \in 1..Len(rows)
    BY <1>2, LenProperties
  <2>2. InsertBefore(rows, i, row) = InsertAt(rows, i, row)
    BY <1>2 DEF InsertBefore
  <2> QED
    BY <2>1, <2>2, InsertedRange
<1> QED
  BY <1>1, <1>2

LEMMA PinnedRange ==
  ASSUME NEW syms, NEW rows \in Seq(RowSet(syms)), NEW symbol \in Symbols(rows),
         NEW pinned \in BOOLEAN
  PROVE  /\ Pinned(rows, symbol, pinned) \in Seq(RowSet(syms))
         /\ Range(Pinned(rows, symbol, pinned)) \subseteq Range(rows) \cup {Row(symbol, pinned)}
         /\ Row(symbol, pinned) \in Range(Pinned(rows, symbol, pinned))
         /\ \A r \in Range(rows) :
              r.symbol # symbol => r \in Range(Pinned(rows, symbol, pinned))
<1> DEFINE rest == Taken(rows, symbol)
           row == Row(symbol, pinned)
           i == IF pinned THEN FirstUnpinned(rest) ELSE 0
<1>1. rest \in Seq(RowSet(syms)) /\ Range(rest) \subseteq Range(rows)
  BY TakenRange
<1>2. \A r \in Range(rows) : r.symbol # symbol => r \in Range(rest)
  BY TakenRange
<1>3. row \in RowSet(syms)
  <2>1. symbol \in syms
    BY SymbolsOfRows
  <2> QED
    BY <2>1 DEF Row, RowSet
<1>4. Pinned(rows, symbol, pinned) = InsertBefore(rest, i, row)
  BY DEF Pinned
<1>5. i = 0 \/ i \in DOMAIN rest
  <2> HIDE DEF rest
  <2> QED
    BY <1>1, FirstUnpinnedFinds
<1> HIDE DEF rest, row, i
<1>6. /\ InsertBefore(rest, i, row) \in Seq(RowSet(syms))
      /\ Range(InsertBefore(rest, i, row)) = Range(rest) \cup {row}
  BY <1>1, <1>3, <1>5, InsertedBeforeRange
<1> QED
  BY <1>1, <1>2, <1>4, <1>6 DEF row

LEMMA MovedRange ==
  ASSUME NEW syms, NEW rows \in Seq(RowSet(syms)), NEW symbol \in Symbols(rows), NEW before
  PROVE  /\ Moved(rows, symbol, before) \in Seq(RowSet(syms))
         /\ Range(Moved(rows, symbol, before)) = Range(rows)
<1> DEFINE rest == Taken(rows, symbol)
           row == rows[PosOf(rows, symbol)]
           i == PosOf(rest, before)
<1>1. /\ rest \in Seq(RowSet(syms)) /\ Range(rest) \subseteq Range(rows)
      /\ row \in Range(rows) /\ Range(rows) \subseteq Range(rest) \cup {row}
  BY TakenRange
<1>2. row \in RowSet(syms)
  BY <1>1, ElementsOfSeq
<1>3. Moved(rows, symbol, before) = InsertBefore(rest, i, row)
  BY DEF Moved
<1>4. i = 0 \/ i \in DOMAIN rest
  <2> HIDE DEF rest
  <2> QED
    BY <1>1, PosOfFinds
<1> HIDE DEF rest, row, i
<1>5. /\ InsertBefore(rest, i, row) \in Seq(RowSet(syms))
      /\ Range(InsertBefore(rest, i, row)) = Range(rest) \cup {row}
  BY <1>1, <1>2, <1>4, InsertedBeforeRange
<1> QED
  BY <1>1, <1>3, <1>5

LEMMA AddedRange ==
  ASSUME NEW syms, NEW rows \in Seq(RowSet(syms)), NEW symbol \in syms
  PROVE  /\ Added(rows, symbol) \in Seq(RowSet(syms))
         /\ Range(rows) \subseteq Range(Added(rows, symbol))
         /\ Range(Added(rows, symbol)) \subseteq Range(rows) \cup {Row(symbol, FALSE)}
         /\ symbol \in Symbols(rows) => Added(rows, symbol) = rows
<1>1. Row(symbol, FALSE) \in RowSet(syms)
  BY RowIsARow
<1>2. symbol \in Symbols(rows) <=> PosOf(rows, symbol) # 0
  BY PosOfFinds, LenProperties
<1>3. Added(rows, symbol) \in Seq(RowSet(syms))
  BY AddedRows
<1>4. CASE PosOf(rows, symbol) = 0
  <2>1. Added(rows, symbol) = Append(rows, Row(symbol, FALSE))
    BY <1>4 DEF Added
  <2>2. Range(Append(rows, Row(symbol, FALSE))) = Range(rows) \cup {Row(symbol, FALSE)}
    <3> DEFINE row == Row(symbol, FALSE)
    <3> HIDE DEF row
    <3>1. row \in RowSet(syms)
      BY <1>1 DEF row
    <3>2. Range(Append(rows, row)) = Range(rows) \cup {row}
      BY <3>1, AppendedRange
    <3> QED
      BY <3>2 DEF row
  <2> QED
    BY <1>2, <1>3, <1>4, <2>1, <2>2
<1>5. CASE PosOf(rows, symbol) # 0
  <2>1. Added(rows, symbol) = rows
    BY <1>5 DEF Added
  <2> QED
    BY <1>3, <2>1
<1> QED
  BY <1>4, <1>5

LEMMA RemovedRowsRange ==
  ASSUME NEW syms, NEW rows \in Seq(RowSet(syms)), NEW symbol
  PROVE  /\ Removed(rows, symbol) \in Seq(RowSet(syms))
         /\ Range(Removed(rows, symbol)) = {r \in Range(rows) : r.symbol # symbol}
<1> DEFINE keep == {i \in DOMAIN rows : rows[i].symbol # symbol}
<1>1. /\ Sifted(rows, keep) \in Seq(RowSet(syms))
      /\ Range(Sifted(rows, keep)) = {rows[k] : k \in DOMAIN rows \cap keep}
  <2> HIDE DEF keep
  <2> QED
    BY SiftedRange
<1>2. {rows[k] : k \in DOMAIN rows \cap keep} = {r \in Range(rows) : r.symbol # symbol}
  BY DEF Range
<1> QED
  BY <1>1, <1>2 DEF Removed
==============================================================================
