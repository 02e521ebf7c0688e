---------------------------- MODULE FoldTheorems ----------------------------
(***************************************************************************)
(* Folding a sequence into a state, step by step, as projection_service,   *)
(* the reducer of the console and rehydrate all do with events, and what   *)
(* the proofs need of it for any kind of step: a fold is the end of any    *)
(* trace of its steps, and a concatenation is folded part by part.         *)
(*                                                                         *)
(* Induction is over the naturals and first-order: the predicate to be     *)
(* shown is given as the set of the numbers that have it.                  *)
(***************************************************************************)
EXTENDS Naturals, Sequences, WellFoundedInduction, TLAPS

CONSTANT Step(_, _)          \* the state after an element

Fold(s, es) ==
  LET after[i \in 0 .. Len(es)] ==
        IF i = 0 THEN s ELSE Step(after[i - 1], es[i])
  IN  after[Len(es)]

(* The same as the community modules fold a sequence, as a set of places   *)
(* from the greatest down: FoldLeft(Step, s, es) of SequencesExt.          *)
Greatest(S) == CHOOSE x \in S : \A y \in S : x >= y

LeftFold(s, es) ==
  LET iter[A \in SUBSET DOMAIN es] ==
        IF A = {} THEN s ELSE LET x == Greatest(A) IN Step(iter[A \ {x}], es[x])
  IN  iter[DOMAIN es]

(* FlattenSeq(parts) of SequencesExt. *)
Flattened(parts) ==
  IF Len(parts) = 0 THEN parts
  ELSE LET flat[i \in 1 .. Len(parts)] == IF i = 1 THEN parts[i] ELSE flat[i - 1] \o parts[i]
       IN  flat[Len(parts)]

(* The states a fold goes through, s first. *)
Trace(g, s, es) == g[0] = s /\ \A i \in 1 .. Len(es) : g[i] = Step(g[i - 1], es[i])
-----------------------------------------------------------------------------
(* Every set of naturals but the empty one has a least element. *)
LEMMA Least ==
  ASSUME NEW S \in SUBSET Nat, S # {}
  PROVE  \E q \in S : \A p \in S : q <= p
<1> DEFINE Less == OpToRel(<, Nat)
<1>1. IsWellFoundedOn(Less, Nat)
  BY NatLessThanWellFounded
<1> HIDE DEF Less
<1>2. PICK q \in S : \A p \in S : ~(<<p, q>> \in Less)
  BY <1>1, WFMin
<1>3. ASSUME NEW p \in S
      PROVE  q <= p
  <2>1. p \in Nat /\ q \in Nat
    OBVIOUS
  <2>2. <<p, q>> \in Less <=> p < q
    BY <2>1, Zenon DEF Less, OpToRel
  <2> QED BY <1>2, <2>1, <2>2
<1> QED BY <1>3

(* Induction up to n: the least number outside P would follow one in P. *)
LEMMA InductionUpTo ==
  ASSUME NEW n \in Nat, NEW P, 0 \in P, \A i \in 1 .. n : i - 1 \in P => i \in P
  PROVE  \A i \in 0 .. n : i \in P
<1> DEFINE Bad == {i \in 0 .. n : i \notin P}
<1> SUFFICES ASSUME Bad # {} PROVE FALSE
  OBVIOUS
<1>1. Bad \in SUBSET Nat
  OBVIOUS
<1>2. PICK q \in Bad : \A p \in Bad : q <= p
  BY <1>1, Least
<1>3. q \in 1 .. n /\ q - 1 \in 0 .. n /\ ~(q <= q - 1)
  BY <1>2
<1> QED BY <1>2, <1>3

(* Two traces of the same fold agree everywhere. *)
LEMMA TraceUnique ==
  ASSUME NEW T, NEW es \in Seq(T), NEW s, NEW f, NEW g, Trace(f, s, es), Trace(g, s, es)
  PROVE  \A i \in 0 .. Len(es) : f[i] = g[i]
<1> DEFINE P == {i \in 0 .. Len(es) : f[i] = g[i]}
<1>0. Len(es) \in Nat
  OBVIOUS
<1>1. 0 \in P
  BY <1>0 DEF Trace
<1>2. ASSUME NEW i \in 1 .. Len(es), i - 1 \in P
      PROVE  i \in P
  <2>1. f[i] = Step(f[i - 1], es[i]) /\ g[i] = Step(g[i - 1], es[i])
    BY DEF Trace
  <2>2. f[i - 1] = g[i - 1] /\ i \in 0 .. Len(es)
    BY <1>0, <1>2
  <2> QED BY <2>1, <2>2
<1> HIDE DEF P
<1>3. \A i \in 0 .. Len(es) : i \in P
  BY <1>0, <1>1, <1>2, InductionUpTo
<1> QED BY <1>3 DEF P

(* There is a trace: one through the first elements can be extended. *)
LEMMA TraceExists ==
  ASSUME NEW T, NEW es \in Seq(T), NEW s
  PROVE  \E g : Trace(g, s, es) /\ g = [i \in 0 .. Len(es) |-> g[i]]
<1> DEFINE Leads(g, k) == /\ g = [i \in 0 .. k |-> g[i]]
                          /\ g[0] = s /\ \A i \in 1 .. k : g[i] = Step(g[i - 1], es[i])
           P == {k \in 0 .. Len(es) : \E g : Leads(g, k)}
<1>0. Len(es) \in Nat
  OBVIOUS
<1>1. 0 \in P
  <2> DEFINE g == [i \in 0 .. 0 |-> s]
  <2>1. Leads(g, 0)
    OBVIOUS
  <2> HIDE DEF Leads
  <2> QED BY <1>0, <2>1
<1>2. ASSUME NEW k \in 1 .. Len(es), k - 1 \in P
      PROVE  k \in P
  <2>1. PICK g : Leads(g, k - 1)
    BY <1>2
  <2> DEFINE h == [i \in 0 .. k |-> IF i = k THEN Step(g[k - 1], es[k]) ELSE g[i]]
  <2>2. k \in Nat /\ k - 1 \in 0 .. (k - 1) /\ 0 \in 0 .. (k - 1) /\ k \in 0 .. Len(es)
    BY <1>0
  <2>3. /\ h[k] = Step(g[k - 1], es[k]) /\ \A i \in 0 .. (k - 1) : h[i] = g[i]
        /\ h = [i \in 0 .. k |-> h[i]]
    BY <2>2
  <2> HIDE DEF h
  <2>4. \A i \in 1 .. k : i = k \/ (i \in 1 .. (k - 1) /\ i \in 0 .. (k - 1) /\ i - 1 \in 0 .. (k - 1))
    BY <2>2
  <2>5. h[0] = s /\ \A i \in 1 .. k : h[i] = Step(h[i - 1], es[i])
    BY <2>1, <2>2, <2>3, <2>4
  <2>6. Leads(h, k)
    BY <2>3, <2>5
  <2> HIDE DEF Leads
  <2> QED BY <2>2, <2>6
<1> HIDE DEF P
<1>3. \A k \in 0 .. Len(es) : k \in P
  BY <1>0, <1>1, <1>2, InductionUpTo
<1>4. Len(es) \in P
  BY <1>0, <1>3
<1> QED BY <1>4 DEF P, Trace

(* A fold is the end of any trace of its steps. *)
LEMMA FoldIsTrace ==
  ASSUME NEW T, NEW es \in Seq(T), NEW s, NEW g, Trace(g, s, es)
  PROVE  Fold(s, es) = g[Len(es)]
<1> DEFINE Def(f) == f = [i \in 0 .. Len(es) |-> IF i = 0 THEN s ELSE Step(f[i - 1], es[i])]
           h == CHOOSE f : Def(f)
<1>0. Len(es) \in Nat /\ Len(es) \in 0 .. Len(es)
  OBVIOUS
<1>1. \E f : Def(f)
  <2>1. PICK f : Trace(f, s, es) /\ f = [i \in 0 .. Len(es) |-> f[i]]
    BY TraceExists
  <2>2. \A i \in 0 .. Len(es) : f[i] = IF i = 0 THEN s ELSE Step(f[i - 1], es[i])
    <3>1. \A i \in 0 .. Len(es) : i = 0 \/ i \in 1 .. Len(es)
      BY <1>0
    <3>2. f[0] = s /\ \A i \in 1 .. Len(es) : f[i] = Step(f[i - 1], es[i])
      BY <2>1, Zenon DEF Trace
    <3>3. \A i \in 1 .. Len(es) : i # 0
      OBVIOUS
    <3> QED BY <3>1, <3>2, <3>3, Zenon
  <2>3. [i \in 0 .. Len(es) |-> f[i]]
          = [i \in 0 .. Len(es) |-> IF i = 0 THEN s ELSE Step(f[i - 1], es[i])]
    BY <2>2
  <2> QED BY <2>1, <2>3, Zenon
<1>2. Def(h)
  <2> HIDE DEF Def
  <2> QED BY <1>1
<1>3. Fold(s, es) = h[Len(es)]
  BY Zenon DEF Fold
<1> HIDE DEF h
<1>4. Trace(h, s, es)
  <2>1. \A i \in 0 .. Len(es) : h[i] = IF i = 0 THEN s ELSE Step(h[i - 1], es[i])
    BY <1>2, Zenon
  <2> QED BY <1>0, <2>1 DEF Trace
<1> QED BY <1>0, <1>3, <1>4, TraceUnique

LEMMA FoldEmpty ==
  ASSUME NEW s
  PROVE  Fold(s, << >>) = s
<1> DEFINE g == [i \in 0 .. 0 |-> s]
<1>1. << >> \in Seq({}) /\ Len(<< >>) = 0 /\ g[0] = s /\ 1 .. 0 = {}
  OBVIOUS
<1> HIDE DEF g
<1>2. Trace(g, s, << >>)
  BY <1>1 DEF Trace
<1> QED BY <1>1, <1>2, FoldIsTrace

(* Two parts, one after the other: their traces are joined. *)
LEMMA FoldConcat ==
  ASSUME NEW T, NEW es \in Seq(T), NEW fs \in Seq(T), NEW s
  PROVE  Fold(s, es \o fs) = Fold(Fold(s, es), fs)
<1> DEFINE m == Len(es)
           n == Len(fs)
           all == es \o fs
<1>1. PICK g : Trace(g, s, es)
  BY TraceExists
<1>2. PICK h : Trace(h, g[m], fs)
  BY TraceExists
<1>3. Fold(s, es) = g[m] /\ Fold(g[m], fs) = h[n]
  BY <1>1, <1>2, FoldIsTrace
<1> DEFINE j == [i \in 0 .. (m + n) |-> IF i <= m THEN g[i] ELSE h[i - m]]
<1>4. /\ m \in Nat /\ n \in Nat /\ all \in Seq(T) /\ Len(all) = m + n
      /\ \A i \in 1 .. m : all[i] = es[i]
      /\ \A i \in 1 .. (m + n) : i > m => all[i] = fs[i - m]
  OBVIOUS
<1> HIDE DEF m, n, all
<1>5. /\ \A i \in 0 .. m : j[i] = g[i]
      /\ \A i \in 0 .. (m + n) : i > m => j[i] = h[i - m]
  BY <1>4
<1> HIDE DEF j
<1>6. /\ g[0] = s /\ \A i \in 1 .. m : g[i] = Step(g[i - 1], es[i])
      /\ h[0] = g[m] /\ \A i \in 1 .. n : h[i] = Step(h[i - 1], fs[i])
  BY <1>1, <1>2 DEF Trace, m, n
<1>7. ASSUME NEW i \in 1 .. (m + n)
      PROVE  j[i] = Step(j[i - 1], all[i])
  <2>1. CASE i <= m
    <3>1. i \in 1 .. m /\ i \in 0 .. m /\ i - 1 \in 0 .. m
      BY <1>4, <2>1
    <3> QED BY <1>4, <1>5, <1>6, <3>1
  <2>2. CASE i > m
    <3>1. /\ i - m \in 1 .. n /\ i \in 0 .. (m + n) /\ i - 1 \in 0 .. (m + n)
          /\ (i - m) - 1 = (i - 1) - m
      BY <1>4, <2>2
    <3>2. j[i] = h[i - m] /\ all[i] = fs[i - m] /\ h[i - m] = Step(h[(i - 1) - m], fs[i - m])
      BY <1>4, <1>5, <1>6, <2>2, <3>1
    <3>3. j[i - 1] = h[(i - 1) - m]
      <4>1. CASE i - 1 = m
        <5>1. m \in 0 .. m /\ (i - 1) - m = 0
          BY <1>4, <4>1
        <5> QED BY <1>5, <1>6, <4>1, <5>1
      <4>2. CASE i - 1 > m
        BY <1>5, <3>1, <4>2
      <4> QED BY <1>4, <2>2, <4>1, <4>2
    <3> QED BY <3>2, <3>3
  <2> QED BY <1>4, <2>1, <2>2
<1>8. Trace(j, s, all)
  <2>1. 0 \in 0 .. m
    BY <1>4
  <2> QED BY <1>4, <1>5, <1>6, <1>7, <2>1 DEF Trace
<1>9. Fold(s, all) = j[m + n]
  BY <1>4, <1>8, FoldIsTrace
<1>10. j[m + n] = h[n]
  <2>1. CASE n = 0
    <3>1. m + n = m /\ m \in 0 .. m
      BY <1>4, <2>1
    <3> QED BY <1>5, <1>6, <2>1, <3>1
  <2>2. CASE n # 0
    <3>1. m + n > m /\ (m + n) - m = n /\ m + n \in 0 .. (m + n)
      BY <1>4, <2>2
    <3> QED BY <1>5, <3>1
  <2> QED BY <2>1, <2>2
<1> QED BY <1>3, <1>9, <1>10 DEF all, m, n

(* One element alone, and one more at the end. *)
LEMMA FoldOne ==
  ASSUME NEW T, NEW e \in T, NEW s
  PROVE  Fold(s, <<e>>) = Step(s, e)
<1> DEFINE g == [i \in 0 .. 1 |-> IF i = 0 THEN s ELSE Step(s, e)]
<1>1. <<e>> \in Seq(T) /\ Len(<<e>>) = 1 /\ <<e>>[1] = e /\ g[0] = s /\ g[1] = Step(s, e)
  OBVIOUS
<1>2. \A i \in 1 .. 1 : i = 1 /\ i - 1 = 0
  OBVIOUS
<1> HIDE DEF g
<1>3. Trace(g, s, <<e>>)
  BY <1>1, <1>2 DEF Trace
<1> QED BY <1>1, <1>3, FoldIsTrace

LEMMA FoldAppend ==
  ASSUME NEW T, NEW es \in Seq(T), NEW e \in T, NEW s
  PROVE  Fold(s, Append(es, e)) = Step(Fold(s, es), e)
<1>1. <<e>> \in Seq(T) /\ Append(es, e) = es \o <<e>>
  OBVIOUS
<1>2. Fold(s, es \o <<e>>) = Fold(Fold(s, es), <<e>>)
  BY <1>1, FoldConcat
<1> QED BY <1>1, <1>2, FoldOne

(* What is kept from one place to the next: Q holds places with states.    *)
LEMMA FoldReaches ==
  ASSUME NEW T, NEW es \in Seq(T), NEW s, NEW Q, <<0, s>> \in Q,
         \A i \in 1 .. Len(es) : \A x :
           <<i - 1, x>> \in Q => <<i, Step(x, es[i])>> \in Q
  PROVE  <<Len(es), Fold(s, es)>> \in Q
<1>1. PICK g : Trace(g, s, es)
  BY TraceExists
<1> DEFINE P == {i \in 0 .. Len(es) : <<i, g[i]>> \in Q}
<1>2. Len(es) \in Nat
  OBVIOUS
<1>3. 0 \in P
  BY <1>1, <1>2 DEF Trace
<1>4. ASSUME NEW i \in 1 .. Len(es), i - 1 \in P
      PROVE  i \in P
  <2>1. g[i] = Step(g[i - 1], es[i])
    BY <1>1 DEF Trace
  <2> QED BY <1>2, <1>4, <2>1
<1> HIDE DEF P
<1>5. \A i \in 0 .. Len(es) : i \in P
  BY <1>2, <1>3, <1>4, InductionUpTo
<1>6. Len(es) \in P
  BY <1>2, <1>5
<1>7. Fold(s, es) = g[Len(es)]
  BY <1>1, FoldIsTrace
<1> QED BY <1>6, <1>7 DEF P

LEMMA FoldStays ==
  ASSUME NEW T, NEW es \in Seq(T), NEW S, NEW s \in S,
         \A x \in S, e \in T : Step(x, e) \in S
  PROVE  Fold(s, es) \in S
<1> DEFINE Q == Nat \X S
<1>1. Len(es) \in Nat /\ \A i \in 1 .. Len(es) : i \in Nat /\ es[i] \in T
  OBVIOUS
<1>2. \A i \in 1 .. Len(es) : \A x : <<i - 1, x>> \in Q => <<i, Step(x, es[i])>> \in Q
  BY <1>1
<1>3. <<Len(es), Fold(s, es)>> \in Q
  <2> HIDE DEF Q
  <2>1. <<0, s>> \in Q
    BY DEF Q
  <2> QED BY <1>2, <2>1, FoldReaches
<1> QED BY <1>3

LEMMA LeftFoldIsFold ==
  ASSUME NEW T, NEW es \in Seq(T), NEW s
  PROVE  LeftFold(s, es) = Fold(s, es)
<1> DEFINE n == Len(es)
           After(f, A) == IF A = {} THEN s ELSE Step(f[A \ {Greatest(A)}], es[Greatest(A)])
           Def(f) == f = [A \in SUBSET (1 .. n) |-> After(f, A)]
           h == CHOOSE f : Def(f)
           P == {k \in 0 .. n : \E f : \A A \in SUBSET (1 .. k) : f[A] = After(f, A)}
<1>0. n \in Nat /\ n \in 0 .. n /\ DOMAIN es = 1 .. n
  OBVIOUS
<1>1. LeftFold(s, es) = h[DOMAIN es]
  BY <1>0, Zenon DEF LeftFold
<1>2. \A k \in 1 .. n : \A A \in SUBSET (1 .. k) :
        IF k \in A THEN Greatest(A) = k /\ A \ {Greatest(A)} \in SUBSET (1 .. k - 1)
        ELSE A \in SUBSET (1 .. k - 1)
  <2> SUFFICES ASSUME NEW k \in 1 .. n, NEW A \in SUBSET (1 .. k)
               PROVE  IF k \in A THEN Greatest(A) = k /\ A \ {Greatest(A)} \in SUBSET (1 .. k - 1)
                      ELSE A \in SUBSET (1 .. k - 1)
    OBVIOUS
  <2>1. k \in Nat
    BY <1>0
  <2>2. CASE k \in A
    <3>1. \A y \in A : y \in Nat /\ k >= y
      BY <2>1
    <3>2. \A x \in A : (\A y \in A : x >= y) => x = k
      BY <2>1, <2>2, <3>1
    <3>3. Greatest(A) = k
      BY <2>2, <3>1, <3>2 DEF Greatest
    <3> QED BY <2>1, <2>2, <3>3
  <2>3. CASE k \notin A
    BY <2>1, <2>3
  <2> QED BY <2>2, <2>3
<1>3. 0 \in P
  <2> DEFINE f == [A \in {{}} |-> s]
  <2>1. f[{}] = s /\ \A A \in SUBSET (1 .. 0) : A = {}
    OBVIOUS
  <2> HIDE DEF f
  <2>2. \A A \in SUBSET (1 .. 0) : f[A] = After(f, A)
    BY <2>1
  <2> HIDE DEF After, n
  <2>3. 0 \in 0 .. n /\ \E j : \A A \in SUBSET (1 .. 0) : j[A] = After(j, A)
    BY <1>0, <2>2
  <2> QED BY <2>3
<1>4. ASSUME NEW k \in 1 .. n, k - 1 \in P
      PROVE  k \in P
  <2>1. PICK f : \A A \in SUBSET (1 .. k - 1) : f[A] = After(f, A)
    BY <1>4
  <2> DEFINE g == [A \in SUBSET (1 .. k) |-> IF k \in A THEN Step(f[A \ {k}], es[k]) ELSE f[A]]
  <2>2. \A A \in SUBSET (1 .. k) : IF k \in A THEN g[A] = Step(f[A \ {k}], es[k]) ELSE g[A] = f[A]
    OBVIOUS
  <2> HIDE DEF g
  <2>3. k \in Nat /\ 1 .. k - 1 \subseteq 1 .. k
    BY <1>0
  <2>4. ASSUME NEW A \in SUBSET (1 .. k - 1)
        PROVE  A \in SUBSET (1 .. k) /\ k \notin A /\ A \ {Greatest(A)} \in SUBSET (1 .. k - 1)
    <3>1. k \notin 1 .. k - 1
      BY <2>3
    <3> QED BY <2>3, <3>1
  <2>5. ASSUME NEW A \in SUBSET (1 .. k)
        PROVE  g[A] = After(g, A)
    <3>1. CASE k \in A
      <4>1. Greatest(A) = k /\ A \ {k} \in SUBSET (1 .. k - 1) /\ A # {}
        BY <1>2, <3>1
      <4>2. g[A \ {k}] = f[A \ {k}]
        BY <2>2, <2>4, <4>1
      <4> QED BY <2>2, <3>1, <4>1, <4>2
    <3>2. CASE k \notin A
      <4>1. A \in SUBSET (1 .. k - 1)
        BY <1>2, <3>2
      <4>2. g[A] = f[A] /\ f[A] = After(f, A)
        BY <2>1, <2>2, <3>2, <4>1
      <4>3. g[A \ {Greatest(A)}] = f[A \ {Greatest(A)}]
        BY <2>2, <2>4, <4>1
      <4> QED BY <4>2, <4>3
    <3> QED BY <3>1, <3>2
  <2> HIDE DEF After
  <2> QED BY <1>0, <2>5
<1>5. n \in P
  <2> HIDE DEF P, n
  <2>1. \A k \in 0 .. n : k \in P
    BY <1>0, <1>3, <1>4, InductionUpTo
  <2> QED BY <1>0, <2>1
<1>6. Def(h)
  <2>1. PICK f : \A A \in SUBSET (1 .. n) : f[A] = After(f, A)
    BY <1>5
  <2> DEFINE g == [A \in SUBSET (1 .. n) |-> f[A]]
  <2>2. \A A \in SUBSET (1 .. n) : g[A] = f[A] /\ g[A \ {Greatest(A)}] = f[A \ {Greatest(A)}]
    <3>1. \A A \in SUBSET (1 .. n) : A \ {Greatest(A)} \in SUBSET (1 .. n)
      OBVIOUS
    <3> QED BY <3>1
  <2> HIDE DEF n
  <2>3. \A A \in SUBSET (1 .. n) : f[A] = After(g, A)
    <3> HIDE DEF g
    <3> QED BY <2>1, <2>2
  <2> HIDE DEF After
  <2>4. Def(g)
    BY <2>3
  <2> HIDE DEF g, Def
  <2> QED BY <2>4
<1>7. \A A \in SUBSET (1 .. n) : h[A] = After(h, A)
  <2> HIDE DEF After, h
  <2> QED BY <1>6
<1> DEFINE g == [i \in 0 .. n |-> h[1 .. i]]
<1>8. Trace(g, s, es)
  <2> HIDE DEF h
  <2>1. g[0] = s
    <3>1. 1 .. 0 = {} /\ g[0] = h[1 .. 0] /\ {} \in SUBSET (1 .. n)
      BY <1>0
    <3> QED BY <1>7, <3>1
  <2>2. ASSUME NEW i \in 1 .. n
        PROVE  g[i] = Step(g[i - 1], es[i])
    <3>1. /\ i \in 0 .. n /\ i - 1 \in 0 .. n /\ i \in 1 .. i /\ 1 .. i \in SUBSET (1 .. n)
          /\ (1 .. i) \ {i} = 1 .. i - 1 /\ 1 .. i \in SUBSET (1 .. i)
      BY <1>0
    <3>2. Greatest(1 .. i) = i /\ 1 .. i # {}
      BY <1>2, <3>1
    <3>3. h[1 .. i] = Step(h[1 .. i - 1], es[i])
      BY <1>7, <3>1, <3>2
    <3> QED BY <3>1, <3>3
  <2> HIDE DEF g
  <2> QED BY <2>1, <2>2 DEF Trace
<1>9. Fold(s, es) = g[n]
  BY <1>8, FoldIsTrace
<1> QED BY <1>0, <1>1, <1>9

(* So is their fold the end of a trace. *)
LEMMA LeftTrace ==
  ASSUME NEW T, NEW es \in Seq(T), NEW s
  PROVE  \E g : Trace(g, s, es) /\ LeftFold(s, es) = g[Len(es)]
<1>1. PICK g : Trace(g, s, es)
  BY TraceExists
<1>2. LeftFold(s, es) = g[Len(es)]
  BY <1>1, LeftFoldIsFold, FoldIsTrace
<1> QED BY <1>1, <1>2
-----------------------------------------------------------------------------
(* To flatten a sequence of sequences is to fold them by concatenation.    *)
Concatenates == \A s, t : Step(s, t) = s \o t

LEMMA FlattenIsFold ==
  ASSUME Concatenates, NEW T, NEW parts \in Seq(Seq(T))
  PROVE  Flattened(parts) = Fold(<< >>, parts)
<1> DEFINE n == Len(parts)
           Def(f) == f = [i \in 1 .. n |-> IF i = 1 THEN parts[i] ELSE f[i - 1] \o parts[i]]
           h == CHOOSE f : Def(f)
<1>0. n \in Nat
  OBVIOUS
<1>1. CASE n = 0
  <2>1. parts = << >>
    BY <1>1
  <2>2. Flattened(parts) = parts
    BY <1>1, Zenon DEF Flattened
  <2> QED BY <2>1, <2>2, FoldEmpty
<1>2. CASE n # 0
  <2>1. PICK g : Trace(g, << >>, parts)
    BY TraceExists
  <2>2. g[0] = << >> /\ \A i \in 1 .. n : g[i] = g[i - 1] \o parts[i]
    BY <2>1 DEF Trace, Concatenates
  <2>3. g[1] = parts[1]
    <3>1. 1 \in 1 .. n /\ 1 - 1 = 0 /\ parts[1] \in Seq(T)
      BY <1>0, <1>2
    <3>2. g[1] = << >> \o parts[1]
      BY <2>2, <3>1
    <3> QED BY <3>1, <3>2
  <2>4. Def([i \in 1 .. n |-> g[i]])
    <3>1. \A i \in 1 .. n : i = 1 \/ i - 1 \in 1 .. n
      BY <1>0
    <3> QED BY <2>2, <2>3, <3>1
  <2>5. Def(h)
    <3> HIDE DEF Def
    <3> QED BY <2>4
  <2>6. Flattened(parts) = h[n]
    BY <1>2, Zenon DEF Flattened
  <2> HIDE DEF h
  <2>7. /\ h[1] = parts[1]
        /\ \A i \in 1 .. n : i # 1 => h[i] = h[i - 1] \o parts[i]
    <3>1. \A i \in 1 .. n : h[i] = IF i = 1 THEN parts[i] ELSE h[i - 1] \o parts[i]
      BY <2>5, Zenon
    <3>2. 1 \in 1 .. n
      BY <1>0, <1>2
    <3> QED BY <3>1, <3>2
  <2> DEFINE j == [i \in 0 .. n |-> IF i = 0 THEN << >> ELSE h[i]]
  <2>8. j[0] = << >> /\ \A i \in 1 .. n : j[i] = h[i]
    BY <1>0
  <2> HIDE DEF j
  <2>9. ASSUME NEW i \in 1 .. n
        PROVE  j[i] = j[i - 1] \o parts[i]
    <3>1. CASE i = 1
      <4>1. i - 1 = 0 /\ parts[1] \in Seq(T)
        BY <1>0, <1>2, <3>1
      <4>2. << >> \o parts[1] = parts[1]
        BY <4>1
      <4> QED BY <2>7, <2>8, <3>1, <4>1, <4>2
    <3>2. CASE i # 1
      <4>1. i - 1 \in 1 .. n
        BY <1>0, <3>2
      <4> QED BY <2>7, <2>8, <3>2, <4>1
    <3> QED BY <3>1, <3>2
  <2>10. Trace(j, << >>, parts)
    BY <2>8, <2>9 DEF Trace, Concatenates
  <2>11. Fold(<< >>, parts) = j[n]
    BY <2>10, FoldIsTrace
  <2> QED BY <1>0, <1>2, <2>6, <2>8, <2>11
<1> QED BY <1>1, <1>2

LEMMA FlattenType ==
  ASSUME Concatenates, NEW T, NEW parts \in Seq(Seq(T))
  PROVE  Flattened(parts) \in Seq(T)
<1> DEFINE n == Len(parts)
<1>1. PICK g : Trace(g, << >>, parts)
  BY TraceExists
<1>2. Flattened(parts) = g[n]
  BY <1>1, FlattenIsFold, FoldIsTrace
<1> DEFINE P == {i \in 0 .. n : g[i] \in Seq(T)}
<1>3. g[0] = << >> /\ \A i \in 1 .. n : g[i] = g[i - 1] \o parts[i]
  BY <1>1 DEF Trace, Concatenates
<1>4. n \in Nat /\ << >> \in Seq(T)
  OBVIOUS
<1>0. 0 \in P
  <2>1. g[0] \in Seq(T)
    BY <1>3, <1>4
  <2>2. 0 \in 0 .. n
    BY <1>4
  <2> QED BY <2>1, <2>2
<1>5. ASSUME NEW i \in 1 .. n, i - 1 \in P
      PROVE  i \in P
  <2>1. g[i - 1] \in Seq(T) /\ parts[i] \in Seq(T) /\ i \in 0 .. n
    BY <1>5
  <2>2. g[i - 1] \o parts[i] \in Seq(T)
    BY <2>1
  <2> QED BY <1>3, <2>1, <2>2
<1> HIDE DEF P
<1>6. \A i \in 0 .. n : i \in P
  BY <1>0, <1>4, <1>5, InductionUpTo
<1> QED BY <1>2, <1>4, <1>6 DEF P

(* Ids are numbers: there is a last one. *)
LEMMA LastId ==
  ASSUME NEW k \in Nat, NEW ids \in SUBSET (1 .. k)
  PROVE  Greatest(ids \union {0}) \in Nat /\ \A i \in ids : i <= Greatest(ids \union {0})
<1> DEFINE all == ids \union {0}
           Below == {k - i : i \in all}
<1>1. \A i \in all : i \in Nat /\ k - i \in Nat
  OBVIOUS
<1>2. Below \in SUBSET Nat /\ Below # {}
  BY <1>1
<1>3. PICK q \in Below : \A p \in Below : q <= p
  BY <1>2, Least
<1>4. PICK x \in all : q = k - x
  BY <1>3
<1>5. ASSUME NEW i \in all PROVE x >= i
  <2>1. k - i \in Below
    OBVIOUS
  <2> HIDE DEF Below
  <2>2. k - x <= k - i
    BY <1>3, <1>4, <2>1
  <2>3. i \in Nat /\ x \in Nat
    BY <1>1
  <2> HIDE DEF all
  <2> QED BY <2>2, <2>3
<1> HIDE DEF all
<1>6. Greatest(all) \in all /\ \A i \in all : Greatest(all) >= i
  BY <1>4, <1>5, Zenon DEF Greatest
<1> QED BY <1>1, <1>6 DEF all
=============================================================================
