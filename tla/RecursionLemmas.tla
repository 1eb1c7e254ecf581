--------------------------- MODULE RecursionLemmas ---------------------------
(***************************************************************************)
(* Induction for the other proofs.  The induction theorems of the library  *)
(* are about any predicate, which the provers here cannot instantiate;     *)
(* that every set of naturals has a least element is a fact about sets,    *)
(* and follows from the theorems about well-founded relations.  From it:   *)
(* induction along a set, the greatest element of a bounded set, and what  *)
(* FlattenSeq, which is defined by recursion, does: that it joins, that    *)
(* pieces shifted between neighbours leave the whole alone, and what it    *)
(* makes of what each element of a sequence has.                           *)
(***************************************************************************)
EXTENDS Integers, SequencesExt, SequenceTheorems, WellFoundedInduction, TLAPS

LEMMA LeastElement ==
  ASSUME NEW T, T \subseteq Nat, T # {}
  PROVE  \E x \in T : \A y \in T : x <= y
<1> DEFINE R == OpToRel(<, Nat)
<1>1. IsWellFoundedOn(R, Nat)
  BY NatLessThanWellFounded
<1>2. \A x, y \in Nat : y < x => <<y, x>> \in R
  BY DEF OpToRel
<1> HIDE DEF R
<1>3. PICK x \in T : \A y \in T : ~(<<y, x>> \in R)
  BY <1>1, WFMin
<1>4. \A y \in T : y \in Nat /\ x \in Nat /\ ~(y < x)
  BY <1>2, <1>3
<1>5. \A y \in T : x <= y
  BY <1>4
<1>6. QED
  BY <1>5

(* A set with 0 and the successor of each of its naturals has them all.    *)
LEMMA NatSet ==
  ASSUME NEW T, 0 \in T, \A n \in Nat : n \in T => n + 1 \in T
  PROVE  Nat \subseteq T
<1> SUFFICES ASSUME Nat \ T # {} PROVE FALSE
  OBVIOUS
<1>1. PICK x \in Nat \ T : \A y \in Nat \ T : x <= y
  BY LeastElement
<1>2. x - 1 \in Nat /\ x - 1 \in T
  BY <1>1
<1>3. QED
  BY <1>1, <1>2

(* The same, where everything smaller may be used.                         *)
LEMMA NatSetBelow ==
  ASSUME NEW T, \A n \in Nat : (\A m \in 0..(n - 1) : m \in T) => n \in T
  PROVE  Nat \subseteq T
<1> SUFFICES ASSUME Nat \ T # {} PROVE FALSE
  OBVIOUS
<1>1. PICK x \in Nat \ T : \A y \in Nat \ T : x <= y
  BY LeastElement
<1>2. \A m \in 0..(x - 1) : m \in T
  BY <1>1
<1>3. QED
  BY <1>1, <1>2

(* Max of a set between two numbers is in it, and above all of it.         *)
LEMMA MaxIsGreatest ==
  ASSUME NEW n \in Nat, NEW S, S \subseteq 0..n, S # {}
  PROVE  Max(S) \in S /\ \A y \in S : y <= Max(S)
<1> DEFINE T == {n - y : y \in S}
<1>1. T \subseteq Nat /\ T # {}
  <2>1. \A y \in S : n - y \in Nat
    OBVIOUS
  <2>2. QED
    BY <2>1
<1>2. PICK t \in T : \A u \in T : t <= u
  BY <1>1, LeastElement
<1>3. PICK x \in S : t = n - x
  BY <1>2
<1>4. \A y \in S : x >= y
  <2>1. SUFFICES ASSUME NEW y \in S PROVE x >= y
    OBVIOUS
  <2>2. n - x <= n - y
    BY <1>2, <1>3
  <2>3. QED
    BY <2>2
<1>5. \E z \in S : \A y \in S : z >= y
  BY <1>4
<1>6. Max(S) \in S /\ \A y \in S : Max(S) >= y
  BY <1>5 DEF Max
<1>7. QED
  BY <1>6

LEMMA MinOfTwo ==
  ASSUME NEW a \in Int, NEW b \in Int
  PROVE  Min({a, b}) = IF a <= b THEN a ELSE b
  BY DEF Min

-----------------------------------------------------------------------------
(* Sequences.                                                              *)

LEMMA HeadTailAgain ==
  ASSUME NEW X, NEW s \in Seq(X), s # << >> PROVE <<Head(s)>> \o Tail(s) = s
  OBVIOUS

LEMMA ConcatIs ==
  ASSUME NEW X, NEW a \in Seq(X), NEW b \in Seq(X), NEW c \in Seq(X), Len(c) = Len(a) + Len(b),
         \A i \in 1..Len(a) : c[i] = a[i], \A i \in 1..Len(b) : c[Len(a) + i] = b[i]
  PROVE  c = a \o b
<1>1. /\ a \o b \in Seq(X) /\ Len(a \o b) = Len(c) /\ Len(a) \in Nat /\ Len(b) \in Nat
      /\ \A i \in 1..Len(a) : (a \o b)[i] = a[i]
      /\ \A i \in 1..Len(b) : (a \o b)[Len(a) + i] = b[i]
  OBVIOUS
<1>2. \A i \in 1..Len(c) : c[i] = (a \o b)[i]
  <2>1. SUFFICES ASSUME NEW i \in 1..Len(c) PROVE c[i] = (a \o b)[i]
    OBVIOUS
  <2>2. CASE i \in 1..Len(a)
    BY <1>1, <2>2
  <2>3. CASE i \notin 1..Len(a)
    <3>1. i - Len(a) \in 1..Len(b) /\ Len(a) + (i - Len(a)) = i
      BY <1>1, <2>3
    <3>2. c[Len(a) + (i - Len(a))] = (a \o b)[Len(a) + (i - Len(a))]
      BY <1>1, <3>1
    <3>3. QED
      BY <3>1, <3>2
  <2>4. QED
    BY <2>2, <2>3
<1>3. QED
  BY <1>1, <1>2, SeqEqual

-----------------------------------------------------------------------------
(* FlattenSeq.                                                             *)

(* h has what the first n sequences of s are together.                     *)
Flattens(s, h, n) == h = [i \in 1..n |-> IF i = 1 THEN s[i] ELSE h[i - 1] \o s[i]]

LEMMA FlatteningStep ==
  ASSUME NEW s, NEW n \in Nat, NEW h, Flattens(s, h, n)
  PROVE  \E g : Flattens(s, g, n + 1)
<1> DEFINE g == [i \in 1..(n + 1) |-> IF i = 1 THEN s[1] ELSE h[i - 1] \o s[i]]
<1>1. \A i \in 1..n : h[i] = IF i = 1 THEN s[i] ELSE h[i - 1] \o s[i]
  BY DEF Flattens
<1>2. \A i \in 1..n : g[i] = h[i]
  BY <1>1
<1>3. \A i \in 1..(n + 1) : i # 1 => i - 1 \in 1..n
  OBVIOUS
<1>4. \A i \in 1..(n + 1) : g[i] = IF i = 1 THEN s[i] ELSE g[i - 1] \o s[i]
  BY <1>2, <1>3
<1>5. g = [i \in 1..(n + 1) |-> g[i]]
  OBVIOUS
<1>6. g = [i \in 1..(n + 1) |-> IF i = 1 THEN s[i] ELSE g[i - 1] \o s[i]]
  BY <1>4, <1>5, Zenon
<1> HIDE DEF g
<1>7. QED
  BY <1>6 DEF Flattens

LEMMA FlatteningExists ==
  ASSUME NEW s, NEW m \in Nat PROVE \E h : Flattens(s, h, m)
<1> DEFINE T == {n \in Nat : \E h : Flattens(s, h, n)}
<1>1. 0 \in T
  <2>1. Flattens(s, << >>, 0)
    BY DEF Flattens
  <2>2. QED
    BY <2>1
<1>2. \A n \in Nat : n \in T => n + 1 \in T
  BY FlatteningStep
<1> HIDE DEF T
<1>3. m \in T
  BY <1>1, <1>2, NatSet
<1>4. QED
  BY <1>3 DEF T

LEMMA FlatteningOf ==
  ASSUME NEW s, Len(s) \in Nat \ {0}
  PROVE  \E h : /\ h[1] = s[1]
                /\ \A i \in 1..(Len(s) - 1) : h[i + 1] = h[i] \o s[i + 1]
                /\ FlattenSeq(s) = h[Len(s)]
<1> DEFINE f == CHOOSE h : Flattens(s, h, Len(s))
<1>1. Flattens(s, f, Len(s))
  BY FlatteningExists
<1>2. FlattenSeq(s) = f[Len(s)]
  BY DEF FlattenSeq, Flattens
<1> HIDE DEF f
<1>3. \A i \in 1..Len(s) : f[i] = IF i = 1 THEN s[i] ELSE f[i - 1] \o s[i]
  BY <1>1 DEF Flattens
<1>4. f[1] = s[1]
  BY <1>3
<1>5. \A i \in 1..(Len(s) - 1) : i + 1 \in 1..Len(s) /\ i + 1 # 1 /\ (i + 1) - 1 = i
  OBVIOUS
<1>6. \A i \in 1..(Len(s) - 1) : f[i + 1] = f[i] \o s[i + 1]
  BY <1>3, <1>5
<1>7. QED
  BY <1>2, <1>4, <1>6

LEMMA FlattenEmpty == FlattenSeq(<< >>) = << >>
  BY DEF FlattenSeq

(* What is true of 1, and of i + 1 with i, is true up to n.                *)
LEMMA UpTo ==
  ASSUME NEW n \in Nat \ {0}, NEW T, 1 \in T, \A i \in 1..(n - 1) : i \in T => i + 1 \in T
  PROVE  1..n \subseteq T
<1> DEFINE U == {i \in Nat : i \in 1..n => i \in T}
<1>1. 0 \in U
  OBVIOUS
<1>2. \A i \in Nat : i \in U => i + 1 \in U
  <2>1. SUFFICES ASSUME NEW i \in Nat, i \in 1..n => i \in T, i + 1 \in 1..n
                 PROVE  i + 1 \in T
    OBVIOUS
  <2>2. i = 0 \/ (i \in 1..(n - 1) /\ i \in 1..n)
    BY <2>1
  <2>3. QED
    BY <2>1, <2>2
<1> HIDE DEF U
<1>3. Nat \subseteq U
  BY <1>1, <1>2, NatSet
<1>4. QED
  BY <1>3 DEF U

(* What sequences are together is made of the same elements.               *)
LEMMA FlattenType ==
  ASSUME NEW X, NEW s \in Seq(Seq(X))
  PROVE  FlattenSeq(s) \in Seq(X)
<1>1. CASE s = << >>
  <2>1. FlattenSeq(s) = << >>
    BY <1>1, FlattenEmpty, Zenon
  <2>2. << >> \in Seq(X)
    OBVIOUS
  <2>3. QED
    BY <2>1, <2>2, Zenon
<1>2. CASE s # << >>
  <2>1. Len(s) \in Nat \ {0} /\ \A i \in 1..Len(s) : s[i] \in Seq(X)
    BY <1>2
  <2>2. PICK h : /\ h[1] = s[1]
                 /\ \A i \in 1..(Len(s) - 1) : h[i + 1] = h[i] \o s[i + 1]
                 /\ FlattenSeq(s) = h[Len(s)]
    BY <2>1, FlatteningOf
  <2> DEFINE T == {i \in 1..Len(s) : h[i] \in Seq(X)}
  <2>3. 1 \in T
    BY <2>1, <2>2
  <2>4. \A i \in 1..(Len(s) - 1) : i \in T => i + 1 \in T
    <3>1. SUFFICES ASSUME NEW i \in 1..(Len(s) - 1), i \in T PROVE i + 1 \in T
      OBVIOUS
    <3>2. i + 1 \in 1..Len(s) /\ h[i + 1] = h[i] \o s[i + 1]
      <4>1. i + 1 \in 1..Len(s)
        BY <2>1
      <4>2. h[i + 1] = h[i] \o s[i + 1]
        BY <2>2
      <4>3. QED
        BY <4>1, <4>2
    <3>3. h[i] \in Seq(X) /\ s[i + 1] \in Seq(X)
      BY <2>1, <3>1, <3>2
    <3>4. h[i] \o s[i + 1] \in Seq(X)
      BY <3>3
    <3>5. QED
      BY <3>2, <3>4
  <2> HIDE DEF T
  <2>5. 1..Len(s) \subseteq T
    BY <2>1, <2>3, <2>4, UpTo, Zenon
  <2>6. Len(s) \in T
    BY <2>1, <2>5
  <2>7. QED
    BY <2>2, <2>6 DEF T
<1>3. QED
  BY <1>1, <1>2

(* One more sequence comes last.                                           *)
LEMMA FlattenAppend ==
  ASSUME NEW X, NEW s \in Seq(Seq(X)), NEW x \in Seq(X)
  PROVE  FlattenSeq(Append(s, x)) = FlattenSeq(s) \o x
<1> DEFINE t == Append(s, x)
<1>1. /\ Len(t) = Len(s) + 1 /\ t[Len(s) + 1] = x
      /\ \A i \in 1..Len(s) : t[i] = s[i]
      /\ Len(s) \in Nat
  OBVIOUS
<1> HIDE DEF t
<1>2. PICK g : /\ g[1] = t[1]
               /\ \A i \in 1..(Len(t) - 1) : g[i + 1] = g[i] \o t[i + 1]
               /\ FlattenSeq(t) = g[Len(t)]
  <2>1. Len(t) \in Nat \ {0}
    BY <1>1
  <2>2. QED
    BY <2>1, FlatteningOf
<1>3. \A i \in 1..Len(s) : g[i + 1] = g[i] \o t[i + 1]
  <2>1. Len(t) - 1 = Len(s)
    BY <1>1
  <2>2. QED
    BY <1>2, <2>1
<1>4. CASE s = << >>
  <2>1. FlattenSeq(t) = x
    BY <1>1, <1>2, <1>4
  <2>2. QED
    BY <1>4, <2>1, FlattenEmpty DEF t
<1>5. CASE s # << >>
  <2>1. Len(s) \in Nat \ {0}
    BY <1>5
  <2>2. PICK h : /\ h[1] = s[1]
                 /\ \A i \in 1..(Len(s) - 1) : h[i + 1] = h[i] \o s[i + 1]
                 /\ FlattenSeq(s) = h[Len(s)]
    BY <2>1, FlatteningOf
  <2> DEFINE T == {i \in 1..Len(s) : g[i] = h[i]}
  <2>3. 1 \in T
    BY <1>1, <1>2, <2>1, <2>2
  <2>4. \A i \in 1..(Len(s) - 1) : i \in T => i + 1 \in T
    <3>1. \A i \in 1..(Len(s) - 1) : i + 1 \in 1..Len(s) /\ i \in 1..Len(s)
      BY <2>1
    <3>2. \A i \in 1..(Len(s) - 1) : t[i + 1] = s[i + 1] /\ g[i + 1] = g[i] \o t[i + 1]
      BY <1>1, <1>3, <3>1
    <3>3. QED
      BY <2>2, <3>1, <3>2
  <2> HIDE DEF T
  <2>5. 1..Len(s) \subseteq T
    BY <2>1, <2>3, <2>4, UpTo, Zenon
  <2>7. Len(s) \in 1..Len(s)
    BY <2>1
  <2>6. g[Len(s)] = FlattenSeq(s)
    BY <2>2, <2>5, <2>7 DEF T
  <2>8. g[Len(s) + 1] = g[Len(s)] \o x
    BY <1>1, <1>3, <2>7
  <2>9. QED
    BY <1>1, <1>2, <2>6, <2>8 DEF t
<1>6. QED
  BY <1>4, <1>5

LEMMA ConcatThree ==
  ASSUME NEW X PROVE \A a, b, c \in Seq(X) : (a \o b) \o c = a \o (b \o c)
<1> SUFFICES ASSUME NEW a \in Seq(X), NEW b \in Seq(X), NEW c \in Seq(X)
             PROVE  (a \o b) \o c = a \o (b \o c)
  OBVIOUS
<1>1. QED
  BY ConcatAssociative

(* What comes first stays first.                                           *)
LEMMA FlattenFirst ==
  ASSUME NEW X, NEW x \in Seq(X), NEW s \in Seq(Seq(X))
  PROVE  FlattenSeq(<<x>> \o s) = x \o FlattenSeq(s)
<1>0. \A a, b, c \in Seq(X) : (a \o b) \o c = a \o (b \o c)
  BY ConcatThree
<1> DEFINE t == <<x>> \o s
<1>1. /\ Len(t) = Len(s) + 1 /\ t[1] = x /\ Len(s) \in Nat
      /\ \A i \in 1..Len(s) : t[i + 1] = s[i]
      /\ \A i \in 1..Len(s) : s[i] \in Seq(X)
  OBVIOUS
<1> HIDE DEF t
<1>2. PICK g : /\ g[1] = t[1]
               /\ \A i \in 1..(Len(t) - 1) : g[i + 1] = g[i] \o t[i + 1]
               /\ FlattenSeq(t) = g[Len(t)]
  <2>1. Len(t) \in Nat \ {0}
    BY <1>1
  <2>2. QED
    BY <2>1, FlatteningOf
<1>3. \A i \in 1..Len(s) : g[i + 1] = g[i] \o s[i]
  <2>1. Len(t) - 1 = Len(s)
    BY <1>1
  <2>2. QED
    BY <1>1, <1>2, <2>1
<1>4. CASE s = << >>
  <2>1. FlattenSeq(t) = x
    BY <1>1, <1>2, <1>4
  <2>2. x \o << >> = x
    OBVIOUS
  <2>3. QED
    BY <1>4, <2>1, <2>2, FlattenEmpty, Zenon DEF t
<1>5. CASE s # << >>
  <2>1. Len(s) \in Nat \ {0}
    BY <1>5
  <2>2. PICK h : /\ h[1] = s[1]
                 /\ \A i \in 1..(Len(s) - 1) : h[i + 1] = h[i] \o s[i + 1]
                 /\ FlattenSeq(s) = h[Len(s)]
    BY <2>1, FlatteningOf
  <2> DEFINE T == {i \in 1..Len(s) : h[i] \in Seq(X) /\ g[i + 1] = x \o h[i]}
  <2>3. 1 \in T
    <3>1. 1 \in 1..Len(s) /\ h[1] \in Seq(X)
      BY <1>1, <2>1, <2>2
    <3>2. g[1 + 1] = x \o h[1]
      BY <1>1, <1>2, <1>3, <2>2, <3>1
    <3>3. QED
      BY <3>1, <3>2
  <2>4. \A i \in 1..(Len(s) - 1) : i \in T => i + 1 \in T
    <3>1. SUFFICES ASSUME NEW i \in 1..(Len(s) - 1), i \in T PROVE i + 1 \in T
      OBVIOUS
    <3>2. i + 1 \in 1..Len(s)
      BY <2>1
    <3>3. h[i] \in Seq(X) /\ g[i + 1] = x \o h[i] /\ s[i + 1] \in Seq(X)
      BY <1>1, <3>1, <3>2
    <3>4. h[i + 1] = h[i] \o s[i + 1]
      BY <2>2
    <3>5. g[(i + 1) + 1] = (x \o h[i]) \o s[i + 1]
      BY <1>3, <3>2, <3>3
    <3>6. h[i] \o s[i + 1] \in Seq(X) /\ (x \o h[i]) \o s[i + 1] = x \o (h[i] \o s[i + 1])
      <4>1. h[i] \in Seq(X) /\ s[i + 1] \in Seq(X)
        BY <3>3
      <4>2. h[i] \o s[i + 1] \in Seq(X)
        BY <4>1
      <4>3. (x \o h[i]) \o s[i + 1] = x \o (h[i] \o s[i + 1])
        BY <4>1, <1>0, Zenon
      <4>4. QED
        BY <4>2, <4>3
    <3>7. QED
      BY <3>2, <3>4, <3>5, <3>6
  <2> HIDE DEF T
  <2>5. 1..Len(s) \subseteq T
    BY <2>1, <2>3, <2>4, UpTo, Zenon
  <2>6. Len(s) \in 1..Len(s)
    BY <2>1
  <2>7. g[Len(s) + 1] = x \o FlattenSeq(s)
    BY <2>2, <2>5, <2>6 DEF T
  <2>8. QED
    BY <1>1, <1>2, <2>7 DEF t
<1>6. QED
  BY <1>4, <1>5

(* Sequences of one element each are a sequence of these elements.         *)
LEMMA FlattenSingles ==
  ASSUME NEW n \in Nat, NEW x, x = [i \in 1..n |-> x[i]],
         NEW s, s = [i \in 1..n |-> <<x[i]>>]
  PROVE  FlattenSeq(s) = x
<1>0. Len(s) = n /\ \A i \in 1..n : s[i] = <<x[i]>>
  OBVIOUS
<1>1. CASE n = 0
  <2>1. s = << >> /\ x = << >>
    BY <1>1
  <2>2. QED
    BY <2>1, FlattenEmpty
<1>2. CASE n # 0
  <2>1. PICK h : /\ h[1] = s[1]
                 /\ \A i \in 1..(Len(s) - 1) : h[i + 1] = h[i] \o s[i + 1]
                 /\ FlattenSeq(s) = h[Len(s)]
    BY <1>0, <1>2, FlatteningOf
  <2> DEFINE T == {i \in 1..n : h[i] = [j \in 1..i |-> x[j]]}
  <2>2. 1 \in T
    BY <1>0, <1>2, <2>1
  <2>3. ASSUME NEW i \in 1..(n - 1), i \in T PROVE i + 1 \in T
    <3>0. i + 1 \in 1..n /\ i \in 1..(Len(s) - 1) /\ h[i] = [j \in 1..i |-> x[j]]
      BY <1>0, <2>3
    <3>1. h[i + 1] = [j \in 1..i |-> x[j]] \o <<x[i + 1]>>
      <4>1. h[i + 1] = h[i] \o s[i + 1] /\ s[i + 1] = <<x[i + 1]>>
        BY <1>0, <2>1, <3>0
      <4>2. QED
        BY <3>0, <4>1
    <3>2. [j \in 1..i |-> x[j]] \o <<x[i + 1]>> = [j \in 1..(i + 1) |-> x[j]]
      OBVIOUS
    <3>3. h[i + 1] = [j \in 1..(i + 1) |-> x[j]]
      BY <3>1, <3>2
    <3>4. QED
      BY <3>0, <3>3
  <2> HIDE DEF T
  <2>4. n \in T
    BY <1>2, <2>2, <2>3, UpTo
  <2>5. QED
    BY <1>0, <2>1, <2>4 DEF T
<1>3. QED
  BY <1>1, <1>2

-----------------------------------------------------------------------------
(* Finitely many naturals are bounded.                                     *)
LEMMA BoundOf ==
  ASSUME NEW n \in Nat, NEW f, \A i \in 1..n : f[i] \in Nat
  PROVE  \E b \in Nat : \A i \in 1..n : f[i] <= b
<1> DEFINE Bounded(m) == \E b \in Nat : \A i \in 1..n : i <= m => f[i] <= b
           T == {m \in Nat : Bounded(m)}
<1>1. 0 \in T
  <2>1. \A i \in 1..n : i <= 0 => f[i] <= 0
    OBVIOUS
  <2>2. QED
    BY <2>1
<1>2. ASSUME NEW m \in Nat, Bounded(m) PROVE Bounded(m + 1)
  <2>1. PICK b \in Nat : \A i \in 1..n : i <= m => f[i] <= b
    BY <1>2
  <2>2. CASE m + 1 \in 1..n
    <3> DEFINE c == IF f[m + 1] <= b THEN b ELSE f[m + 1]
    <3>1. c \in Nat /\ b <= c /\ f[m + 1] <= c
      BY <2>2
    <3>2. \A i \in 1..n : i <= m + 1 => (i <= m \/ i = m + 1)
      OBVIOUS
    <3> HIDE DEF c
    <3>3. \A i \in 1..n : i <= m + 1 => f[i] <= c
      BY <2>1, <3>1, <3>2
    <3>4. QED
      BY <3>1, <3>3
  <2>3. CASE m + 1 \notin 1..n
    <3>1. \A i \in 1..n : i <= m + 1 => i <= m
      BY <2>3
    <3>2. QED
      BY <2>1, <3>1
  <2>4. QED
    BY <2>2, <2>3
<1> HIDE DEF Bounded
<1>3. \A m \in Nat : m \in T => m + 1 \in T
  BY <1>2
<1> HIDE DEF T
<1>4. n \in T
  BY <1>1, <1>3, NatSet
<1>5. Bounded(n)
  BY <1>4 DEF T
<1>6. PICK b \in Nat : \A i \in 1..n : i <= n => f[i] <= b
  BY <1>5 DEF Bounded
<1>7. QED
  BY <1>6

(* Where only the members of K leave an element, the elements of K are     *)
(* left, in their order.                                                   *)
IsSelection(g, K, n) ==
  /\ g \in Seq(1..n)
  /\ \A i, j \in 1..Len(g) : i < j => g[i] < g[j]
  /\ \A i \in 1..Len(g) : g[i] \in K
  /\ \A k \in 1..n : k \in K => \E i \in 1..Len(g) : g[i] = k

Chosen(x, g) == [m \in 1..Len(g) |-> x[g[m]]]
Left(x, K, i) == IF i \in K THEN <<x[i]>> ELSE << >>

Leaving(x, K, n) == [i \in 1..n |-> Left(x, K, i)]

LEMMA SelectionGrows ==
  ASSUME NEW n \in Nat, NEW K, NEW x, NEW g, IsSelection(g, K, n)
  PROVE  \E f : /\ IsSelection(f, K, n + 1)
               /\ Chosen(x, f) = Chosen(x, g) \o Left(x, K, n + 1)
<1>0. g \in Seq(1..n) /\ Len(g) \in Nat /\ \A i \in 1..Len(g) : g[i] \in 1..n /\ g[i] \in 1..(n + 1)
  BY DEF IsSelection
<1>1. CASE n + 1 \in K
  <2> DEFINE f == [m \in 1..(Len(g) + 1) |-> IF m <= Len(g) THEN g[m] ELSE n + 1]
  <2>1. f \in Seq(1..(n + 1)) /\ Len(f) = Len(g) + 1
    <3>1. \A m \in 1..(Len(g) + 1) : f[m] \in 1..(n + 1)
      BY <1>0
    <3>2. QED
      BY <1>0, <3>1
  <2>2. (\A m \in 1..Len(g) : f[m] = g[m]) /\ f[Len(g) + 1] = n + 1
    BY <1>0
  <2> HIDE DEF f
  <2>3. \A i, j \in 1..Len(f) : i < j => f[i] < f[j]
    <3> SUFFICES ASSUME NEW i \in 1..Len(f), NEW j \in 1..Len(f), i < j PROVE f[i] < f[j]
      OBVIOUS
    <3>1. i \in 1..Len(g) /\ f[i] = g[i] /\ g[i] \in 1..n
      BY <1>0, <2>1, <2>2
    <3>2. CASE j = Len(g) + 1
      BY <2>2, <3>1, <3>2
    <3>3. CASE j \in 1..Len(g)
      BY <2>2, <3>1, <3>3 DEF IsSelection
    <3>0. Len(g) \in Nat /\ Len(f) = Len(g) + 1
      BY <1>0, <2>1
    <3>4. j = Len(g) + 1 \/ j \in 1..Len(g)
      BY <3>0
    <3>5. QED
      BY <3>2, <3>3, <3>4
  <2>4. \A i \in 1..Len(f) : f[i] \in K
    <3>1. \A i \in 1..Len(g) : g[i] \in K
      BY DEF IsSelection
    <3>2. \A i \in 1..(Len(g) + 1) : i \in 1..Len(g) \/ i = Len(g) + 1
      BY <1>0
    <3>3. QED
      BY <1>1, <2>1, <2>2, <3>1, <3>2
  <2>5. \A k \in 1..(n + 1) : k \in K => \E i \in 1..Len(f) : f[i] = k
    <3> SUFFICES ASSUME NEW k \in 1..(n + 1), k \in K PROVE \E i \in 1..Len(f) : f[i] = k
      OBVIOUS
    <3>1. CASE k = n + 1
      <4>1. Len(g) + 1 \in 1..Len(f)
        BY <1>0, <2>1
      <4>2. QED
        BY <2>2, <3>1, <4>1
    <3>2. CASE k \in 1..n
      <4>1. PICK i \in 1..Len(g) : g[i] = k
        BY <3>2 DEF IsSelection
      <4>2. i \in 1..Len(f) /\ f[i] = k
        BY <1>0, <2>1, <2>2, <4>1
      <4>3. QED
        BY <4>2
    <3>3. QED
      BY <3>1, <3>2
  <2>6. Chosen(x, f) = Chosen(x, g) \o <<x[n + 1]>>
    <3> DEFINE a == [m \in 1..Len(g) |-> x[g[m]]]
    <3>1. a \o <<x[n + 1]>> = [m \in 1..(Len(g) + 1) |-> IF m <= Len(g) THEN a[m] ELSE x[n + 1]]
      BY <1>0
    <3>2. \A m \in 1..(Len(g) + 1) : x[f[m]] = IF m <= Len(g) THEN a[m] ELSE x[n + 1]
      <4> SUFFICES ASSUME NEW m \in 1..(Len(g) + 1)
                   PROVE  x[f[m]] = IF m <= Len(g) THEN a[m] ELSE x[n + 1]
        OBVIOUS
      <4>1. CASE m <= Len(g)
        BY <1>0, <2>2, <4>1
      <4>2. CASE ~(m <= Len(g))
        <5>1. m = Len(g) + 1
          BY <1>0, <4>2
        <5>2. QED
          BY <2>2, <4>2, <5>1
      <4>3. QED
        BY <4>1, <4>2
    <3> HIDE DEF a
    <3>3. [m \in 1..Len(f) |-> x[f[m]]]
            = [m \in 1..(Len(g) + 1) |-> IF m <= Len(g) THEN a[m] ELSE x[n + 1]]
      BY <2>1, <3>2
    <3>4. QED
      BY <3>1, <3>3 DEF a, Chosen
  <2>7. IsSelection(f, K, n + 1)
    BY <2>1, <2>3, <2>4, <2>5 DEF IsSelection
  <2>8. Chosen(x, f) = Chosen(x, g) \o Left(x, K, n + 1)
    BY <1>1, <2>6 DEF Left
  <2>9. QED
    BY <2>7, <2>8
<1>2. CASE n + 1 \notin K
  <2>1. Chosen(x, g) \o << >> = Chosen(x, g)
    BY <1>0 DEF Chosen
  <2>2. Chosen(x, g) = Chosen(x, g) \o Left(x, K, n + 1)
    BY <1>2, <2>1 DEF Left
  <2>3. IsSelection(g, K, n + 1)
    <3>1. g \in Seq(1..(n + 1))
      BY <1>0
    <3>2. \A k \in 1..(n + 1) : k \in K => k \in 1..n
      BY <1>2
    <3>3. QED
      BY <3>1, <3>2 DEF IsSelection
  <2>4. QED
    BY <2>2, <2>3
<1>3. QED
  BY <1>1, <1>2

LEMMA FlattenSelects ==
  ASSUME NEW n \in Nat, NEW K, NEW x
  PROVE  \E g : IsSelection(g, K, n) /\ FlattenSeq(Leaving(x, K, n)) = Chosen(x, g)
<1> DEFINE s == Leaving(x, K, n)
<1>0. Len(s) = n /\ (\A i \in 1..n : s[i] = Left(x, K, i)) /\ (n = 0 => s = << >>)
  BY DEF Leaving
<1> HIDE DEF s
<1>1. IsSelection(<< >>, K, 0) /\ Chosen(x, << >>) = << >>
  BY DEF IsSelection, Chosen
<1>5. ASSUME NEW i \in Nat, NEW g, IsSelection(g, K, i)
      PROVE  \E f : IsSelection(f, K, i + 1) /\ Chosen(x, f) = Chosen(x, g) \o Left(x, K, i + 1)
  BY <1>5, SelectionGrows
<1>2. CASE n = 0
  <2>1. FlattenSeq(s) = << >>
    BY <1>0, <1>2, FlattenEmpty
  <2>2. QED
    BY <1>1, <1>2, <2>1 DEF s
<1>3. CASE n # 0
  <2>1. PICK h : /\ h[1] = s[1]
                 /\ \A i \in 1..(Len(s) - 1) : h[i + 1] = h[i] \o s[i + 1]
                 /\ FlattenSeq(s) = h[Len(s)]
    BY <1>0, <1>3, FlatteningOf
  <2> DEFINE Good(i) == \E g : IsSelection(g, K, i) /\ h[i] = Chosen(x, g)
             T == {i \in 1..n : Good(i)}
  <2>2. Good(1)
    <3>1. 0 \in Nat /\ 0 + 1 = 1 /\ s[1] = Left(x, K, 1)
      BY <1>0, <1>3
    <3>2. PICK f : IsSelection(f, K, 0 + 1) /\ Chosen(x, f) = Chosen(x, << >>) \o Left(x, K, 0 + 1)
      BY <1>1, <1>5, <3>1
    <3>3. << >> \o Left(x, K, 1) = Left(x, K, 1)
      BY DEF Left
    <3>4. IsSelection(f, K, 1) /\ h[1] = Chosen(x, f)
      BY <1>1, <2>1, <3>1, <3>2, <3>3
    <3>5. QED
      BY <3>4
  <2>3. ASSUME NEW i \in 1..(n - 1), Good(i) PROVE Good(i + 1)
    <3>1. PICK g : IsSelection(g, K, i) /\ h[i] = Chosen(x, g)
      BY <2>3
    <3>2. i \in Nat /\ i \in 1..(Len(s) - 1) /\ s[i + 1] = Left(x, K, i + 1)
      BY <1>0
    <3>3. PICK f : IsSelection(f, K, i + 1) /\ Chosen(x, f) = Chosen(x, g) \o Left(x, K, i + 1)
      BY <1>5, <3>1, <3>2
    <3>4. h[i + 1] = h[i] \o Left(x, K, i + 1)
      BY <2>1, <3>2
    <3>5. IsSelection(f, K, i + 1) /\ h[i + 1] = Chosen(x, f)
      BY <3>1, <3>3, <3>4
    <3>6. QED
      BY <3>5
  <2> HIDE DEF Good
  <2>4. 1..n \subseteq T
    <3>1. n \in Nat \ {0} /\ 1 \in T
      BY <1>3, <2>2
    <3>2. \A i \in 1..(n - 1) : i \in T => i + 1 \in T
      BY <2>3
    <3> HIDE DEF T
    <3>3. QED
      BY <3>1, <3>2, UpTo
  <2>5. Good(n)
    BY <1>3, <2>4
  <2>6. PICK g : IsSelection(g, K, n) /\ h[n] = Chosen(x, g)
    BY <2>5 DEF Good
  <2>7. FlattenSeq(s) = h[n]
    BY <1>0, <2>1
  <2>8. QED
    BY <2>6, <2>7 DEF s
<1>4. QED
  BY <1>2, <1>3

-----------------------------------------------------------------------------
(* Joining what is flattened.                                              *)

LEMMA PrefixGrows ==
  ASSUME NEW X, NEW t \in Seq(X)
  PROVE  /\ Len(t) \in Nat /\ SubSeq(t, 1, 0) = << >> /\ SubSeq(t, 1, Len(t)) = t
         /\ \A n \in 0..Len(t) : SubSeq(t, 1, n) \in Seq(X) /\ Len(SubSeq(t, 1, n)) = n
         /\ \A n \in 0..(Len(t) - 1) :
              t[n + 1] \in X /\ SubSeq(t, 1, n + 1) = Append(SubSeq(t, 1, n), t[n + 1])
<1>1. Len(t) \in Nat /\ SubSeq(t, 1, 0) = << >> /\ SubSeq(t, 1, Len(t)) = t
  OBVIOUS
<1>2. \A i \in 1..Len(t) : t[i] \in X
  OBVIOUS
<1>3. ASSUME NEW n \in 0..Len(t)
      PROVE  /\ SubSeq(t, 1, n) \in Seq(X) /\ Len(SubSeq(t, 1, n)) = n
             /\ \A i \in 1..n : SubSeq(t, 1, n)[i] = t[i]
  BY <1>1, <1>2
<1>4. ASSUME NEW n \in 0..(Len(t) - 1)
      PROVE  t[n + 1] \in X /\ SubSeq(t, 1, n + 1) = Append(SubSeq(t, 1, n), t[n + 1])
  <2>1. n \in 0..Len(t) /\ n + 1 \in 0..Len(t) /\ n + 1 \in 1..Len(t) /\ n \in Nat
    BY <1>1
  <2> DEFINE a == SubSeq(t, 1, n)
             b == SubSeq(t, 1, n + 1)
             c == Append(a, t[n + 1])
  <2>2. a \in Seq(X) /\ Len(a) = n /\ \A i \in 1..n : a[i] = t[i]
    BY <1>3, <2>1
  <2>3. b \in Seq(X) /\ Len(b) = n + 1 /\ \A i \in 1..(n + 1) : b[i] = t[i]
    BY <1>3, <2>1
  <2> HIDE DEF a, b
  <2>4. t[n + 1] \in X
    BY <1>2, <2>1
  <2>5. c \in Seq(X) /\ Len(c) = n + 1 /\ \A i \in 1..(n + 1) : c[i] = IF i <= n THEN a[i] ELSE t[n + 1]
    BY <2>1, <2>2, <2>4
  <2> HIDE DEF c
  <2>6. \A i \in 1..(n + 1) : b[i] = c[i]
    <3> SUFFICES ASSUME NEW i \in 1..(n + 1) PROVE b[i] = c[i]
      OBVIOUS
    <3>1. i \in 1..n \/ i = n + 1
      BY <2>1
    <3>2. QED
      BY <2>1, <2>2, <2>3, <2>5, <3>1
  <2>7. b = c
    BY <2>3, <2>5, <2>6, SeqEqual
  <2>8. QED
    BY <2>4, <2>7 DEF a, b, c
<1>5. QED
  BY <1>1, <1>3, <1>4

LEMMA FlattenJoin ==
  ASSUME NEW X, NEW s \in Seq(Seq(X)), NEW t \in Seq(Seq(X))
  PROVE  FlattenSeq(s \o t) = FlattenSeq(s) \o FlattenSeq(t)
<1> DEFINE p(n) == SubSeq(t, 1, n)
           T == {n \in Nat : n <= Len(t) => FlattenSeq(s \o p(n)) = FlattenSeq(s) \o FlattenSeq(p(n))}
<1>1. /\ Len(t) \in Nat /\ p(0) = << >> /\ p(Len(t)) = t
      /\ \A n \in 0..Len(t) : p(n) \in Seq(Seq(X))
      /\ \A n \in 0..(Len(t) - 1) : t[n + 1] \in Seq(X) /\ p(n + 1) = Append(p(n), t[n + 1])
  BY PrefixGrows
<1>2. FlattenSeq(s) \in Seq(X)
  BY FlattenType
<1>3. 0 \in T
  <2>1. s \o << >> = s /\ FlattenSeq(s) \o << >> = FlattenSeq(s)
    BY <1>2
  <2>2. QED
    BY <1>1, <2>1, FlattenEmpty
<1>4. ASSUME NEW n \in Nat, n \in T PROVE n + 1 \in T
  <2> HIDE DEF p
  <2> SUFFICES ASSUME n + 1 <= Len(t)
               PROVE  FlattenSeq(s \o p(n + 1)) = FlattenSeq(s) \o FlattenSeq(p(n + 1))
    OBVIOUS
  <2>1. n \in 0..Len(t) /\ n \in 0..(Len(t) - 1) /\ n <= Len(t)
    BY <1>1
  <2>2. p(n) \in Seq(Seq(X)) /\ t[n + 1] \in Seq(X) /\ p(n + 1) = Append(p(n), t[n + 1])
    BY <1>1, <2>1
  <2>3. FlattenSeq(s \o p(n)) = FlattenSeq(s) \o FlattenSeq(p(n))
    BY <1>4, <2>1
  <2> DEFINE x == t[n + 1]
             q == p(n)
  <2> HIDE DEF x, q
  <2>4. x \in Seq(X) /\ q \in Seq(Seq(X))
    BY <2>2 DEF x, q
  <2>5. s \o Append(q, x) = Append(s \o q, x) /\ s \o q \in Seq(Seq(X))
    <3>1. s \o Append(q, x) = Append(s \o q, x)
      BY <2>4
    <3>2. s \o q \in Seq(Seq(X))
      BY <2>4
    <3>3. QED
      BY <3>1, <3>2
  <2>6. FlattenSeq(Append(s \o q, x)) = FlattenSeq(s \o q) \o x
    BY <2>4, <2>5, FlattenAppend
  <2>7. FlattenSeq(Append(q, x)) = FlattenSeq(q) \o x
    BY <2>4, FlattenAppend
  <2>8. FlattenSeq(q) \in Seq(X)
    BY <2>4, FlattenType
  <2>9. (FlattenSeq(s) \o FlattenSeq(q)) \o x = FlattenSeq(s) \o (FlattenSeq(q) \o x)
    BY <1>2, <2>4, <2>8, ConcatThree
  <2>10. QED
    BY <2>2, <2>3, <2>5, <2>6, <2>7, <2>9 DEF x, q
<1> HIDE DEF T, p
<1>5. Nat \subseteq T
  BY <1>3, <1>4, NatSet
<1>8. Len(t) \in T /\ Len(t) <= Len(t)
  BY <1>1, <1>5
<1>6. FlattenSeq(s \o p(Len(t))) = FlattenSeq(s) \o FlattenSeq(p(Len(t)))
  BY <1>8 DEF T
<1>7. QED
  BY <1>1, <1>6

LEMMA FlattenOne ==
  ASSUME NEW X, NEW x \in Seq(X) PROVE FlattenSeq(<<x>>) = x
<1>1. << >> \in Seq(Seq(X)) /\ Append(<< >>, x) = <<x>>
  OBVIOUS
<1>2. FlattenSeq(Append(<< >>, x)) = FlattenSeq(<< >>) \o x
  BY <1>1, FlattenAppend
<1>3. << >> \o x = x
  OBVIOUS
<1>4. QED
  BY <1>1, <1>2, <1>3, FlattenEmpty

-----------------------------------------------------------------------------
(* What e has for each element of a sequence, one after the other.         *)
Expansions(X, Y) == [X -> Seq(Y)]
Spread(e, s) == FlattenSeq([i \in 1..Len(s) |-> e[s[i]]])

LEMMA SpreadType ==
  ASSUME NEW X, NEW Y, NEW e \in Expansions(X, Y), NEW s \in Seq(X)
  PROVE  /\ [i \in 1..Len(s) |-> e[s[i]]] \in Seq(Seq(Y))
         /\ Spread(e, s) \in Seq(Y)
<1>1. Len(s) \in Nat /\ \A i \in 1..Len(s) : e[s[i]] \in Seq(Y)
  BY DEF Expansions
<1>2. [i \in 1..Len(s) |-> e[s[i]]] \in Seq(Seq(Y))
  BY <1>1
<1>3. QED
  BY <1>2, FlattenType DEF Spread

LEMMA SpreadEmpty ==
  ASSUME NEW e PROVE Spread(e, << >>) = << >>
<1>1. [i \in 1..Len(<< >>) |-> e[<< >>[i]]] = << >>
  OBVIOUS
<1>2. QED
  BY <1>1, FlattenEmpty DEF Spread

LEMMA SpreadOne ==
  ASSUME NEW X, NEW Y, NEW e \in Expansions(X, Y), NEW x \in X
  PROVE  Spread(e, <<x>>) = e[x]
<1>1. [i \in 1..Len(<<x>>) |-> e[<<x>>[i]]] = <<e[x]>>
  OBVIOUS
<1>2. e[x] \in Seq(Y)
  BY DEF Expansions
<1>3. QED
  BY <1>1, <1>2, FlattenOne DEF Spread

LEMMA SpreadJoin ==
  ASSUME NEW X, NEW Y, NEW e \in Expansions(X, Y)
  PROVE  \A s, t \in Seq(X) : Spread(e, s \o t) = Spread(e, s) \o Spread(e, t)
<1> SUFFICES ASSUME NEW s \in Seq(X), NEW t \in Seq(X)
             PROVE  Spread(e, s \o t) = Spread(e, s) \o Spread(e, t)
  OBVIOUS
<1>0. ASSUME NEW p \in Seq(Seq(Y)), NEW q \in Seq(Seq(Y)), NEW r \in Seq(Seq(Y)),
             Len(r) = Len(p) + Len(q), \A i \in 1..Len(p) : r[i] = p[i],
             \A i \in 1..Len(q) : r[Len(p) + i] = q[i]
      PROVE  r = p \o q
  BY <1>0, ConcatIs
<1> DEFINE E(u) == [i \in 1..Len(u) |-> e[u[i]]]
<1>1. E(s) \in Seq(Seq(Y)) /\ E(t) \in Seq(Seq(Y))
  BY SpreadType
<1>2. E(s \o t) = E(s) \o E(t)
  <2>1. /\ s \o t \in Seq(X) /\ Len(s) \in Nat /\ Len(t) \in Nat /\ Len(s \o t) = Len(s) + Len(t)
        /\ \A i \in 1..Len(s) : (s \o t)[i] = s[i]
        /\ \A i \in 1..Len(t) : (s \o t)[Len(s) + i] = t[i]
    OBVIOUS
  <2>2. E(s \o t) \in Seq(Seq(Y))
    BY <2>1, SpreadType
  <2>3. Len(E(s)) = Len(s) /\ Len(E(t)) = Len(t) /\ Len(E(s \o t)) = Len(s) + Len(t)
    BY <2>1
  <2>4. \A i \in 1..Len(s) : E(s \o t)[i] = E(s)[i]
    BY <2>1
  <2>5. \A i \in 1..Len(t) : E(s \o t)[Len(s) + i] = E(t)[i]
    BY <2>1
  <2> DEFINE a == E(s)
             b == E(t)
             c == E(s \o t)
  <2> HIDE DEF E
  <2>6. /\ a \in Seq(Seq(Y)) /\ b \in Seq(Seq(Y)) /\ c \in Seq(Seq(Y)) /\ Len(c) = Len(a) + Len(b)
        /\ \A i \in 1..Len(a) : c[i] = a[i]
        /\ \A i \in 1..Len(b) : c[Len(a) + i] = b[i]
    BY <1>1, <2>2, <2>3, <2>4, <2>5
  <2> HIDE DEF a, b, c
  <2>7. c = a \o b
    <3>2. QED
      BY <1>0, <2>6, Zenon
  <2>8. QED
    BY <2>7 DEF a, b, c
<1> HIDE DEF E
<1>3. FlattenSeq(E(s) \o E(t)) = FlattenSeq(E(s)) \o FlattenSeq(E(t))
  BY <1>1, FlattenJoin
<1>4. QED
  BY <1>2, <1>3 DEF Spread, E

LEMMA SpreadAppend ==
  ASSUME NEW X, NEW Y, NEW e \in Expansions(X, Y)
  PROVE  \A s \in Seq(X), x \in X : Spread(e, Append(s, x)) = Spread(e, s) \o e[x]
<1> SUFFICES ASSUME NEW s \in Seq(X), NEW x \in X
             PROVE  Spread(e, Append(s, x)) = Spread(e, s) \o e[x]
  OBVIOUS
<1>1. <<x>> \in Seq(X) /\ Append(s, x) = s \o <<x>>
  OBVIOUS
<1>2. Spread(e, s \o <<x>>) = Spread(e, s) \o Spread(e, <<x>>)
  BY <1>1, SpreadJoin
<1>3. Spread(e, <<x>>) = e[x]
  BY SpreadOne
<1>4. QED
  BY <1>1, <1>2, <1>3, Zenon

LEMMA SpreadFlatten ==
  ASSUME NEW X, NEW Y, NEW e \in Expansions(X, Y), NEW ss \in Seq(Seq(X))
  PROVE  Spread(e, FlattenSeq(ss)) = FlattenSeq([i \in 1..Len(ss) |-> Spread(e, ss[i])])
<1>0. ASSUME NEW s \in Seq(X), NEW t \in Seq(X)
      PROVE  Spread(e, s \o t) = Spread(e, s) \o Spread(e, t)
  BY SpreadJoin
<1> DEFINE n == Len(ss)
           pp == [i \in 1..n |-> Spread(e, ss[i])]
           a(k) == SubSeq(ss, 1, k)
           b(k) == SubSeq(pp, 1, k)
           T == {k \in Nat : k <= n => Spread(e, FlattenSeq(a(k))) = FlattenSeq(b(k))}
<1>1. n \in Nat /\ \A i \in 1..n : ss[i] \in Seq(X) /\ Spread(e, ss[i]) \in Seq(Y)
  <2>1. n \in Nat /\ \A i \in 1..n : ss[i] \in Seq(X)
    OBVIOUS
  <2>2. QED
    BY <2>1, SpreadType
<1>2. pp \in Seq(Seq(Y)) /\ Len(pp) = n /\ \A i \in 1..n : pp[i] = Spread(e, ss[i])
  BY <1>1
<1> HIDE DEF pp
<1>3. /\ a(0) = << >> /\ a(n) = ss /\ \A k \in 0..n : a(k) \in Seq(Seq(X))
      /\ \A k \in 0..(n - 1) : ss[k + 1] \in Seq(X) /\ a(k + 1) = Append(a(k), ss[k + 1])
  BY PrefixGrows
<1>4. /\ b(0) = << >> /\ b(n) = pp /\ \A k \in 0..n : b(k) \in Seq(Seq(Y))
      /\ \A k \in 0..(n - 1) : pp[k + 1] \in Seq(Y) /\ b(k + 1) = Append(b(k), pp[k + 1])
  BY <1>2, PrefixGrows
<1> HIDE DEF a, b, n
<1>5. 0 \in T
  BY <1>3, <1>4, FlattenEmpty, SpreadEmpty
<1>6. ASSUME NEW k \in Nat, k \in T PROVE k + 1 \in T
  <2> SUFFICES ASSUME k + 1 <= n PROVE Spread(e, FlattenSeq(a(k + 1))) = FlattenSeq(b(k + 1))
    OBVIOUS
  <2>1. k \in 0..n /\ k \in 0..(n - 1) /\ k <= n /\ k + 1 \in 1..n
    BY <1>1
  <2>2. /\ a(k) \in Seq(Seq(X)) /\ ss[k + 1] \in Seq(X) /\ a(k + 1) = Append(a(k), ss[k + 1])
        /\ b(k) \in Seq(Seq(Y)) /\ pp[k + 1] \in Seq(Y) /\ b(k + 1) = Append(b(k), pp[k + 1])
        /\ pp[k + 1] = Spread(e, ss[k + 1])
    BY <1>2, <1>3, <1>4, <2>1
  <2>3. Spread(e, FlattenSeq(a(k))) = FlattenSeq(b(k))
    BY <1>6, <2>1
  <2>4. FlattenSeq(a(k + 1)) = FlattenSeq(a(k)) \o ss[k + 1]
    BY <2>2, FlattenAppend
  <2>5. FlattenSeq(b(k + 1)) = FlattenSeq(b(k)) \o pp[k + 1]
    BY <2>2, FlattenAppend
  <2>6. FlattenSeq(a(k)) \in Seq(X)
    BY <2>2, FlattenType
  <2>7. Spread(e, FlattenSeq(a(k)) \o ss[k + 1]) = Spread(e, FlattenSeq(a(k))) \o Spread(e, ss[k + 1])
    <3> DEFINE u == FlattenSeq(a(k))
               v == ss[k + 1]
    <3>1. u \in Seq(X) /\ v \in Seq(X)
      BY <2>2, <2>6
    <3> HIDE DEF u, v
    <3>4. Spread(e, u \o v) = Spread(e, u) \o Spread(e, v)
      BY <1>0, <3>1, Zenon
    <3>3. QED
      BY <3>4 DEF u, v
  <2>8. QED
    BY <2>2, <2>3, <2>4, <2>5, <2>7
<1> HIDE DEF T
<1>7. Nat \subseteq T
  BY <1>5, <1>6, NatSet
<1>8. Spread(e, FlattenSeq(a(n))) = FlattenSeq(b(n))
  BY <1>1, <1>7 DEF T
<1>9. QED
  BY <1>3, <1>4, <1>8 DEF pp, n

(* Where two neighbours are together what two others are together.         *)
Both(s, k) == s[k] \o s[k + 1]

Associates(X) == \A a, b, c \in Seq(X) : (a \o b) \o c = a \o (b \o c)

LEMMA JoiningAssociates == ASSUME NEW X PROVE Associates(X)
  BY ConcatThree DEF Associates

LEMMA FlattenPair ==
  ASSUME NEW X, NEW s \in Seq(Seq(X)), NEW t \in Seq(Seq(X)), Len(s) = Len(t),
         NEW k \in 1..(Len(s) - 1), Both(s, k) = Both(t, k),
         \A i \in 1..Len(s) : i # k /\ i # k + 1 => s[i] = t[i]
  PROVE  FlattenSeq(s) = FlattenSeq(t)
<1>0. Associates(X)
  BY JoiningAssociates, Zenon
<1> DEFINE n == Len(s)
           a(i) == SubSeq(s, 1, i)
           b(i) == SubSeq(t, 1, i)
           Same(i) == FlattenSeq(a(i)) = FlattenSeq(b(i))
           T == {i \in Nat : i <= n /\ i # k => Same(i)}
<1>1. n \in Nat /\ k \in Nat /\ k + 1 <= n /\ 1 <= k /\ Len(t) = n
  OBVIOUS
<1>2. /\ a(0) = << >> /\ a(n) = s /\ \A i \in 0..n : a(i) \in Seq(Seq(X))
      /\ \A i \in 0..(n - 1) : s[i + 1] \in Seq(X) /\ a(i + 1) = Append(a(i), s[i + 1])
  BY PrefixGrows
<1>3. /\ b(0) = << >> /\ b(n) = t /\ \A i \in 0..n : b(i) \in Seq(Seq(X))
      /\ \A i \in 0..(n - 1) : t[i + 1] \in Seq(X) /\ b(i + 1) = Append(b(i), t[i + 1])
  <2>1. Len(t) = n
    OBVIOUS
  <2>2. QED
    BY <2>1, PrefixGrows
<1>4. \A i \in 1..n : i # k /\ i # k + 1 => s[i] = t[i]
  OBVIOUS
<1> HIDE DEF a, b, n
<1>5. ASSUME NEW i \in 0..(n - 1)
      PROVE  /\ FlattenSeq(a(i + 1)) = FlattenSeq(a(i)) \o s[i + 1]
             /\ FlattenSeq(b(i + 1)) = FlattenSeq(b(i)) \o t[i + 1]
             /\ s[i + 1] \in Seq(X) /\ t[i + 1] \in Seq(X)
             /\ FlattenSeq(a(i)) \in Seq(X) /\ FlattenSeq(b(i)) \in Seq(X)
  <2>1. i \in 0..n
    BY <1>1
  <2>2. /\ a(i) \in Seq(Seq(X)) /\ s[i + 1] \in Seq(X) /\ a(i + 1) = Append(a(i), s[i + 1])
        /\ b(i) \in Seq(Seq(X)) /\ t[i + 1] \in Seq(X) /\ b(i + 1) = Append(b(i), t[i + 1])
    BY <1>2, <1>3, <2>1
  <2>3. QED
    BY <2>2, FlattenAppend, FlattenType
<1>6. ASSUME NEW m \in Nat, \A j \in 0..(m - 1) : j \in T PROVE m \in T
  <2> SUFFICES ASSUME m <= n, m # k PROVE Same(m)
    OBVIOUS
  <2>1. CASE m = 0
    BY <1>2, <1>3, <2>1
  <2>2. CASE m # 0 /\ m # k + 1
    <3>1. m - 1 \in 0..(n - 1) /\ m - 1 \in 0..(m - 1) /\ (m - 1) + 1 = m /\ m \in 1..n /\ m - 1 # k
          /\ m - 1 \in Nat /\ m - 1 <= n
      BY <1>1, <2>2
    <3>2. Same(m - 1)
      BY <1>6, <3>1
    <3>3. s[m] = t[m]
      BY <1>4, <2>2, <3>1
    <3>4. FlattenSeq(a((m - 1) + 1)) = FlattenSeq(a(m - 1)) \o s[(m - 1) + 1]
          /\ FlattenSeq(b((m - 1) + 1)) = FlattenSeq(b(m - 1)) \o t[(m - 1) + 1]
      BY <1>5, <3>1
    <3>5. QED
      BY <3>1, <3>2, <3>3, <3>4
  <2>3. CASE m = k + 1
    <3>1. k - 1 \in 0..(n - 1) /\ k \in 0..(n - 1) /\ (k - 1) + 1 = k /\ k - 1 \in 0..(m - 1)
          /\ k - 1 \in Nat /\ k - 1 <= n /\ k - 1 # k
      BY <1>1, <2>3
    <3>2. FlattenSeq(a(k - 1)) = FlattenSeq(b(k - 1))
      BY <1>6, <3>1
    <3> DEFINE x == FlattenSeq(a(k - 1))
    <3>3. /\ FlattenSeq(a((k - 1) + 1)) = x \o s[(k - 1) + 1]
          /\ FlattenSeq(b((k - 1) + 1)) = x \o t[(k - 1) + 1]
          /\ s[(k - 1) + 1] \in Seq(X) /\ t[(k - 1) + 1] \in Seq(X) /\ x \in Seq(X)
      BY <1>5, <3>1, <3>2
    <3>4. /\ FlattenSeq(a(k + 1)) = FlattenSeq(a(k)) \o s[k + 1]
          /\ FlattenSeq(b(k + 1)) = FlattenSeq(b(k)) \o t[k + 1]
          /\ s[k + 1] \in Seq(X) /\ t[k + 1] \in Seq(X)
      BY <1>5, <3>1
    <3> HIDE DEF x
    <3>9. /\ x \in Seq(X) /\ s[k] \in Seq(X) /\ t[k] \in Seq(X)
          /\ s[k + 1] \in Seq(X) /\ t[k + 1] \in Seq(X)
      BY <3>1, <3>3, <3>4
    <3>6. s[k] \o s[k + 1] = t[k] \o t[k + 1]
      BY DEF Both
    <3>5. (x \o s[k]) \o s[k + 1] = (x \o t[k]) \o t[k + 1]
      <4>1. (x \o s[k]) \o s[k + 1] = x \o (s[k] \o s[k + 1])
        BY <1>0, <3>9, Zenon DEF Associates
      <4>2. (x \o t[k]) \o t[k + 1] = x \o (t[k] \o t[k + 1])
        BY <1>0, <3>9, Zenon DEF Associates
      <4>3. QED
        BY <3>6, <4>1, <4>2, Zenon
    <3>7. FlattenSeq(a(k + 1)) = FlattenSeq(b(k + 1))
      BY <3>1, <3>3, <3>4, <3>5
    <3>8. QED
      BY <2>3, <3>7
  <2>4. QED
    BY <2>1, <2>2, <2>3
<1> HIDE DEF T, Same
<1>7. Nat \subseteq T
  BY <1>6, NatSetBelow
<1>8. Same(n)
  BY <1>1, <1>7 DEF T
<1>9. QED
  BY <1>2, <1>3, <1>8 DEF Same

(* More at the end of the last.                                            *)
Longer(s, t, n, x) == t[n] = s[n] \o x

LEMMA FlattenLonger ==
  ASSUME NEW X, NEW s \in Seq(Seq(X)), NEW t \in Seq(Seq(X)), NEW x \in Seq(X),
         NEW n \in Nat \ {0}, Len(s) = n, Len(t) = n, Longer(s, t, n, x),
         \A i \in 1..(n - 1) : s[i] = t[i]
  PROVE  FlattenSeq(t) = FlattenSeq(s) \o x
<1>0. Associates(X)
  BY JoiningAssociates, Zenon
<1> DEFINE a == SubSeq(s, 1, n - 1)
           b == SubSeq(t, 1, n - 1)
<1>1. /\ SubSeq(s, 1, n) = s /\ a \in Seq(Seq(X)) /\ Len(a) = n - 1 /\ s[n] \in Seq(X)
      /\ SubSeq(s, 1, (n - 1) + 1) = Append(a, s[(n - 1) + 1])
  <2>1. n - 1 \in 0..Len(s) /\ n - 1 \in 0..(Len(s) - 1) /\ (n - 1) + 1 = n
    OBVIOUS
  <2>2. QED
    BY <2>1, PrefixGrows
<1>2. /\ SubSeq(t, 1, n) = t /\ b \in Seq(Seq(X)) /\ Len(b) = n - 1 /\ t[n] \in Seq(X)
      /\ SubSeq(t, 1, (n - 1) + 1) = Append(b, t[(n - 1) + 1])
  <2>1. n - 1 \in 0..Len(t) /\ n - 1 \in 0..(Len(t) - 1) /\ (n - 1) + 1 = n
    OBVIOUS
  <2>2. QED
    BY <2>1, PrefixGrows
<1>3. a = b
  <2>1. \A i \in 1..(n - 1) : a[i] = s[i] /\ b[i] = t[i]
    OBVIOUS
  <2>2. \A i \in 1..Len(a) : a[i] = b[i]
    BY <1>1, <2>1
  <2> HIDE DEF a, b
  <2>3. QED
    BY <1>1, <1>2, <2>2, SeqEqual
<1> HIDE DEF a, b
<1>4. (n - 1) + 1 = n
  OBVIOUS
<1>5. s = Append(a, s[n]) /\ t = Append(a, t[n])
  BY <1>1, <1>2, <1>3, <1>4
<1>6. FlattenSeq(Append(a, s[n])) = FlattenSeq(a) \o s[n]
  BY <1>1, FlattenAppend
<1>7. FlattenSeq(Append(a, t[n])) = FlattenSeq(a) \o t[n]
  BY <1>1, <1>2, FlattenAppend
<1>8. FlattenSeq(a) \in Seq(X)
  BY <1>1, FlattenType
<1>9. (FlattenSeq(a) \o s[n]) \o x = FlattenSeq(a) \o (s[n] \o x)
  BY <1>0, <1>1, <1>8, Zenon DEF Associates
<1>10. t[n] = s[n] \o x
  BY DEF Longer
<1>11. QED
  BY <1>5, <1>6, <1>7, <1>9, <1>10, Zenon

-----------------------------------------------------------------------------
(* Prefixes.                                                               *)

LEMMA JoinHasPrefix ==
  ASSUME NEW X, NEW a \in Seq(X), NEW b \in Seq(X)
  PROVE  IsPrefix(a, a \o b) /\ IsPrefix(a, a)
<1>1. /\ Len(a) \in Nat /\ Len(b) \in Nat /\ Len(a \o b) = Len(a) + Len(b) /\ a \o b \in Seq(X)
      /\ \A i \in 1..Len(a) : (a \o b)[i] = a[i]
  OBVIOUS
<1>2. SubSeq(a \o b, 1, Len(a)) = SubSeq(a, 1, Len(a))
  <2> DEFINE c == a \o b
  <2> HIDE DEF c
  <2>1. c \in Seq(X) /\ Len(a) \in 0..Len(c) /\ \A i \in 1..Len(a) : c[i] = a[i]
    BY <1>1 DEF c
  <2>2. SubSeq(c, 1, Len(a)) = SubSeq(a, 1, Len(a))
    BY <1>1, <2>1
  <2>3. QED
    BY <2>2 DEF c
<1>3. Len(a) <= Len(a \o b) /\ Len(a) <= Len(a)
  BY <1>1
<1>4. QED
  BY <1>2, <1>3 DEF IsPrefix

LEMMA JoinsCancel ==
  ASSUME NEW X, NEW a \in Seq(X), NEW b \in Seq(X), NEW c \in Seq(X), a \o c = b \o c
  PROVE  a = b
<1>1. Len(a) \in Nat /\ Len(b) \in Nat /\ Len(c) \in Nat
      /\ Len(a \o c) = Len(a) + Len(c) /\ Len(b \o c) = Len(b) + Len(c)
  OBVIOUS
<1>2. Len(a) = Len(b)
  BY <1>1
<1>3. \A i \in 1..Len(a) : (a \o c)[i] = a[i]
  OBVIOUS
<1>4. \A i \in 1..Len(b) : (b \o c)[i] = b[i]
  OBVIOUS
<1>5. \A i \in 1..Len(a) : a[i] = b[i]
  BY <1>2, <1>3, <1>4
<1>6. QED
  BY <1>2, <1>5, SeqEqual

LEMMA PartsOf ==
  ASSUME NEW X, NEW t \in Seq(X), NEW l \in 0..Len(t)
  PROVE  /\ SubSeq(t, 1, l) \in Seq(X) /\ SubSeq(t, l + 1, Len(t)) \in Seq(X)
         /\ t = SubSeq(t, 1, l) \o SubSeq(t, l + 1, Len(t))
<1> DEFINE n == Len(t)
           a == SubSeq(t, 1, l)
           b == SubSeq(t, l + 1, n)
<1>1. n \in Nat /\ l \in Nat /\ n - l \in Nat /\ \A i \in 1..n : t[i] \in X
  OBVIOUS
<1>2. a \in Seq(X) /\ Len(a) = l /\ \A i \in 1..l : a[i] = t[i]
  BY <1>1
<1>3. b = [i \in 1..(n - l) |-> t[l + i]]
  <2>1. b = [i \in 1..(1 + n - (l + 1)) |-> t[i + (l + 1) - 1]]
    OBVIOUS
  <2>2. 1 + n - (l + 1) = n - l /\ \A i \in 1..(n - l) : i + (l + 1) - 1 = l + i
    BY <1>1
  <2>3. QED
    BY <2>1, <2>2
<1>4. \A i \in 1..(n - l) : t[l + i] \in X
  BY <1>1
<1> HIDE DEF b
<1>5. b \in Seq(X) /\ Len(b) = n - l /\ \A i \in 1..(n - l) : b[i] = t[l + i]
  BY <1>1, <1>3, <1>4
<1> HIDE DEF a
<1>6. n = Len(a) + Len(b)
  BY <1>1, <1>2, <1>5
<1>7. t = a \o b
  BY <1>2, <1>5, <1>6, ConcatIs DEF n
<1>8. QED
  BY <1>2, <1>5, <1>7 DEF a, b, n

(* Elements and sequences that join.                                       *)
LEMMA OneElement ==
  ASSUME NEW X, NEW x \in X
  PROVE  <<x>> \in Seq(X) /\ <<x>> # << >> /\ Len(<<x>>) = 1 /\ <<x>>[1] = x
  OBVIOUS

LEMMA JoinIs ==
  ASSUME NEW X, NEW a \in Seq(X), NEW b \in Seq(X)
  PROVE  /\ a \o b \in Seq(X) /\ Len(a \o b) = Len(a) + Len(b)
         /\ \A i \in 1..Len(a) : (a \o b)[i] = a[i]
         /\ \A i \in (Len(a) + 1)..(Len(a) + Len(b)) : (a \o b)[i] = b[i - Len(a)]
  OBVIOUS

LEMMA OneMore ==
  ASSUME NEW X, NEW a \in Seq(X), NEW x \in X
  PROVE  /\ a \o <<x>> \in Seq(X) /\ Len(a \o <<x>>) = Len(a) + 1 /\ Len(a) \in Nat
         /\ \A i \in 1..Len(a) : (a \o <<x>>)[i] = a[i]
         /\ (a \o <<x>>)[Len(a) + 1] = x
  OBVIOUS

LEMMA JoinNothing ==
  ASSUME NEW X, NEW s \in Seq(X) PROVE s \o << >> = s /\ << >> \o s = s
  OBVIOUS

LEMMA SpreadJoinOf ==
  ASSUME NEW X, NEW Y, NEW e \in Expansions(X, Y), NEW s \in Seq(X), NEW t \in Seq(X)
  PROVE  Spread(e, s \o t) = Spread(e, s) \o Spread(e, t)
  BY SpreadJoin

LEMMA SpreadNothing ==
  ASSUME NEW X, NEW Y, NEW e \in Expansions(X, Y), NEW s \in Seq(X),
         \A i \in 1..Len(s) : e[s[i]] = << >>
  PROVE  Spread(e, s) = << >>
<1> DEFINE y(k) == SubSeq(s, 1, k)
           T == {k \in Nat : k <= Len(s) => Spread(e, y(k)) = << >>}
<1>1. /\ Len(s) \in Nat /\ y(0) = << >> /\ y(Len(s)) = s
      /\ \A k \in 0..Len(s) : y(k) \in Seq(X)
      /\ \A k \in 0..(Len(s) - 1) : s[k + 1] \in X /\ y(k + 1) = Append(y(k), s[k + 1])
  BY PrefixGrows, Zenon
<1> HIDE DEF y
<1>2. 0 \in T
  BY <1>1, SpreadEmpty
<1>3. \A k \in Nat : k \in T => k + 1 \in T
  <2> SUFFICES ASSUME NEW k \in Nat, k \in T, k + 1 <= Len(s) PROVE Spread(e, y(k + 1)) = << >>
    OBVIOUS
  <2>1. k \in 0..(Len(s) - 1) /\ k \in 0..Len(s) /\ k + 1 \in 1..Len(s)
    BY <1>1
  <2>2. Spread(e, y(k)) = << >> /\ e[s[k + 1]] = << >>
    BY <1>1, <2>1
  <2>3. Spread(e, Append(y(k), s[k + 1])) = Spread(e, y(k)) \o e[s[k + 1]]
    BY <1>1, <2>1, SpreadAppend, Zenon
  <2>4. << >> \o << >> = << >>
    OBVIOUS
  <2>5. QED
    BY <1>1, <2>1, <2>2, <2>3, <2>4, Zenon
<1>4. Len(s) \in T
  <2> HIDE DEF T
  <2>1. QED
    BY <1>1, <1>2, <1>3, NatSet
<1>5. QED
  BY <1>1, <1>4
=============================================================================
