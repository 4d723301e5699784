-------------------------- MODULE InductionTheorems ---------------------------
(* Induction over the natural numbers in two forms that need no operator   *)
(* for a parameter: what is not empty has a least number, and a function   *)
(* can be applied over and over.                                           *)
EXTENDS Integers, Sequences, WellFoundedInduction, TLAPS

(* Numbers that are not none have a least, since < is well-founded.        *)
LEMMA LeastExists ==
    ASSUME NEW T, T \subseteq Nat, T # {}
    PROVE  \E x \in T : \A y \in T : x <= y
<1>1. IsWellFoundedOn(OpToRel(<, Nat), Nat)
  BY NatLessThanWellFounded, Zenon
<1>2. PICK x \in T : \A y \in T : ~(<<y, x>> \in OpToRel(<, Nat))
  BY <1>1, WFMin, Zenon
<1>3. \A y \in T : ~(y < x)
  BY <1>2, Zenon DEF OpToRel
<1> QED
  BY <1>3

(* A set of numbers that holds 0, and n + 1 with n, holds every number.    *)
LEMMA Induction ==
    ASSUME NEW T, 0 \in T, \A n \in Nat : n \in T => n + 1 \in T
    PROVE  Nat \subseteq T
<1> SUFFICES ASSUME Nat \ T # {} PROVE FALSE
  OBVIOUS
<1>1. PICK n \in Nat \ T : \A m \in Nat \ T : n <= m
  BY LeastExists
<1>2. n # 0
  OBVIOUS
<1>3. n - 1 \in Nat /\ (n - 1) + 1 = n /\ ~(n <= n - 1)
  BY <1>2
<1>4. n - 1 \in T
  BY <1>1, <1>3
<1> QED
  BY <1>3, <1>4

(* The first n applications of the steps to base. *)
Steps(X, base, Step, n, g) ==
    /\ g \in [0 .. n -> X]
    /\ g[0] = base
    /\ \A k \in 0 .. n - 1 : g[k + 1] = Step[k][g[k]]

(* Finitely many steps can be taken, *)
LEMMA StepsExist ==
    ASSUME NEW X, NEW base \in X, NEW Step \in [Nat -> [X -> X]]
    PROVE  \A n \in Nat : \E g : Steps(X, base, Step, n, g)
<1> DEFINE T == {n \in Nat : \E g : Steps(X, base, Step, n, g)}
<1>1. 0 \in T
  <2>1. Steps(X, base, Step, 0, [k \in 0 .. 0 |-> base])
    BY DEF Steps
  <2> QED
    BY <2>1
<1>2. ASSUME NEW n \in Nat, n \in T PROVE n + 1 \in T
  <2>1. PICK g : Steps(X, base, Step, n, g)
    BY <1>2
  <2> DEFINE h == [k \in 0 .. n + 1 |-> IF k = n + 1 THEN Step[n][g[n]] ELSE g[k]]
  <2>2. /\ g \in [0 .. n -> X] /\ g[0] = base
        /\ \A k \in 0 .. n - 1 : g[k + 1] = Step[k][g[k]]
    BY <2>1 DEF Steps
  <2>3. Step[n][g[n]] \in X
    BY <2>2
  <2>4. h \in [0 .. n + 1 -> X]
    BY <2>2, <2>3
  <2>5. h[0] = base
    BY <2>2
  <2>6. ASSUME NEW k \in 0 .. (n + 1) - 1 PROVE h[k + 1] = Step[k][h[k]]
    <3>1. h[k] = g[k]
      OBVIOUS
    <3>2. CASE k = n
      BY <3>1, <3>2
    <3>3. CASE k # n
      <4>1. k \in 0 .. n - 1 /\ k + 1 \in 0 .. n + 1 /\ k + 1 # n + 1
        BY <3>3
      <4> QED
        BY <2>2, <3>1, <4>1
    <3> QED
      BY <3>2, <3>3
  <2>7. Steps(X, base, Step, n + 1, h)
    BY <2>4, <2>5, <2>6 DEF Steps
  <2> QED
    BY <2>7
<1> HIDE DEF T
<1>3. Nat \subseteq T
  BY <1>1, <1>2, Induction
<1> QED
  BY <1>3 DEF T

(* and in one way only.                                                    *)
LEMMA StepsAgree ==
    ASSUME NEW X, NEW base, NEW Step, NEW n \in Nat, NEW m \in Nat, NEW g, NEW h,
           Steps(X, base, Step, n, g), Steps(X, base, Step, m, h)
    PROVE  \A k \in 0 .. n : k <= m => g[k] = h[k]
<1> DEFINE T == {k \in Nat : k <= n /\ k <= m => g[k] = h[k]}
<1>1. 0 \in T
  BY DEF Steps
<1>2. ASSUME NEW k \in Nat, k \in T PROVE k + 1 \in T
  <2> SUFFICES ASSUME k + 1 <= n, k + 1 <= m PROVE g[k + 1] = h[k + 1]
    OBVIOUS
  <2>1. k \in 0 .. n - 1 /\ k \in 0 .. m - 1 /\ k <= n /\ k <= m
    OBVIOUS
  <2>2. g[k] = h[k]
    BY <1>2, <2>1
  <2> QED
    BY <2>1, <2>2 DEF Steps
<1> HIDE DEF T
<1>3. Nat \subseteq T
  BY <1>1, <1>2, Induction
<1> QED
  BY <1>3 DEF T

(* A function applied over and over, the n-th time as Step[n].             *)
IsIteration(f, X, base, Step) ==
    /\ f \in [Nat -> X]
    /\ f[0] = base
    /\ \A n \in Nat : f[n + 1] = Step[n][f[n]]

LEMMA Iteration ==
    ASSUME NEW X, NEW base \in X, NEW Step \in [Nat -> [X -> X]]
    PROVE  \E f : IsIteration(f, X, base, Step)
<1> DEFINE first(n) == CHOOSE g : Steps(X, base, Step, n, g)
           f == [n \in Nat |-> first(n)[n]]
<1>1. \A n \in Nat : Steps(X, base, Step, n, first(n))
  BY StepsExist
<1> HIDE DEF first
<1>2. f \in [Nat -> X]
  <2>1. \A n \in Nat : first(n)[n] \in X
    BY <1>1 DEF Steps
  <2> QED
    BY <2>1
<1>3. f[0] = base
  BY <1>1 DEF Steps
<1>4. ASSUME NEW n \in Nat PROVE f[n + 1] = Step[n][f[n]]
  <2>1. n \in 0 .. (n + 1) - 1 /\ n \in 0 .. n + 1 /\ n \in 0 .. n /\ n <= n + 1 /\ n + 1 \in Nat
    OBVIOUS
  <2>2. first(n + 1)[n + 1] = Step[n][first(n + 1)[n]]
    BY <1>1, <2>1 DEF Steps
  <2>3. first(n)[n] = first(n + 1)[n]
    BY <1>1, <2>1, StepsAgree
  <2> QED
    BY <2>1, <2>2, <2>3
<1>5. IsIteration(f, X, base, Step)
  <2> HIDE DEF f
  <2> QED
    BY <1>2, <1>3, <1>4 DEF IsIteration
<1> QED
  BY <1>5

-----------------------------------------------------------------------------
(* Texts, a character at a time.                                           *)

(* A text that is not empty is another with a character behind it.         *)
LEMMA LastApart ==
    ASSUME NEW C, NEW n \in Nat, NEW s \in Seq(C), Len(s) = n + 1
    PROVE  \E t \in Seq(C) : \E c \in C : Len(t) = n /\ s = Append(t, c)
<1> DEFINE t == [i \in 1 .. n |-> s[i]]
<1>1. t \in Seq(C) /\ Len(t) = n /\ s[n + 1] \in C
  OBVIOUS
<1>2. s = Append(t, s[n + 1])
  OBVIOUS
<1> QED
  BY <1>1, <1>2

(* A set that holds the empty text, and with a text every one that is a    *)
(* character longer, holds every text.                                     *)
LEMMA TextInduction ==
    ASSUME NEW C, NEW T, <<>> \in T,
           \A s \in Seq(C) : s \in T => \A c \in C : Append(s, c) \in T
    PROVE  Seq(C) \subseteq T
<1> DEFINE U == {n \in Nat : \A s \in Seq(C) : Len(s) = n => s \in T}
<1>1. 0 \in U
  OBVIOUS
<1>2. ASSUME NEW n \in Nat, n \in U PROVE n + 1 \in U
  <2> SUFFICES ASSUME NEW s \in Seq(C), Len(s) = n + 1 PROVE s \in T
    OBVIOUS
  <2>1. PICK t \in Seq(C) : \E c \in C : Len(t) = n /\ s = Append(t, c)
    BY LastApart
  <2>2. t \in T
    BY <1>2, <2>1
  <2> QED
    BY <2>1, <2>2
<1> HIDE DEF U
<1>3. Nat \subseteq U
  BY <1>1, <1>2, Induction
<1>4. ASSUME NEW s \in Seq(C) PROVE s \in T
  <2>1. Len(s) \in U
    BY <1>3
  <2> QED
    BY <2>1 DEF U
<1> QED
  BY <1>4

(* A loop over the characters of a text: what it holds after each of them. *)
IsLoop(f, X, base, Step, s) ==
    /\ f \in [0 .. Len(s) -> X]
    /\ f[0] = base
    /\ \A n \in 0 .. Len(s) - 1 : f[n + 1] = Step[f[n]][s[n + 1]]

LEMMA LoopExists ==
    ASSUME NEW C, NEW X, NEW base \in X, NEW Step \in [X -> [C -> X]], NEW s \in Seq(C)
    PROVE  \E f : IsLoop(f, X, base, Step, s)
<1> DEFINE S == [n \in Nat |-> [x \in X |-> IF n < Len(s) THEN Step[x][s[n + 1]] ELSE x]]
<1>0. Len(s) \in Nat /\ \A n \in Nat : n < Len(s) => s[n + 1] \in C
  OBVIOUS
<1>1. S \in [Nat -> [X -> X]]
  <2>1. ASSUME NEW n \in Nat, NEW x \in X, n < Len(s) PROVE Step[x][s[n + 1]] \in X
    BY <1>0, <2>1
  <2> QED
    BY <2>1
<1>2. PICK f : IsIteration(f, X, base, S)
  <2> HIDE DEF S
  <2> QED
    BY <1>1, Iteration
<1>3. /\ f \in [Nat -> X] /\ f[0] = base
      /\ \A n \in Nat : n < Len(s) => f[n + 1] = Step[f[n]][s[n + 1]]
  BY <1>2 DEF IsIteration
<1> DEFINE h == [n \in 0 .. Len(s) |-> f[n]]
<1>4. h \in [0 .. Len(s) -> X] /\ h[0] = base
  BY <1>0, <1>3
<1>5. ASSUME NEW n \in 0 .. Len(s) - 1 PROVE h[n + 1] = Step[h[n]][s[n + 1]]
  <2>1. n \in Nat /\ n < Len(s) /\ n \in 0 .. Len(s) /\ n + 1 \in 0 .. Len(s)
    BY <1>0
  <2> QED
    BY <1>3, <2>1
<1>6. IsLoop(h, X, base, Step, s)
  <2> HIDE DEF h
  <2> QED
    BY <1>4, <1>5 DEF IsLoop
<1> QED
  BY <1>6

(* A loop over a text that is a character longer takes one turn more.      *)
LEMMA LoopTurns ==
    ASSUME NEW X, NEW base, NEW Step, NEW s, Len(s) \in Nat, NEW t, NEW c, NEW f, NEW g,
           Len(t) = Len(s) + 1, \A n \in 1 .. Len(s) : t[n] = s[n], t[Len(s) + 1] = c,
           IsLoop(f, X, base, Step, s), IsLoop(g, X, base, Step, t)
    PROVE  g[Len(s) + 1] = Step[f[Len(s)]][c]
<1> DEFINE T == {n \in Nat : n <= Len(s) => g[n] = f[n]}
<1>1. 0 \in T
  BY DEF IsLoop
<1>2. ASSUME NEW n \in Nat, n \in T PROVE n + 1 \in T
  <2> SUFFICES ASSUME n + 1 <= Len(s) PROVE g[n + 1] = f[n + 1]
    OBVIOUS
  <2>1. /\ n \in 0 .. Len(s) - 1 /\ n \in 0 .. Len(t) - 1 /\ n <= Len(s)
        /\ n + 1 \in 1 .. Len(s)
    OBVIOUS
  <2>2. g[n + 1] = Step[g[n]][s[n + 1]] /\ f[n + 1] = Step[f[n]][s[n + 1]]
    BY <2>1 DEF IsLoop
  <2> QED
    BY <1>2, <2>1, <2>2
<1> HIDE DEF T
<1>3. Nat \subseteq T
  BY <1>1, <1>2, Induction
<1>4. g[Len(s)] = f[Len(s)]
  BY <1>3 DEF T
<1>5. Len(s) \in 0 .. Len(t) - 1
  OBVIOUS
<1> QED
  BY <1>4, <1>5 DEF IsLoop
==============================================================================
