---------------------------- MODULE LoopTheorems ----------------------------
(***************************************************************************)
(* Facts about loops, which the modules write as recursive functions of    *)
(* the number of turns taken: what holds at first and is kept by each turn *)
(* holds at the end, and a loop makes a value at every turn.  The least    *)
(* and the greatest element of a set of numbers are loops of the source    *)
(* that the modules write as a choice.                                     *)
(***************************************************************************)
EXTENDS Integers, Sequences, FiniteSetsExt, WellFoundedInduction, TLAPS

(* Induction over the turns of a loop, for a set of turns.                 *)
LEMMA TurnInduction ==
    ASSUME NEW S, 0 \in S, \A n \in Nat : n \in S => n + 1 \in S
    PROVE  \A n \in Nat : n \in S
<1> DEFINE T == {n \in Nat : n \notin S}
           R == {ss \in Nat \X Nat : ss[1] < ss[2]}
<1>1. IsWellFoundedOn(R, Nat) BY NatLessThanWellFounded DEF OpToRel
<1>2. \A x \in Nat, y \in Nat : x < y => <<x, y>> \in R OBVIOUS
<1>3. T \subseteq Nat OBVIOUS
<1>4. ASSUME T # {} PROVE FALSE
  <2> HIDE DEF T, R
  <2>1. PICK x \in T : \A y \in T : ~(<<y, x>> \in R) BY <1>1, <1>3, <1>4, WFMin
  <2>2. x \in Nat BY <1>3, <2>1
  <2>3. x \notin S BY <2>1 DEF T
  <2>4. x # 0 BY <2>3
  <2>5. x - 1 \in Nat /\ x - 1 < x /\ (x - 1) + 1 = x BY <2>2, <2>4
  <2>6. x - 1 \notin S BY <2>3, <2>5
  <2>7. x - 1 \in T BY <2>5, <2>6 DEF T
  <2>8. QED BY <1>2, <2>1, <2>2, <2>5, <2>7
<1>5. QED BY <1>4

(* The same for the turns of a loop that has N of them.                    *)
LEMMA BoundedInduction ==
    ASSUME NEW N \in Nat, NEW S, 0 \in S, \A n \in 1 .. N : n - 1 \in S => n \in S
    PROVE  \A n \in 0 .. N : n \in S
<1> DEFINE T == {n \in Nat : n <= N => n \in S}
<1>1. 0 \in T OBVIOUS
<1>2. ASSUME NEW n \in Nat, n \in T PROVE n + 1 \in T
  <2>1. CASE n + 1 <= N
    <3>1. n + 1 \in 1 .. N /\ (n + 1) - 1 = n /\ n <= N BY <2>1
    <3>2. QED BY <1>2, <3>1
  <2>2. QED BY <2>1
<1> HIDE DEF T
<1>3. \A n \in Nat : n \in T BY <1>1, <1>2, TurnInduction
<1>4. QED BY <1>3 DEF T

(* A loop of N turns over the values V makes a value at every turn.        *)
IsLoop(g, N, V, base, F) ==
    /\ g \in [0 .. N -> V]
    /\ g[0] = base /\ \A n \in 1 .. N : g[n] = F[n][g[n - 1]]
LEMMA LoopExists ==
    ASSUME NEW N \in Nat, NEW V, NEW base \in V, NEW F \in [1 .. N -> [V -> V]]
    PROVE  \E g : IsLoop(g, N, V, base, F)
<1> DEFINE Made(m) == \E g \in [0 .. m -> V] :
                         g[0] = base /\ \A n \in 1 .. m : g[n] = F[n][g[n - 1]]
           S == {m \in 0 .. N : Made(m)}
<1>1. 0 \in S
  <2>1. [n \in 0 .. 0 |-> base] \in [0 .. 0 -> V] OBVIOUS
  <2>2. [n \in 0 .. 0 |-> base][0] = base OBVIOUS
  <2>3. \A n \in 1 .. 0 : FALSE OBVIOUS
  <2>4. Made(0) BY <2>1, <2>2, <2>3
  <2>5. QED BY <2>4
<1>2. ASSUME NEW m \in 1 .. N, m - 1 \in S PROVE m \in S
  <2>1. PICK g \in [0 .. m - 1 -> V] :
          g[0] = base /\ \A n \in 1 .. m - 1 : g[n] = F[n][g[n - 1]] BY <1>2
  <2> DEFINE h == [n \in 0 .. m |-> IF n = m THEN F[m][g[m - 1]] ELSE g[n]]
  <2>2. m - 1 \in 0 .. m - 1 OBVIOUS
  <2>3. F[m][g[m - 1]] \in V BY <2>2
  <2>4. \A n \in 0 .. m - 1 : h[n] = g[n] OBVIOUS
  <2>5. h \in [0 .. m -> V] BY <2>3
  <2>6. h[0] = base BY <2>1, <2>4
  <2>7. ASSUME NEW n \in 1 .. m PROVE h[n] = F[n][h[n - 1]]
    <3>1. n - 1 \in 0 .. m - 1 OBVIOUS
    <3>2. h[n - 1] = g[n - 1] BY <2>4, <3>1
    <3>3. CASE n = m BY <3>2, <3>3
    <3>4. CASE n # m
      <4>1. n \in 1 .. m - 1 /\ n \in 0 .. m - 1 BY <3>4
      <4>2. QED BY <2>1, <2>4, <3>2, <4>1
    <3>5. QED BY <3>3, <3>4
  <2> HIDE DEF h
  <2>8. Made(m) BY <2>5, <2>6, <2>7
  <2>9. QED BY <2>8
<1> HIDE DEF S
<1>3. \A m \in 0 .. N : m \in S BY <1>1, <1>2, BoundedInduction
<1>4. N \in S BY <1>3
<1>5. QED BY <1>4 DEF S, IsLoop

(* The least element of a set of numbers.                                  *)
LEMMA MinIs ==
    ASSUME NEW S \in SUBSET Nat, S # {}
    PROVE  Min(S) \in S /\ \A y \in S : Min(S) <= y
<1> DEFINE R == {ss \in Nat \X Nat : ss[1] < ss[2]}
<1>1. IsWellFoundedOn(R, Nat) BY NatLessThanWellFounded DEF OpToRel
<1>2. \A x \in Nat, y \in Nat : x < y => <<x, y>> \in R OBVIOUS
<1> HIDE DEF R
<1>3. PICK x \in S : \A y \in S : ~(<<y, x>> \in R) BY <1>1, WFMin
<1>4. ASSUME NEW y \in S PROVE x <= y
  <2>1. x \in Nat /\ y \in Nat OBVIOUS
  <2>2. ~ (y < x) BY <1>2, <1>3, <2>1
  <2>3. QED BY <2>1, <2>2
<1>5. \E z \in S : \A y \in S : z =< y BY <1>4
<1>6. QED BY <1>5 DEF Min

(* The greatest element of a set of numbers that is bounded.               *)
LEMMA MaxIs ==
    ASSUME NEW S \in SUBSET Nat, S # {}, NEW N \in Nat, \A y \in S : y <= N
    PROVE  Max(S) \in S /\ \A y \in S : y <= Max(S)
<1> DEFINE T == {N - y : y \in S}
<1>1. \A y \in S : y \in Nat /\ N - y \in Nat OBVIOUS
<1>2. T \in SUBSET Nat /\ T # {} BY <1>1
<1>3. \A y \in S : N - y \in T OBVIOUS
<1>4. \A t \in T : \E y \in S : t = N - y OBVIOUS
<1> HIDE DEF T
<1>5. Min(T) \in T /\ \A t \in T : Min(T) <= t BY <1>2, MinIs
<1>6. PICK x \in S : Min(T) = N - x BY <1>4, <1>5
<1>7. ASSUME NEW y \in S PROVE x >= y
  <2>1. N - x <= N - y BY <1>3, <1>5, <1>6
  <2>2. QED BY <1>1, <2>1
<1>8. \E z \in S : \A y \in S : z >= y BY <1>7
<1>9. Max(S) \in S /\ \A y \in S : Max(S) >= y BY <1>8 DEF Max
<1>10. QED BY <1>1, <1>9
=============================================================================
