---------------------------- MODULE DataInduction -----------------------------
(***************************************************************************)
(* Induction over the natural numbers for facts that are given by a set:   *)
(* the facts on data of any length that the other proofs need.             *)
(***************************************************************************)
EXTENDS Integers, WellFoundedInduction, TLAPS

\* A set that holds 0, and with every number the next one, holds them all.
LEMMA SetInduction ==
  ASSUME NEW T, 0 \in T, \A n \in Nat : n \in T => n + 1 \in T
  PROVE  Nat \subseteq T
<1> DEFINE M == Nat \ T
<1> SUFFICES ASSUME M # {} PROVE FALSE
  OBVIOUS
<1>1. M \subseteq Nat
  OBVIOUS
<1> HIDE DEF M
<1>2. PICK x \in M : \A y \in M : ~(<<y, x>> \in OpToRel(<, Nat))
  BY <1>1, WFMin, NatLessThanWellFounded
<1>3. \A y \in M : ~(y < x)
  BY <1>1, <1>2 DEF OpToRel
<1>4. x \in Nat /\ x # 0
  BY <1>1 DEF M
<1>5. x - 1 \in Nat /\ x - 1 < x /\ (x - 1) + 1 = x
  BY <1>4
<1>6. x - 1 \in T
  BY <1>3, <1>5 DEF M
<1> QED BY <1>5, <1>6 DEF M

\* The same up to a bound, and down from it.
LEMMA SetInductionTo ==
  ASSUME NEW N \in Nat, NEW T, 0 \in T, \A n \in 0..N - 1 : n \in T => n + 1 \in T
  PROVE  0..N \subseteq T
<1> DEFINE U == {n \in Nat : n <= N => n \in T}
<1>1. 0 \in U
  OBVIOUS
<1>2. ASSUME NEW n \in Nat, n \in U PROVE n + 1 \in U
  BY <1>2
<1> HIDE DEF U
<1>3. Nat \subseteq U
  BY <1>1, <1>2, SetInduction
<1> QED BY <1>3 DEF U

LEMMA SetInductionDown ==
  ASSUME NEW N \in Nat, NEW T, N \in T, \A n \in 0..N - 1 : n + 1 \in T => n \in T
  PROVE  0..N \subseteq T
<1> DEFINE U == {n \in Nat : n <= N => N - n \in T}
<1>1. 0 \in U
  OBVIOUS
<1>2. ASSUME NEW n \in Nat, n \in U PROVE n + 1 \in U
  <2> SUFFICES ASSUME n + 1 <= N PROVE N - (n + 1) \in T
    OBVIOUS
  <2>1. N - n \in T /\ N - (n + 1) \in 0..N - 1 /\ (N - (n + 1)) + 1 = N - n
    BY <1>2
  <2> QED BY <2>1
<1> HIDE DEF U
<1>3. Nat \subseteq U
  BY <1>1, <1>2, SetInduction
<1>4. ASSUME NEW n \in 0..N PROVE n \in T
  <2>1. N - n \in Nat /\ N - n <= N /\ N - (N - n) = n
    OBVIOUS
  <2> QED BY <2>1, <1>3 DEF U
<1> QED BY <1>4

-----------------------------------------------------------------------------
(* Recursive functions: a first value, and the next one of each by step. *)

Runs(f, base, step, N) == f[0] = base /\ \A n \in 0..N - 1 : f[n + 1] = step[<<f[n], n + 1>>]

\* Two of them agree as far as both go.
LEMMA RunsAgree ==
  ASSUME NEW base, NEW step, NEW N \in Nat, NEW f, NEW g,
         Runs(f, base, step, N), Runs(g, base, step, N)
  PROVE  \A n \in 0..N : f[n] = g[n]
<1> DEFINE T == {n \in 0..N : f[n] = g[n]}
<1>1. 0 \in T
  BY DEF Runs
<1>2. ASSUME NEW n \in 0..N - 1, n \in T PROVE n + 1 \in T
  <2>1. f[n] = g[n] /\ n + 1 \in 0..N
    BY <1>2
  <2> QED BY <2>1 DEF Runs
<1> HIDE DEF T
<1>3. 0..N \subseteq T
  BY <1>1, <1>2, SetInductionTo
<1> QED BY <1>3 DEF T

LEMMA RunsExistTo ==
  ASSUME NEW S, NEW base \in S, NEW step \in [S \X Nat -> S]
  PROVE  \A N \in Nat : \E f \in [Nat -> S] : Runs(f, base, step, N)
<1> DEFINE T == {N \in Nat : \E f \in [Nat -> S] : Runs(f, base, step, N)}
<1>1. 0 \in T
  <2> DEFINE f == [n \in Nat |-> base]
  <2>1. f \in [Nat -> S] /\ Runs(f, base, step, 0)
    BY DEF Runs
  <2> QED BY <2>1
<1>2. ASSUME NEW N \in Nat, N \in T PROVE N + 1 \in T
  <2>1. PICK f \in [Nat -> S] : Runs(f, base, step, N)
    BY <1>2
  <2> DEFINE v == step[<<f[N], N + 1>>]
             g == [f EXCEPT ![N + 1] = v]
  <2>2. v \in S
    OBVIOUS
  <2>3. g \in [Nat -> S] /\ g[N + 1] = v /\ \A n \in 0..N : g[n] = f[n]
    BY <2>2
  <2> HIDE DEF g, v
  <2>4. g[0] = base
    BY <2>1, <2>3 DEF Runs
  <2>5. ASSUME NEW n \in 0..(N + 1) - 1 PROVE g[n + 1] = step[<<g[n], n + 1>>]
    <3>1. CASE n = N
      BY <3>1, <2>3 DEF v
    <3>2. CASE n \in 0..N - 1
      BY <3>2, <2>1, <2>3 DEF Runs
    <3> QED BY <3>1, <3>2
  <2> QED BY <2>3, <2>4, <2>5 DEF Runs
<1> HIDE DEF T
<1>3. Nat \subseteq T
  BY <1>1, <1>2, SetInduction
<1> QED BY <1>3 DEF T

Iterates(f, base, step) == f[0] = base /\ \A n \in Nat : f[n + 1] = step[<<f[n], n + 1>>]

LEMMA RunsExist ==
  ASSUME NEW S, NEW base \in S, NEW step \in [S \X Nat -> S]
  PROVE  \E f \in [Nat -> S] : Iterates(f, base, step)
<1> DEFINE H(N) == CHOOSE f \in [Nat -> S] : Runs(f, base, step, N)
           g == [n \in Nat |-> H(n)[n]]
<1>1. \A N \in Nat : H(N) \in [Nat -> S] /\ Runs(H(N), base, step, N)
  BY RunsExistTo
<1> HIDE DEF H
<1>2. g \in [Nat -> S]
  BY <1>1
<1>3. g[0] = base
  BY <1>1 DEF Runs
<1>4. ASSUME NEW n \in Nat PROVE g[n + 1] = step[<<g[n], n + 1>>]
  <2>1. Runs(H(n + 1), base, step, n + 1) /\ Runs(H(n), base, step, n)
    BY <1>1
  <2>2. Runs(H(n + 1), base, step, n) /\ H(n + 1)[n + 1] = step[<<H(n + 1)[n], n + 1>>]
    BY <2>1 DEF Runs
  <2>3. n \in 0..n
    OBVIOUS
  <2>4. H(n + 1)[n] = H(n)[n]
    BY <2>1, <2>2, <2>3, RunsAgree
  <2> QED BY <2>2, <2>4
<1> HIDE DEF g
<1>5. Iterates(g, base, step)
  BY <1>3, <1>4 DEF Iterates
<1> QED BY <1>2, <1>5
=============================================================================
