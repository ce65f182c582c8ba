---------------------------- MODULE WalletProofs ----------------------------
(***************************************************************************)
(* Proofs about Wallet, for any coins, values, amounts and failures: coins *)
(* are selected to the satoshi, and what is finalized is what was saved    *)
(* (SpendIsExact).                                                         *)
(***************************************************************************)
EXTENDS WalletProperties, FiniteSetTheorems, SequenceTheorems, WellFoundedInduction, TLAPS

(***************************************************************************)
(* Induction.  The theorems of the library that take the property as a     *)
(* parameter cannot be applied, but the set of the counterexamples has a   *)
(* least element.                                                          *)
(***************************************************************************)
\* A property of finite sets that fails somewhere fails first in a smallest set.
LEMMA MinimalSet ==
    ASSUME NEW S, IsFiniteSet(S), NEW T, T \subseteq SUBSET S, T # {}
    PROVE  \E x \in T : \A y \in T : y \subseteq x => y = x
<1>1. IsWellFoundedOn(StrictSubsetOrdering(S), SUBSET S)
    BY FS_StrictSubsetOrderingWellFounded, FS_FiniteSubsetsOfFinite
<1>2. PICK x \in T : \A y \in T : ~(<<y, x>> \in StrictSubsetOrdering(S))
    BY <1>1, WFMin
<1> QED BY <1>2 DEF StrictSubsetOrdering

LEMMA LeastNumber ==
    ASSUME NEW T, T \subseteq Nat, T # {}
    PROVE  \E n \in T : \A m \in T : n <= m
<1>1. PICK b \in T : TRUE
    OBVIOUS
<1>2. IsFiniteSet(1..b)
    BY <1>1, FS_Interval
<1> DEFINE below == {1..n : n \in {m \in T : m <= b}}
<1>3. below \subseteq SUBSET (1..b) /\ below # {}
    BY <1>1
<1>4. PICK x \in below : \A y \in below : y \subseteq x => y = x
    <2> DEFINE interval == 1..b
    <2>1. IsFiniteSet(interval) /\ below \subseteq SUBSET interval
        BY <1>2, <1>3
    <2> HIDE DEF below, interval
    <2>2. below # {}
        BY <1>3
    <2> QED BY <2>1, <2>2, MinimalSet, SMT
<1>5. PICK n \in T : n <= b /\ x = 1..n
    BY <1>4
<1>6. ASSUME NEW m \in T PROVE n <= m
    <2>1. SUFFICES ASSUME m < n PROVE FALSE
        BY <1>6
    <2>2. 1..m \in below /\ 1..m \subseteq x
        BY <1>1, <1>5, <2>1
    <2>3. 1..m = 1..n
        BY <1>4, <1>5, <2>2
    <2>4. n \in 1..m
        BY <2>1, <2>3
    <2> QED BY <2>1, <2>4
<1> QED BY <1>6

\* A function defined by recursion over the parts of a finite set exists: pick says
\* which element to take away, step what to do with it.
Picks(pick, S) == \A s \in SUBSET S : s # {} => pick[s] \in s
Recurs(f, S, base, pick, step) ==
    \A s \in SUBSET S :
        f[s] = IF s = {} THEN base ELSE step[<<pick[s], f[s \ {pick[s]}]>>]

LEMMA RecursionExists ==
    ASSUME NEW S, IsFiniteSet(S), NEW X, NEW base \in X,
           NEW pick, Picks(pick, S), NEW step \in [S \X X -> X]
    PROVE  \E f \in [SUBSET S -> X] : Recurs(f, S, base, pick, step)
<1> USE DEF Picks
<1> DEFINE Rec(f, s) == \A t \in SUBSET s :
               f[t] = IF t = {} THEN base ELSE step[<<pick[t], f[t \ {pick[t]}]>>]
<1>1. ASSUME NEW u \in SUBSET S, NEW v \in SUBSET u, NEW f, NEW g, Rec(f, u), Rec(g, v)
      PROVE  f[v] = g[v]
    <2> DEFINE T == {t \in SUBSET v : f[t] # g[t]}
    <2>1. SUFFICES ASSUME T # {} PROVE FALSE
        OBVIOUS
    <2>2. IsFiniteSet(v)
        BY FS_Subset
    <2>3. PICK t \in T : \A y \in T : y \subseteq t => y = t
        <3>1. T \subseteq SUBSET v
            OBVIOUS
        <3> HIDE DEF T
        <3> QED BY <2>1, <2>2, <3>1, MinimalSet
    <2>4. t \in SUBSET u /\ t \in SUBSET v /\ t \in SUBSET S
        BY <2>3
    <2>5. t # {}
        BY <1>1, <2>3, <2>4
    <2>6. pick[t] \in t
        BY <2>4, <2>5
    <2>7. f[t \ {pick[t]}] = g[t \ {pick[t]}]
        BY <2>3, <2>4, <2>6
    <2> QED BY <1>1, <2>3, <2>4, <2>5, <2>7
<1> DEFINE T == {s \in SUBSET S : ~\E f \in [SUBSET s -> X] : Rec(f, s)}
<1>2. SUFFICES ASSUME T # {} PROVE FALSE
    BY DEF Recurs
<1>3. PICK s \in T : \A y \in T : y \subseteq s => y = s
    <2>1. T \subseteq SUBSET S
        OBVIOUS
    <2> HIDE DEF T
    <2> QED BY <1>2, <2>1, MinimalSet
<1>4. s \in SUBSET S /\ ~\E f \in [SUBSET s -> X] : Rec(f, s)
    BY <1>3
<1> DEFINE F(u) == CHOOSE f \in [SUBSET u -> X] : Rec(f, u)
<1>5. ASSUME NEW u \in SUBSET s, u # s
      PROVE  F(u) \in [SUBSET u -> X] /\ Rec(F(u), u)
    <2>1. \E f \in [SUBSET u -> X] : Rec(f, u)
        BY <1>3, <1>4, <1>5
    <2> HIDE DEF Rec
    <2> QED BY <2>1
<1>6. ASSUME NEW u \in SUBSET s, u # s
      PROVE  /\ F(u)[u] \in X
             /\ F(u)[u] = IF u = {} THEN base
                          ELSE step[<<pick[u], F(u \ {pick[u]})[u \ {pick[u]}]>>]
    <2> DEFINE w == u \ {pick[u]}
    <2>0. F(u) \in [SUBSET u -> X] /\ Rec(F(u), u)
        BY <1>5, <1>6
    <2>1. w \in SUBSET s /\ w # s /\ w \in SUBSET u /\ u \in SUBSET S
        BY <1>4, <1>6
    <2>2. F(w) \in [SUBSET w -> X] /\ Rec(F(w), w)
        BY <1>5, <2>1
    <2> HIDE DEF w, F
    <2>3. F(u)[w] = F(w)[w]
        <3> HIDE DEF Rec
        <3> QED BY <1>1, <2>0, <2>1, <2>2
    <2>4. F(u)[u] = IF u = {} THEN base ELSE step[<<pick[u], F(u)[w]>>]
        BY <2>0 DEF w
    <2>5. F(u)[u] \in X
        BY <2>0
    <2> QED BY <2>3, <2>4, <2>5 DEF w
<1> DEFINE G == [t \in SUBSET s |-> IF t = {} THEN base
                      ELSE step[<<pick[t], F(t \ {pick[t]})[t \ {pick[t]}]>>]]
<1> HIDE DEF F
<1>7. ASSUME NEW t \in SUBSET s, t # {}
      PROVE  t \ {pick[t]} \in SUBSET s /\ t \ {pick[t]} # s /\ pick[t] \in S
    BY <1>4, <1>7
<1>8. G \in [SUBSET s -> X]
    <2>1. ASSUME NEW t \in SUBSET s PROVE G[t] \in X
        BY <1>6, <1>7
    <2> QED BY <2>1
<1>9. ASSUME NEW t \in SUBSET s
      PROVE  G[t] = IF t = {} THEN base ELSE step[<<pick[t], G[t \ {pick[t]}]>>]
    <2>1. CASE t = {}
        BY <2>1
    <2>2. CASE t # {}
        <3> DEFINE w == t \ {pick[t]}
        <3>1. w \in SUBSET s /\ w # s
            BY <1>7, <2>2
        <3>2. G[w] = F(w)[w]
            BY <1>6, <3>1
        <3>3. G[t] = step[<<pick[t], F(w)[w]>>]
            BY <2>2
        <3> QED BY <2>2, <3>2, <3>3
    <2> QED BY <2>1, <2>2
<1> QED BY <1>4, <1>8, <1>9

(***************************************************************************)
(* What coins are worth.  Sum is the fold of the community modules: a      *)
(* function on all parts of the set, named here so that it can be spoken   *)
(* of.                                                                     *)
(***************************************************************************)
Some(s) == CHOOSE x \in s : TRUE

SumFn(S) == CHOOSE f : f = [s \in SUBSET S |->
                IF s = {} THEN 0 ELSE LET x == CHOOSE x \in s : TRUE IN worth[x] + f[s \ {x}]]

LEMMA SumIs == ASSUME NEW S PROVE Sum(S) = SumFn(S)[S]
    BY DEF Sum, FoldSet, MapThenFoldSet, SumFn

LEMMA SumFnRecurs ==
    ASSUME worth \in [Coins -> Nat], NEW S, S \subseteq Coins
    PROVE  /\ SumFn(S) \in [SUBSET S -> Nat]
           /\ \A s \in SUBSET S : SumFn(S)[s] =
                 IF s = {} THEN 0 ELSE worth[Some(s)] + SumFn(S)[s \ {Some(s)}]
<1> DEFINE pick == [s \in SUBSET S |-> Some(s)]
           step == [p \in S \X Nat |-> worth[p[1]] + p[2]]
           Body(f) == [s \in SUBSET S |->
                IF s = {} THEN 0 ELSE LET x == CHOOSE x \in s : TRUE IN worth[x] + f[s \ {x}]]
<1>1. IsFiniteSet(S)
    BY WalletAssumption, FS_Subset
<1>2. Picks(pick, S)
    BY DEF Some, Picks
<1>3. step \in [S \X Nat -> Nat]
    OBVIOUS
<1>4. PICK f \in [SUBSET S -> Nat] : \A s \in SUBSET S :
          f[s] = IF s = {} THEN 0 ELSE step[<<pick[s], f[s \ {pick[s]}]>>]
    <2> DEFINE X == Nat
               zero == 0
    <2>1. zero \in X
        OBVIOUS
    <2>2. step \in [S \X X -> X]
        BY <1>3
    <2> HIDE DEF pick, step, X, zero
    <2>3. \E f \in [SUBSET S -> X] : Recurs(f, S, zero, pick, step)
        BY <1>1, <1>2, <2>1, <2>2, RecursionExists
    <2> QED BY <2>3 DEF X, zero, Recurs
<1>5. f = Body(f)
    <2>1. ASSUME NEW s \in SUBSET S PROVE f[s] = Body(f)[s]
        <3>1. CASE s # {}
            <4>1. pick[s] = Some(s) /\ pick[s] \in S /\ f[s \ {pick[s]}] \in Nat
                BY <1>2, <3>1 DEF Picks
            <4> QED BY <1>4, <3>1, <4>1 DEF Some
        <3> QED BY <1>4, <3>1
    <2> QED BY <2>1
<1>6. SumFn(S) = Body(SumFn(S))
    BY <1>5 DEF SumFn
<1>7. ASSUME NEW s \in SUBSET S
      PROVE  SumFn(S)[s] = IF s = {} THEN 0 ELSE worth[Some(s)] + SumFn(S)[s \ {Some(s)}]
    BY <1>6 DEF Some
<1>8. ASSUME NEW s \in SUBSET S PROVE SumFn(S)[s] \in Nat
    <2> DEFINE T == {t \in SUBSET S : SumFn(S)[t] \notin Nat}
    <2>1. SUFFICES ASSUME T # {} PROVE FALSE
        BY <1>8
    <2>2. PICK t \in T : \A y \in T : y \subseteq t => y = t
        <3>1. T \subseteq SUBSET S
            OBVIOUS
        <3> HIDE DEF T
        <3> QED BY <1>1, <2>1, <3>1, MinimalSet
    <2>3. t # {} /\ Some(t) \in t
        BY <1>7, <2>2 DEF Some
    <2>4. SumFn(S)[t \ {Some(t)}] \in Nat
        BY <2>2, <2>3
    <2>5. worth[Some(t)] \in Nat
        BY <2>2, <2>3
    <2>6. SumFn(S)[t] = worth[Some(t)] + SumFn(S)[t \ {Some(t)}]
        BY <1>7, <2>2, <2>3
    <2>7. SumFn(S)[t] \in Nat
        BY <2>4, <2>5, <2>6
    <2> QED BY <2>2, <2>7
<1>9. SumFn(S) \in [SUBSET S -> Nat]
    <2>1. SumFn(S) = [s \in SUBSET S |-> SumFn(S)[s]]
        BY <1>6
    <2> HIDE DEF SumFn
    <2> QED BY <1>8, <2>1
<1> QED BY <1>7, <1>9

\* A part of a sum does not depend on the whole.
LEMMA SumFnOfPart ==
    ASSUME worth \in [Coins -> Nat], NEW S, S \subseteq Coins, NEW u \in SUBSET S
    PROVE  SumFn(S)[u] = Sum(u)
<1> DEFINE T == {t \in SUBSET u : SumFn(S)[t] # SumFn(u)[t]}
<1>1. IsFiniteSet(u)
    BY WalletAssumption, FS_Subset
<1>2. T = {}
    <2>1. SUFFICES ASSUME T # {} PROVE FALSE
        OBVIOUS
    <2>2. PICK t \in T : \A y \in T : y \subseteq t => y = t
        <3>1. T \subseteq SUBSET u
            OBVIOUS
        <3> HIDE DEF T
        <3> QED BY <1>1, <2>1, <3>1, MinimalSet
    <2>3. /\ SumFn(S)[t] = IF t = {} THEN 0 ELSE worth[Some(t)] + SumFn(S)[t \ {Some(t)}]
          /\ SumFn(u)[t] = IF t = {} THEN 0 ELSE worth[Some(t)] + SumFn(u)[t \ {Some(t)}]
        BY <2>2, SumFnRecurs
    <2>4. t # {} /\ Some(t) \in t
        BY <2>2, <2>3 DEF Some
    <2>5. SumFn(S)[t \ {Some(t)}] = SumFn(u)[t \ {Some(t)}]
        BY <2>2, <2>4
    <2> QED BY <2>2, <2>3, <2>4, <2>5
<1>3. SumFn(S)[u] = SumFn(u)[u]
    BY <1>2
<1> QED BY <1>3, SumIs

LEMMA SumOfSome ==
    ASSUME worth \in [Coins -> Nat], NEW S, S \subseteq Coins
    PROVE  /\ Sum(S) \in Nat
           /\ Sum(S) = IF S = {} THEN 0 ELSE worth[Some(S)] + Sum(S \ {Some(S)})
<1>1. S \ {Some(S)} \in SUBSET S
    OBVIOUS
<1>2. SumFn(S)[S] = Sum(S) /\ SumFn(S)[S \ {Some(S)}] = Sum(S \ {Some(S)})
    BY <1>1, SumFnOfPart
<1>3. /\ SumFn(S)[S] \in Nat
      /\ SumFn(S)[S] = IF S = {} THEN 0 ELSE worth[Some(S)] + SumFn(S)[S \ {Some(S)}]
    BY SumFnRecurs
<1> QED BY <1>2, <1>3

\* The order in which coins are added does not matter.
LEMMA SumWithout ==
    ASSUME worth \in [Coins -> Nat], NEW S, S \subseteq Coins, NEW c \in S
    PROVE  Sum(S) = worth[c] + Sum(S \ {c})
<1> DEFINE Bad(s) == \E d \in s : Sum(s) # worth[d] + Sum(s \ {d})
           T == {s \in SUBSET S : Bad(s)}
<1>1. IsFiniteSet(S)
    BY WalletAssumption, FS_Subset
<1>2. SUFFICES ASSUME T # {} PROVE FALSE
    OBVIOUS
<1>3. PICK s \in T : \A y \in T : y \subseteq s => y = s
    <2>1. T \subseteq SUBSET S
        OBVIOUS
    <2> HIDE DEF T
    <2> QED BY <1>1, <1>2, <2>1, MinimalSet
<1>4. PICK d \in s : Sum(s) # worth[d] + Sum(s \ {d})
    BY <1>3
<1> DEFINE e == Some(s)
<1>5. e \in s /\ s \subseteq Coins /\ d \in Coins /\ e \in Coins
    BY <1>3, <1>4 DEF Some
<1>6. Sum(s) = worth[e] + Sum(s \ {e})
    BY <1>4, <1>5, SumOfSome
<1>7. d # e
    BY <1>4, <1>6
<1>8. s \ {e} \notin T /\ s \ {d} \notin T /\ s \ {e} \in SUBSET S /\ s \ {d} \in SUBSET S
    BY <1>3, <1>4, <1>5
<1>9. /\ Sum(s \ {e}) = worth[d] + Sum((s \ {e}) \ {d})
      /\ Sum(s \ {d}) = worth[e] + Sum((s \ {d}) \ {e})
    BY <1>4, <1>5, <1>7, <1>8
<1>10. (s \ {e}) \ {d} = (s \ {d}) \ {e}
    OBVIOUS
<1>11. Sum((s \ {e}) \ {d}) \in Nat /\ worth[d] \in Nat /\ worth[e] \in Nat
    BY <1>5, SumOfSome
<1> DEFINE rest == Sum((s \ {e}) \ {d})
<1>12. /\ Sum(s) = worth[e] + (worth[d] + rest)
       /\ worth[d] + Sum(s \ {d}) = worth[d] + (worth[e] + rest)
       /\ rest \in Nat
    BY <1>6, <1>9, <1>10, <1>11
<1> HIDE DEF e, rest
<1> QED BY <1>4, <1>11, <1>12

LEMMA SumGrows ==
    ASSUME worth \in [Coins -> Nat], NEW S, S \subseteq Coins, NEW u \in SUBSET S
    PROVE  Sum(u) <= Sum(S)
<1> DEFINE T == {s \in SUBSET S : u \subseteq s /\ ~(Sum(u) <= Sum(s))}
<1>1. IsFiniteSet(S)
    BY WalletAssumption, FS_Subset
<1>2. SUFFICES ASSUME T # {} PROVE FALSE
    OBVIOUS
<1>3. PICK s \in T : \A y \in T : y \subseteq s => y = s
    <2>1. T \subseteq SUBSET S
        OBVIOUS
    <2> HIDE DEF T
    <2> QED BY <1>1, <1>2, <2>1, MinimalSet
<1>4. s \subseteq Coins /\ u \subseteq Coins /\ Sum(s) \in Nat /\ Sum(u) \in Nat
    BY <1>3, SumOfSome
<1>5. s # u
    BY <1>3, <1>4
<1>6. PICK c \in s : c \notin u
    BY <1>3, <1>5
<1>7. s \ {c} \notin T /\ u \subseteq s \ {c} /\ s \ {c} \in SUBSET S
    BY <1>3, <1>6
<1>8. Sum(u) <= Sum(s \ {c}) /\ Sum(s \ {c}) \in Nat /\ worth[c] \in Nat
    BY <1>4, <1>6, <1>7, SumOfSome
<1>9. Sum(s) = worth[c] + Sum(s \ {c})
    BY <1>4, <1>6, SumWithout
<1> QED BY <1>3, <1>4, <1>8, <1>9

(***************************************************************************)
(* The candidates: every coin on offer once, in the order of Precedes.     *)
(***************************************************************************)
\* The order of the candidates is total.
LEMMA OrderIsTotal ==
    ASSUME worth \in [Coins -> Nat], NEW c \in Coins, NEW d \in Coins, NEW e \in Coins
    PROVE  /\ ~Precedes(c, c)
           /\ c # d => Precedes(c, d) \/ Precedes(d, c)
           /\ Precedes(c, d) /\ Precedes(d, e) => Precedes(c, e)
<1>1. /\ worth[c] \in Nat /\ worth[d] \in Nat /\ worth[e] \in Nat
      /\ c \in Nat /\ d \in Nat /\ e \in Nat
    BY WalletAssumption
<1> QED BY <1>1 DEF Precedes

LEMMA SomeCoinIsLast ==
    ASSUME worth \in [Coins -> Nat], NEW S, S \subseteq Coins, S # {}
    PROVE  \E m \in S : \A c \in S \ {m} : Precedes(c, m)
<1> DEFINE HasLast(s) == \E m \in s : \A c \in s \ {m} : Precedes(c, m)
           T == {s \in SUBSET S : s # {} /\ ~HasLast(s)}
<1>1. SUFFICES ASSUME T # {} PROVE FALSE
    OBVIOUS
<1>2. PICK s \in T : \A y \in T : y \subseteq s => y = s
    <2>1. T \subseteq SUBSET S /\ IsFiniteSet(S)
        BY WalletAssumption, FS_Subset
    <2> HIDE DEF T
    <2> QED BY <1>1, <2>1, MinimalSet
<1>3. PICK c \in s : TRUE
    BY <1>2
<1>4. s \ {c} # {}
    BY <1>2, <1>3
<1>5. PICK m \in s \ {c} : \A d \in (s \ {c}) \ {m} : Precedes(d, m)
    <2>1. s \ {c} \notin T /\ s \ {c} \in SUBSET S
        BY <1>2, <1>3
    <2>2. HasLast(s \ {c})
        BY <1>4, <2>1
    <2> QED BY <2>2
<1>6. c \in Coins /\ m \in Coins /\ s \subseteq Coins
    BY <1>2, <1>3, <1>5
<1>7. CASE Precedes(c, m)
    <2>1. \A d \in s \ {m} : Precedes(d, m)
        BY <1>5, <1>7
    <2> QED BY <1>2, <1>5, <2>1
<1>8. CASE Precedes(m, c)
    <2>1. \A d \in s \ {c} : Precedes(d, c)
        BY <1>5, <1>6, <1>8, OrderIsTotal
    <2> QED BY <1>2, <1>3, <2>1
<1> QED BY <1>5, <1>6, <1>7, <1>8, OrderIsTotal

InOrder(s) == \A i, j \in DOMAIN s : i < j => Precedes(s[i], s[j])

LEMMA CoinsCanBeSorted ==
    ASSUME worth \in [Coins -> Nat], NEW S, S \subseteq Coins
    PROVE  \E s \in SetToSeqs(S) : InOrder(s)
<1> DEFINE T == {u \in SUBSET S : ~\E s \in SetToSeqs(u) : InOrder(s)}
<1>1. SUFFICES ASSUME T # {} PROVE FALSE
    OBVIOUS
<1>2. PICK u \in T : \A y \in T : y \subseteq u => y = u
    <2>1. T \subseteq SUBSET S /\ IsFiniteSet(S)
        BY WalletAssumption, FS_Subset
    <2> HIDE DEF T
    <2> QED BY <1>1, <2>1, MinimalSet
<1>3. u \subseteq Coins /\ IsFiniteSet(u)
    BY <1>2, WalletAssumption, FS_Subset
<1>4. CASE u = {}
    <2>1. Cardinality(u) = 0
        BY <1>4, FS_EmptySet
    <2> DEFINE s == [i \in 1..0 |-> 0]
    <2>2. s \in SetToSeqs(u) /\ InOrder(s)
        BY <1>4, <2>1 DEF SetToSeqs, InOrder
    <2> HIDE DEF s
    <2> QED BY <1>2, <2>2
<1>5. CASE u # {}
    <2>1. PICK m \in u : \A c \in u \ {m} : Precedes(c, m)
        BY <1>3, <1>5, SomeCoinIsLast
    <2>2. PICK s \in SetToSeqs(u \ {m}) : InOrder(s)
        BY <1>2, <2>1
    <2> DEFINE n == Cardinality(u)
    <2>3. n \in Nat \ {0} /\ Cardinality(u \ {m}) = n - 1
        BY <1>3, <2>1, FS_RemoveElement, FS_CardinalityType, FS_EmptySet
    <2>4. /\ s \in [1..(n - 1) -> u \ {m}]
          /\ \A i, j \in 1..(n - 1) : i # j => s[i] # s[j]
        BY <2>2, <2>3 DEF SetToSeqs
    <2> HIDE DEF n
    <2> DEFINE t == [i \in 1..n |-> IF i = n THEN m ELSE s[i]]
    <2>5. \A i \in 1..n : i = n \/ i \in 1..(n - 1)
        BY <2>3
    <2>6. t \in [1..n -> u]
        BY <2>1, <2>4, <2>5
    <2>7. \A i, j \in 1..n : i # j => t[i] # t[j]
        BY <2>4, <2>5
    <2>8. t \in SetToSeqs(u)
        BY <2>6, <2>7 DEF SetToSeqs, n
    <2>9. InOrder(t)
        <3>1. SUFFICES ASSUME NEW i \in 1..n, NEW j \in 1..n, i < j PROVE Precedes(t[i], t[j])
            BY DEF InOrder
        <3>2. i \in 1..(n - 1) /\ t[i] = s[i]
            BY <2>3, <3>1
        <3>3. CASE j = n
            BY <2>1, <2>4, <3>2, <3>3
        <3>4. CASE j # n
            <4>1. j \in 1..(n - 1) /\ t[j] = s[j]
                BY <2>3, <3>1, <3>4
            <4> QED BY <2>2, <2>4, <3>1, <3>2, <4>1 DEF InOrder
        <3> QED BY <3>3, <3>4
    <2> HIDE DEF t
    <2> QED BY <1>2, <2>8, <2>9
<1> QED BY <1>4, <1>5

\* The candidates are the coins on offer, each once.
LEMMA CandidatesAreAll ==
    ASSUME worth \in [Coins -> Nat], NEW S, S \subseteq Coins
    PROVE  /\ Candidates(S) \in Seq(S)
           /\ ToSet(Candidates(S)) = S
<1> DEFINE s == Candidates(S)
           n == Cardinality(S)
<1>1. s \in SetToSeqs(S)
    <2>1. \E q \in SetToSeqs(S) : \A i, j \in DOMAIN q : i < j => Precedes(q[i], q[j])
        BY CoinsCanBeSorted DEF InOrder
    <2> QED BY <2>1 DEF Candidates
<1>2. IsFiniteSet(S) /\ n \in Nat
    BY WalletAssumption, FS_Subset, FS_CardinalityType
<1>3. s \in [1..n -> S] /\ \A i, j \in 1..n : i # j => s[i] # s[j]
    BY <1>1 DEF SetToSeqs
<1> HIDE DEF s, n
<1>4. s \in Injection(1..n, S)
    BY <1>3 DEF Injection, IsInjective
<1>5. Cardinality(1..n) = n
    BY <1>2, FS_Interval
<1>6. s \in Surjection(1..n, S)
    <2> DEFINE I == 1..n
    <2>1. s \in Injection(I, S) /\ Cardinality(I) = Cardinality(S)
        BY <1>4, <1>5 DEF n
    <2> HIDE DEF I
    <2>2. s \in Surjection(I, S)
        BY <1>2, <2>1, FS_Injection
    <2> QED BY <2>2 DEF I
<1>7. ToSet(s) = S
    BY <1>3, <1>6 DEF ToSet, Surjection
<1>8. s \in Seq(S)
    BY <1>2, <1>3
<1> QED BY <1>7, <1>8 DEF s

(***************************************************************************)
(* The selection, candidate by candidate.                                  *)
(***************************************************************************)
LEMMA MaxOf ==
    ASSUME NEW n \in Nat, NEW s \in SUBSET (1..n), s # {}
    PROVE  Max(s) \in s /\ \A i \in s : i <= Max(s)
<1> DEFINE T == {k \in Nat : \A i \in s : i <= k}
<1>1. T \subseteq Nat /\ n \in T
    OBVIOUS
<1>2. PICK k \in T : \A m \in T : k <= m
    <2> HIDE DEF T
    <2> QED BY <1>1, LeastNumber
<1>3. /\ k \in Nat /\ \A i \in s : i <= k
      /\ \A m \in Nat : (\A i \in s : i <= m) => k <= m
    BY <1>2
<1>4. k \in s
    <2>1. SUFFICES ASSUME k \notin s PROVE FALSE
        OBVIOUS
    <2>2. \A i \in s : i \in Nat /\ 1 <= i /\ i <= k - 1
        BY <1>3, <2>1
    <2>3. k - 1 \in Nat
        <3>1. PICK i \in s : TRUE
            OBVIOUS
        <3> QED BY <1>3, <2>2, <3>1
    <2>4. k <= k - 1
        BY <1>3, <2>2, <2>3
    <2> QED BY <1>3, <2>4
<1>5. \A i \in s : k >= i
    BY <1>3
<1> QED BY <1>4, <1>5 DEF Max

\* A step of the selection.
Add(chosen, c) ==
    IF Enough(chosen) \/ Change(chosen \cup {c}) > MaxAmount THEN chosen ELSE chosen \cup {c}

SelectFn(q) ==
    CHOOSE f : f = [s \in SUBSET DOMAIN q |->
        IF s = {} THEN {}
        ELSE LET x == Max(s)
             IN IF Enough(f[s \ {x}]) \/ Change(f[s \ {x}] \cup {q[x]}) > MaxAmount
                THEN f[s \ {x}] ELSE f[s \ {x}] \cup {q[x]}]

LEMMA SelectIs == ASSUME NEW coins
    PROVE Select(coins) = SelectFn(Candidates(coins))[DOMAIN Candidates(coins)]
    BY DEF Select, FoldLeft, MapThenFoldSet, SelectFn

LEMMA SelectFnRecurs ==
    ASSUME NEW S, S \subseteq Coins, NEW q \in Seq(S)
    PROVE  /\ SelectFn(q) \in [SUBSET (1..Len(q)) -> SUBSET S]
           /\ \A s \in SUBSET (1..Len(q)) :
                 SelectFn(q)[s] = IF s = {} THEN {} ELSE Add(SelectFn(q)[s \ {Max(s)}], q[Max(s)])
<1> DEFINE n == Len(q)
           D == 1..n
           X == SUBSET S
           base == {}
           pick == [s \in SUBSET D |-> Max(s)]
           step == [p \in D \X X |-> Add(p[2], q[p[1]])]
           Body(f) == [s \in SUBSET DOMAIN q |->
                IF s = {} THEN {}
                ELSE LET x == Max(s)
                     IN IF Enough(f[s \ {x}]) \/ Change(f[s \ {x}] \cup {q[x]}) > MaxAmount
                        THEN f[s \ {x}] ELSE f[s \ {x}] \cup {q[x]}]
<1>1. n \in Nat /\ DOMAIN q = D /\ \A i \in D : q[i] \in S
    OBVIOUS
<1>2. IsFiniteSet(D)
    BY <1>1, FS_Interval
<1>3. Picks(pick, D)
    BY <1>1, MaxOf DEF Picks
<1>4. step \in [D \X X -> X] /\ base \in X
    <2>1. ASSUME NEW a \in X, NEW i \in D PROVE Add(a, q[i]) \in X
        BY <1>1 DEF Add
    <2> QED BY <2>1
<1>5. PICK f \in [SUBSET D -> X] : Recurs(f, D, base, pick, step)
    <2> HIDE DEF D, X, base, pick, step
    <2> QED BY <1>2, <1>3, <1>4, RecursionExists
<1> HIDE DEF n
<1>6. ASSUME NEW s \in SUBSET D, s # {}
      PROVE  Max(s) \in D /\ Max(s) \in s /\ s \ {Max(s)} \in SUBSET D
    BY <1>1, <1>6, MaxOf
<1>7. ASSUME NEW s \in SUBSET D
      PROVE  f[s] = IF s = {} THEN {} ELSE Add(f[s \ {Max(s)}], q[Max(s)])
    <2>1. CASE s = {}
        BY <1>5, <2>1 DEF Recurs
    <2>2. CASE s # {}
        <3>1. f[s] = step[<<Max(s), f[s \ {Max(s)}]>>]
            BY <1>5, <2>2 DEF Recurs
        <3>2. f[s \ {Max(s)}] \in X /\ Max(s) \in D
            BY <1>6, <2>2
        <3> QED BY <2>2, <3>1, <3>2
    <2> QED BY <2>1, <2>2
<1>8. f = Body(f)
    <2>1. ASSUME NEW s \in SUBSET D PROVE f[s] = Body(f)[s]
        BY <1>1, <1>7 DEF Add
    <2> QED BY <1>1, <2>1
<1>9. SelectFn(q) = Body(SelectFn(q))
    BY <1>8 DEF SelectFn
<1>10. ASSUME NEW s \in SUBSET D
       PROVE  SelectFn(q)[s] =
                  IF s = {} THEN {} ELSE Add(SelectFn(q)[s \ {Max(s)}], q[Max(s)])
    BY <1>1, <1>9 DEF Add
<1> HIDE DEF D, X
<1>11. ASSUME NEW s \in SUBSET D PROVE SelectFn(q)[s] = f[s]
    <2> DEFINE T == {t \in SUBSET D : SelectFn(q)[t] # f[t]}
    <2>1. SUFFICES ASSUME T # {} PROVE FALSE
        OBVIOUS
    <2>2. PICK t \in T : \A y \in T : y \subseteq t => y = t
        <3>1. T \subseteq SUBSET D
            OBVIOUS
        <3> HIDE DEF T
        <3> QED BY <1>2, <2>1, <3>1, MinimalSet
    <2>3. t # {}
        BY <1>7, <1>10, <2>2
    <2>4. SelectFn(q)[t \ {Max(t)}] = f[t \ {Max(t)}]
        BY <1>6, <2>2, <2>3
    <2> QED BY <1>7, <1>10, <2>2, <2>3, <2>4
<1>12. SelectFn(q) \in [SUBSET D -> X]
    <2>1. SelectFn(q) = [s \in SUBSET D |-> SelectFn(q)[s]]
        BY <1>1, <1>9
    <2> HIDE DEF SelectFn
    <2> QED BY <1>11, <2>1
<1> QED BY <1>10, <1>12 DEF D, X, n

\* What has been chosen after k candidates.
Chosen(q, k) == SelectFn(q)[1..k]

LEMMA SelectSteps ==
    ASSUME NEW S, S \subseteq Coins, NEW q \in Seq(S)
    PROVE  /\ Chosen(q, 0) = {}
           /\ \A k \in 0..Len(q) : Chosen(q, k) \in SUBSET S
           /\ \A k \in 1..Len(q) : Chosen(q, k) = Add(Chosen(q, k - 1), q[k])
<1>0. /\ SelectFn(q) \in [SUBSET (1..Len(q)) -> SUBSET S]
      /\ \A s \in SUBSET (1..Len(q)) :
            SelectFn(q)[s] = IF s = {} THEN {} ELSE Add(SelectFn(q)[s \ {Max(s)}], q[Max(s)])
    BY SelectFnRecurs
<1>1. Len(q) \in Nat
    OBVIOUS
<1>2. ASSUME NEW k \in 0..Len(q) PROVE 1..k \in SUBSET (1..Len(q))
    OBVIOUS
<1>3. Chosen(q, 0) = {}
    <2>1. 1..0 = {} /\ 1..0 \in SUBSET (1..Len(q))
        BY <1>1
    <2> QED BY <1>0, <2>1 DEF Chosen
<1>4. ASSUME NEW k \in 0..Len(q) PROVE Chosen(q, k) \in SUBSET S
    BY <1>0, <1>2 DEF Chosen
<1>5. ASSUME NEW k \in 1..Len(q) PROVE Chosen(q, k) = Add(Chosen(q, k - 1), q[k])
    <2>1. 1..k \in SUBSET (1..Len(q)) /\ k \in 1..k /\ k \in Nat
        BY <1>2
    <2>2. Max(1..k) = k
        <3>1. Max(1..k) \in 1..k /\ k <= Max(1..k)
            BY <2>1, MaxOf
        <3> QED BY <2>1, <3>1
    <2>3. (1..k) \ {k} = 1..(k - 1)
        BY <2>1
    <2>4. SelectFn(q)[1..k] = Add(SelectFn(q)[(1..k) \ {k}], q[k])
        <3> DEFINE s == 1..k
        <3>1. s \in SUBSET (1..Len(q)) /\ s # {} /\ Max(s) = k
            BY <2>1, <2>2
        <3> HIDE DEF s
        <3>2. SelectFn(q)[s] = Add(SelectFn(q)[s \ {k}], q[k])
            BY <1>0, <3>1
        <3> QED BY <3>2 DEF s
    <2> QED BY <2>3, <2>4 DEF Chosen
<1> QED BY <1>3, <1>4, <1>5

\* Coins are chosen of those on offer, never so many that the change is too large; and
\* when too little was found, all of them together would not do.
LEMMA SelectionIsRight ==
    ASSUME worth \in [Coins -> Nat], order.amount \in Nat, NEW S, S \subseteq Coins
    PROVE  /\ Select(S) \in SUBSET S
           /\ Change(Select(S)) <= MaxAmount
           /\ Change(S) = 0 \/ Change(S) \in MinAmount..MaxAmount => Enough(Select(S))
<1> DEFINE q == Candidates(S)
           n == Len(q)
<1>1. q \in Seq(S) /\ ToSet(q) = S
    BY CandidatesAreAll
<1> HIDE DEF q
<1>2. n \in Nat /\ \A i \in 1..n : q[i] \in S
    BY <1>1
<1>3. Select(S) = Chosen(q, n)
    BY <1>1, SelectIs DEF Chosen, q
<1>4. /\ Chosen(q, 0) = {}
      /\ \A k \in 0..n : Chosen(q, k) \in SUBSET S
      /\ \A k \in 1..n : Chosen(q, k) = Add(Chosen(q, k - 1), q[k])
    BY <1>1, SelectSteps
<1>5. ASSUME NEW s \in SUBSET S PROVE Change(s) \in Int /\ Change(s) <= Change(S)
    <2>1. Sum(s) \in Nat /\ Sum(S) \in Nat /\ Sum(s) <= Sum(S)
        BY SumOfSome, SumGrows
    <2> QED BY <2>1 DEF Change
<1>6. MinAmount \in Nat \ {0} /\ MaxAmount \in Nat
    BY WalletAssumption
<1> HIDE DEF n
<1>7. \A k \in 0..n : Change(Chosen(q, k)) <= MaxAmount
    <2> DEFINE T == {k \in 0..n : ~(Change(Chosen(q, k)) <= MaxAmount)}
    <2>1. SUFFICES ASSUME T # {} PROVE FALSE
        OBVIOUS
    <2>2. PICK k \in T : \A m \in T : k <= m
        <3>1. T \subseteq Nat
            BY <1>2
        <3> HIDE DEF T
        <3> QED BY <2>1, <3>1, LeastNumber
    <2>3. CASE k = 0
        <3>1. Sum({}) = 0
            BY SumOfSome
        <3>2. Change({}) <= MaxAmount
            BY <1>6, <3>1 DEF Change
        <3> QED BY <1>4, <2>2, <2>3, <3>2
    <2>4. CASE k # 0
        <3>1. k \in 1..n /\ k - 1 \in 0..n /\ ~(k <= k - 1)
            BY <1>2, <2>2, <2>4
        <3>2. Change(Chosen(q, k - 1)) <= MaxAmount
            BY <2>2, <3>1
        <3>3. Change(Chosen(q, k - 1) \cup {q[k]}) \in Int
            BY <1>2, <1>4, <1>5, <3>1
        <3>4. Change(Add(Chosen(q, k - 1), q[k])) <= MaxAmount
            BY <1>6, <3>2, <3>3 DEF Add
        <3> QED BY <1>4, <2>2, <3>1, <3>4
    <2> QED BY <2>3, <2>4
<1>8. ASSUME Change(S) = 0 \/ Change(S) \in MinAmount..MaxAmount
      PROVE  Enough(Select(S))
    <2>1. Change(S) <= MaxAmount /\ Enough(S)
        BY <1>5, <1>6, <1>8 DEF Enough
    <2> DEFINE First(k) == {q[i] : i \in 1..k}
               Good(k) == Enough(Chosen(q, k)) \/ Chosen(q, k) = First(k)
               T == {k \in 0..n : ~Good(k)}
    <2>2. T = {}
        <3>1. SUFFICES ASSUME T # {} PROVE FALSE
            OBVIOUS
        <3>2. PICK k \in T : \A m \in T : k <= m
            <4>1. T \subseteq Nat
                BY <1>2
            <4> HIDE DEF T
            <4> QED BY <3>1, <4>1, LeastNumber
        <3>3. k # 0
            BY <1>4, <3>2
        <3>4. k \in 1..n /\ k - 1 \in 0..n /\ ~(k <= k - 1)
            BY <1>2, <3>2, <3>3
        <3>5. Good(k - 1)
            BY <3>2, <3>4
        <3>6. Chosen(q, k) = Add(Chosen(q, k - 1), q[k])
            BY <1>4, <3>4
        <3>7. CASE Enough(Chosen(q, k - 1))
            BY <3>2, <3>6, <3>7 DEF Add
        <3>8. CASE ~Enough(Chosen(q, k - 1)) /\ Chosen(q, k - 1) = First(k - 1)
            <4>1. First(k - 1) \cup {q[k]} = First(k)
                <5>1. \A i \in 1..k : i = k \/ i \in 1..(k - 1)
                    BY <3>4
                <5>2. \A i \in 1..(k - 1) : i \in 1..k
                    BY <3>4
                <5>3. k \in 1..k
                    BY <3>4
                <5> QED BY <5>1, <5>2, <5>3
            <4>2. First(k) \in SUBSET S
                BY <1>2, <3>4
            <4>3. ~(Change(First(k)) > MaxAmount)
                BY <1>5, <1>6, <2>1, <4>2
            <4> HIDE DEF First
            <4>4. Chosen(q, k) = First(k)
                BY <3>6, <3>8, <4>1, <4>3 DEF Add
            <4> QED BY <3>2, <4>4
        <3> QED BY <3>5, <3>7, <3>8
    <2>3. Good(n)
        BY <1>2, <2>2
    <2>4. First(n) = S
        BY <1>1 DEF ToSet, n
    <2> QED BY <1>3, <2>1, <2>3, <2>4
<1>9. n \in 0..n
    BY <1>2
<1> QED BY <1>3, <1>4, <1>7, <1>8, <1>9

(***************************************************************************)
(* Merging.  A packet of the player's own work carries no other signature  *)
(* of the player's, so an answer that keeps it can add none.               *)
(***************************************************************************)
IsPacket(p) == p = [tx |-> p.tx, fields |-> p.fields, sigs |-> p.sigs]
IsBundle(b) ==
    /\ b = [main |-> b.main, checkpoints |-> b.checkpoints]
    /\ IsPacket(b.main)
    /\ Len(b.checkpoints) \in Nat
    /\ b.checkpoints = [i \in 1..Len(b.checkpoints) |-> b.checkpoints[i]]
    /\ \A i \in 1..Len(b.checkpoints) : IsPacket(b.checkpoints[i])

PlayersOwn(p) == {s \in p.sigs : s.by = "player"} = {Signature("player")}
PlayerSigned(b) == \A p \in AllPackets(b) : PlayersOwn(p)

\* Signatures of the player that a packet may bring.
NoForgery(p) == \A s \in p.sigs : s.by = "player" => s = Signature("player")

LEMMA PacketMerges ==
    ASSUME NEW base, IsPacket(base), PlayersOwn(base), NEW remote, NoForgery(remote)
    PROVE  LET m == MergedPacket(base, remote)
           IN /\ IsPacket(m) /\ PlayersOwn(m)
              /\ m.tx = base.tx /\ m.fields = base.fields
              /\ m.sigs = base.sigs \cup remote.sigs
<1> DEFINE m == MergedPacket(base, remote)
<1>1. m = [tx |-> base.tx, fields |-> base.fields, sigs |-> base.sigs \cup remote.sigs]
    BY DEF MergedPacket, IsPacket
<1>2. PlayersOwn(m)
    BY <1>1 DEF PlayersOwn, NoForgery
<1> QED BY <1>1, <1>2 DEF IsPacket

LEMMA SignedIs ==
    ASSUME NEW p, IsPacket(p), NEW signer
    PROVE  Signed(signer, p) = [tx |-> p.tx, fields |-> p.fields,
               sigs |-> {s \in p.sigs : s.by # signer} \cup {Signature(signer)}]
<1> DEFINE sigs == {s \in p.sigs : s.by # signer} \cup {Signature(signer)}
<1>1. Signed(signer, p) = [p EXCEPT !.sigs = sigs]
    BY DEF Signed
<1> HIDE DEF sigs
<1>2. [p EXCEPT !.sigs = sigs] = [tx |-> p.tx, fields |-> p.fields, sigs |-> sigs]
    BY DEF IsPacket
<1> QED BY <1>1, <1>2 DEF sigs

LEMMA SequenceOf ==
    ASSUME NEW n \in Nat, NEW f, f = [i \in 1..n |-> f[i]]
    PROVE  Len(f) = n
<1>1. f \in Seq({f[i] : i \in 1..n})
    BY IsASeq
<1> QED BY <1>1

\* Bundles that are merged packet by packet.
LEMMA BundleMerges ==
    ASSUME NEW work, IsBundle(work), PlayerSigned(work), NEW answer,
           NoForgery(answer.main),
           \A i \in 1..Len(work.checkpoints) :
               LET j == CHOOSE j \in Matching(answer.checkpoints, work.checkpoints[i].tx) : TRUE
               IN NoForgery(answer.checkpoints[j])
    PROVE  LET m == Merged(work, answer)
           IN IsBundle(m) /\ PlayerSigned(m) /\ Unsigned(m) = Unsigned(work)
<1> DEFINE m == Merged(work, answer)
           n == Len(work.checkpoints)
           remote(i) == answer.checkpoints[CHOOSE j \in Matching(answer.checkpoints, work.checkpoints[i].tx) : TRUE]
<1>1. /\ m = [main |-> MergedPacket(work.main, answer.main),
              checkpoints |-> [i \in 1..n |-> MergedPacket(work.checkpoints[i], remote(i))]]
      /\ n \in Nat
    BY DEF Merged, IsBundle
<1>2. /\ m.main = MergedPacket(work.main, answer.main)
      /\ m.checkpoints = [i \in 1..n |-> m.checkpoints[i]]
      /\ \A i \in 1..n : m.checkpoints[i] = MergedPacket(work.checkpoints[i], remote(i))
      /\ m = [main |-> m.main, checkpoints |-> m.checkpoints]
    BY <1>1
<1>3. Len(m.checkpoints) = n
    <2> HIDE DEF m, n
    <2> QED BY <1>1, <1>2, SequenceOf
<1>4. /\ IsPacket(work.main) /\ PlayersOwn(work.main)
      /\ \A i \in 1..n : IsPacket(work.checkpoints[i]) /\ PlayersOwn(work.checkpoints[i])
    BY DEF IsBundle, PlayerSigned, AllPackets
<1>5. \A i \in 1..n : NoForgery(remote(i))
    OBVIOUS
<1> HIDE DEF m, n, remote
<1>6. /\ IsPacket(m.main) /\ PlayersOwn(m.main)
      /\ m.main.tx = work.main.tx /\ m.main.fields = work.main.fields
    BY <1>2, <1>4, PacketMerges
<1>7. ASSUME NEW i \in 1..n
      PROVE  /\ IsPacket(m.checkpoints[i]) /\ PlayersOwn(m.checkpoints[i])
             /\ m.checkpoints[i].tx = work.checkpoints[i].tx
             /\ m.checkpoints[i].fields = work.checkpoints[i].fields
    BY <1>2, <1>4, <1>5, PacketMerges
<1>8. IsBundle(m)
    BY <1>1, <1>2, <1>3, <1>6, <1>7 DEF IsBundle
<1>9. PlayerSigned(m)
    BY <1>3, <1>6, <1>7 DEF PlayerSigned, AllPackets
<1>10. Unsigned(m) = Unsigned(work)
    <2>1. [m.main EXCEPT !.sigs = {}] = [work.main EXCEPT !.sigs = {}]
        BY <1>4, <1>6 DEF IsPacket
    <2>2. ASSUME NEW i \in 1..n
          PROVE  [m.checkpoints[i] EXCEPT !.sigs = {}] = [work.checkpoints[i] EXCEPT !.sigs = {}]
        BY <1>4, <1>7 DEF IsPacket
    <2>3. [i \in 1..n |-> [m.checkpoints[i] EXCEPT !.sigs = {}]]
          = [i \in 1..n |-> [work.checkpoints[i] EXCEPT !.sigs = {}]]
        BY <2>2
    <2> QED BY <1>3, <2>1, <2>3 DEF Unsigned, EachPacket, n
<1> QED BY <1>8, <1>9, <1>10 DEF m

\* What passes the check can be merged without harm.
LEMMA AcceptedMerges ==
    ASSUME NEW work, IsBundle(work), PlayerSigned(work), NEW answer, NEW rebuilt,
           Merges(work, answer, rebuilt)
    PROVE  LET m == Merged(work, answer)
           IN IsBundle(m) /\ PlayerSigned(m) /\ Unsigned(m) = Unsigned(work)
<1>1. ASSUME NEW base, PlayersOwn(base), NEW remote, NEW r, MergesPacket(base, remote, r)
      PROVE  NoForgery(remote)
    <2>1. Signature("player") \in base.sigs /\ Signature("player").by = "player"
        BY <1>1 DEF PlayersOwn, Signature
    <2> QED BY <1>1, <2>1 DEF MergesPacket, KeepsSignatures, NoForgery
<1>2. PlayersOwn(work.main) /\ \A i \in 1..Len(work.checkpoints) : PlayersOwn(work.checkpoints[i])
    BY DEF PlayerSigned, AllPackets
<1>3. NoForgery(answer.main)
    BY <1>1, <1>2 DEF Merges
<1>4. ASSUME NEW i \in 1..Len(work.checkpoints)
      PROVE  LET j == CHOOSE j \in Matching(answer.checkpoints, work.checkpoints[i].tx) : TRUE
             IN NoForgery(answer.checkpoints[j])
    <2> DEFINE matching == Matching(answer.checkpoints, work.checkpoints[i].tx)
               j == CHOOSE j \in matching : TRUE
    <2>1. Cardinality(matching) = 1
        BY DEF Merges
    <2>2. matching # {}
        <3> HIDE DEF matching
        <3> QED BY <2>1, FS_EmptySet
    <2>3. j \in matching
        BY <2>2
    <2>4. MergesPacket(work.checkpoints[i], answer.checkpoints[j], rebuilt)
        BY <2>3 DEF Merges
    <2> QED BY <1>1, <1>2, <2>4
<1> QED BY <1>3, <1>4, BundleMerges

\* So can what a service should answer.
LEMMA AnswerMerges ==
    ASSUME NEW work, IsBundle(work), PlayerSigned(work), NEW signer \in {"emulator", "arkd"}
    PROVE  LET m == Merged(work, Answer(work, signer))
           IN /\ IsBundle(m) /\ PlayerSigned(m) /\ Unsigned(m) = Unsigned(work)
              /\ signer = "arkd" => ServiceSigned(m)
<1> DEFINE answer == Answer(work, signer)
           n == Len(work.checkpoints)
<1>1. /\ answer.main = Signed(signer, work.main)
      /\ answer.checkpoints = [i \in 1..n |-> answer.checkpoints[i]]
      /\ \A i \in 1..n : answer.checkpoints[i] = Signed(signer, work.checkpoints[i])
      /\ n \in Nat
    BY DEF Answer, EachPacket, IsBundle
<1>2. Len(answer.checkpoints) = n
    <2> HIDE DEF answer, n
    <2> QED BY <1>1, SequenceOf
<1>3. /\ IsPacket(work.main) /\ PlayersOwn(work.main)
      /\ \A i \in 1..n : IsPacket(work.checkpoints[i]) /\ PlayersOwn(work.checkpoints[i])
    BY DEF IsBundle, PlayerSigned, AllPackets
<1>4. ASSUME NEW p, IsPacket(p), PlayersOwn(p)
      PROVE  /\ NoForgery(Signed(signer, p)) /\ Signed(signer, p).tx = p.tx
             /\ Signature(signer) \in Signed(signer, p).sigs
    <2>1. Signed(signer, p) = [tx |-> p.tx, fields |-> p.fields,
              sigs |-> {s \in p.sigs : s.by # signer} \cup {Signature(signer)}]
        BY <1>4, SignedIs
    <2>2. Signature(signer).by = signer /\ signer # "player"
        BY DEF Signature
    <2>3. \A s \in p.sigs : s.by = "player" => s = Signature("player")
        BY <1>4 DEF PlayersOwn
    <2> QED BY <2>1, <2>2, <2>3 DEF NoForgery
<1> DEFINE match(i) == CHOOSE j \in Matching(answer.checkpoints, work.checkpoints[i].tx) : TRUE
<1> HIDE DEF answer, n
<1>5. ASSUME NEW i \in 1..n PROVE match(i) \in 1..n
    <2>1. i \in Matching(answer.checkpoints, work.checkpoints[i].tx)
        BY <1>1, <1>2, <1>3, <1>4 DEF Matching
    <2>2. match(i) \in Matching(answer.checkpoints, work.checkpoints[i].tx)
        BY <2>1
    <2> QED BY <1>2, <2>2 DEF Matching
<1> HIDE DEF match
<1>6. /\ NoForgery(answer.main) /\ Signature(signer) \in answer.main.sigs
      /\ \A i \in 1..n : /\ NoForgery(answer.checkpoints[match(i)])
                         /\ Signature(signer) \in answer.checkpoints[match(i)].sigs
    BY <1>1, <1>3, <1>4, <1>5
<1> DEFINE m == Merged(work, answer)
<1>7. IsBundle(m) /\ PlayerSigned(m) /\ Unsigned(m) = Unsigned(work)
    BY <1>6, BundleMerges DEF n, match
<1>8. /\ m.main = MergedPacket(work.main, answer.main)
      /\ m.checkpoints = [i \in 1..n |-> m.checkpoints[i]]
      /\ \A i \in 1..n : m.checkpoints[i] = MergedPacket(work.checkpoints[i], answer.checkpoints[match(i)])
    BY DEF Merged, n, match
<1> HIDE DEF m
<1>9. Len(m.checkpoints) = n
    BY <1>1, <1>8, SequenceOf
<1>10. ASSUME NEW p, IsPacket(p), PlayersOwn(p), NEW r, NoForgery(r), Signature(signer) \in r.sigs
       PROVE  Signature(signer) \in MergedPacket(p, r).sigs
    BY <1>10, PacketMerges
<1>11. \A p \in AllPackets(m) : Signature(signer) \in p.sigs
    <2>1. Signature(signer) \in m.main.sigs
        BY <1>3, <1>6, <1>8, <1>10
    <2>2. ASSUME NEW i \in 1..n PROVE Signature(signer) \in m.checkpoints[i].sigs
        <3> DEFINE p == work.checkpoints[i]
                   r == answer.checkpoints[match(i)]
        <3>1. IsPacket(p) /\ PlayersOwn(p) /\ NoForgery(r) /\ Signature(signer) \in r.sigs
            BY <1>3, <1>6
        <3>2. m.checkpoints[i] = MergedPacket(p, r)
            BY <1>8
        <3> HIDE DEF p, r
        <3> QED BY <1>10, <3>1, <3>2
    <2> QED BY <1>9, <2>1, <2>2 DEF AllPackets
<1>12. signer = "arkd" => ServiceSigned(m)
    BY <1>11 DEF ServiceSigned
<1> QED BY <1>7, <1>12 DEF m, answer

\* The player signs what was prepared.
LEMMA PreparedIsSigned ==
    ASSUME NEW sources \in Seq(Nat)
    PROVE  LET b == Sign(Prepared(sources)) IN IsBundle(b) /\ PlayerSigned(b)
<1> DEFINE a == Prepared(sources)
           b == Sign(Prepared(sources))
           n == Len(sources)
<1>1. /\ a.main = Packet(Main) /\ a.checkpoints = [i \in 1..n |-> a.checkpoints[i]]
      /\ \A i \in 1..n : a.checkpoints[i] = Packet(sources[i])
      /\ n \in Nat
    BY DEF Prepared
<1> HIDE DEF a
<1>2. Len(a.checkpoints) = n
    <2> HIDE DEF n
    <2> QED BY <1>1, SequenceOf
<1>3. /\ b.main = Signed("player", Packet(Main))
      /\ b.checkpoints = [i \in 1..n |-> b.checkpoints[i]]
      /\ \A i \in 1..n : b.checkpoints[i] = Signed("player", Packet(sources[i]))
      /\ b = [main |-> b.main, checkpoints |-> b.checkpoints]
    BY <1>1, <1>2 DEF Sign, EachPacket, a
<1> HIDE DEF b, n
<1>4. Len(b.checkpoints) = n
    BY <1>1, <1>3, SequenceOf
<1>5. ASSUME NEW tx PROVE IsPacket(Signed("player", Packet(tx))) /\ PlayersOwn(Signed("player", Packet(tx)))
    <2>1. Signed("player", Packet(tx)) = [tx |-> tx, fields |-> AllFields, sigs |-> {Signature("player")}]
        <3> DEFINE p == Packet(tx)
                   sigs == {s \in p.sigs : s.by # "player"} \cup {Signature("player")}
        <3>1. p.tx = tx /\ p.fields = AllFields /\ p.sigs = {} /\ IsPacket(p)
            BY DEF Packet, IsPacket
        <3> HIDE DEF p
        <3>2. sigs = {Signature("player")}
            BY <3>1
        <3>3. Signed("player", p) = [tx |-> p.tx, fields |-> p.fields, sigs |-> sigs]
            BY <3>1, SignedIs
        <3> HIDE DEF sigs
        <3>4. Signed("player", p) = [tx |-> tx, fields |-> AllFields, sigs |-> {Signature("player")}]
            BY <3>1, <3>2, <3>3
        <3> QED BY <3>4 DEF p
    <2>2. Signature("player").by = "player"
        BY DEF Signature
    <2> QED BY <2>1, <2>2 DEF IsPacket, PlayersOwn
<1>6. IsBundle(b)
    BY <1>1, <1>3, <1>4, <1>5 DEF IsBundle
<1>7. PlayerSigned(b)
    BY <1>3, <1>4, <1>5 DEF PlayerSigned, AllPackets
<1> QED BY <1>6, <1>7 DEF b

(***************************************************************************)
(* The inductive invariant.                                                *)
(***************************************************************************)
Given == worth \in [Coins -> Nat] /\ order.amount \in Nat

IsProcess(p) ==
    p = [phase |-> p.phase, recovering |-> p.recovering, retried |-> p.retried,
         rest |-> p.rest, unspent |-> p.unspent, work |-> p.work, refused |-> p.refused]

IsSpend(spend) ==
    /\ spend = [sources |-> spend.sources, bundle |-> spend.bundle, signed |-> spend.signed]
    /\ spend.sources \in Seq(Nat) /\ spend.signed \in BOOLEAN
    /\ spend.bundle = IF spend.signed THEN Sign(Prepared(spend.sources)) ELSE Prepared(spend.sources)

Carries(work, spend) ==
    IsBundle(work) /\ PlayerSigned(work) /\ Unsigned(work) = Unsigned(spend.bundle)

\* There is one saved spend, of the coins selected for it.
SavedInv ==
    /\ \A spend, other \in saved : spend = other
    /\ \A spend \in saved : IsSpend(spend)
    /\ FundingIsExact /\ RefusalIsJustified

\* What is on its way to the services, and what Arkd finalized, carries the saved spend.
WorkInv ==
    /\ IsProcess(proc) /\ \A work, other \in proc.work : work = other
    /\ \A work \in proc.work \cup finalized :
          IsSigned /\ \A spend \in saved : Carries(work, spend)
    /\ order.native => \A work \in finalized \cup (IF At("finalize") THEN proc.work ELSE {}) : ServiceSigned(work)

WInv == Given /\ SavedInv /\ WorkInv

\* A step that saves, signs and sends nothing.
Quiet ==
    /\ UNCHANGED <<worth, order, saved, finalized>>
    /\ IsProcess(proc') /\ proc'.refused \subseteq proc.refused
    /\ proc'.work = {} \/ (proc'.work = proc.work /\ (proc'.phase = "finalize" => proc.phase = "finalize"))

LEMMA SameSums ==
    ASSUME UNCHANGED <<worth, order>>, NEW S
    PROVE  Change(S)' = Change(S)
<1>1. Sum(S)' = Sum(S)
    BY DEF Sum, FoldSet, MapThenFoldSet
<1> QED BY <1>1 DEF Change

LEMMA QuietKeeps == ASSUME WInv, Quiet PROVE WInv'
<1>0. \A S : Change(S)' = Change(S)
    BY SameSums DEF Quiet
<1>1. Given'
    BY DEF WInv, Given, Quiet
<1>2. SavedInv'
    <2>1. FundingIsExact'
        BY <1>0 DEF WInv, SavedInv, FundingIsExact, CoinsOf, Quiet
    <2>2. RefusalIsJustified'
        BY <1>0 DEF WInv, SavedInv, RefusalIsJustified, Quiet
    <2> QED BY <2>1, <2>2 DEF WInv, SavedInv, Quiet
<1>3. WorkInv'
    BY DEF WInv, WorkInv, IsSigned, At, Quiet
<1> QED BY <1>1, <1>2, <1>3 DEF WInv

LEMMA ProcessIs ==
    ASSUME NEW phase, NEW recovering
    PROVE  /\ IsProcess(Process(phase, recovering))
           /\ Process(phase, recovering).work = {} /\ Process(phase, recovering).refused = {}
           /\ Process(phase, recovering).phase = phase
    BY DEF Process, IsProcess

LEMMA AfterErrorIs ==
    IsProcess(AfterError) /\ AfterError.work = {} /\ AfterError.refused = {}
    BY ProcessIs DEF AfterError

LEMMA QuietSteps ==
    ASSUME WInv,
           \/ SpendElsewhere \/ (\E tx \in {"ours", "theirs"} : Publish(tx))
           \/ Inspection \/ KeepWatching \/ ArkdRefuses \/ SubmissionLost \/ FinalizationLost
           \/ Crash \/ Start
    PROVE  Quiet
<1> USE DEF given, service, log, Quiet
<1>0. IsProcess(proc)
    BY DEF WInv, WorkInv
<1>1. CASE SpendElsewhere \/ \E tx \in {"ours", "theirs"} : Publish(tx)
    BY <1>0, <1>1 DEF SpendElsewhere, Publish
<1>2. CASE InspectPrepared
    BY <1>0, <1>2 DEF InspectPrepared, IsProcess
<1>3. ASSUME NEW tx, Record(tx), UNCHANGED <<given, finalized>> PROVE Quiet
    BY <1>3, ProcessIs DEF Record
<1>4. CASE ObserveOurs
    BY <1>3, <1>4 DEF ObserveOurs
<1>5. CASE ReadRecord
    <2>1. proc' = [proc EXCEPT !.rest = Tail(@)] \/ proc' = [proc EXCEPT !.phase = "successor"]
        BY <1>5 DEF ReadRecord
    <2>2. UNCHANGED <<worth, order, saved, finalized>>
        BY <1>5 DEF ReadRecord
    <2> QED BY <1>0, <2>1, <2>2 DEF IsProcess
<1>6. CASE ReadSuccessor
    <2>1. UNCHANGED <<given, finalized>>
        BY <1>6 DEF ReadSuccessor
    <2>2. \/ \E tx : Record(tx)
          \/ /\ UNCHANGED log
             /\ \/ proc' = [proc EXCEPT !.phase = "sources", !.rest = Tail(@), !.unspent = FALSE]
                \/ proc' = [proc EXCEPT !.phase = "halted"]
        BY <1>6 DEF ReadSuccessor, GoTo
    <2>3. CASE \E tx : Record(tx)
        BY <1>3, <2>1, <2>3
    <2>4. CASE UNCHANGED log /\ proc' = [proc EXCEPT !.phase = "sources", !.rest = Tail(@), !.unspent = FALSE]
        BY <1>0, <2>1, <2>4 DEF IsProcess
    <2>5. CASE UNCHANGED log /\ proc' = [proc EXCEPT !.phase = "halted"]
        BY <1>0, <2>1, <2>5 DEF IsProcess
    <2> QED BY <2>2, <2>3, <2>4, <2>5
<1>7. CASE Inspected
    BY <1>0, <1>7 DEF Inspected, GoTo, IsProcess
<1>8. CASE KeepWatching
    BY <1>0, <1>8 DEF KeepWatching, GoTo, IsProcess
<1>9. CASE ArkdRefuses
    BY <1>9, AfterErrorIs DEF ArkdRefuses
<1>10. CASE SubmissionLost \/ FinalizationLost
    BY <1>10, AfterErrorIs DEF SubmissionLost, FinalizationLost, CallFails, Failure
<1>11. CASE Crash
    BY <1>11, ProcessIs DEF Crash, Failure
<1>12. CASE Start
    BY <1>12, ProcessIs DEF Start
<1> QED BY <1>1, <1>2, <1>4, <1>5, <1>6, <1>7, <1>8, <1>9, <1>10, <1>11, <1>12 DEF Inspection

LEMMA ToSetOfBoth ==
    ASSUME NEW X, NEW s \in Seq(X), NEW t \in Seq(X)
    PROVE  ToSet(s \o t) = ToSet(s) \cup ToSet(t)
<1>1. \A i \in 1..Len(s) : (s \o t)[i] = s[i]
    BY ConcatProperties
<1>2. \A i \in 1..Len(t) : (s \o t)[Len(s) + i] = t[i] /\ Len(s) + i \in 1..Len(s \o t)
    <2>1. ASSUME NEW i \in 1..Len(t) PROVE (s \o t)[Len(s) + i] = t[i] /\ Len(s) + i \in 1..Len(s \o t)
        <3>1. Len(s \o t) = Len(s) + Len(t) /\ Len(s) \in Nat /\ Len(t) \in Nat
            OBVIOUS
        <3>2. Len(s) + i \in 1..Len(s \o t) /\ Len(s) + i > Len(s)
            BY <3>1
        <3> QED BY <3>1, <3>2
    <2> QED BY <2>1
<1>3. /\ DOMAIN (s \o t) = 1..(Len(s) + Len(t)) /\ DOMAIN s = 1..Len(s) /\ DOMAIN t = 1..Len(t)
      /\ Len(s \o t) = Len(s) + Len(t) /\ Len(s) \in Nat /\ Len(t) \in Nat
    OBVIOUS
<1>4. \A i \in DOMAIN (s \o t) : i \in 1..Len(s) \/ i - Len(s) \in 1..Len(t)
    BY <1>3
<1>5. \A i \in DOMAIN (s \o t) : i \in 1..Len(s) \/ (s \o t)[i] = t[i - Len(s)]
    <2>1. ASSUME NEW i \in DOMAIN (s \o t), i \notin 1..Len(s) PROVE (s \o t)[i] = t[i - Len(s)]
        <3>1. i - Len(s) \in 1..Len(t) /\ Len(s) + (i - Len(s)) = i
            BY <1>3, <1>4, <2>1
        <3> QED BY <1>2, <3>1
    <2> QED BY <2>1
<1>6. ToSet(s \o t) \subseteq ToSet(s) \cup ToSet(t)
    BY <1>1, <1>3, <1>4, <1>5 DEF ToSet
<1>7. ToSet(s) \cup ToSet(t) \subseteq ToSet(s \o t)
    <2>1. ASSUME NEW i \in 1..Len(s) PROVE s[i] \in ToSet(s \o t)
        <3>1. i \in DOMAIN (s \o t)
            BY <1>3
        <3> QED BY <1>1, <3>1 DEF ToSet
    <2>2. ASSUME NEW i \in 1..Len(t) PROVE t[i] \in ToSet(s \o t)
        <3>1. Len(s) + i \in DOMAIN (s \o t)
            BY <1>2, <1>3
        <3> QED BY <1>2, <3>1 DEF ToSet
    <2> QED BY <1>3, <2>1, <2>2 DEF ToSet
<1> QED BY <1>6, <1>7

LEMMA PrepareKeeps == ASSUME WInv, Prepare PROVE WInv'
<1> USE DEF given, service
<1> DEFINE chosen == IF order.amount = 0 THEN {} ELSE Select(Free)
           sources == CovenantSources \o Candidates(chosen)
           spend == [sources |-> sources, bundle |-> Prepared(sources), signed |-> FALSE]
<1>1. Given /\ IsProcess(proc) /\ saved = {} /\ proc.work = {} /\ finalized = {}
    BY DEF WInv, WorkInv, IsSigned, Prepare
<1>2. Given' /\ UNCHANGED <<worth, order, finalized>>
    BY <1>1 DEF Given, Prepare
<1>3. worth \in [Coins -> Nat] /\ order.amount \in Nat
    BY <1>1 DEF Given
<1>4. Coins \subseteq Nat \ {0} /\ MinAmount \in Nat /\ MaxAmount \in Nat
    BY WalletAssumption
<1>5. \A S : Change(S)' = Change(S)
    BY <1>2, SameSums
<1>6. /\ Free \subseteq Coins /\ Select(Free) \in SUBSET Coins
      /\ Change(Select(Free)) <= MaxAmount
      /\ Change(Free) = 0 \/ Change(Free) \in MinAmount..MaxAmount => Enough(Select(Free))
    <2>1. Free \subseteq Coins
        BY DEF Free
    <2> QED BY <1>3, <2>1, SelectionIsRight
<1>7. /\ chosen \in SUBSET Coins
      /\ order.amount = 0 => chosen = {}
      /\ order.amount # 0 => chosen = Select(Free)
    BY <1>6
<1>8. CASE order.amount = 0 \/ Enough(chosen)
    <2>1. saved' = {spend} /\ proc' = proc
        BY <1>8 DEF Prepare
    <2> HIDE DEF chosen
    <2>2. CovenantSources \in Seq({Covenant}) /\ ToSet(CovenantSources) \subseteq {Covenant}
        <3>1. CASE order.route = "emulator"
            BY <3>1 DEF CovenantSources, ToSet
        <3>2. CASE order.route # "emulator"
            BY <3>2 DEF CovenantSources, ToSet
        <3> QED BY <3>1, <3>2
    <2>3. Candidates(chosen) \in Seq(chosen) /\ ToSet(Candidates(chosen)) = chosen
        BY <1>3, <1>7, CandidatesAreAll
    <2>4. CovenantSources \in Seq(Nat) /\ Candidates(chosen) \in Seq(Nat)
        <3>1. {Covenant} \subseteq Nat /\ chosen \subseteq Nat
            BY <1>4, <1>7 DEF Covenant
        <3>2. Seq({Covenant}) \subseteq Seq(Nat) /\ Seq(chosen) \subseteq Seq(Nat)
            BY <3>1, SeqMonotonic
        <3> QED BY <2>2, <2>3, <3>2
    <2>6. sources \in Seq(Nat)
        BY <2>4
    <2>7. ToSet(sources) \ {Covenant} = chosen
        <3>1. ToSet(sources) = ToSet(CovenantSources) \cup ToSet(Candidates(chosen))
            BY <2>4, ToSetOfBoth
        <3> QED BY <1>4, <1>7, <2>2, <2>3, <3>1 DEF Covenant
    <2> HIDE DEF sources
    <2>8. IsSpend(spend)
        BY <2>6 DEF IsSpend
    <2>9. CoinsOf(spend) = chosen
        BY <2>7 DEF CoinsOf
    <2>10. Change(chosen) \in Int
        <3>1. Sum(chosen) \in Nat
            BY <1>3, <1>7, SumOfSome
        <3> QED BY <1>3, <3>1 DEF Change
    <2>11. Change(chosen) = 0 \/ Change(chosen) \in MinAmount..MaxAmount
        <3>1. CASE order.amount = 0
            <4>1. Sum({}) = 0
                BY <1>3, SumOfSome
            <4> QED BY <1>7, <3>1, <4>1 DEF Change
        <3>2. CASE order.amount # 0
            BY <1>4, <1>6, <1>7, <1>8, <2>10, <3>2 DEF Enough
        <3> QED BY <3>1, <3>2
    <2> HIDE DEF spend
    <2>12. FundingIsExact'
        <3>1. ASSUME NEW t \in saved'
              PROVE  Change(CoinsOf(t))' = 0 \/ Change(CoinsOf(t))' \in MinAmount..MaxAmount
            <4>1. CoinsOf(t) = chosen
                BY <2>1, <2>9, <3>1
            <4>2. Change(CoinsOf(t))' = Change(CoinsOf(t))
                <5> DEFINE c == ToSet(t.sources) \ {Covenant}
                <5>1. Change(c)' = Change(c)
                    BY <1>5
                <5> QED BY <5>1 DEF CoinsOf
            <4> QED BY <2>11, <4>1, <4>2
        <3> QED BY <3>1 DEF FundingIsExact
    <2>13. RefusalIsJustified'
        BY <1>5, <2>1 DEF WInv, SavedInv, RefusalIsJustified
    <2>14. SavedInv'
        BY <2>1, <2>8, <2>12, <2>13 DEF SavedInv
    <2>15. WorkInv'
        BY <1>1, <1>2, <2>1 DEF WorkInv
    <2> QED BY <1>2, <2>14, <2>15 DEF WInv
<1>9. CASE ~(order.amount = 0 \/ Enough(chosen))
    <2>1. proc' = [proc EXCEPT !.phase = "halted", !.refused = {Free}] /\ saved' = saved
        BY <1>9 DEF Prepare
    <2>2. ~Enough(Select(Free))
        BY <1>7, <1>9
    <2>4. IsProcess(proc') /\ proc'.work = {} /\ proc'.refused = {Free}
        BY <1>1, <2>1 DEF IsProcess
    <2>5. RefusalIsJustified'
        <3>1. \A offered \in proc'.refused : offered = Free
            BY <2>4
        <3>2. \A offered : offered = Free => ~(Change(offered) = 0 \/ Change(offered) \in MinAmount..MaxAmount)
            BY <1>6, <2>2
        <3> QED BY <1>5, <3>1, <3>2 DEF RefusalIsJustified
    <2>6. SavedInv'
        BY <1>1, <2>1, <2>5 DEF SavedInv, FundingIsExact
    <2>7. WorkInv'
        BY <1>1, <1>2, <2>4 DEF WorkInv
    <2> QED BY <1>2, <2>6, <2>7 DEF WInv
<1> QED BY <1>8, <1>9

LEMMA SignKeeps == ASSUME WInv, SignSaved PROVE WInv'
<1> USE DEF given, service
<1>1. UNCHANGED <<worth, order, finalized>> /\ proc' = Process("idle", FALSE)
    BY DEF SignSaved
<1>2. CASE saved' = saved
    <2>1. Quiet
        BY <1>1, <1>2, ProcessIs DEF Quiet
    <2> QED BY <2>1, QuietKeeps
<1>3. CASE saved' # saved
    <2> DEFINE sign(spend) == [spend EXCEPT !.signed = TRUE, !.bundle = Sign(@)]
    <2>1. saved' = {sign(spend) : spend \in saved} /\ \A spend \in saved : ~spend.signed
        BY <1>3 DEF SignSaved
    <2>2. finalized = {}
        BY <2>1 DEF WInv, WorkInv, IsSigned
    <2>3. ASSUME NEW spend \in saved
          PROVE  IsSpend(sign(spend)) /\ sign(spend).sources = spend.sources
        <3>1. IsSpend(spend) /\ ~spend.signed
            BY <2>1 DEF WInv, SavedInv
        <3>2. sign(spend) = [sources |-> spend.sources, bundle |-> Sign(spend.bundle), signed |-> TRUE]
            <4> DEFINE b == Sign(spend.bundle)
            <4>1. sign(spend) = [spend EXCEPT !.signed = TRUE, !.bundle = b]
                OBVIOUS
            <4> HIDE DEF b, sign
            <4>2. sign(spend) = [sources |-> spend.sources, bundle |-> b, signed |-> TRUE]
                BY <3>1, <4>1 DEF IsSpend
            <4> QED BY <4>2 DEF b
        <3>3. spend.bundle = Prepared(spend.sources) /\ spend.sources \in Seq(Nat)
            BY <3>1 DEF IsSpend
        <3> HIDE DEF sign
        <3> QED BY <3>2, <3>3 DEF IsSpend
    <2> HIDE DEF sign
    <2>4. \A S : Change(S)' = Change(S)
        BY <1>1, SameSums
    <2>5. FundingIsExact'
        <3>1. ASSUME NEW t \in saved'
              PROVE  Change(CoinsOf(t))' = 0 \/ Change(CoinsOf(t))' \in MinAmount..MaxAmount
            <4>1. PICK spend \in saved : CoinsOf(t) = CoinsOf(spend)
                BY <2>1, <2>3, <3>1 DEF CoinsOf
            <4>2. Change(CoinsOf(spend)) = 0 \/ Change(CoinsOf(spend)) \in MinAmount..MaxAmount
                BY DEF WInv, SavedInv, FundingIsExact
            <4> DEFINE c == ToSet(t.sources) \ {Covenant}
            <4>3. Change(c)' = Change(c)
                BY <2>4
            <4> QED BY <4>1, <4>2, <4>3 DEF CoinsOf
        <3> QED BY <3>1 DEF FundingIsExact
    <2>6. RefusalIsJustified'
        BY <1>1, ProcessIs DEF RefusalIsJustified
    <2>7. SavedInv'
        <3>1. \A spend, other \in saved : spend = other
            BY DEF WInv, SavedInv
        <3>2. \A spend, other \in saved' : spend = other
            BY <2>1, <3>1
        <3>3. \A spend \in saved' : IsSpend(spend)
            BY <2>1, <2>3
        <3> QED BY <2>5, <2>6, <3>2, <3>3 DEF SavedInv
    <2>8. WorkInv'
        BY <1>1, <2>2, ProcessIs DEF WorkInv
    <2> QED BY <1>1, <2>7, <2>8 DEF WInv, Given
<1> QED BY <1>2, <1>3

\* A step that sends on what it should.
LEMMA SendingKeeps ==
    ASSUME WInv, UNCHANGED <<worth, order, saved>>, IsProcess(proc'), proc'.refused \subseteq proc.refused,
           \A work, other \in proc'.work : work = other,
           \A work \in proc'.work \cup finalized' :
               IsSigned /\ \A spend \in saved : Carries(work, spend),
           order.native =>
               \A work \in finalized' \cup (IF At("finalize")' THEN proc'.work ELSE {}) :
                   ServiceSigned(work)
    PROVE  WInv'
<1>1. \A S : Change(S)' = Change(S)
    BY SameSums
<1>2. FundingIsExact'
    BY <1>1 DEF WInv, SavedInv, FundingIsExact, CoinsOf
<1>3. RefusalIsJustified'
    BY <1>1 DEF WInv, SavedInv, RefusalIsJustified
<1>4. SavedInv'
    BY <1>2, <1>3 DEF WInv, SavedInv
<1>5. WorkInv'
    BY DEF WorkInv, IsSigned
<1> QED BY <1>4, <1>5 DEF WInv, Given

LEMMA BeginKeeps == ASSUME WInv, BeginSubmit PROVE WInv'
<1> USE DEF given, service, log
<1>1. UNCHANGED <<worth, order, finalized, saved>> /\ IsSigned
    BY DEF BeginSubmit
<1>2. PICK spend \in saved : proc' = [proc EXCEPT !.phase = IF order.route = "emulator" THEN "emulator" ELSE "arkd",
                               !.work = {spend.bundle}, !.retried = proc.recovering]
    BY DEF BeginSubmit
<1>3. IsProcess(proc)
    BY DEF WInv, WorkInv
<1>4. /\ IsProcess(proc') /\ proc'.refused = proc.refused /\ proc'.work = {spend.bundle}
      /\ proc'.phase # "finalize"
    BY <1>2, <1>3 DEF IsProcess
<1>5. IsSpend(spend) /\ spend.signed /\ \A other \in saved : other = spend
    BY <1>1 DEF WInv, SavedInv, IsSigned
<1>6. Carries(spend.bundle, spend)
    BY <1>5, PreparedIsSigned DEF IsSpend, Carries
<1>7. \A work \in finalized : \A other \in saved : Carries(work, other)
    BY DEF WInv, WorkInv
<1>8. order.native => \A work \in finalized : ServiceSigned(work)
    BY DEF WInv, WorkInv
<1> QED BY <1>1, <1>4, <1>5, <1>6, <1>7, <1>8, SendingKeeps DEF At

\* The answer of a service is merged into the work.
LEMMA ContinueKeeps ==
    ASSUME WInv, UNCHANGED <<worth, order, saved, finalized>>, NEW phase, NEW answer,
           Continue(phase, answer),
           \A work \in proc.work :
               LET m == Merged(work, answer)
               IN /\ IsBundle(work) /\ PlayerSigned(work) =>
                         IsBundle(m) /\ PlayerSigned(m) /\ Unsigned(m) = Unsigned(work)
                  /\ phase = "finalize" /\ order.native => ServiceSigned(m)
    PROVE  WInv'
<1>1. IsProcess(proc)
    BY DEF WInv, WorkInv
<1>2. /\ IsProcess(proc') /\ proc'.refused = proc.refused /\ proc'.phase = phase
      /\ proc'.work = {Merged(work, answer) : work \in proc.work}
    <2> DEFINE merged == {Merged(work, answer) : work \in proc.work}
    <2>1. proc' = [proc EXCEPT !.phase = phase, !.work = merged]
        BY DEF Continue
    <2> HIDE DEF merged
    <2>2. IsProcess(proc') /\ proc'.refused = proc.refused /\ proc'.phase = phase /\ proc'.work = merged
        BY <1>1, <2>1 DEF IsProcess
    <2> QED BY <2>2 DEF merged
<1>3. \A work \in proc.work \cup finalized : IsSigned /\ \A spend \in saved : Carries(work, spend)
    BY DEF WInv, WorkInv
<1>4. ASSUME NEW work \in proc.work
      PROVE  /\ IsSigned /\ \A spend \in saved : Carries(Merged(work, answer), spend)
             /\ phase = "finalize" /\ order.native => ServiceSigned(Merged(work, answer))
    <2>1. PICK spend \in saved : Carries(work, spend)
        BY <1>3 DEF IsSigned
    <2>2. IsBundle(work) /\ PlayerSigned(work)
        BY <2>1 DEF Carries
    <2> QED BY <1>3, <2>2 DEF Carries
<1>5. order.native => \A work \in finalized : ServiceSigned(work)
    BY DEF WInv, WorkInv
<1>6. \A work \in proc'.work \cup finalized' : IsSigned /\ \A spend \in saved : Carries(work, spend)
    BY <1>2, <1>3, <1>4
<1>7. order.native =>
          \A work \in finalized' \cup (IF At("finalize")' THEN proc'.work ELSE {}) : ServiceSigned(work)
    BY <1>2, <1>4, <1>5 DEF At
<1>8. \A work, other \in proc'.work : work = other
    BY <1>2 DEF WInv, WorkInv
<1> QED BY <1>2, <1>6, <1>7, <1>8, SendingKeeps

LEMMA FailingIsQuiet ==
    ASSUME proc' = AfterError, UNCHANGED <<worth, order, saved, finalized>>
    PROVE  Quiet
    BY AfterErrorIs DEF Quiet

LEMMA EmulatorKeeps == ASSUME WInv, EmulatorSigns PROVE WInv'
<1> USE DEF given, service, log
<1>1. UNCHANGED <<worth, order, saved, finalized>>
    BY DEF EmulatorSigns, CallFails
<1>2. CASE \E work \in proc.work : Continue("arkd", Answer(work, "emulator"))
    <2>1. PICK work \in proc.work : Continue("arkd", Answer(work, "emulator"))
        BY <1>2
    <2>2. \A other \in proc.work : other = work
        BY <2>1 DEF WInv, WorkInv
    <2>3. \A other \in proc.work : IsBundle(other) /\ PlayerSigned(other) =>
              LET m == Merged(other, Answer(work, "emulator"))
              IN IsBundle(m) /\ PlayerSigned(m) /\ Unsigned(m) = Unsigned(other)
        BY <2>2, AnswerMerges
    <2> QED BY <1>1, <2>1, <2>3, ContinueKeeps
<1>3. CASE \E answer : Accepts(answer, FALSE) /\ Continue("arkd", answer)
    <2>1. PICK answer : Accepts(answer, FALSE) /\ Continue("arkd", answer)
        BY <1>3
    <2>2. \A work \in proc.work : IsBundle(work) /\ PlayerSigned(work) =>
              LET m == Merged(work, answer)
              IN IsBundle(m) /\ PlayerSigned(m) /\ Unsigned(m) = Unsigned(work)
        BY <2>1, AcceptedMerges DEF Accepts
    <2> QED BY <1>1, <2>1, <2>2, ContinueKeeps
<1>4. CASE proc' = AfterError
    BY <1>1, <1>4, FailingIsQuiet, QuietKeeps
<1> QED BY <1>2, <1>3, <1>4 DEF EmulatorSigns, CallFails

LEMMA SubmitKeeps == ASSUME WInv, SubmitToArkd PROVE WInv'
<1> USE DEF given, service, log
<1>1. UNCHANGED <<worth, order, saved, finalized>>
    BY DEF SubmitToArkd
<1>2. CASE \E work \in proc.work : Continue("finalize", Answer(work, "arkd"))
    <2>1. PICK work \in proc.work : Continue("finalize", Answer(work, "arkd"))
        BY <1>2
    <2>2. \A other \in proc.work : other = work
        BY <2>1 DEF WInv, WorkInv
    <2>3. \A other \in proc.work : IsBundle(other) /\ PlayerSigned(other)
        BY DEF WInv, WorkInv, Carries, IsSigned
    <2>4. \A other \in proc.work :
              LET m == Merged(other, Answer(work, "arkd"))
              IN IsBundle(m) /\ PlayerSigned(m) /\ Unsigned(m) = Unsigned(other) /\ ServiceSigned(m)
        BY <2>2, <2>3, AnswerMerges
    <2> QED BY <1>1, <2>1, <2>4, ContinueKeeps
<1>3. CASE \E answer : Accepts(answer, TRUE) /\ Verified(answer) /\ Continue("finalize", answer)
    <2>1. PICK answer : Accepts(answer, TRUE) /\ Verified(answer) /\ Continue("finalize", answer)
        BY <1>3
    <2>2. \A work \in proc.work : IsBundle(work) /\ PlayerSigned(work) =>
              LET m == Merged(work, answer)
              IN IsBundle(m) /\ PlayerSigned(m) /\ Unsigned(m) = Unsigned(work)
        BY <2>1, AcceptedMerges DEF Accepts
    <2>3. order.native => \A work \in proc.work : ServiceSigned(Merged(work, answer))
        BY <2>1 DEF Verified
    <2> QED BY <1>1, <2>1, <2>2, <2>3, ContinueKeeps
<1>4. CASE proc' = AfterError
    BY <1>1, <1>4, FailingIsQuiet, QuietKeeps
<1> QED BY <1>2, <1>3, <1>4 DEF SubmitToArkd

LEMMA FinalizeKeeps == ASSUME WInv, Finalize PROVE WInv'
<1> USE DEF given, service, log
<1>1. UNCHANGED <<worth, order, saved>> /\ finalized' = finalized \cup proc.work /\ At("finalize")
    BY DEF Finalize, CallFails
<1>2. IsProcess(proc') /\ proc'.work = {} /\ proc'.refused \subseteq proc.refused
    <2>1. CASE proc' = [proc EXCEPT !.phase = "idle", !.work = {}]
        BY <2>1 DEF WInv, WorkInv, IsProcess
    <2>2. CASE proc' = AfterError
        BY <2>2, AfterErrorIs
    <2> QED BY <2>1, <2>2 DEF Finalize, CallFails
<1>3. \A work \in finalized' : IsSigned /\ \A spend \in saved : Carries(work, spend)
    BY <1>1 DEF WInv, WorkInv
<1>4. order.native => \A work \in finalized' : ServiceSigned(work)
    BY <1>1 DEF WInv, WorkInv
<1> QED BY <1>1, <1>2, <1>3, <1>4, SendingKeeps

LEMMA NextKeepsSpend == WInv /\ [Next]_vars => WInv'
<1> SUFFICES ASSUME WInv, [Next]_vars PROVE WInv'
    OBVIOUS
<1>1. CASE UNCHANGED vars
    <2>1. Quiet
        BY <1>1 DEF vars, given, service, log, Quiet, WInv, WorkInv
    <2> QED BY <2>1, QuietKeeps
<1>2. CASE Prepare
    BY <1>2, PrepareKeeps
<1>3. CASE SignSaved
    BY <1>3, SignKeeps
<1>4. CASE BeginSubmit
    BY <1>4, BeginKeeps
<1>5. CASE EmulatorSigns
    BY <1>5, EmulatorKeeps
<1>6. CASE SubmitToArkd
    BY <1>6, SubmitKeeps
<1>7. CASE Finalize
    BY <1>7, FinalizeKeeps
<1>8. CASE \/ SpendElsewhere \/ (\E tx \in {"ours", "theirs"} : Publish(tx))
           \/ Inspection \/ KeepWatching \/ ArkdRefuses \/ SubmissionLost \/ FinalizationLost
           \/ Crash \/ Start
    BY <1>8, QuietSteps, QuietKeeps
<1> QED BY <1>1, <1>2, <1>3, <1>4, <1>5, <1>6, <1>7, <1>8 DEF Next, Work, Submission

\* Whatever coins the wallet has and whatever the services answer, fail or lose: a saved
\* spend takes what the game needs of the wallet and admissible change, the wallet refuses
\* only when all its coins would not do, and what Arkd is asked to finalize is the saved
\* spend with the player's own signatures, and Arkd's if the build is native
\* (src/internal/wallet/funding.go:32, submission.go:25, merge.go:49).
THEOREM SpendsAreExact == Spec => []SpendIsExact
<1>1. Init => WInv
    <2> SUFFICES ASSUME Init PROVE WInv
        OBVIOUS
    <2>1. Given
        <3>1. Values \subseteq Nat /\ Amounts \subseteq Nat
            BY WalletAssumption
        <3> QED BY <3>1 DEF Init, Given
    <2>2. SavedInv
        BY ProcessIs DEF Init, SavedInv, FundingIsExact, RefusalIsJustified
    <2>3. WorkInv
        BY ProcessIs DEF Init, WorkInv
    <2> QED BY <2>1, <2>2, <2>3 DEF WInv
<1>2. WInv /\ [Next]_vars => WInv'
    BY NextKeepsSpend
<1>3. WInv => SpendIsExact
    <2> SUFFICES ASSUME WInv PROVE SpendIsExact
        OBVIOUS
    <2>1. FundingIsExact /\ RefusalIsJustified
        BY DEF WInv, SavedInv
    <2>2. FinalizedWorkIsSaved
        BY DEF WInv, WorkInv, Carries, PlayerSigned, PlayersOwn, FinalizedWorkIsSaved
    <2> QED BY <2>1, <2>2 DEF SpendIsExact
<1> QED BY <1>1, <1>2, <1>3, PTL DEF Spec
=============================================================================
