---------------------------- MODULE HyInduction ----------------------------
(***************************************************************************)
(* Induction and recursion over the natural numbers, with sets and         *)
(* functions in the place of predicates and definitions: a set that has 0  *)
(* and the successor of each of its numbers has them all, and a function   *)
(* can be given by its first value and its step.                           *)
(***************************************************************************)
EXTENDS Integers, FiniteSetTheorems, TLAPS

(* If some number were missing from S, the missing numbers up to it, each  *)
(* moved down by one, would be missing too, and would be one fewer: a      *)
(* finite set does not fit into a smaller one.                             *)
THEOREM SetInduction ==
    ASSUME NEW S, 0 \in S, \A n \in Nat : n \in S => n + 1 \in S
    PROVE  Nat \subseteq S
<1> SUFFICES ASSUME NEW m \in Nat, m \notin S PROVE FALSE
    OBVIOUS
<1> DEFINE C == {k \in 0..m : k \notin S}
           T == C \ {m}
           down == [k \in C |-> k - 1]
<1>1. IsFiniteSet(C) /\ Cardinality(C) \in Nat
    <2>1. IsFiniteSet(0..m)
        BY FS_Interval
    <2>2. C \subseteq 0..m
        OBVIOUS
    <2>3. IsFiniteSet(C)
        BY <2>1, <2>2, FS_Subset
    <2> QED BY <2>3, FS_CardinalityType
<1>2. m \in C
    OBVIOUS
<1>3. IsFiniteSet(T) /\ Cardinality(T) = Cardinality(C) - 1
    BY <1>1, <1>2, FS_RemoveElement
<1>4. down \in [C -> T]
    <2>1. ASSUME NEW k \in C PROVE k - 1 \in T
        <3>1. k \in 0..m /\ k # 0
            OBVIOUS
        <3>2. k - 1 \in Nat /\ (k - 1) + 1 = k /\ k - 1 \in 0..m /\ k - 1 # m
            BY <3>1
        <3>3. k - 1 \notin S
            BY <3>2
        <3> QED BY <3>2, <3>3
    <2> QED BY <2>1
<1>5. \A x, y \in C : down[x] = down[y] => x = y
    OBVIOUS
<1> HIDE DEF C, T, down
<1>6. Cardinality(T) < Cardinality(C)
    BY <1>1, <1>3
<1>7. \E x, y \in C : x # y /\ down[x] = down[y]
    BY <1>1, <1>3, <1>4, <1>6, FS_PigeonHole
<1> QED BY <1>5, <1>7
-----------------------------------------------------------------------------
(* The functions on 0..m that begin with x0 and go on with H. *)
Begun(X, x0, H, m) ==
    {g \in [0..m -> X] : g[0] = x0 /\ \A k \in 0..(m - 1) : g[k + 1] = H[<<k, g[k]>>]}

(* There is one of each length: it is continued one step at a time. *)
LEMMA BegunExists ==
    ASSUME NEW X, NEW x0 \in X, NEW H \in [Nat \X X -> X]
    PROVE  \A m \in Nat : Begun(X, x0, H, m) # {}
<1> DEFINE S == {m \in Nat : Begun(X, x0, H, m) # {}}
<1>1. 0 \in S
    <2>1. [k \in 0..0 |-> x0] \in Begun(X, x0, H, 0)
        BY DEF Begun
    <2> QED BY <2>1
<1>2. ASSUME NEW m \in Nat, m \in S PROVE m + 1 \in S
    <2>1. PICK g \in [0..m -> X] : g[0] = x0 /\ \A k \in 0..(m - 1) : g[k + 1] = H[<<k, g[k]>>]
        BY <1>2 DEF Begun
    <2> DEFINE h == [k \in 0..(m + 1) |-> IF k <= m THEN g[k] ELSE H[<<m, g[m]>>]]
    <2>2. h \in [0..(m + 1) -> X]
        BY <2>1
    <2>3. h[0] = x0
        BY <2>1
    <2>4. ASSUME NEW k \in 0..m PROVE h[k + 1] = H[<<k, h[k]>>]
        <3>1. h[k] = g[k]
            OBVIOUS
        <3>2. CASE k < m
            <4>1. k \in 0..(m - 1) /\ h[k + 1] = g[k + 1]
                BY <3>2
            <4> QED BY <2>1, <3>1, <4>1
        <3>3. CASE k = m
            <4>1. h[m + 1] = H[<<m, g[m]>>]
                OBVIOUS
            <4> HIDE DEF h
            <4> QED BY <3>1, <3>3, <4>1
        <3> QED BY <3>2, <3>3
    <2>5. (m + 1) - 1 = m
        OBVIOUS
    <2> HIDE DEF h
    <2>6. h \in Begun(X, x0, H, m + 1)
        BY <2>2, <2>3, <2>4, <2>5 DEF Begun
    <2> QED BY <2>6
<1> HIDE DEF S
<1>3. Nat \subseteq S
    BY <1>1, <1>2, SetInduction
<1> QED BY <1>3 DEF S

(* Two of them agree where both are defined. *)
LEMMA BegunAgree ==
    ASSUME NEW X, NEW x0 \in X, NEW H \in [Nat \X X -> X], NEW k \in Nat,
           NEW m \in Nat, NEW n \in Nat, k <= m, k <= n,
           NEW g \in Begun(X, x0, H, m), NEW h \in Begun(X, x0, H, n)
    PROVE  g[k] = h[k]
<1> DEFINE S == {j \in Nat : j <= m /\ j <= n => g[j] = h[j]}
<1>1. 0 \in S
    BY DEF Begun
<1>2. ASSUME NEW j \in Nat, j \in S PROVE j + 1 \in S
    <2> SUFFICES ASSUME j + 1 <= m, j + 1 <= n PROVE g[j + 1] = h[j + 1]
        OBVIOUS
    <2>1. g[j] = h[j] /\ j \in 0..(m - 1) /\ j \in 0..(n - 1)
        BY <1>2
    <2> QED BY <2>1 DEF Begun
<1> HIDE DEF S
<1>3. Nat \subseteq S
    BY <1>1, <1>2, SetInduction
<1> QED BY <1>3 DEF S

(* A first value and a step make a function. *)
Follows(f, X, x0, H) ==
    f \in [Nat -> X] /\ f[0] = x0 /\ \A n \in Nat : f[n + 1] = H[<<n, f[n]>>]

THEOREM RecursionExists ==
    ASSUME NEW X, NEW x0 \in X, NEW H \in [Nat \X X -> X]
    PROVE  \E f : Follows(f, X, x0, H)
<1> DEFINE B(m) == Begun(X, x0, H, m)
           g(m) == CHOOSE b \in B(m) : TRUE
           f == [n \in Nat |-> g(n)[n]]
<1>1. ASSUME NEW m \in Nat PROVE g(m) \in B(m)
    BY BegunExists
<1>2. ASSUME NEW m \in Nat
      PROVE  /\ g(m) \in [0..m -> X] /\ g(m)[0] = x0
             /\ \A k \in 0..(m - 1) : g(m)[k + 1] = H[<<k, g(m)[k]>>]
    BY <1>1 DEF Begun
<1>3. ASSUME NEW n \in Nat PROVE g(n + 1)[n] = g(n)[n]
    <2>1. n + 1 \in Nat /\ n <= n + 1 /\ n <= n
        OBVIOUS
    <2>2. g(n + 1) \in B(n + 1) /\ g(n) \in B(n)
        BY <1>1, <2>1
    <2>3. \A b \in Begun(X, x0, H, n + 1), c \in Begun(X, x0, H, n) : b[n] = c[n]
        <3> HIDE DEF g, B, f
        <3> SUFFICES ASSUME NEW b \in Begun(X, x0, H, n + 1), NEW c \in Begun(X, x0, H, n)
                     PROVE  b[n] = c[n]
            OBVIOUS
        <3> QED BY ONLY <2>1, BegunAgree, x0 \in X, H \in [Nat \X X -> X], n \in Nat,
                        b \in Begun(X, x0, H, n + 1), c \in Begun(X, x0, H, n)
    <2> HIDE DEF g
    <2> QED BY <2>2, <2>3
<1> HIDE DEF g, B
<1>4. f \in [Nat -> X]
    <2>1. ASSUME NEW n \in Nat PROVE g(n)[n] \in X
        BY <1>2
    <2> QED BY <2>1
<1>5. f[0] = x0
    BY <1>2
<1>6. ASSUME NEW n \in Nat PROVE f[n + 1] = H[<<n, f[n]>>]
    <2>1. n + 1 \in Nat /\ n \in 0..((n + 1) - 1)
        OBVIOUS
    <2>2. g(n + 1)[n + 1] = H[<<n, g(n + 1)[n]>>]
        BY <1>2, <2>1
    <2> QED BY <1>3, <2>1, <2>2
<1>7. Follows(f, X, x0, H)
    BY <1>4, <1>5, <1>6 DEF Follows
<1> QED BY <1>7
=============================================================================
