-------------------------- MODULE FSBloquesPrueba --------------------------
(***************************************************************************)
(* The blocks of the FileSystem, for any DataNodes, sizes, texts and       *)
(* commands: proofs of the properties of FSBloquesProps and FSDudas.       *)
(***************************************************************************)
EXTENDS FSDudas, FiniteSetTheorems, SequenceTheorems, TLAPS

-----------------------------------------------------------------------------
(* Folds: what the sums and the cutting of a text are made of              *)

LEMMA Menor ==
  ASSUME NEW S \in SUBSET Nat, S # {}
  PROVE  \E x \in S : \A y \in S : x <= y
  <1>1. \E x \in S : \A y \in S : ~ (<<y, x>> \in OpToRel(<, Nat))
    BY WFMin, NatLessThanWellFounded
  <1>2. PICK x \in S : \A y \in S : ~ (<<y, x>> \in OpToRel(<, Nat))  BY <1>1
  <1>3. \A y \in S : ~ (y < x)  BY <1>2 DEF OpToRel
  <1> QED  BY <1>3

\* Induction over a set of naturals.
LEMMA Induccion ==
  ASSUME NEW A, 0 \in A, \A k \in Nat : k \in A => k + 1 \in A
  PROVE  Nat \subseteq A
  <1> DEFINE S == Nat \ A
  <1> SUFFICES ASSUME S # {} PROVE FALSE  OBVIOUS
  <1>1. PICK x \in S : \A y \in S : x <= y  BY Menor
  <1>2. x \in Nat \ {0} /\ x \notin A  OBVIOUS
  <1>3. x - 1 \in Nat /\ x - 1 \notin S  BY <1>1, <1>2
  <1>4. x - 1 \in A /\ (x - 1) + 1 = x  BY <1>2, <1>3
  <1> QED  BY <1>2, <1>3, <1>4

LEMMA SinElemento ==
  ASSUME NEW s, IsFiniteSet(s), NEW x \in s
  PROVE  IsFiniteSet(s \ {x}) /\ Cardinality(s) \in Nat /\ Cardinality(s \ {x}) = Cardinality(s) - 1
  BY FS_RemoveElement, FS_CardinalityType

\* The functions that fold a set, taken apart by ch and put together by F.
Pliegues(S, V, base, ch, F) ==
  {it \in [SUBSET S -> V] :
     it[{}] = base /\ \A s \in SUBSET S : s # {} => it[s] = F[<<ch[s], it[s \ {ch[s]}]>>]}

\* There is one for every finite set.
LEMMA PliegueHay ==
  ASSUME NEW S, IsFiniteSet(S), NEW V, NEW base \in V,
         NEW ch, \A s \in SUBSET S : s # {} => ch[s] \in s,
         NEW F, \A x \in S : \A v \in V : F[<<x, v>>] \in V
  PROVE  Pliegues(S, V, base, ch, F) # {}
  <1> DEFINE D(k) == {s \in SUBSET S : Cardinality(s) <= k}
             Es(g, k) == g = [s \in D(k) |-> IF s = {} THEN base ELSE F[<<ch[s], g[s \ {ch[s]}]>>]]
             A == {k \in Nat : \E g \in [D(k) -> V] : Es(g, k)}
  <1>0. \A s \in SUBSET S : IsFiniteSet(s) /\ Cardinality(s) \in Nat  BY FS_Subset, FS_CardinalityType
  <1>1. 0 \in A
    <2>1. \A s \in D(0) : s = {}  BY <1>0, FS_EmptySet
    <2> DEFINE g == [s \in D(0) |-> base]
    <2>2. g \in [D(0) -> V]  OBVIOUS
    <2>3. Es(g, 0)  BY <2>1
    <2> QED  BY <2>2, <2>3
  <1>2. \A k \in Nat : k \in A => k + 1 \in A
    <2> SUFFICES ASSUME NEW k \in Nat, NEW g \in [D(k) -> V], Es(g, k)
                 PROVE  k + 1 \in A
      OBVIOUS
    <2> DEFINE h == [s \in D(k + 1) |-> IF s = {} THEN base ELSE F[<<ch[s], g[s \ {ch[s]}]>>]]
    <2>1. \A s \in D(k + 1) : s # {} => s \ {ch[s]} \in D(k) /\ ch[s] \in S
      <3> SUFFICES ASSUME NEW s \in D(k + 1), s # {} PROVE s \ {ch[s]} \in D(k) /\ ch[s] \in S  OBVIOUS
      <3>1. ch[s] \in s /\ s \in SUBSET S  OBVIOUS
      <3>2. Cardinality(s) <= k + 1 /\ IsFiniteSet(s)  BY <1>0
      <3> DEFINE c == s \ {ch[s]}
      <3>3. Cardinality(s) \in Nat /\ Cardinality(c) = Cardinality(s) - 1
        BY <3>1, <3>2, SinElemento
      <3> HIDE DEF c
      <3>4. Cardinality(c) <= k  BY <3>2, <3>3
      <3> QED  BY <3>1, <3>4 DEF c
    <2>2. h \in [D(k + 1) -> V]  BY <2>1
    <2>3. \A s \in D(k) : s \in D(k + 1) /\ h[s] = g[s]
      <3>1. \A s \in D(k) : s \in D(k + 1)  BY <1>0
      <3>2. \A s \in D(k) : g[s] = IF s = {} THEN base ELSE F[<<ch[s], g[s \ {ch[s]}]>>]
        <4> HIDE DEF D
        <4> QED  OBVIOUS
      <3> HIDE DEF D
      <3> QED  BY <3>1, <3>2
    <2>4. \A s \in D(k + 1) : s # {} => h[s \ {ch[s]}] = g[s \ {ch[s]}]  BY <2>1, <2>3
    <2>5. Es(h, k + 1)
      <3> HIDE DEF D
      <3> QED  BY <2>4
    <2> HIDE DEF D, h, Es
    <2> QED  BY <2>2, <2>5
  <1> DEFINE N == Cardinality(S)
  <1>3. N \in Nat  BY FS_CardinalityType
  <1>4. N \in A
    <2> HIDE DEF A
    <2>1. Nat \subseteq A  BY <1>1, <1>2, Induccion
    <2> QED  BY <1>3, <2>1
  <1>5. D(N) = SUBSET S
    <2>1. \A s \in SUBSET S : Cardinality(s) <= N  BY FS_Subset
    <2> QED  BY <2>1
  <1>6. PICK g \in [D(N) -> V] : Es(g, N)  BY <1>4
  <1> HIDE DEF D
  <1>7. g \in Pliegues(S, V, base, ch, F)  BY <1>5, <1>6 DEF Pliegues
  <1> QED  BY <1>7

\* Induction over the subsets of a finite set, one element less at a time.
Hereda(S, ch, A) ==
  /\ {} \in A
  /\ \A s \in SUBSET S : s # {} => ch[s] \in s /\ (s \ {ch[s]} \in A => s \in A)

LEMMA InduccionConjuntos ==
  ASSUME NEW S, IsFiniteSet(S), NEW A, NEW ch, Hereda(S, ch, A)
  PROVE  S \in A
  <1> DEFINE B == {k \in Nat : \A s \in SUBSET S : Cardinality(s) = k => s \in A}
  <1>0. \A s \in SUBSET S : IsFiniteSet(s) /\ Cardinality(s) \in Nat  BY FS_Subset, FS_CardinalityType
  <1>1. 0 \in B  BY <1>0, FS_EmptySet DEF Hereda
  <1>2. \A k \in Nat : k \in B => k + 1 \in B
    <2> SUFFICES ASSUME NEW k \in Nat, k \in B, NEW s \in SUBSET S, Cardinality(s) = k + 1
                 PROVE  s \in A
      OBVIOUS
    <2> DEFINE c == s \ {ch[s]}
    <2>1. s # {}  BY <1>0, FS_EmptySet
    <2>2. ch[s] \in s  BY <2>1 DEF Hereda
    <2>3. Cardinality(c) = Cardinality(s) - 1  BY <1>0, <2>2, SinElemento
    <2>4. Cardinality(c) = k  BY <2>3
    <2>5. c \in A  BY <2>4
    <2> QED  BY <2>1, <2>5 DEF Hereda
  <1>3. Nat \subseteq B
    <2> HIDE DEF B
    <2> QED  BY <1>1, <1>2, Induccion
  <1> QED  BY <1>0, <1>3

\* The sums of the space check: of naturals, a natural, and no less than any of them.
LEMMA SumaEs ==
  ASSUME NEW S, IsFiniteSet(S), NEW f, \A x \in S : f[x] \in Nat
  PROVE  SumFunctionOnSet(f, S) \in Nat /\ \A x \in S : f[x] <= SumFunctionOnSet(f, S)
  <1> DEFINE ch == [s \in SUBSET S |-> CHOOSE x \in s : TRUE]
             Es(it) == it = [s \in SUBSET S |->
                               IF s = {} THEN 0
                               ELSE f[CHOOSE x \in s : TRUE] + it[s \ {CHOOSE x \in s : TRUE}]]
             I == CHOOSE it : Es(it)
  <1>1. SumFunctionOnSet(f, S) = I[S]  BY DEF SumFunctionOnSet, FoldFunctionOnSet, MapThenFoldSet
  <1>2. \A s \in SUBSET S : s # {} => ch[s] \in s /\ ch[s] = (CHOOSE x \in s : TRUE)  OBVIOUS
  <1>a. \A s \in SUBSET S : s # {} => ch[s] \in s  BY <1>2
  <1>3. \E it : Es(it)
    <2> DEFINE F == [p \in S \X Nat |-> f[p[1]] + p[2]]
    <2>1. \A x \in S : \A v \in Nat : F[<<x, v>>] \in Nat  OBVIOUS
    <2>2. PICK it \in [SUBSET S -> Nat] :
             it[{}] = 0 /\ \A s \in SUBSET S : s # {} => it[s] = F[<<ch[s], it[s \ {ch[s]}]>>]
      <3> HIDE DEF F, ch
      <3>1. 0 \in Nat  OBVIOUS
      <3>2. Pliegues(S, Nat, 0, ch, F) # {}
        BY ONLY IsFiniteSet(S), <3>1, <1>a, <2>1, PliegueHay
      <3> QED  BY <3>2 DEF Pliegues
    <2>3. \A s \in SUBSET S : s # {} =>
             F[<<ch[s], it[s \ {ch[s]}]>>] = f[ch[s]] + it[s \ {ch[s]}]
      <3> HIDE DEF ch
      <3> QED  BY <1>2
    <2>4. it = [s \in SUBSET S |-> IF s = {} THEN 0 ELSE f[ch[s]] + it[s \ {ch[s]}]]
      <3> HIDE DEF F, ch
      <3> QED  BY <2>2, <2>3
    <2>5. Es(it)
      <3> HIDE DEF ch
      <3> QED  BY <1>2, <2>4
    <2> QED  BY <2>5
  <1>4. Es(I)
    <2> HIDE DEF Es
    <2> QED  BY <1>3
  <1>5. I[{}] = 0 /\ \A s \in SUBSET S : s # {} => I[s] = f[ch[s]] + I[s \ {ch[s]}]
    <2> HIDE DEF I
    <2> QED  BY <1>4
  <1> HIDE DEF I, Es, ch
  <1> DEFINE A == {s \in SUBSET S : I[s] \in Nat /\ \A x \in s : f[x] <= I[s]}
  <1>6. {} \in A  BY <1>5
  <1>7. \A s \in SUBSET S : s # {} => ch[s] \in s /\ (s \ {ch[s]} \in A => s \in A)
    <2> SUFFICES ASSUME NEW s \in SUBSET S, s # {}, s \ {ch[s]} \in A PROVE s \in A  BY <1>2
    <2> DEFINE c == ch[s]
               r == s \ {c}
    <2>1. c \in s /\ f[c] \in Nat /\ I[r] \in Nat /\ I[s] = f[c] + I[r]  BY <1>2, <1>5
    <2>2. \A x \in r : f[x] <= I[r] /\ f[x] \in Nat  OBVIOUS
    <2>3. \A x \in s : x = c \/ x \in r  OBVIOUS
    <2> HIDE DEF c, r
    <2>4. \A x \in s : f[x] <= I[s]
      <3> TAKE x \in s
      <3>1. CASE x = c  BY <2>1, <3>1
      <3>2. CASE x \in r  BY <2>1, <2>2, <3>2
      <3> QED  BY <2>3, <3>1, <3>2
    <2> QED  BY <2>1, <2>4
  <1>8. S \in A
    <2> HIDE DEF A
    <2>1. Hereda(S, ch, A)  BY <1>6, <1>7 DEF Hereda
    <2> QED  BY <2>1, InduccionConjuntos
  <1> QED  BY <1>1, <1>8

LEMMA Mayor ==
  ASSUME NEW k \in Nat, NEW S \in SUBSET (1..k), S # {}
  PROVE  \E x \in S : \A y \in S : x >= y
  <1> DEFINE T == {k - x : x \in S}
  <1>0. \A x \in S : x \in Nat /\ k - x \in Nat  OBVIOUS
  <1>1. T \in SUBSET Nat /\ T # {}  BY <1>0
  <1>2. PICK z \in T : \A y \in T : z <= y  BY <1>1, Menor
  <1>3. PICK x \in S : z = k - x  BY <1>2
  <1>4. \A y \in S : k - x <= k - y  BY <1>2, <1>3
  <1>5. x \in 1..k /\ \A y \in S : y \in 1..k  OBVIOUS
  <1>6. \A y \in S : x >= y  BY <1>4, <1>5
  <1> QED  BY <1>6

LEMMA PedidosEs ==
  ASSUME NEW t \in Textos
  PROVE  Pedidos(t) \in Nat
  <1>1. t \in Seq(1..MB) /\ MB \in Nat \ {0}  BY SupuestoBloques
  <1>2. DOMAIN t = 1..Len(t) /\ Len(t) \in Nat /\ \A i \in DOMAIN t : t[i] \in 1..MB  BY <1>1
  <1>3. IsFiniteSet(DOMAIN t) /\ \A i \in DOMAIN t : t[i] \in Nat  BY <1>1, <1>2, FS_Interval
  <1>4. SumFunctionOnSet(t, DOMAIN t) \in Nat  BY <1>3, SumaEs
  <1>5. \A s \in Nat : s \div MB + 1 \in Nat  BY <1>1
  <1> QED  BY <1>4, <1>5 DEF Pedidos, SumFunction

LEMMA TrozosEs ==
  ASSUME NEW t \in Textos
  PROVE  Trozos(t) \in Nat
  <1> DEFINE S == DOMAIN t
             V == [enviados : Nat, ocupados : Nat]
             z == [enviados |-> 0, ocupados |-> 0]
             corta(c, linea) == IF c.ocupados + linea > MB
                                THEN [enviados |-> c.enviados + 1, ocupados |-> linea]
                                ELSE [c EXCEPT !.ocupados = @ + linea]
             mayor(s) == CHOOSE x \in s : \A y \in s : x >= y
             ch == [s \in SUBSET S |-> mayor(s)]
             F == [p \in S \X V |-> corta(p[2], t[p[1]])]
             Es(it) == it = [s \in SUBSET S |->
                               IF s = {} THEN z ELSE corta(it[s \ {mayor(s)}], t[mayor(s)])]
             I == CHOOSE it : Es(it)
  <1>1. t \in Seq(1..MB) /\ MB \in Nat \ {0}  BY SupuestoBloques
  <1>2. S = 1..Len(t) /\ Len(t) \in Nat /\ \A i \in S : t[i] \in Nat  BY <1>1
  <1>3. IsFiniteSet(S)  BY <1>2, FS_Interval
  <1>4. \A c \in V : \A i \in S : corta(c, t[i]) \in V
    <2> TAKE c \in V
    <2> TAKE i \in S
    <2>1. c.enviados \in Nat /\ c.ocupados \in Nat /\ t[i] \in Nat  BY <1>2
    <2>2. c.enviados + 1 \in Nat /\ c.ocupados + t[i] \in Nat  BY <2>1
    <2> QED  BY <2>1, <2>2
  <1>5. \A s \in SUBSET S : s # {} => mayor(s) \in s
    <2> SUFFICES ASSUME NEW s \in SUBSET S, s # {} PROVE mayor(s) \in s  OBVIOUS
    <2>1. \E x \in s : \A y \in s : x >= y  BY <1>2, Mayor
    <2> QED  BY <2>1
  <1>6. \A s \in SUBSET S : ch[s] = mayor(s)  OBVIOUS
  <1>7. \A s \in SUBSET S : s # {} => ch[s] \in s  BY <1>5, <1>6
  <1>8. \A i \in S : \A c \in V : F[<<i, c>>] = corta(c, t[i])
    <2> HIDE DEF V, S, corta
    <2> QED  OBVIOUS
  <1>9. \A i \in S : \A c \in V : F[<<i, c>>] \in V  BY <1>4, <1>8
  <1>10. z \in V  OBVIOUS
  <1>11. Trozos(t) = LET fin == I[S] IN fin.enviados + (IF fin.ocupados # 0 THEN 1 ELSE 0)
    BY DEF Trozos, FoldLeft, MapThenFoldSet, Max
  <1> HIDE DEF S, V, z, ch, F, corta, mayor
  <1>12. Pliegues(S, V, z, ch, F) # {}  BY ONLY <1>3, <1>7, <1>9, <1>10, PliegueHay
  <1>13. \E it : Es(it)
    <2>1. PICK it \in [SUBSET S -> V] :
             it[{}] = z /\ \A s \in SUBSET S : s # {} => it[s] = F[<<ch[s], it[s \ {ch[s]}]>>]
      BY <1>12 DEF Pliegues
    <2>2. \A s \in SUBSET S : s # {} => it[s] = corta(it[s \ {mayor(s)}], t[mayor(s)])
      <3> TAKE s \in SUBSET S
      <3> HAVE s # {}
      <3>1. mayor(s) \in S /\ it[s \ {mayor(s)}] \in V  BY <1>5, <2>1
      <3>2. it[s] = F[<<mayor(s), it[s \ {mayor(s)}]>>]  BY <1>6, <2>1
      <3> QED  BY <1>8, <3>1, <3>2
    <2>3. it = [s \in SUBSET S |-> it[s]]  BY <2>1
    <2>4. Es(it)  BY <2>1, <2>2, <2>3
    <2> QED  BY <2>4
  <1>14. Es(I)
    <2> HIDE DEF Es
    <2> QED  BY <1>13
  <1> HIDE DEF I
  <1>15. I[{}] = z /\ \A s \in SUBSET S : s # {} => I[s] = corta(I[s \ {mayor(s)}], t[mayor(s)])
    BY <1>14
  <1> HIDE DEF Es
  <1> DEFINE A == {s \in SUBSET S : I[s] \in V}
  <1>16. {} \in A  BY <1>10, <1>15
  <1>17. \A s \in SUBSET S : s # {} => ch[s] \in s /\ (s \ {ch[s]} \in A => s \in A)
    <2> SUFFICES ASSUME NEW s \in SUBSET S, s # {}, s \ {ch[s]} \in A PROVE s \in A  BY <1>7
    <2>1. ch[s] = mayor(s) /\ mayor(s) \in S  BY <1>5, <1>6
    <2>2. I[s \ {mayor(s)}] \in V  BY <2>1
    <2>3. I[s] \in V  BY <1>4, <1>15, <2>1, <2>2
    <2> QED  BY <2>3
  <1>18. S \in A
    <2> HIDE DEF A
    <2>1. Hereda(S, ch, A)  BY <1>16, <1>17 DEF Hereda
    <2> QED  BY <1>3, <2>1, InduccionConjuntos
  <1>19. I[S] \in V  BY <1>18
  <1> QED  BY <1>11, <1>19 DEF V

-----------------------------------------------------------------------------
(* The placement                                                           *)

\* The first bit that is clear is not set, and no further than the bits that are.
LEMMA BitLibreEs ==
  ASSUME NEW B \in SUBSET Nat, IsFiniteSet(B)
  PROVE  BitLibre(B) \in Nat /\ BitLibre(B) \notin B /\ BitLibre(B) <= Cardinality(B)
  <1> DEFINE K == Cardinality(B)
             S == (0..K) \ B
             Es(k) == k \notin B /\ \A m \in 0..(k - 1) : m \in B
  <1>1. K \in Nat  BY FS_CardinalityType
  <1>2. IsFiniteSet(0..K) /\ Cardinality(0..K) = K + 1  BY <1>1, FS_Interval
  <1>3. S # {}
    <2> SUFFICES ASSUME 0..K \subseteq B PROVE FALSE  OBVIOUS
    <2>1. Cardinality(0..K) <= K  BY FS_Subset
    <2> QED  BY <1>1, <1>2, <2>1
  <1>4. PICK k \in S : \A y \in S : k <= y
    <2>1. S \in SUBSET Nat  BY <1>1
    <2> HIDE DEF S
    <2> QED  BY <1>3, <2>1, Menor
  <1>5. \A m \in 0..(k - 1) : m \in B
    <2> TAKE m \in 0..(k - 1)
    <2>1. m \in 0..K /\ ~ (k <= m)  BY <1>1
    <2> QED  BY <1>4, <2>1
  <1>6. k \in 0..K /\ Es(k)  BY <1>5
  <1>7. BitLibre(B) \in 0..K /\ Es(BitLibre(B))
    <2>1. BitLibre(B) = CHOOSE x \in 0..K : Es(x)  BY DEF BitLibre
    <2> HIDE DEF Es
    <2> QED  BY <1>6, <2>1
  <1> HIDE DEF K
  <1>8. BitLibre(B) \in Nat /\ BitLibre(B) <= K  BY <1>1, <1>7
  <1> QED  BY <1>7, <1>8 DEF K

LEMMA Resto ==
  ASSUME NEW l \in Nat \ {0}, NEW a \in 0..(2 * l - 1)
  PROVE  a % l = IF a < l THEN a ELSE a - l
  <1>1. CASE a < l  BY <1>1
  <1>2. CASE a >= l
    <2>1. a - l \in 0..(l - 1)  BY <1>2
    <2>2. (a - l) % l = a - l  BY <2>1
    <2>3. a = (a - l) + l * 1  OBVIOUS
    <2>4. a % l = (a - l) % l  BY <2>3
    <2> QED  BY <1>2, <2>2, <2>4
  <1> QED  BY <1>1, <1>2

\* The k-th position from p, going round.
Vuelta(p, k)   == ((p - 1 + k) % Len(nombres)) + 1
Sirve(p, L, k) == L[nombres[Vuelta(p, k)]] > 0 /\ nombres[Vuelta(p, k)] \in socket

LEMMA VueltaEs ==
  ASSUME nombres \in Seq(Nodos), NEW p \in 1..Len(nombres), NEW k \in 0..(Len(nombres) - 1)
  PROVE  /\ Vuelta(p, k) \in 1..Len(nombres)
         /\ Vuelta(p, k) = IF p + k <= Len(nombres) THEN p + k ELSE p + k - Len(nombres)
  <1> DEFINE l == Len(nombres)
             a == p - 1 + k
  <1>1. l \in Nat /\ p \in 1..l /\ k \in 0..(l - 1)  OBVIOUS
  <1> HIDE DEF l
  <1>2. l \in Nat \ {0} /\ a \in 0..(2 * l - 1)  BY <1>1
  <1>3. a % l = IF a < l THEN a ELSE a - l
    <2> HIDE DEF a
    <2> QED  BY <1>2, Resto
  <1>4. (a % l) + 1 \in 1..l /\ (a % l) + 1 = IF p + k <= l THEN p + k ELSE p + k - l
    BY <1>1, <1>2, <1>3
  <1> QED  BY <1>4 DEF Vuelta, l

\* Every position is come to.
LEMMA VueltaLlega ==
  ASSUME nombres \in Seq(Nodos), NEW p \in 1..Len(nombres), NEW q \in 1..Len(nombres)
  PROVE  \E k \in 0..(Len(nombres) - 1) : Vuelta(p, k) = q
  <1> DEFINE l == Len(nombres)
             k == IF q >= p THEN q - p ELSE q - p + l
  <1>1. l \in Nat /\ p \in 1..l /\ q \in 1..l  OBVIOUS
  <1> HIDE DEF l
  <1>2. k \in 0..(l - 1) /\ (IF p + k <= l THEN p + k ELSE p + k - l) = q  BY <1>1
  <1> HIDE DEF k
  <1>3. Vuelta(p, k) = q  BY <1>2, VueltaEs DEF l
  <1> QED  BY <1>2, <1>3 DEF l

LEMMA ElegibleEs ==
  ASSUME nombres \in Seq(Nodos), NEW p \in 1..Len(nombres), NEW L, NEW q \in Elegible(p, L)
  PROVE  /\ q \in 1..Len(nombres) /\ nombres[q] \in socket /\ L[nombres[q]] > 0
         /\ \E k \in 0..(Len(nombres) - 1) :
              Vuelta(p, k) = q /\ \A m \in 0..(k - 1) : ~ Sirve(p, L, m)
  <1>1. PICK k \in 0..(Len(nombres) - 1) :
           /\ q = Vuelta(p, k) /\ Sirve(p, L, k)
           /\ \A m \in 0..(k - 1) : ~ Sirve(p, L, m)
    BY DEF Elegible, Vuelta, Sirve
  <1>2. q \in 1..Len(nombres)  BY <1>1, VueltaEs
  <1> QED  BY <1>1, <1>2 DEF Sirve

LEMMA TrasEs ==
  ASSUME nombres \in Seq(Nodos), NEW p \in 1..Len(nombres)
  PROVE  Tras(p) \in 1..Len(nombres) /\ Tras(p) = IF p = Len(nombres) THEN 1 ELSE p + 1
  <1> DEFINE l == Len(nombres)
  <1>1. l \in Nat \ {0} /\ p \in 1..l  OBVIOUS
  <1> HIDE DEF l
  <1>2. p % l = IF p < l THEN p ELSE p - l
    <2>1. p \in 0..(2 * l - 1)  BY <1>1
    <2> QED  BY <1>1, <2>1, Resto
  <1>3. (p % l) + 1 \in 1..l /\ (p % l) + 1 = IF p = l THEN 1 ELSE p + 1  BY <1>1, <1>2
  <1> QED  BY <1>3 DEF Tras, l

LEMMA UbicacionesEs ==
  ASSUME nombres \in Seq(Nodos), puntero \in 1..(IF nombres = <<>> THEN 1 ELSE Len(nombres)),
         NEW u \in Ubicaciones
  PROVE  LET p == u[1]
             q == u[2]
         IN  /\ nombres # <<>> /\ p \in 1..Len(nombres) /\ q \in 1..Len(nombres)
             /\ nombres[p] \in socket /\ nombres[q] \in socket
             /\ libres[nombres[p]] > 0
             /\ q \in Elegible(Tras(p), [libres EXCEPT ![nombres[p]] = @ - 1])
             /\ [libres EXCEPT ![nombres[p]] = @ - 1][nombres[q]] > 0
  <1>0. PICK p \in Elegible(puntero, libres) :
           \E q \in Elegible(Tras(p), [libres EXCEPT ![nombres[p]] = @ - 1]) : u = <<p, q>>
    BY DEF Ubicaciones
  <1>1. PICK q \in Elegible(Tras(p), [libres EXCEPT ![nombres[p]] = @ - 1]) : u = <<p, q>>
    BY <1>0
  <1>2. nombres # <<>>
    <2> SUFFICES ASSUME nombres = <<>> PROVE FALSE  OBVIOUS
    <2>1. Len(nombres) = 0  OBVIOUS
    <2>2. 0..(Len(nombres) - 1) = {}  BY <2>1
    <2>3. Elegible(puntero, libres) = {}  BY <2>2 DEF Elegible
    <2> QED  BY <1>0, <2>3
  <1>3. puntero \in 1..Len(nombres)  BY <1>2
  <1>4. p \in 1..Len(nombres) /\ nombres[p] \in socket /\ libres[nombres[p]] > 0
    BY <1>3, ElegibleEs
  <1>5. Tras(p) \in 1..Len(nombres)  BY <1>4, TrasEs
  <1> DEFINE L == [libres EXCEPT ![nombres[p]] = @ - 1]
  <1>6. q \in Elegible(Tras(p), L)  BY <1>1
  <1> HIDE DEF L
  <1>7. q \in 1..Len(nombres) /\ nombres[q] \in socket /\ L[nombres[q]] > 0
    BY <1>5, <1>6, ElegibleEs
  <1> QED  BY <1>1, <1>2, <1>4, <1>6, <1>7 DEF L

-----------------------------------------------------------------------------
(* Blocks and where their copies are                                       *)

\* rm -b and cpblock keep of every block: a copy that was taken away has number -1, one of
\* the first two stays, and further ones only wait behind two that are there.
Bien(b) ==
  /\ b.c0.num >= -1 /\ b.c1.num >= -1 /\ (b.c0.num >= 0 \/ b.c1.num >= 0)
  /\ \A j \in 1..Len(Otras(b)) : Otras(b)[j].num >= 0
  /\ Otras(b) # <<>> => b.c0.num >= 0 /\ b.c1.num >= 0

Buenos == {b \in Bloque : Bien(b)}

\* The copies of b that are there, as places, each held once.
Lugares(b) == {u \in Ubicacion : u.num >= 0 /\ \E j \in DOMAIN Copias(b) : Copias(b)[j] = u}
SinRepetir(b) ==
  \A i, j \in DOMAIN Copias(b) :
    Copias(b)[i].num >= 0 /\ Copias(b)[i] = Copias(b)[j] => i = j

LEMMA OtrasEs ==
  ASSUME NEW b \in Bloque
  PROVE  Otras(b) \in Seq(Ubicacion) /\ (Otras(b) # <<>> => b.otras = Otras(b))
  BY DEF Otras, Bloque

LEMMA CopiasEs ==
  ASSUME NEW b \in Bloque
  PROVE  /\ Copias(b) \in Seq(Ubicacion) /\ Len(Otras(b)) \in Nat
         /\ Len(Copias(b)) = 2 + Len(Otras(b)) /\ DOMAIN Copias(b) = 1..(2 + Len(Otras(b)))
         /\ Copias(b)[1] = b.c0 /\ Copias(b)[2] = b.c1
         /\ \A j \in 1..Len(Otras(b)) : Copias(b)[2 + j] = Otras(b)[j]
  <1> DEFINE s == <<b.c0, b.c1>>
             o == Otras(b)
  <1>1. s \in Seq(Ubicacion) /\ Len(s) = 2 /\ s[1] = b.c0 /\ s[2] = b.c1  BY DEF Bloque
  <1>2. o \in Seq(Ubicacion)  BY OtrasEs
  <1> HIDE DEF s, o
  <1>a. /\ s \o o \in Seq(Ubicacion) /\ Len(s \o o) = Len(s) + Len(o)
        /\ \A i \in 1..(Len(s) + Len(o)) : (s \o o)[i] = IF i <= Len(s) THEN s[i] ELSE o[i - Len(s)]
    BY <1>1, <1>2, ConcatProperties
  <1>3. Len(o) \in Nat /\ Len(s \o o) = 2 + Len(o) /\ s \o o \in Seq(Ubicacion)  BY <1>1, <1>2, <1>a
  <1>4. (s \o o)[1] = s[1] /\ (s \o o)[2] = s[2]  BY <1>1, <1>3, <1>a
  <1>5. \A j \in 1..Len(o) : (s \o o)[2 + j] = o[j]
    <2> TAKE j \in 1..Len(o)
    <2>1. 2 + j \in 1..(Len(s) + Len(o)) /\ ~ (2 + j <= Len(s)) /\ 2 + j - Len(s) = j  BY <1>1, <1>3
    <2> QED  BY <1>a, <2>1
  <1>6. DOMAIN (s \o o) = 1..(2 + Len(o))  BY <1>3
  <1> QED  BY <1>1, <1>3, <1>4, <1>5, <1>6 DEF Copias, s, o

LEMMA LugaresSon ==
  ASSUME NEW b \in Bloque, NEW u
  PROVE  u \in Lugares(b) <=>
           /\ u \in Ubicacion /\ u.num >= 0
           /\ u = b.c0 \/ u = b.c1 \/ \E j \in 1..Len(Otras(b)) : u = Otras(b)[j]
  <1>1. /\ Len(Otras(b)) \in Nat /\ DOMAIN Copias(b) = 1..(2 + Len(Otras(b)))
        /\ Copias(b)[1] = b.c0 /\ Copias(b)[2] = b.c1
        /\ \A j \in 1..Len(Otras(b)) : Copias(b)[2 + j] = Otras(b)[j]
    BY CopiasEs
  <1>2. \A j \in DOMAIN Copias(b) : j = 1 \/ j = 2 \/ (j - 2 \in 1..Len(Otras(b)) /\ 2 + (j - 2) = j)
    BY <1>1
  <1>3. 1 \in DOMAIN Copias(b) /\ 2 \in DOMAIN Copias(b)
        /\ \A j \in 1..Len(Otras(b)) : 2 + j \in DOMAIN Copias(b)
    BY <1>1
  <1>4. (\E j \in DOMAIN Copias(b) : Copias(b)[j] = u)
           <=> u = b.c0 \/ u = b.c1 \/ \E j \in 1..Len(Otras(b)) : u = Otras(b)[j]
    <2>1. ASSUME NEW j \in DOMAIN Copias(b), Copias(b)[j] = u
          PROVE  u = b.c0 \/ u = b.c1 \/ \E i \in 1..Len(Otras(b)) : u = Otras(b)[i]
      <3>1. CASE j = 1 \/ j = 2  BY <1>1, <2>1, <3>1
      <3>2. CASE j - 2 \in 1..Len(Otras(b)) /\ 2 + (j - 2) = j
        <4>1. Copias(b)[2 + (j - 2)] = Otras(b)[j - 2]  BY <1>1, <3>2
        <4> QED  BY <2>1, <3>2, <4>1
      <3> QED  BY <1>2, <3>1, <3>2
    <2> QED  BY <1>1, <1>3, <2>1
  <1> QED  BY <1>4 DEF Lugares

\* No two copies of b are at v.
Unico(b, v) == \A i, j \in DOMAIN Copias(b) : Copias(b)[i] = v /\ Copias(b)[j] = v => i = j

LEMMA UnicoSon ==
  ASSUME NEW b \in Bloque, NEW v
  PROVE  LET o == Otras(b)
         IN  Unico(b, v) <=> /\ ~ (b.c0 = v /\ b.c1 = v)
                             /\ \A j \in 1..Len(o) : o[j] = v => b.c0 # v /\ b.c1 # v
                             /\ \A i, j \in 1..Len(o) : o[i] = v /\ o[j] = v => i = j
  <1> DEFINE o == Otras(b)
             k == Len(o)
             C == Copias(b)
  <1>1. /\ k \in Nat /\ DOMAIN C = 1..(2 + k) /\ C[1] = b.c0 /\ C[2] = b.c1
        /\ \A j \in 1..k : C[2 + j] = o[j]
    BY CopiasEs
  <1> HIDE DEF k, o, C
  <1>2. \A j \in DOMAIN C : j = 1 \/ j = 2 \/ \E i \in 1..k : j = 2 + i
    <2> TAKE j \in DOMAIN C
    <2>1. j = 1 \/ j = 2 \/ (j - 2 \in 1..k /\ 2 + (j - 2) = j)  BY <1>1
    <2> QED  BY <2>1
  <1>3. /\ 1 \in DOMAIN C /\ 2 \in DOMAIN C
        /\ \A j \in 1..k : 2 + j \in DOMAIN C /\ 2 + j # 1 /\ 2 + j # 2
        /\ \A i, j \in 1..k : 2 + i = 2 + j => i = j
    BY <1>1
  <1>4. ASSUME Unico(b, v)
        PROVE  /\ ~ (b.c0 = v /\ b.c1 = v)
               /\ \A j \in 1..k : o[j] = v => b.c0 # v /\ b.c1 # v
               /\ \A i, j \in 1..k : o[i] = v /\ o[j] = v => i = j
    <2>1. \A i, j \in DOMAIN C : C[i] = v /\ C[j] = v => i = j  BY <1>4 DEF Unico, C
    <2> QED  BY <1>1, <1>3, <2>1
  <1>5. ASSUME ~ (b.c0 = v /\ b.c1 = v),
               \A j \in 1..k : o[j] = v => b.c0 # v /\ b.c1 # v,
               \A i, j \in 1..k : o[i] = v /\ o[j] = v => i = j
        PROVE  Unico(b, v)
    <2>1. \A i, j \in DOMAIN C : C[i] = v /\ C[j] = v => i = j
      <3> TAKE i, j \in DOMAIN C
      <3> HAVE C[i] = v /\ C[j] = v
      <3>1. CASE i \in {1, 2} /\ j \in {1, 2}  BY <1>1, <1>5, <3>1
      <3>2. CASE i \in {1, 2} /\ \E m \in 1..k : j = 2 + m  BY <1>1, <1>5, <3>2
      <3>3. CASE j \in {1, 2} /\ \E m \in 1..k : i = 2 + m  BY <1>1, <1>5, <3>3
      <3>4. CASE (\E m \in 1..k : i = 2 + m) /\ (\E m \in 1..k : j = 2 + m)
        <4>1. PICK p \in 1..k, q \in 1..k : i = 2 + p /\ j = 2 + q  BY <3>4
        <4>2. o[p] = v /\ o[q] = v  BY <1>1, <4>1
        <4>3. p = q  BY <1>5, <4>2
        <4> QED  BY <4>1, <4>3
      <3> QED  BY <1>2, <3>1, <3>2, <3>3, <3>4
    <2> QED  BY <2>1 DEF Unico, C
  <1> QED  BY <1>4, <1>5 DEF k, o

LEMMA SinRepetirSon ==
  ASSUME NEW b \in Bloque
  PROVE  SinRepetir(b) <=> \A v \in Ubicacion : v.num >= 0 => Unico(b, v)
  <1>1. \A i \in DOMAIN Copias(b) : Copias(b)[i] \in Ubicacion  BY CopiasEs
  <1> QED  BY <1>1 DEF SinRepetir, Unico

\* Block s is b without the copy that was at q.
SinUna(b, s, q) ==
  /\ Lugares(s) \subseteq Lugares(b) /\ Lugares(b) \ {q} \subseteq Lugares(s)
  /\ Unico(b, q) => q \notin Lugares(s)
  /\ \A v \in Ubicacion : v.num >= 0 /\ Unico(b, v) => Unico(s, v)

LEMMA SinUnaEs ==
  ASSUME NEW b \in Bloque, NEW s \in Bloque, NEW q \in Ubicacion, SinUna(b, s, q), SinRepetir(b)
  PROVE  SinRepetir(s) /\ Lugares(s) = Lugares(b) \ {q}
  <1>1. SinRepetir(s)  BY SinRepetirSon DEF SinUna
  <1>2. q \notin Lugares(s)
    <2>1. CASE q.num >= 0  BY <2>1, SinRepetirSon DEF SinUna
    <2>2. CASE ~ (q.num >= 0)  BY <2>2 DEF Lugares
    <2> QED  BY <2>1, <2>2
  <1> QED  BY <1>1, <1>2 DEF SinUna

LEMMA RemoveAtEs ==
  ASSUME NEW S, NEW s \in Seq(S), NEW i \in 1..Len(s)
  PROVE  /\ RemoveAt(s, i) \in Seq(S) /\ Len(RemoveAt(s, i)) = Len(s) - 1
         /\ \A j \in 1..(Len(s) - 1) : RemoveAt(s, i)[j] = IF j < i THEN s[j] ELSE s[j + 1]
  <1> DEFINE a == SubSeq(s, 1, i - 1)
             b == SubSeq(s, i + 1, Len(s))
             k == Len(s)
  <1>1. k \in Nat /\ i \in 1..k /\ \A j \in 1..k : s[j] \in S  OBVIOUS
  <1>2. a \in Seq(S) /\ Len(a) = i - 1 /\ \A j \in 1..(i - 1) : a[j] = s[j]
    <2>1. \A j \in 1..(i - 1) : j \in 1..k  BY <1>1
    <2>2. a = [j \in 1..(i - 1) |-> s[j]]  BY <1>1
    <2> HIDE DEF a, k
    <2>3. i - 1 \in Nat  BY <1>1
    <2> QED  BY <1>1, <2>1, <2>2, <2>3
  <1>3. b \in Seq(S) /\ Len(b) = k - i /\ \A j \in 1..(k - i) : b[j] = s[i + j]
    <2>1. \A j \in 1..(k - i) : i + j \in 1..k /\ (i + 1) + j - 1 = i + j  BY <1>1
    <2>2. b = [j \in 1..(k - i) |-> s[i + j]]
      <3>1. k - (i + 1) + 1 = k - i  BY <1>1
      <3>2. b = [j \in 1..(k - (i + 1) + 1) |-> s[(i + 1) + j - 1]]  OBVIOUS
      <3> HIDE DEF b, k
      <3> QED  BY <2>1, <3>1, <3>2
    <2>3. k - i \in Nat  BY <1>1
    <2> HIDE DEF b, k
    <2> QED  BY <1>1, <2>1, <2>2, <2>3
  <1> HIDE DEF a, b, k
  <1>4. /\ a \o b \in Seq(S) /\ Len(a \o b) = Len(a) + Len(b)
        /\ \A j \in 1..(Len(a) + Len(b)) : (a \o b)[j] = IF j <= Len(a) THEN a[j] ELSE b[j - Len(a)]
    BY <1>2, <1>3, ConcatProperties
  <1>5. Len(a) + Len(b) = k - 1  BY <1>1, <1>2, <1>3
  <1>6. \A j \in 1..(k - 1) : (a \o b)[j] = IF j < i THEN s[j] ELSE s[j + 1]
    <2> TAKE j \in 1..(k - 1)
    <2>1. CASE j < i  BY <1>1, <1>2, <1>4, <1>5, <2>1
    <2>2. CASE ~ (j < i)
      <3>1. j - (i - 1) \in 1..(k - i) /\ i + (j - (i - 1)) = j + 1 /\ ~ (j <= i - 1)  BY <1>1, <2>2
      <3>2. (a \o b)[j] = b[j - (i - 1)]  BY <1>2, <1>4, <1>5, <3>1
      <3> QED  BY <1>3, <2>2, <3>1, <3>2
    <2> QED  BY <2>1, <2>2
  <1> QED  BY <1>4, <1>5, <1>6 DEF RemoveAt, a, b, k

LEMMA SinNulo ==
  ASSUME NEW b \in Bloque, b.otras \in Seq(Ubicacion)
  PROVE  b.otras # Nulo /\ Otras(b) = b.otras
  BY SupuestoNulo DEF Otras

\* rm -b of one of the first two copies.
LEMMA SinCopiaEs ==
  ASSUME NEW b \in Buenos, NEW c \in {0, 1}, Restante(b, c) # -1
  PROVE  LET s == SinCopia(b, c)
             q == IF c = 0 THEN b.c0 ELSE b.c1
         IN  s \in Buenos /\ s.dato = b.dato /\ SinUna(b, s, q)
  <1> DEFINE s == SinCopia(b, c)
             q == IF c = 0 THEN b.c0 ELSE b.c1
             o == IF c = 0 THEN b.c1 ELSE b.c0
             k == Len(Otras(b))
  <1>1. b \in Bloque /\ Bien(b)  BY DEF Buenos
  <1>2. Otras(b) \in Seq(Ubicacion) /\ k \in Nat  BY <1>1, OtrasEs
  <1>3. b.c0 \in Ubicacion /\ b.c1 \in Ubicacion /\ b.c0.num \in Int /\ b.c1.num \in Int
    BY <1>1 DEF Bloque, Ubicacion
  <1>4. o.num >= 0  BY <1>1, <1>3 DEF Restante, Bien
  <1>5. CASE Otras(b) = <<>>
    <2> DEFINE r == [q EXCEPT !.num = -1]
    <2>1. r \in Ubicacion /\ r.num = -1  BY <1>3 DEF Ubicacion
    <2>2. s = IF c = 0 THEN [b EXCEPT !.c0 = r, !.otras = b.otras]
              ELSE [b EXCEPT !.c1 = r, !.otras = b.otras]
      BY <1>5 DEF SinCopia
    <2>3. /\ s \in Bloque /\ s.dato = b.dato /\ s.otras = b.otras
          /\ (IF c = 0 THEN s.c0 ELSE s.c1) = r /\ (IF c = 0 THEN s.c1 ELSE s.c0) = o
      <3> HIDE DEF s, r
      <3> QED  BY <1>1, <1>3, <2>1, <2>2 DEF Bloque
    <2>4. Otras(s) = <<>>  BY <1>5, <2>3 DEF Otras
    <2>5. Len(<<>>) = 0  OBVIOUS
    <2> HIDE DEF s, r
    <2>6. s \in Buenos
      BY <1>4, <2>1, <2>3, <2>4, <2>5 DEF Buenos, Bien
    <2>7. \A u : u \in Lugares(s) <=> u \in Ubicacion /\ u.num >= 0 /\ (u = r \/ u = o)
      BY <2>3, <2>4, <2>5, LugaresSon
    <2>8. \A u : u \in Lugares(b) <=> u \in Ubicacion /\ u.num >= 0 /\ (u = q \/ u = o)
      BY <1>1, <1>5, <2>5, LugaresSon
    <2>9. \A u : u.num >= 0 => u # r  BY <2>1
    <2>10. \A v : v.num >= 0 => Unico(s, v)  BY <2>3, <2>4, <2>5, <2>9, UnicoSon
    <2>11. Unico(b, q) => q # o  BY <1>1, UnicoSon
    <2>12. SinUna(b, s, q)  BY <2>7, <2>8, <2>9, <2>10, <2>11 DEF SinUna
    <2> QED  BY <2>3, <2>6, <2>12 DEF s
  <1>6. CASE Otras(b) # <<>>
    <2> DEFINE h == Head(Otras(b))
               t == Tail(Otras(b))
    <2>0. b.otras = Otras(b)  BY <1>1, <1>6, OtrasEs
    <2>1. /\ h \in Ubicacion /\ t \in Seq(Ubicacion) /\ h = Otras(b)[1] /\ 1 \in 1..k
          /\ Len(t) = k - 1 /\ \A j \in 1..(k - 1) : t[j] = Otras(b)[j + 1]
      BY <1>2, <1>6
    <2>2. s = IF c = 0 THEN [b EXCEPT !.c0 = h, !.otras = t]
              ELSE [b EXCEPT !.c1 = h, !.otras = t]
      BY <1>6, <2>0 DEF SinCopia
    <2> HIDE DEF h, t, s
    <2>3. /\ s \in Bloque /\ s.dato = b.dato /\ s.otras = t
          /\ (IF c = 0 THEN s.c0 ELSE s.c1) = h /\ (IF c = 0 THEN s.c1 ELSE s.c0) = o
      BY <1>1, <1>3, <2>1, <2>2 DEF Bloque
    <2>4. Otras(s) = t  BY <2>1, <2>3, SinNulo
    <2>5. \A j \in 1..(k - 1) : j + 1 \in 1..k  BY <1>2
    <2>6. q.num >= 0 /\ h.num >= 0 /\ \A j \in 1..(k - 1) : t[j].num >= 0
      <3>1. \A j \in 1..k : Otras(b)[j].num >= 0  BY <1>1 DEF Bien
      <3> QED  BY <1>1, <1>6, <2>1, <2>5, <3>1 DEF Bien
    <2>7. s \in Buenos
      <3>1. s.c0.num >= 0 /\ s.c1.num >= 0  BY <1>4, <2>3, <2>6
      <3>2. s.c0.num >= -1 /\ s.c1.num >= -1
        <4>1. s.c0.num \in Int /\ s.c1.num \in Int  BY <2>3 DEF Bloque, Ubicacion
        <4> QED  BY <3>1, <4>1
      <3> QED  BY <2>1, <2>3, <2>4, <2>6, <3>1, <3>2 DEF Buenos, Bien
    <2>8. (\E j \in 1..k : TRUE) /\ \A j \in 1..k : j = 1 \/ (j - 1 \in 1..(k - 1) /\ (j - 1) + 1 = j)
      BY <1>2, <2>1
    <2>9. \A u : (\E j \in 1..k : u = Otras(b)[j]) <=> u = h \/ \E j \in 1..(k - 1) : u = t[j]
      <3> TAKE u
      <3>1. ASSUME NEW j \in 1..k, u = Otras(b)[j] PROVE u = h \/ \E i \in 1..(k - 1) : u = t[i]
        <4>1. CASE j = 1  BY <2>1, <3>1, <4>1
        <4>2. CASE j - 1 \in 1..(k - 1) /\ (j - 1) + 1 = j
          <5>1. t[j - 1] = Otras(b)[(j - 1) + 1]  BY <2>1, <4>2
          <5> QED  BY <3>1, <4>2, <5>1
        <4> QED  BY <2>8, <4>1, <4>2
      <3> QED  BY <2>1, <2>5, <3>1
    <2>10. \A u : u \in Lugares(s) <=> /\ u \in Ubicacion /\ u.num >= 0
                                       /\ u = h \/ u = o \/ \E j \in 1..(k - 1) : u = t[j]
      BY <2>1, <2>3, <2>4, LugaresSon
    <2>11. \A u : u \in Lugares(b) <=> /\ u \in Ubicacion /\ u.num >= 0
                                       /\ u = q \/ u = o \/ \E j \in 1..k : u = Otras(b)[j]
      BY <1>1, LugaresSon
    <2>12. ASSUME NEW v, Unico(b, v)
           PROVE  /\ ~ (q = v /\ o = v) /\ ~ (h = v /\ o = v) /\ ~ (q = v /\ h = v)
                  /\ \A j \in 1..(k - 1) : t[j] = v => q # v /\ o # v /\ h # v
                  /\ \A i, j \in 1..(k - 1) : t[i] = v /\ t[j] = v => i = j
      <3>1. /\ ~ (q = v /\ o = v)
            /\ \A j \in 1..k : Otras(b)[j] = v => q # v /\ o # v
            /\ \A i, j \in 1..k : Otras(b)[i] = v /\ Otras(b)[j] = v => i = j
        BY <1>1, <2>12, UnicoSon
      <3>2. \A j \in 1..(k - 1) : j + 1 # 1  BY <1>2
      <3>3. \A j \in 1..(k - 1) : t[j] = v => q # v /\ o # v /\ h # v
        BY <2>1, <2>5, <3>1, <3>2
      <3>4. \A i, j \in 1..(k - 1) : t[i] = v /\ t[j] = v => i = j
        <4> TAKE i, j \in 1..(k - 1)
        <4> HAVE t[i] = v /\ t[j] = v
        <4>1. i + 1 = j + 1  BY <2>1, <2>5, <3>1
        <4> QED  BY <4>1
      <3> QED  BY <2>1, <3>1, <3>3, <3>4
    <2>13. \A v : Unico(b, v) => Unico(s, v)  BY <2>1, <2>3, <2>4, <2>12, UnicoSon
    <2>14. Unico(b, q) => q \notin Lugares(s)  BY <2>10, <2>12
    <2>15. SinUna(b, s, q)  BY <2>9, <2>10, <2>11, <2>13, <2>14 DEF SinUna
    <2> QED  BY <2>3, <2>7, <2>15 DEF s
  <1> QED  BY <1>5, <1>6

\* rm -b of a further copy.
\* Copy 0 without its block stays on the node it was on.
LEMMA SinCopiaNodo ==
  ASSUME NEW b \in Buenos, NEW c \in {0, 1}
  PROVE  LET s == SinCopia(b, c) IN s.c0.num >= 0 \/ s.c0.nodo = b.c0.nodo
  <1>1. b \in Bloque /\ Bien(b) /\ b.c0 \in Ubicacion  BY DEF Buenos, Bloque
  <1>2. Otras(b) \in Seq(Ubicacion)  BY <1>1, OtrasEs
  <1>3. CASE c = 1  BY <1>1, <1>3 DEF SinCopia, Bloque
  <1>4. CASE c = 0 /\ Otras(b) = <<>>
    <2> DEFINE v == [b.c0 EXCEPT !.num = -1]
    <2>1. SinCopia(b, c) = [b EXCEPT !.c0 = v, !.otras = b.otras]  BY <1>4 DEF SinCopia
    <2>2. v.nodo = b.c0.nodo  BY <1>1 DEF Ubicacion
    <2> HIDE DEF v
    <2> QED  BY <1>1, <2>1, <2>2 DEF Bloque
  <1>5. CASE c = 0 /\ Otras(b) # <<>>
    <2>1. b.otras = Otras(b) /\ Len(Otras(b)) >= 1  BY <1>1, <1>2, <1>5, OtrasEs
    <2>2. SinCopia(b, c) = [b EXCEPT !.c0 = Head(b.otras), !.otras = Tail(b.otras)]
      BY <1>5 DEF SinCopia
    <2>3. Head(b.otras) = Otras(b)[1]  BY <1>2, <1>5, <2>1
    <2>4. Otras(b)[1].num >= 0
      <3>1. 1 \in 1..Len(Otras(b))  BY <1>2, <2>1
      <3> QED  BY <1>1, <3>1 DEF Bien
    <2> QED  BY <1>1, <2>2, <2>3, <2>4 DEF Bloque
  <1> QED  BY <1>3, <1>4, <1>5

LEMMA SinOtraEs ==
  ASSUME NEW b \in Buenos, b.otras # Nulo, NEW i \in 1..Len(b.otras)
  PROVE  LET s == [b EXCEPT !.otras = RemoveAt(@, i)]
         IN  /\ s \in Buenos /\ s.dato = b.dato /\ b.otras[i] \in Ubicacion /\ b.otras[i].num >= 0
             /\ SinUna(b, s, b.otras[i])
  <1> DEFINE o == Otras(b)
             k == Len(o)
             t == RemoveAt(o, i)
             s == [b EXCEPT !.otras = t]
             q == o[i]
  <1>1. b \in Bloque /\ Bien(b) /\ b.otras = o  BY DEF Buenos, Otras
  <1>2. o \in Seq(Ubicacion) /\ k \in Nat /\ i \in 1..k  BY <1>1, OtrasEs
  <1> HIDE DEF o
  <1>3. /\ t \in Seq(Ubicacion) /\ Len(t) = k - 1
        /\ \A j \in 1..(k - 1) : t[j] = IF j < i THEN o[j] ELSE o[j + 1]
    BY <1>2, RemoveAtEs
  <1>4. \A j \in 1..k : o[j].num >= 0 /\ o[j] \in Ubicacion  BY <1>1, <1>2 DEF Bien, o
  <1>5. b.c0.num >= 0 /\ b.c1.num >= 0
    <2>1. o # <<>>  BY <1>2
    <2> QED  BY <1>1, <2>1 DEF Bien, o
  <1>6. /\ s \in Bloque /\ s.dato = b.dato /\ s.otras = t /\ s.c0 = b.c0 /\ s.c1 = b.c1
    <2> HIDE DEF t
    <2> QED  BY <1>1, <1>3 DEF Bloque
  <1> HIDE DEF t, s
  <1>7. Otras(s) = t  BY <1>3, <1>6, SinNulo
  <1>8. \A j \in 1..(k - 1) : /\ j \in 1..k /\ j + 1 \in 1..k
                              /\ t[j] = IF j < i THEN o[j] ELSE o[j + 1]
    BY <1>2, <1>3
  <1>9. s \in Buenos
    <2>1. \A j \in 1..(k - 1) : t[j].num >= 0  BY <1>4, <1>8
    <2>2. s.c0.num >= -1 /\ s.c1.num >= -1  BY <1>1, <1>6 DEF Bien
    <2> QED  BY <1>3, <1>5, <1>6, <1>7, <2>1, <2>2 DEF Buenos, Bien
  <1>10. ASSUME NEW j \in 1..k, j # i PROVE \E m \in 1..(k - 1) : o[j] = t[m]
    <2>1. CASE j < i
      <3>1. j \in 1..(k - 1)  BY <1>2, <2>1
      <3> QED  BY <1>8, <2>1, <3>1
    <2>2. CASE j > i
      <3>1. j - 1 \in 1..(k - 1) /\ ~ (j - 1 < i) /\ (j - 1) + 1 = j  BY <1>2, <2>2
      <3>2. t[j - 1] = o[(j - 1) + 1]  BY <1>8, <3>1
      <3> QED  BY <3>1, <3>2
    <2> QED  BY <1>2, <1>10, <2>1, <2>2
  <1>11. \A u : u \in Lugares(s) <=> /\ u \in Ubicacion /\ u.num >= 0
                                     /\ u = b.c0 \/ u = b.c1 \/ \E j \in 1..(k - 1) : u = t[j]
    BY <1>3, <1>6, <1>7, LugaresSon
  <1>12. \A u : u \in Lugares(b) <=> /\ u \in Ubicacion /\ u.num >= 0
                                     /\ u = b.c0 \/ u = b.c1 \/ \E j \in 1..k : u = o[j]
    BY <1>1, LugaresSon DEF o
  <1>13. Lugares(s) \subseteq Lugares(b)  BY <1>8, <1>11, <1>12
  <1>14. Lugares(b) \ {q} \subseteq Lugares(s)
    <2> SUFFICES ASSUME NEW u \in Lugares(b), u # q PROVE u \in Lugares(s)  OBVIOUS
    <2>1. CASE u = b.c0 \/ u = b.c1  BY <1>11, <1>12, <2>1
    <2>2. CASE \E j \in 1..k : u = o[j]  BY <1>10, <1>11, <1>12, <2>2
    <2> QED  BY <1>12, <2>1, <2>2
  <1>15. ASSUME NEW v, Unico(b, v)
         PROVE  Unico(s, v) /\ (v = q => \A j \in 1..(k - 1) : t[j] # q)
    <2>1. /\ ~ (b.c0 = v /\ b.c1 = v)
          /\ \A j \in 1..k : o[j] = v => b.c0 # v /\ b.c1 # v
          /\ \A m, n \in 1..k : o[m] = v /\ o[n] = v => m = n
      BY <1>1, <1>15, UnicoSon DEF o
    <2>2. \A j \in 1..(k - 1) : t[j] = v => b.c0 # v /\ b.c1 # v  BY <1>8, <2>1
    <2>3. \A m, n \in 1..(k - 1) : t[m] = v /\ t[n] = v => m = n
      <3> TAKE m, n \in 1..(k - 1)
      <3> HAVE t[m] = v /\ t[n] = v
      <3>1. (IF m < i THEN m ELSE m + 1) = (IF n < i THEN n ELSE n + 1)  BY <1>8, <2>1
      <3> QED  BY <1>2, <3>1
    <2>4. Unico(s, v)  BY <1>3, <1>6, <1>7, <2>1, <2>2, <2>3, UnicoSon
    <2>5. ASSUME v = q, NEW j \in 1..(k - 1), t[j] = q PROVE FALSE
      <3>1. (IF j < i THEN j ELSE j + 1) = i  BY <1>2, <1>8, <2>1, <2>5
      <3> QED  BY <1>2, <3>1
    <2> QED  BY <2>4, <2>5
  <1>16. Unico(b, q) => q \notin Lugares(s)
    <2>1. Unico(b, q) => b.c0 # q /\ b.c1 # q  BY <1>1, <1>2, UnicoSon DEF o
    <2> QED  BY <1>11, <1>15, <2>1
  <1>17. SinUna(b, s, q)  BY <1>13, <1>14, <1>15, <1>16 DEF SinUna
  <1> QED  BY <1>1, <1>2, <1>4, <1>6, <1>9, <1>17 DEF s, t

\* cpblock.
LEMMA ConCopiaEs ==
  ASSUME NEW b \in Buenos, NEW u \in Ubicacion, u.num >= 0
  PROVE  LET s == ConCopia(b, u)
         IN  /\ s \in Buenos /\ s.dato = b.dato
             /\ Lugares(s) = Lugares(b) \cup {u}
             /\ \A v \in Ubicacion : /\ v.num >= 0 /\ Unico(b, v)
                                     /\ v = u => u \notin Lugares(b)
                                     => Unico(s, v)
             /\ SinRepetir(b) /\ u \notin Lugares(b) => SinRepetir(s)
  <1> DEFINE s == ConCopia(b, u)
             o == Otras(b)
             k == Len(o)
  <1>1. b \in Bloque /\ Bien(b)  BY DEF Buenos
  <1>2. o \in Seq(Ubicacion) /\ k \in Nat  BY <1>1, OtrasEs
  <1>3. /\ b.c0 \in Ubicacion /\ b.c1 \in Ubicacion /\ b.c0.num \in Int /\ b.c1.num \in Int
        /\ u.num \in Nat
    BY <1>1 DEF Bloque, Ubicacion
  <1>4. Len(<<>>) = 0  OBVIOUS
  <1>5. CASE b.c0.num = -1 \/ b.c1.num = -1
    <2> DEFINE r == IF b.c0.num = -1 THEN b.c1 ELSE b.c0
    <2>1. o = <<>> /\ r.num >= 0  BY <1>1, <1>3, <1>5 DEF Bien
    <2>2. s = IF b.c0.num = -1 THEN [b EXCEPT !.c0 = u] ELSE [b EXCEPT !.c1 = u]
      BY <1>5 DEF ConCopia
    <2> HIDE DEF s
    <2>3. /\ s \in Bloque /\ s.dato = b.dato /\ s.otras = b.otras
          /\ (s.c0 = u /\ s.c1 = r) \/ (s.c0 = r /\ s.c1 = u)
      BY <1>1, <2>2 DEF Bloque
    <2>4. Otras(s) = <<>>  BY <2>1, <2>3 DEF Otras
    <2>5. s \in Buenos
      <3>1. s.c0.num \in Int /\ s.c1.num \in Int  BY <2>3 DEF Bloque, Ubicacion
      <3>2. s.c0.num >= 0 /\ s.c1.num >= 0  BY <2>1, <2>3
      <3> QED  BY <1>4, <2>3, <2>4, <3>1, <3>2 DEF Buenos, Bien
    <2>6. \A v : v \in Lugares(b) <=> v \in Ubicacion /\ v.num >= 0 /\ v = r
      <3> TAKE v
      <3>1. v \in Lugares(b) <=> v \in Ubicacion /\ v.num >= 0 /\ (v = b.c0 \/ v = b.c1)
        BY <1>1, <1>4, <2>1, LugaresSon
      <3> QED  BY <1>3, <1>5, <3>1
    <2>7. \A v : v \in Lugares(s) <=> v \in Ubicacion /\ v.num >= 0 /\ (v = r \/ v = u)
      BY <1>4, <2>3, <2>4, LugaresSon
    <2>8. Lugares(s) = Lugares(b) \cup {u}
      <3>1. \A v : v \in Lugares(s) <=> v \in Lugares(b) \cup {u}  BY <2>6, <2>7
      <3> QED  BY <3>1
    <2>9. ASSUME NEW v \in Ubicacion, v.num >= 0, v = u => u \notin Lugares(b) PROVE Unico(s, v)
      <3>1. v = u => v # r  BY <2>6, <2>9
      <3> QED  BY <1>4, <2>3, <2>4, <3>1, UnicoSon
    <2>10. u \notin Lugares(b) => SinRepetir(s)  BY <2>3, <2>9, SinRepetirSon
    <2> QED  BY <2>3, <2>5, <2>8, <2>9, <2>10 DEF s
  <1>6. CASE b.c0.num # -1 /\ b.c1.num # -1
    <2> DEFINE t == Append(o, u)
    <2>1. b.c0.num >= 0 /\ b.c1.num >= 0  BY <1>1, <1>3, <1>6 DEF Bien
    <2>2. s = [b EXCEPT !.otras = t]  BY <1>6 DEF ConCopia
    <2>3. /\ t \in Seq(Ubicacion) /\ Len(t) = k + 1 /\ t[k + 1] = u
          /\ \A j \in 1..k : t[j] = o[j]
      BY <1>2
    <2> HIDE DEF s, t, o
    <2>4. s \in Bloque /\ s.dato = b.dato /\ s.otras = t /\ s.c0 = b.c0 /\ s.c1 = b.c1
      BY <1>1, <2>2, <2>3 DEF Bloque
    <2>5. Otras(s) = t  BY <2>3, <2>4, SinNulo
    <2>6. \A j \in 1..(k + 1) : j \in 1..k \/ j = k + 1  BY <1>2
    <2>7. \A j \in 1..k : j \in 1..(k + 1) /\ j # k + 1 /\ o[j].num >= 0 /\ o[j] \in Ubicacion
      <3>1. \A j \in 1..k : o[j].num >= 0  BY <1>1 DEF Bien, o
      <3> QED  BY <1>2, <3>1
    <2>8. k + 1 \in 1..(k + 1)  BY <1>2
    <2>9. s \in Buenos
      <3>1. \A j \in 1..(k + 1) : t[j].num >= 0  BY <2>3, <2>6, <2>7
      <3>2. s.c0.num >= -1 /\ s.c1.num >= -1  BY <1>1, <2>4 DEF Bien
      <3> QED  BY <2>1, <2>3, <2>4, <2>5, <3>1, <3>2 DEF Buenos, Bien
    <2>10. Lugares(s) = Lugares(b) \cup {u}
      <3> SUFFICES ASSUME NEW v PROVE v \in Lugares(s) <=> v \in Lugares(b) \/ v = u
        OBVIOUS
      <3>1. v \in Lugares(s) <=> /\ v \in Ubicacion /\ v.num >= 0
                                 /\ v = b.c0 \/ v = b.c1 \/ \E j \in 1..(k + 1) : v = t[j]
        BY <2>3, <2>4, <2>5, LugaresSon
      <3>2. v \in Lugares(b) <=> /\ v \in Ubicacion /\ v.num >= 0
                                 /\ v = b.c0 \/ v = b.c1 \/ \E j \in 1..k : v = o[j]
        BY <1>1, LugaresSon DEF o
      <3>3. (\E j \in 1..(k + 1) : v = t[j]) <=> v = u \/ \E j \in 1..k : v = o[j]
        BY <2>3, <2>6, <2>7, <2>8
      <3> QED  BY <3>1, <3>2, <3>3
    <2>11. ASSUME NEW v \in Ubicacion, v.num >= 0, Unico(b, v), v = u => u \notin Lugares(b)
           PROVE  Unico(s, v)
      <3>1. /\ ~ (b.c0 = v /\ b.c1 = v)
            /\ \A j \in 1..k : o[j] = v => b.c0 # v /\ b.c1 # v
            /\ \A m, n \in 1..k : o[m] = v /\ o[n] = v => m = n
        BY <1>1, <2>11, UnicoSon DEF o
      <3>2. v = u => v # b.c0 /\ v # b.c1 /\ \A j \in 1..k : o[j] # v
        <4>1. \A j \in 1..k : o[j] \in Lugares(b)  BY <1>1, <2>7, LugaresSon DEF o
        <4>2. b.c0 \in Lugares(b) /\ b.c1 \in Lugares(b)  BY <1>1, <1>3, <2>1, LugaresSon
        <4> QED  BY <2>11, <4>1, <4>2
      <3>3. \A j \in 1..(k + 1) : t[j] = v => b.c0 # v /\ b.c1 # v  BY <2>3, <2>6, <3>1, <3>2
      <3>4. \A m, n \in 1..(k + 1) : t[m] = v /\ t[n] = v => m = n
        BY <2>3, <2>6, <3>1, <3>2
      <3> QED  BY <2>3, <2>4, <2>5, <3>1, <3>3, <3>4, UnicoSon
    <2>12. SinRepetir(b) /\ u \notin Lugares(b) => SinRepetir(s)
      BY <1>1, <2>4, <2>11, SinRepetirSon
    <2> QED  BY <2>4, <2>9, <2>10, <2>11, <2>12 DEF s
  <1> QED  BY <1>5, <1>6

\* A block that has just been stored.
LEMMA NuevoEs ==
  ASSUME NEW x \in Rutas \X Nat, NEW u \in Ubicacion, NEW v \in Ubicacion, u.num >= 0, v.num >= 0
  PROVE  LET b == [dato |-> x, c0 |-> u, c1 |-> v, otras |-> Nulo]
         IN  /\ b \in Buenos /\ Lugares(b) = {u, v} /\ (u # v => SinRepetir(b))
  <1> DEFINE b == [dato |-> x, c0 |-> u, c1 |-> v, otras |-> Nulo]
  <1>1. b \in Bloque /\ b.c0 = u /\ b.c1 = v /\ b.otras = Nulo  BY DEF Bloque
  <1> HIDE DEF b
  <1>2. Otras(b) = <<>> /\ Len(<<>>) = 0  BY <1>1 DEF Otras
  <1>3. b \in Buenos
    <2>1. u.num \in Int /\ v.num \in Int  BY DEF Ubicacion
    <2> QED  BY <1>1, <1>2, <2>1 DEF Buenos, Bien
  <1>4. \A w : w \in Lugares(b) <=> w \in {u, v}  BY <1>1, <1>2, LugaresSon
  <1>5. u # v => SinRepetir(b)
    <2>1. u # v => \A w : Unico(b, w)  BY <1>1, <1>2, UnicoSon
    <2> QED  BY <1>1, <2>1, SinRepetirSon
  <1> QED  BY <1>3, <1>4, <1>5 DEF b

-----------------------------------------------------------------------------
(* The DataNodes                                                           *)

Discos ==
  {d \in [Nodos -> UNION {[0..(m - 1) -> Dato] : m \in Nat}] :
     \A n \in Nodos : DOMAIN d[n] = 0..(Capacidad[n] - 1)}

EstadosDN == [vivos : SUBSET Nodos, disco : Discos, prueba : [Nodos -> 0..2],
              sobra : [Nodos -> Seq({"ok", "resto"})]]

LEMMA DiscosSon ==
  ASSUME NEW d
  PROVE  d \in Discos <=> /\ d = [n \in Nodos |-> d[n]]
                          /\ \A n \in Nodos : d[n] \in [0..(Capacidad[n] - 1) -> Dato]
  <1>1. \A n \in Nodos : Capacidad[n] \in Nat  BY SupuestoBloques
  <1>2. ASSUME d \in Discos, NEW n \in Nodos PROVE d[n] \in [0..(Capacidad[n] - 1) -> Dato]
    <2>1. d[n] \in UNION {[0..(m - 1) -> Dato] : m \in Nat} /\ DOMAIN d[n] = 0..(Capacidad[n] - 1)
      BY <1>2 DEF Discos
    <2>2. PICK m \in Nat : d[n] \in [0..(m - 1) -> Dato]  BY <2>1
    <2> QED  BY <2>1, <2>2
  <1>3. ASSUME d = [n \in Nodos |-> d[n]], \A n \in Nodos : d[n] \in [0..(Capacidad[n] - 1) -> Dato]
        PROVE  d \in Discos
    <2>1. \A n \in Nodos : d[n] \in UNION {[0..(m - 1) -> Dato] : m \in Nat}  BY <1>1, <1>3
    <2>2. \A n \in Nodos : DOMAIN d[n] = 0..(Capacidad[n] - 1)  BY <1>3
    <2> HIDE DEF Dato
    <2>3. d \in [Nodos -> UNION {[0..(m - 1) -> Dato] : m \in Nat}]  BY <1>3, <2>1
    <2> QED  BY <2>2, <2>3 DEF Discos
  <1>4. d \in Discos => d = [n \in Nodos |-> d[n]]  BY DEF Discos
  <1> QED  BY <1>2, <1>3, <1>4

\* x is written on one place of the disks.
Escribe(d, n, k, x) == [d EXCEPT ![n][k] = x]

LEMMA EscribeEs ==
  ASSUME NEW d \in Discos, NEW n \in Nodos, NEW k, NEW x \in Dato
  PROVE  /\ Escribe(d, n, k, x) \in Discos
         /\ \A m \in Nodos : \A j \in 0..(Capacidad[m] - 1) :
              Escribe(d, n, k, x)[m][j] = IF m = n /\ j = k THEN x ELSE d[m][j]
  <1> DEFINE f == [d[n] EXCEPT ![k] = x]
             e == [d EXCEPT ![n] = f]
  <1>1. d = [m \in Nodos |-> d[m]] /\ \A m \in Nodos : d[m] \in [0..(Capacidad[m] - 1) -> Dato]
    BY DiscosSon
  <1>2. /\ f \in [0..(Capacidad[n] - 1) -> Dato]
        /\ \A j \in 0..(Capacidad[n] - 1) : f[j] = IF j = k THEN x ELSE d[n][j]
    BY <1>1
  <1>3. e = [m \in Nodos |-> e[m]] /\ \A m \in Nodos : e[m] = IF m = n THEN f ELSE d[m]
    <2> HIDE DEF f
    <2> QED  BY <1>1
  <1>4. e = Escribe(d, n, k, x)  BY DEF Escribe
  <1> HIDE DEF e, f
  <1>5. e \in Discos  BY <1>1, <1>2, <1>3, DiscosSon
  <1>6. \A m \in Nodos : \A j \in 0..(Capacidad[m] - 1) :
          e[m][j] = IF m = n /\ j = k THEN x ELSE d[m][j]
    BY <1>2, <1>3
  <1> QED  BY <1>4, <1>5, <1>6

LEMMA MandaEs ==
  ASSUME NEW s \in EstadosDN, NEW n \in Nodos, NEW k \in Nat, NEW x \in Dato,
         NEW e \in Manda(s, n, k, x)
  PROVE  /\ e.s \in EstadosDN /\ e.ok \in BOOLEAN /\ e.s.vivos \subseteq s.vivos
         /\ n \in s.vivos /\ k < Capacidad[n] =>
              /\ e.ok /\ e.s.vivos = s.vivos
              /\ e.s.sobra = [s.sobra EXCEPT ![n] = Append(@, "ok")]
              /\ s.prueba[n] = 0 => /\ e.s.prueba = s.prueba
                                    /\ e.s.disco = [s.disco EXCEPT ![n][k] = x]
  <1>0. /\ s.vivos \in SUBSET Nodos /\ s.disco \in Discos /\ s.prueba \in [Nodos -> 0..2]
        /\ s.sobra \in [Nodos -> Seq({"ok", "resto"})]
        /\ s = [vivos |-> s.vivos, disco |-> s.disco, prueba |-> s.prueba, sobra |-> s.sobra]
    BY DEF EstadosDN
  <1>1. CASE n \notin s.vivos  BY <1>1 DEF Manda
  <1>2. CASE n \in s.vivos /\ s.prueba[n] = 0 /\ k >= Capacidad[n]
    <2>1. e.s = [s EXCEPT !.vivos = @ \ {n}] /\ e.ok  BY <1>2 DEF Manda, Muere
    <2>2. e.s \in EstadosDN /\ e.s.vivos \subseteq s.vivos  BY <1>0, <2>1 DEF EstadosDN
    <2>3. Capacidad[n] \in Nat  BY SupuestoBloques
    <2> QED  BY <1>2, <2>1, <2>2, <2>3
  <1>3. CASE n \in s.vivos /\ ~ (s.prueba[n] = 0 /\ k >= Capacidad[n])
    <2>1. e.s = setBloque(s, n, k, x) /\ e.ok  BY <1>3 DEF Manda
    <2> DEFINE d == [s.disco EXCEPT ![n][k] = x]
               p == [s.prueba EXCEPT ![n] = @ - 1]
               c == [s.sobra EXCEPT ![n] = Append(@, "ok")]
    <2>2. d \in Discos
      <3>1. Escribe(s.disco, n, k, x) \in Discos  BY <1>0, EscribeEs
      <3> QED  BY <3>1 DEF Escribe
    <2>3. s.prueba[n] # 0 => p \in [Nodos -> 0..2]  BY <1>0
    <2>4. c \in [Nodos -> Seq({"ok", "resto"})]  BY <1>0
    <2>5. e.s = IF s.prueba[n] = 0
                THEN [vivos |-> s.vivos, disco |-> d, prueba |-> s.prueba, sobra |-> c]
                ELSE [vivos |-> s.vivos, disco |-> s.disco, prueba |-> p, sobra |-> c]
      BY <1>0, <2>1 DEF setBloque
    <2> HIDE DEF d, p, c
    <2>6. e.s \in EstadosDN  BY <1>0, <2>2, <2>3, <2>4, <2>5 DEF EstadosDN
    <2>7. e.s.vivos = s.vivos /\ e.s.sobra = c /\ (s.prueba[n] = 0 => e.s.prueba = s.prueba /\ e.s.disco = d)
      BY <2>5
    <2> QED  BY <2>1, <2>6, <2>7 DEF c, d
  <1> QED  BY <1>1, <1>2, <1>3

LEMMA AcuseEs ==
  ASSUME NEW s \in EstadosDN, NEW n \in Nodos, NEW e \in Acuse(s, n)
  PROVE  /\ e.s \in EstadosDN /\ e.ok \in BOOLEAN
         /\ e.s.vivos = s.vivos /\ e.s.disco = s.disco /\ e.s.prueba = s.prueba
         /\ s.sobra[n] = <<"ok">> => e.ok /\ e.s.sobra = [s.sobra EXCEPT ![n] = <<>>]
         /\ s.sobra[n] = <<>> => ~ e.ok
         /\ \A m \in Nodos : m # n => e.s.sobra[m] = s.sobra[m]
  <1>0. /\ s.sobra \in [Nodos -> Seq({"ok", "resto"})]
        /\ s = [vivos |-> s.vivos, disco |-> s.disco, prueba |-> s.prueba, sobra |-> s.sobra]
    BY DEF EstadosDN
  <1>1. CASE s.sobra[n] = <<>>
    <2>1. s.sobra[n] # <<"ok">>  BY <1>1
    <2>2. e = [s |-> s, ok |-> FALSE]  BY <1>1 DEF Acuse
    <2>3. e.s = s /\ e.ok = FALSE  BY <2>2
    <2> QED  BY <1>1, <2>1, <2>3
  <1>2. CASE s.sobra[n] # <<>>
    <2> DEFINE c == [s.sobra EXCEPT ![n] = Tail(@)]
    <2>0. \E b \in IF Head(s.sobra[n]) = "ok" THEN {TRUE} ELSE BOOLEAN :
             e = [s |-> [s EXCEPT !.sobra[n] = Tail(@)], ok |-> b]
      BY <1>2 DEF Acuse
    <2>a. PICK b \in BOOLEAN : /\ Head(s.sobra[n]) = "ok" => b
                               /\ e = [s |-> [s EXCEPT !.sobra[n] = Tail(@)], ok |-> b]
      BY <2>0
    <2>b. [s EXCEPT !.sobra[n] = Tail(@)] = [s EXCEPT !.sobra = c]  OBVIOUS
    <2>1. e.s = [s EXCEPT !.sobra = c] /\ e.ok \in BOOLEAN /\ (Head(s.sobra[n]) = "ok" => e.ok)
      <3>1. e.s = [s EXCEPT !.sobra[n] = Tail(@)] /\ e.ok = b  BY <2>a
      <3> QED  BY <2>a, <2>b, <3>1
    <2>2. c \in [Nodos -> Seq({"ok", "resto"})]
      <3>1. s.sobra[n] \in Seq({"ok", "resto"})  BY <1>0
      <3>2. Tail(s.sobra[n]) \in Seq({"ok", "resto"})  BY <1>2, <3>1
      <3> QED  BY <1>0, <3>2
    <2>3. s.sobra[n] = <<"ok">> => Head(s.sobra[n]) = "ok" /\ Tail(s.sobra[n]) = <<>>  OBVIOUS
    <2>4. s.sobra[n] = <<"ok">> => c = [s.sobra EXCEPT ![n] = <<>>]  BY <2>3
    <2>6. \A m \in Nodos : m # n => c[m] = s.sobra[m]  BY <1>0
    <2> HIDE DEF c
    <2>5. /\ e.s \in EstadosDN /\ e.s.vivos = s.vivos /\ e.s.disco = s.disco
          /\ e.s.prueba = s.prueba /\ e.s.sobra = c
      BY <1>0, <2>1, <2>2 DEF EstadosDN
    <2> QED  BY <1>2, <2>1, <2>3, <2>4, <2>5, <2>6
  <1> QED  BY <1>1, <1>2

LEMMA MandaYEsperaEs ==
  ASSUME NEW s \in EstadosDN, NEW n \in Nodos, NEW k \in Nat, NEW x \in Dato,
         NEW e \in MandaYEspera(s, n, k, x)
  PROVE  /\ e.s \in EstadosDN /\ e.ok \in BOOLEAN /\ e.s.vivos \subseteq s.vivos
         /\ n \in s.vivos /\ k < Capacidad[n] => e.s.vivos = s.vivos
         /\ n \in s.vivos /\ k < Capacidad[n] /\ s.prueba[n] = 0 =>
              e.s.prueba = s.prueba /\ e.s.disco = [s.disco EXCEPT ![n][k] = x]
         /\ n \in s.vivos /\ k < Capacidad[n] /\ s.sobra[n] = <<>> => e.ok /\ e.s.sobra = s.sobra
  <1>1. PICK m \in Manda(s, n, k, x) : e \in (IF m.ok THEN Acuse(m.s, n) ELSE {m})
    BY DEF MandaYEspera
  <1>2. /\ m.s \in EstadosDN /\ m.ok \in BOOLEAN /\ m.s.vivos \subseteq s.vivos
        /\ n \in s.vivos /\ k < Capacidad[n] =>
             /\ m.ok /\ m.s.vivos = s.vivos
             /\ m.s.sobra = [s.sobra EXCEPT ![n] = Append(@, "ok")]
             /\ s.prueba[n] = 0 => /\ m.s.prueba = s.prueba
                                   /\ m.s.disco = [s.disco EXCEPT ![n][k] = x]
    BY MandaEs
  <1>3. CASE ~ m.ok  BY <1>1, <1>2, <1>3
  <1>4. CASE m.ok
    <2>1. /\ e.s \in EstadosDN /\ e.ok \in BOOLEAN
          /\ e.s.vivos = m.s.vivos /\ e.s.disco = m.s.disco /\ e.s.prueba = m.s.prueba
          /\ m.s.sobra[n] = <<"ok">> => e.ok /\ e.s.sobra = [m.s.sobra EXCEPT ![n] = <<>>]
      BY <1>1, <1>2, <1>4, AcuseEs
    <2>2. ASSUME n \in s.vivos, k < Capacidad[n], s.sobra[n] = <<>> PROVE e.ok /\ e.s.sobra = s.sobra
      <3>1. s.sobra \in [Nodos -> Seq({"ok", "resto"})]  BY DEF EstadosDN
      <3>2. Append(<<>>, "ok") = <<"ok">>  OBVIOUS
      <3>3. m.s.sobra = [s.sobra EXCEPT ![n] = <<"ok">>]  BY <1>2, <2>2, <3>2
      <3>4. m.s.sobra[n] = <<"ok">>  BY <3>1, <3>3
      <3>5. e.ok /\ e.s.sobra = [m.s.sobra EXCEPT ![n] = <<>>]  BY <2>1, <3>4
      <3>6. [m.s.sobra EXCEPT ![n] = <<>>] = s.sobra  BY <2>2, <3>1, <3>3
      <3> QED  BY <3>5, <3>6
    <2> QED  BY <1>2, <2>1, <2>2
  <1> QED  BY <1>2, <1>3, <1>4

LEMMA LeeEs ==
  ASSUME NEW s \in EstadosDN, NEW n \in Nodos, NEW k \in Int, NEW e \in Lee(s, n, k)
  PROVE  /\ e.s \in EstadosDN /\ e.ok \in BOOLEAN /\ e.dato \in Dato
         /\ e.s.vivos \subseteq s.vivos /\ e.s.disco = s.disco /\ e.s.prueba = s.prueba
         /\ n \in s.vivos /\ k < Capacidad[n] => e.ok /\ e.s.vivos = s.vivos
  <1>0. /\ s.vivos \in SUBSET Nodos /\ s.disco \in Discos /\ s.prueba \in [Nodos -> 0..2]
        /\ s.sobra \in [Nodos -> Seq({"ok", "resto"})]
        /\ s = [vivos |-> s.vivos, disco |-> s.disco, prueba |-> s.prueba, sobra |-> s.sobra]
    BY DEF EstadosDN
  <1> DEFINE vive == n \in s.vivos /\ k < Capacidad[n]
             cola == s.sobra[n]
             resto == [i \in DOMAIN cola |-> "resto"]
             c == [s.sobra EXCEPT ![n] = resto]
             v == [s.sobra EXCEPT ![n] = <<>>]
  <1>1. Basura \in Dato  BY DEF Dato
  <1>2. CASE ~ vive /\ cola = <<>>
    <2>1. e = [s |-> [s EXCEPT !.vivos = @ \ {n}], ok |-> FALSE, dato |-> Basura]
      BY <1>2 DEF Lee, Muere
    <2> QED  BY <1>0, <1>1, <1>2, <2>1 DEF EstadosDN
  <1>3. CASE ~ vive /\ cola # <<>>
    <2>1. e = [s |-> [[s EXCEPT !.vivos = @ \ {n}] EXCEPT !.sobra = v], ok |-> TRUE, dato |-> Basura]
      BY <1>3 DEF Lee, Muere
    <2>2. v \in [Nodos -> Seq({"ok", "resto"})]  BY <1>0
    <2> HIDE DEF v
    <2> QED  BY <1>0, <1>1, <1>3, <2>1, <2>2 DEF EstadosDN
  <1>4. CASE vive
    <2>1. e = [s |-> [s EXCEPT !.sobra = c], ok |-> TRUE,
               dato |-> IF cola # <<>> \/ k < 0 THEN Basura ELSE s.disco[n][k]]
      BY <1>4 DEF Lee
    <2>2. c \in [Nodos -> Seq({"ok", "resto"})]
      <3>1. cola \in Seq({"ok", "resto"})  BY <1>0
      <3> HIDE DEF cola
      <3>2. Len(cola) \in Nat /\ DOMAIN cola = 1..Len(cola)  BY <3>1
      <3>3. resto \in Seq({"ok", "resto"})  BY <3>2
      <3> HIDE DEF resto
      <3> QED  BY <1>0, <3>3
    <2>3. k >= 0 => s.disco[n][k] \in Dato
      <3>1. s.disco[n] \in [0..(Capacidad[n] - 1) -> Dato]  BY <1>0, DiscosSon
      <3>2. k >= 0 => k \in 0..(Capacidad[n] - 1)
        <4>1. Capacidad[n] \in Nat  BY SupuestoBloques
        <4> QED  BY <1>4, <4>1
      <3> QED  BY <3>1, <3>2
    <2> HIDE DEF c, cola
    <2>4. e.dato \in Dato  BY <1>1, <2>1, <2>3
    <2> QED  BY <1>0, <2>1, <2>2, <2>4 DEF EstadosDN
  <1> QED  BY <1>2, <1>3, <1>4

-----------------------------------------------------------------------------
(* Freeing blocks                                                          *)

LEMMA UsosFinitos ==
  ASSUME NEW B \in Seq(Bloque), NEW n
  PROVE  IsFiniteSet(Usos(B, n)) /\ Cardinality(Usos(B, n)) \in Nat
  <1> DEFINE F == {{i} \X DOMAIN Copias(B[i]) : i \in DOMAIN B}
  <1>1. Len(B) \in Nat /\ DOMAIN B = 1..Len(B) /\ \A i \in DOMAIN B : B[i] \in Bloque  OBVIOUS
  <1>2. IsFiniteSet(DOMAIN B)  BY <1>1, FS_Interval
  <1>3. IsFiniteSet(F)
    <2> DEFINE f == [i \in DOMAIN B |-> {i} \X DOMAIN Copias(B[i])]
    <2>1. f \in [DOMAIN B -> F] /\ \A T \in F : \E i \in DOMAIN B : f[i] = T  OBVIOUS
    <2> HIDE DEF f, F
    <2>2. f \in Surjection(DOMAIN B, F)  BY <2>1 DEF Surjection
    <2> QED  BY <1>2, <2>2, FS_Surjection
  <1>4. \A T \in F : IsFiniteSet(T)
    <2> SUFFICES ASSUME NEW i \in DOMAIN B PROVE IsFiniteSet({i} \X DOMAIN Copias(B[i]))  OBVIOUS
    <2>1. Len(Otras(B[i])) \in Nat /\ DOMAIN Copias(B[i]) = 1..(2 + Len(Otras(B[i])))
      BY <1>1, CopiasEs
    <2>2. IsFiniteSet(DOMAIN Copias(B[i]))  BY <2>1, FS_Interval
    <2> QED  BY <2>2, FS_Singleton, FS_Product
  <1>5. IsFiniteSet(UNION F)
    <2> HIDE DEF F
    <2> QED  BY <1>3, <1>4, FS_UNION
  <1>6. Usos(B, n) \subseteq UNION F  BY DEF Usos
  <1> QED  BY <1>5, <1>6, FS_Subset, FS_CardinalityType

\* A bitmap and a counter for each node.
BitsBien(M, L) ==
  /\ M \in [Nodos -> SUBSET Nat] /\ L \in [Nodos -> Int]
  /\ \A n \in Nodos : \A k \in M[n] : k < Capacidad[n] + MaxDeriva

LEMMA BitsFinitos ==
  ASSUME NEW M, NEW L, BitsBien(M, L), NEW n \in Nodos
  PROVE  IsFiniteSet(M[n]) /\ M[n] \in SUBSET Nat /\ M[n] \subseteq 0..(Capacidad[n] + MaxDeriva - 1)
  <1>1. Capacidad[n] \in Nat /\ MaxDeriva \in Nat  BY SupuestoBloques
  <1>2. M[n] \in SUBSET Nat /\ \A k \in M[n] : k < Capacidad[n] + MaxDeriva  BY DEF BitsBien
  <1>3. M[n] \subseteq 0..(Capacidad[n] + MaxDeriva - 1)  BY <1>1, <1>2
  <1>4. IsFiniteSet(0..(Capacidad[n] + MaxDeriva - 1))  BY <1>1, FS_Interval
  <1> QED  BY <1>2, <1>3, <1>4, FS_Subset

LEMMA LiberarEs ==
  ASSUME NEW B \in Seq(Bloque), NEW M, NEW L, BitsBien(M, L), Liberar(B, M, L)
  PROVE  BitsBien(bitmap', libres')
  <1>1. \A n \in Nodos : Cardinality(Usos(B, n)) \in Int  BY UsosFinitos
  <1>2. /\ bitmap' = [n \in Nodos |-> M[n] \ Numeros(B, n)]
        /\ libres' = [n \in Nodos |-> L[n] + Cardinality(Usos(B, n))]
    BY DEF Liberar
  <1>3. bitmap' \in [Nodos -> SUBSET Nat] /\ \A n \in Nodos : bitmap'[n] \subseteq M[n]
    BY <1>2 DEF BitsBien
  <1>4. libres' \in [Nodos -> Int]  BY <1>1, <1>2 DEF BitsBien
  <1> QED  BY <1>3, <1>4 DEF BitsBien

\* Which blocks each node frees without the mutex: at least nothing, and at most B and one
\* that has just been stored.
LEMMA CarrerasSon ==
  ASSUME NEW B \in Seq(Bloque), op # Nulo => op.hechos \in Seq(Bloque), LiberarSinMutex(B)
  PROVE  \E bits, cuentas \in [Nodos -> Seq(Bloque)] :
           /\ bitmap' = [n \in Nodos |-> bitmap[n] \ Numeros(bits[n], n)]
           /\ libres' = [n \in Nodos |-> libres[n] + Cardinality(Usos(cuentas[n], n))]
           /\ op = Nulo => \A n \in Nodos : bits[n] = B /\ cuentas[n] = B
  <1> DEFINE ultimo == IF op = Nulo \/ op.hechos = <<>> THEN <<>> ELSE <<Last(op.hechos)>>
             quedan(n) == IF op = Nulo \/ Usos(B, n) = {} THEN {B} ELSE {B, <<>>, B \o ultimo}
             carreras == {c \in [Nodos -> {B, <<>>, B \o ultimo}] : \A n \in Nodos : c[n] \in quedan(n)}
  <1>1. PICK bits \in carreras : \E cuentas \in carreras :
          /\ bitmap' = [n \in Nodos |-> bitmap[n] \ Numeros(bits[n], n)]
          /\ libres' = [n \in Nodos |-> libres[n] + Cardinality(Usos(cuentas[n], n))]
    BY DEF LiberarSinMutex
  <1>2. PICK cuentas \in carreras :
          /\ bitmap' = [n \in Nodos |-> bitmap[n] \ Numeros(bits[n], n)]
          /\ libres' = [n \in Nodos |-> libres[n] + Cardinality(Usos(cuentas[n], n))]
    BY <1>1
  <1>3. ultimo \in Seq(Bloque)
    <2>1. CASE op = Nulo \/ op.hechos = <<>>  BY <2>1
    <2>2. CASE op # Nulo /\ op.hechos # <<>>
      <3> DEFINE h == op.hechos
      <3>1. h \in Seq(Bloque) /\ h # <<>>  BY <2>2
      <3> HIDE DEF h
      <3>2. Last(h) \in Bloque  BY <3>1 DEF Last
      <3>3. ultimo = <<Last(h)>>  BY <2>2 DEF h
      <3> QED  BY <3>2, <3>3
    <2> QED  BY <2>1, <2>2
  <1> HIDE DEF ultimo
  <1>4. B \o ultimo \in Seq(Bloque) /\ <<>> \in Seq(Bloque)  BY <1>3, ConcatProperties
  <1>5. bits \in [Nodos -> Seq(Bloque)] /\ cuentas \in [Nodos -> Seq(Bloque)]  BY <1>4
  <1>6. op = Nulo => \A n \in Nodos : bits[n] = B /\ cuentas[n] = B  OBVIOUS
  <1> QED  BY <1>2, <1>5, <1>6

LEMMA LiberarSinMutexEs ==
  ASSUME NEW B \in Seq(Bloque), op # Nulo => op.hechos \in Seq(Bloque), LiberarSinMutex(B),
         BitsBien(bitmap, libres)
  PROVE  BitsBien(bitmap', libres')
  <1>0. PICK bits \in [Nodos -> Seq(Bloque)] : \E cuentas \in [Nodos -> Seq(Bloque)] :
           /\ bitmap' = [n \in Nodos |-> bitmap[n] \ Numeros(bits[n], n)]
           /\ libres' = [n \in Nodos |-> libres[n] + Cardinality(Usos(cuentas[n], n))]
           /\ op = Nulo => \A n \in Nodos : bits[n] = B /\ cuentas[n] = B
    BY CarrerasSon
  <1>1. PICK cuentas \in [Nodos -> Seq(Bloque)] :
           /\ bitmap' = [n \in Nodos |-> bitmap[n] \ Numeros(bits[n], n)]
           /\ libres' = [n \in Nodos |-> libres[n] + Cardinality(Usos(cuentas[n], n))]
    BY <1>0
  <1>2. \A n \in Nodos : Cardinality(Usos(cuentas[n], n)) \in Int
    <2> TAKE n \in Nodos
    <2>1. cuentas[n] \in Seq(Bloque)  OBVIOUS
    <2> QED  BY <2>1, UsosFinitos
  <1>3. bitmap' \in [Nodos -> SUBSET Nat] /\ \A n \in Nodos : bitmap'[n] \subseteq bitmap[n]
    BY <1>1 DEF BitsBien
  <1>4. libres' \in [Nodos -> Int]  BY <1>1, <1>2 DEF BitsBien
  <1> QED  BY <1>3, <1>4 DEF BitsBien

-----------------------------------------------------------------------------
(* The inductive invariant, whoever stores and whatever dies               *)

\* As many blocks as a text can make.
Largos == UNION {{Trozos(t), Pedidos(t)} : t \in Textos}

NodosBien ==
  /\ nombres \in Seq(Nodos) /\ IsInjective(nombres) /\ socket \subseteq Range(nombres)
  /\ puntero \in 1..(IF nombres = <<>> THEN 1 ELSE Len(nombres))

\* The blocks of a file, in their order.
BloquesDe(r, s) == s \in Seq(Buenos) /\ \A i \in 1..Len(s) : s[i].dato = <<r, i>>

ArchivosBien ==
  /\ DOMAIN archivos \subseteq Rutas
  /\ \A r \in DOMAIN archivos : BloquesDe(r, archivos[r]) /\ Len(archivos[r]) \in Largos

OpBien ==
  op # Nulo => /\ op \in Operacion /\ op.ruta \notin DOMAIN archivos
               /\ BloquesDe(op.ruta, op.hechos) /\ Len(op.hechos) + op.faltan \in Largos

Invariante ==
  /\ fs \in {"vivo", "caido"} /\ muertes \in 0..Muertes
  /\ NodosBien /\ BitsBien(bitmap, libres) /\ ArchivosBien /\ OpBien
  /\ EstadoDN \in EstadosDN

LEMMA BuenosSon == Buenos \subseteq Bloque /\ Seq(Buenos) \subseteq Seq(Bloque)
  BY DEF Buenos

LEMMA BloqueDe ==
  ASSUME NEW r, NEW s, BloquesDe(r, s), NEW i \in DOMAIN s
  PROVE  s[i] \in Buenos /\ s[i] \in Bloque /\ s[i].dato = <<r, i>> /\ i \in 1..Len(s)
  BY BuenosSon DEF BloquesDe

LEMMA EstadoSon ==
  EstadoDN \in EstadosDN <=>
    /\ vivos \in SUBSET Nodos /\ disco \in Discos /\ prueba \in [Nodos -> 0..2]
    /\ sobra \in [Nodos -> Seq({"ok", "resto"})]
  BY DEF EstadoDN, EstadosDN

LEMMA EstadoSonDespues ==
  EstadoDN' \in EstadosDN <=>
    /\ vivos' \in SUBSET Nodos /\ disco' \in Discos /\ prueba' \in [Nodos -> 0..2]
    /\ sobra' \in [Nodos -> Seq({"ok", "resto"})]
  BY DEF EstadoDN, EstadosDN

LEMMA NuevoDNEs ==
  ASSUME NEW s \in EstadosDN, NuevoDN(s)
  PROVE  EstadoDN' \in EstadosDN
  BY EstadoSonDespues DEF NuevoDN, EstadosDN

\* Nothing of what a part is about changes.
LEMMA Igual ==
  /\ NodosBien /\ UNCHANGED <<nombres, socket, puntero>> => NodosBien'
  /\ BitsBien(bitmap, libres) /\ UNCHANGED <<bitmap, libres>> => BitsBien(bitmap', libres')
  /\ ArchivosBien /\ UNCHANGED archivos => ArchivosBien'
  /\ OpBien /\ UNCHANGED op /\ DOMAIN archivos' \subseteq DOMAIN archivos => OpBien'
  /\ EstadoDN \in EstadosDN /\ UNCHANGED <<vivos, disco, prueba, sobra>> => EstadoDN' \in EstadosDN
  <1>1. NodosBien /\ UNCHANGED <<nombres, socket, puntero>> => NodosBien'  BY DEF NodosBien
  <1>2. ArchivosBien /\ UNCHANGED archivos => ArchivosBien'  BY DEF ArchivosBien
  <1>3. OpBien /\ UNCHANGED op /\ DOMAIN archivos' \subseteq DOMAIN archivos => OpBien'
    BY DEF OpBien
  <1>4. EstadoDN \in EstadosDN /\ UNCHANGED <<vivos, disco, prueba, sobra>> => EstadoDN' \in EstadosDN
    BY EstadoSon, EstadoSonDespues
  <1> QED  BY <1>1, <1>2, <1>3, <1>4

LEMMA BitsVacios == BitsBien([n \in Nodos |-> {}], [n \in Nodos |-> 0])
  BY DEF BitsBien

LEMMA SinNodos ==
  /\ <<>> \in Seq(Nodos) /\ IsInjective(<<>>) /\ {} \subseteq Range(<<>>)
  /\ 1 \in 1..(IF <<>> = <<>> THEN 1 ELSE Len(<<>>)) /\ DOMAIN <<>> = {}
  <1>1. DOMAIN <<>> = {} /\ <<>> \in Seq(Nodos)  OBVIOUS
  <1>2. IsInjective(<<>>)  BY <1>1 DEF IsInjective
  <1> QED  BY <1>1, <1>2

LEMMA CaeBien == ASSUME Invariante, CaeFS PROVE Invariante'
  <1>1. NodosBien'  BY SinNodos DEF CaeFS, NodosBien
  <1>2. BitsBien(bitmap', libres')  BY BitsVacios DEF CaeFS
  <1>3. ArchivosBien'  BY SinNodos DEF CaeFS, ArchivosBien
  <1>4. OpBien'  BY DEF CaeFS, OpBien
  <1>5. EstadoDN' \in EstadosDN /\ muertes' = muertes  BY Igual DEF Invariante, CaeFS, varsDN
  <1> QED  BY <1>1, <1>2, <1>3, <1>4, <1>5 DEF Invariante, CaeFS

LEMMA InicioBien == Init => Invariante
  <1> SUFFICES ASSUME Init PROVE Invariante  OBVIOUS
  <1>1. NodosBien  BY SinNodos DEF Init, NodosBien
  <1>2. BitsBien(bitmap, libres)  BY BitsVacios DEF Init
  <1>3. ArchivosBien  BY SinNodos DEF Init, ArchivosBien
  <1>4. OpBien  BY DEF Init, OpBien
  <1>5. EstadoDN \in EstadosDN
    <2>1. Vacio \in Dato  BY DEF Dato
    <2>2. disco = [n \in Nodos |-> disco[n]]
          /\ \A n \in Nodos : disco[n] \in [0..(Capacidad[n] - 1) -> Dato]
      BY <2>1 DEF Init
    <2>3. disco \in Discos  BY <2>2, DiscosSon
    <2>4. prueba \in [Nodos -> 0..2] /\ sobra \in [Nodos -> Seq({"ok", "resto"})] /\ vivos = {}
      BY DEF Init
    <2> QED  BY <2>3, <2>4, EstadoSon
  <1>6. muertes \in 0..Muertes
    <2>1. Muertes \in Nat  BY SupuestoBloques
    <2>2. muertes = 0  BY DEF Init
    <2> QED  BY <2>1, <2>2
  <1> QED  BY <1>1, <1>2, <1>3, <1>4, <1>5, <1>6 DEF Invariante, Init

\* A command changes one block.
LEMMA CambiaBien ==
  ASSUME ArchivosBien, NEW r \in DOMAIN archivos, NEW i \in DOMAIN archivos[r],
         NEW b \in Buenos, b.dato = archivos[r][i].dato, CambiaBloque(r, i, b)
  PROVE  /\ ArchivosBien' /\ DOMAIN archivos' = DOMAIN archivos
         /\ \A q \in DOMAIN archivos :
              /\ DOMAIN archivos'[q] = DOMAIN archivos[q]
              /\ \A j \in DOMAIN archivos[q] :
                   archivos'[q][j] = IF q = r /\ j = i THEN b ELSE archivos[q][j]
  <1> DEFINE s == archivos[r]
             t == [s EXCEPT ![i] = b]
  <1>1. DOMAIN archivos' = DOMAIN archivos
        /\ \A q \in DOMAIN archivos : archivos'[q] = IF q = r THEN t ELSE archivos[q]
    BY DEF CambiaBloque
  <1>2. BloquesDe(r, s) /\ Len(s) \in Largos  BY DEF ArchivosBien
  <1>3. s[i].dato = <<r, i>>  BY <1>2, BloqueDe
  <1>4. s \in Seq(Buenos) /\ i \in DOMAIN s  BY <1>2 DEF BloquesDe
  <1> HIDE DEF s
  <1>5. /\ t \in Seq(Buenos) /\ Len(t) = Len(s) /\ DOMAIN t = DOMAIN s
        /\ \A j \in DOMAIN s : t[j] = IF j = i THEN b ELSE s[j]
    BY <1>4
  <1> HIDE DEF t
  <1>6. BloquesDe(r, t)
    <2>1. \A j \in 1..Len(s) : j \in DOMAIN s /\ s[j].dato = <<r, j>>  BY <1>2, <1>4 DEF BloquesDe
    <2> QED  BY <1>3, <1>5, <2>1 DEF BloquesDe, s
  <1>7. ArchivosBien'
    <2>1. DOMAIN archivos' \subseteq Rutas  BY <1>1 DEF ArchivosBien
    <2>2. \A q \in DOMAIN archivos' : BloquesDe(q, archivos'[q]) /\ Len(archivos'[q]) \in Largos
      BY <1>1, <1>2, <1>5, <1>6 DEF ArchivosBien, s
    <2> QED  BY <2>1, <2>2 DEF ArchivosBien
  <1> QED  BY <1>1, <1>5, <1>7 DEF s

\* The bitmaps and counters with one more block of n0 and one more of n1, as enviarBloque
\* sets them.
BitsDos(n0, k0, n1, k1) == [[bitmap EXCEPT ![n0] = @ \cup {k0}] EXCEPT ![n1] = @ \cup {k1}]
LibresDos(n0, n1)       == [[libres EXCEPT ![n0] = @ - 1] EXCEPT ![n1] = @ - 1]

\* What enviarBloque does with positions p and q, blocks k0 and k1 of their nodes and the
\* outcome e of sending to both.
Envio(p, q, k0, k1, e) ==
  LET n0 == nombres[p]
      n1 == nombres[q]
      M  == BitsDos(n0, k0, n1, k1)
      L  == LibresDos(n0, n1)
      x  == <<op.ruta, Len(op.hechos) + 1>>
      b  == [dato |-> x, c0 |-> Ubi(n0, k0), c1 |-> Ubi(n1, k1), otras |-> Nulo]
  IN  /\ k0 = BitLibre(bitmap[n0]) /\ k1 = BitLibre([bitmap EXCEPT ![n0] = @ \cup {k0}][n1])
      /\ k0 < Capacidad[n0] + MaxDeriva /\ k1 < Capacidad[n1] + MaxDeriva
      /\ puntero' = Tras(q)
      /\ \E d \in MandaYEspera(EstadoDN, n0, k0, x) :
           e \in IF d.ok THEN MandaYEspera(d.s, n1, k1, x) ELSE {d}
      /\ NuevoDN(e.s)
      /\ \/ /\ e.ok /\ bitmap' = M /\ libres' = L
            /\ op' = [op EXCEPT !.faltan = @ - 1, !.hechos = Append(@, b)]
         \/ ~ e.ok /\ op' = Nulo /\ Liberar(op.hechos, M, L)

LEMMA EnvioHay ==
  ASSUME enviarBloque
  PROVE  \E u \in Ubicaciones : \E k0, k1, e : Envio(u[1], u[2], k0, k1, e)
  <1>1. PICK u \in Ubicaciones :
       LET n0 == nombres[u[1]]
           n1 == nombres[u[2]]
           k0 == BitLibre(bitmap[n0])
           M0 == [bitmap EXCEPT ![n0] = @ \cup {k0}]
           k1 == BitLibre(M0[n1])
           M  == [M0 EXCEPT ![n1] = @ \cup {k1}]
           L  == [[libres EXCEPT ![n0] = @ - 1] EXCEPT ![n1] = @ - 1]
           x  == <<op.ruta, Len(op.hechos) + 1>>
           fin == UNION {IF e.ok THEN MandaYEspera(e.s, n1, k1, x) ELSE {e} :
                           e \in MandaYEspera(EstadoDN, n0, k0, x)}
       IN  /\ k0 < Capacidad[n0] + MaxDeriva /\ k1 < Capacidad[n1] + MaxDeriva
           /\ puntero' = Tras(u[2])
           /\ \E e \in fin :
                /\ NuevoDN(e.s)
                /\ \/ /\ e.ok
                      /\ op' = [op EXCEPT !.faltan = @ - 1,
                                  !.hechos = Append(@, [dato |-> x, c0 |-> Ubi(n0, k0),
                                                        c1 |-> Ubi(n1, k1), otras |-> Nulo])]
                      /\ bitmap' = M /\ libres' = L
                   \/ ~ e.ok /\ op' = TrasError(op) /\ Liberar(op.hechos, M, L)
    BY DEF enviarBloque
  <1> DEFINE n0 == nombres[u[1]]
             n1 == nombres[u[2]]
             k0 == BitLibre(bitmap[n0])
             M0 == [bitmap EXCEPT ![n0] = @ \cup {k0}]
             k1 == BitLibre(M0[n1])
             M  == [M0 EXCEPT ![n1] = @ \cup {k1}]
             L  == [[libres EXCEPT ![n0] = @ - 1] EXCEPT ![n1] = @ - 1]
             x  == <<op.ruta, Len(op.hechos) + 1>>
             fin == UNION {IF e.ok THEN MandaYEspera(e.s, n1, k1, x) ELSE {e} :
                             e \in MandaYEspera(EstadoDN, n0, k0, x)}
             b   == [dato |-> x, c0 |-> Ubi(n0, k0), c1 |-> Ubi(n1, k1), otras |-> Nulo]
             Tras2(e) == \/ /\ e.ok /\ bitmap' = M /\ libres' = L
                            /\ op' = [op EXCEPT !.faltan = @ - 1, !.hechos = Append(@, b)]
                         \/ ~ e.ok /\ op' = Nulo /\ Liberar(op.hechos, M, L)
  <1>2. /\ k0 < Capacidad[n0] + MaxDeriva /\ k1 < Capacidad[n1] + MaxDeriva /\ puntero' = Tras(u[2])
        /\ \E e \in fin : NuevoDN(e.s) /\ Tras2(e)
    BY <1>1 DEF TrasError
  <1>3. PICK e \in fin : NuevoDN(e.s) /\ Tras2(e)  BY <1>2
  <1>4. \E d \in MandaYEspera(EstadoDN, n0, k0, x) :
          e \in IF d.ok THEN MandaYEspera(d.s, n1, k1, x) ELSE {d}
    BY <1>3
  <1>5. Envio(u[1], u[2], k0, k1, e)  BY <1>2, <1>3, <1>4 DEF Envio, BitsDos, LibresDos
  <1> QED  BY <1>5

\* The same, node by node.
ConBits(n0, k0, n1, k1) ==
  [n \in Nodos |-> bitmap[n] \cup (IF n = n0 THEN {k0} ELSE {}) \cup (IF n = n1 THEN {k1} ELSE {})]
SinLibres(n0, n1) ==
  [n \in Nodos |-> libres[n] - (IF n = n0 THEN 1 ELSE 0) - (IF n = n1 THEN 1 ELSE 0)]

LEMMA DosBits ==
  ASSUME BitsBien(bitmap, libres), NEW n0 \in Nodos, NEW n1 \in Nodos, NEW k0, NEW k1
  PROVE  BitsDos(n0, k0, n1, k1) = ConBits(n0, k0, n1, k1)
  <1>0. bitmap \in [Nodos -> SUBSET Nat]  BY DEF BitsBien
  <1> DEFINE M0 == [bitmap EXCEPT ![n0] = @ \cup {k0}]
             M  == [M0 EXCEPT ![n1] = @ \cup {k1}]
  <1>1. /\ DOMAIN M0 = Nodos
        /\ \A n \in Nodos : M0[n] = bitmap[n] \cup IF n = n0 THEN {k0} ELSE {}
    BY <1>0
  <1> HIDE DEF M0
  <1>2. M = [n \in Nodos |-> M[n]]
        /\ \A n \in Nodos : M[n] = M0[n] \cup IF n = n1 THEN {k1} ELSE {}
    BY <1>1
  <1> HIDE DEF M
  <1>3. M = ConBits(n0, k0, n1, k1)  BY <1>1, <1>2 DEF ConBits
  <1> QED  BY <1>3 DEF M, M0, BitsDos

LEMMA DosLibres ==
  ASSUME BitsBien(bitmap, libres), NEW n0 \in Nodos, NEW n1 \in Nodos
  PROVE  /\ [libres EXCEPT ![n0] = @ - 1][n1] = IF n0 = n1 THEN libres[n1] - 1 ELSE libres[n1]
         /\ LibresDos(n0, n1) = SinLibres(n0, n1)
  <1>0. libres \in [Nodos -> Int]  BY DEF BitsBien
  <1> DEFINE L0 == [libres EXCEPT ![n0] = @ - 1]
             L  == [L0 EXCEPT ![n1] = @ - 1]
  <1>1. /\ DOMAIN L0 = Nodos
        /\ \A n \in Nodos : L0[n] = libres[n] - IF n = n0 THEN 1 ELSE 0
    BY <1>0
  <1> HIDE DEF L0
  <1>2. L = [n \in Nodos |-> L[n]]
        /\ \A n \in Nodos : L[n] = L0[n] - IF n = n1 THEN 1 ELSE 0
    <2>1. L = [n \in Nodos |-> L[n]]  BY <1>1
    <2>2. \A n \in Nodos : L[n] = IF n = n1 THEN L0[n] - 1 ELSE L0[n]  BY <1>1
    <2>3. \A n \in Nodos : L0[n] \in Int  BY <1>0, <1>1
    <2> HIDE DEF L
    <2> QED  BY <2>1, <2>2, <2>3
  <1> HIDE DEF L
  <1>3. L = SinLibres(n0, n1)  BY <1>1, <1>2 DEF SinLibres
  <1>4. L0[n1] = IF n0 = n1 THEN libres[n1] - 1 ELSE libres[n1]  BY <1>0, <1>1
  <1> QED  BY <1>3, <1>4 DEF L, L0, LibresDos

\* The block that enviarBloque makes.
Recien(n0, k0, n1, k1) ==
  [dato |-> <<op.ruta, Len(op.hechos) + 1>>, c0 |-> Ubi(n0, k0), c1 |-> Ubi(n1, k1), otras |-> Nulo]

LEMMA EnvioEs ==
  ASSUME Invariante, op # Nulo, op.faltan > 0, NEW u \in Ubicaciones,
         NEW k0, NEW k1, NEW e, Envio(u[1], u[2], k0, k1, e)
  PROVE  LET n0 == nombres[u[1]]
             n1 == nombres[u[2]]
             b  == Recien(n0, k0, n1, k1)
         IN  /\ u[1] \in 1..Len(nombres) /\ u[2] \in 1..Len(nombres)
             /\ n0 \in Nodos /\ n1 \in Nodos /\ n0 \in socket /\ n1 \in socket
             /\ libres[n0] > 0 /\ libres[n1] > IF n0 = n1 THEN 1 ELSE 0
             /\ k0 \in Nat /\ k0 \notin bitmap[n0] /\ k0 <= Cardinality(bitmap[n0])
             /\ k1 \in Nat /\ k1 \notin bitmap[n1] /\ (n0 = n1 => k0 # k1)
             /\ k1 <= Cardinality(bitmap[n1]) + IF n0 = n1 THEN 1 ELSE 0
             /\ BitsBien(ConBits(n0, k0, n1, k1), SinLibres(n0, n1))
             /\ b.dato \in Dato /\ b \in Buenos /\ SinRepetir(b)
             /\ Lugares(b) = {Ubi(n0, k0), Ubi(n1, k1)}
             /\ \/ /\ e.ok /\ bitmap' = ConBits(n0, k0, n1, k1) /\ libres' = SinLibres(n0, n1)
                   /\ op' = [op EXCEPT !.faltan = @ - 1, !.hechos = Append(@, b)]
                \/ /\ ~ e.ok /\ op' = Nulo
                   /\ Liberar(op.hechos, ConBits(n0, k0, n1, k1), SinLibres(n0, n1))
             /\ EstadoDN' \in EstadosDN /\ puntero' \in 1..Len(nombres)
  <1>1. nombres \in Seq(Nodos) /\ puntero \in 1..(IF nombres = <<>> THEN 1 ELSE Len(nombres))
    BY DEF Invariante, NodosBien
  <1>2. BitsBien(bitmap, libres) /\ bitmap \in [Nodos -> SUBSET Nat] /\ libres \in [Nodos -> Int]
    BY DEF Invariante, BitsBien
  <1> DEFINE n0 == nombres[u[1]]
             n1 == nombres[u[2]]
             M  == ConBits(n0, k0, n1, k1)
             L  == SinLibres(n0, n1)
             x  == <<op.ruta, Len(op.hechos) + 1>>
             b  == Recien(n0, k0, n1, k1)
             M0 == [bitmap EXCEPT ![n0] = @ \cup {k0}]
  <1>3. /\ u[1] \in 1..Len(nombres) /\ u[2] \in 1..Len(nombres) /\ n0 \in socket /\ n1 \in socket
        /\ libres[n0] > 0 /\ [libres EXCEPT ![n0] = @ - 1][n1] > 0
    BY <1>1, UbicacionesEs
  <1>4. n0 \in Nodos /\ n1 \in Nodos  BY <1>1, <1>3
  <1>5. /\ k0 = BitLibre(bitmap[n0]) /\ k1 = BitLibre(M0[n1])
        /\ k0 < Capacidad[n0] + MaxDeriva /\ k1 < Capacidad[n1] + MaxDeriva
        /\ puntero' = Tras(u[2]) /\ NuevoDN(e.s)
        /\ \E d \in MandaYEspera(EstadoDN, n0, k0, x) :
             e \in IF d.ok THEN MandaYEspera(d.s, n1, k1, x) ELSE {d}
        /\ \/ /\ e.ok /\ bitmap' = BitsDos(n0, k0, n1, k1) /\ libres' = LibresDos(n0, n1)
              /\ op' = [op EXCEPT !.faltan = @ - 1, !.hechos = Append(@, b)]
           \/ /\ ~ e.ok /\ op' = Nulo
              /\ Liberar(op.hechos, BitsDos(n0, k0, n1, k1), LibresDos(n0, n1))
    BY DEF Envio, Recien
  <1>6. op \in Operacion /\ BloquesDe(op.ruta, op.hechos)  BY DEF Invariante, OpBien
  <1>7. x \in Rutas \X Nat /\ x \in Dato  BY <1>6 DEF Operacion, BloquesDe, Dato
  <1> HIDE DEF n0, n1, M0, x, b, M, L
  <1>a. [libres EXCEPT ![n0] = @ - 1][n1] = IF n0 = n1 THEN libres[n1] - 1 ELSE libres[n1]
    BY <1>2, <1>4, DosLibres
  <1>b. M0[n1] = IF n0 = n1 THEN bitmap[n1] \cup {k0} ELSE bitmap[n1]
    BY <1>2, <1>4 DEF M0
  <1>c. BitsDos(n0, k0, n1, k1) = M /\ LibresDos(n0, n1) = L
    <2>0. BitsBien(bitmap, libres)  BY <1>2
    <2>1. BitsDos(n0, k0, n1, k1) = ConBits(n0, k0, n1, k1)  BY <1>4, <2>0, DosBits
    <2>2. LibresDos(n0, n1) = SinLibres(n0, n1)  BY <1>4, <2>0, DosLibres
    <2> QED  BY <2>1, <2>2 DEF M, L
  <1>8. libres[n1] > IF n0 = n1 THEN 1 ELSE 0
    <2>1. libres[n0] \in Int /\ libres[n1] \in Int  BY <1>2, <1>4
    <2> QED  BY <1>3, <1>a, <2>1
  <1>9. /\ IsFiniteSet(bitmap[n0]) /\ bitmap[n0] \in SUBSET Nat
        /\ IsFiniteSet(bitmap[n1]) /\ bitmap[n1] \in SUBSET Nat
    BY <1>2, <1>4, BitsFinitos
  <1>10. k0 \in Nat /\ k0 \notin bitmap[n0] /\ k0 <= Cardinality(bitmap[n0])
    BY <1>5, <1>9, BitLibreEs
  <1>11. /\ IsFiniteSet(M0[n1]) /\ M0[n1] \in SUBSET Nat
         /\ Cardinality(M0[n1]) = Cardinality(bitmap[n1]) + IF n0 = n1 THEN 1 ELSE 0
    <2>0. Cardinality(bitmap[n1]) \in Nat  BY <1>9, FS_CardinalityType
    <2>1. CASE n0 = n1
      <3>1. k0 \notin bitmap[n1] /\ M0[n1] = bitmap[n1] \cup {k0}  BY <1>10, <1>b, <2>1
      <3>2. Cardinality(bitmap[n1] \cup {k0}) = Cardinality(bitmap[n1]) + 1
            /\ IsFiniteSet(bitmap[n1] \cup {k0})
        BY <1>9, <3>1, FS_AddElement
      <3> QED  BY <1>9, <1>10, <2>0, <2>1, <3>1, <3>2
    <2>2. CASE n0 # n1  BY <1>9, <1>b, <2>0, <2>2
    <2> QED  BY <2>1, <2>2
  <1>12. k1 \in Nat /\ k1 \notin M0[n1] /\ k1 <= Cardinality(M0[n1])
    BY <1>5, <1>11, BitLibreEs
  <1>13. k1 \notin bitmap[n1] /\ (n0 = n1 => k0 # k1)  BY <1>12, <1>b
  <1>14. BitsBien(M, L)
    <2>1. M \in [Nodos -> SUBSET Nat]  BY <1>2, <1>10, <1>12 DEF M, ConBits
    <2>2. L \in [Nodos -> Int]  BY <1>2 DEF L, SinLibres
    <2>3. \A n \in Nodos : \A k \in M[n] : k < Capacidad[n] + MaxDeriva
      BY <1>2, <1>5 DEF M, ConBits, BitsBien
    <2> QED  BY <2>1, <2>2, <2>3 DEF BitsBien
  <1>15. /\ b \in Buenos /\ Lugares(b) = {Ubi(n0, k0), Ubi(n1, k1)} /\ SinRepetir(b)
         /\ b.dato = x
    <2>1. /\ Ubi(n0, k0) \in Ubicacion /\ Ubi(n1, k1) \in Ubicacion
          /\ Ubi(n0, k0).num >= 0 /\ Ubi(n1, k1).num >= 0
      BY <1>4, <1>10, <1>12 DEF Ubi, Ubicacion
    <2>2. Ubi(n0, k0) # Ubi(n1, k1)  BY <1>13 DEF Ubi
    <2> QED  BY <1>7, <2>1, <2>2, NuevoEs DEF b, x, Recien
  <1>16. EstadoDN' \in EstadosDN
    <2>1. PICK d \in MandaYEspera(EstadoDN, n0, k0, x) :
             e \in IF d.ok THEN MandaYEspera(d.s, n1, k1, x) ELSE {d}
      BY <1>5
    <2>2. EstadoDN \in EstadosDN  BY DEF Invariante
    <2>3. d.s \in EstadosDN  BY <1>4, <1>7, <1>10, <2>2, MandaYEsperaEs
    <2>4. e.s \in EstadosDN
      <3>1. CASE d.ok
        <4>1. e \in MandaYEspera(d.s, n1, k1, x)  BY <2>1, <3>1
        <4> QED  BY <1>4, <1>7, <1>12, <2>3, <4>1, MandaYEsperaEs
      <3>2. CASE ~ d.ok  BY <2>1, <2>3, <3>2
      <3> QED  BY <3>1, <3>2
    <2> QED  BY <1>5, <2>4, NuevoDNEs
  <1>17. puntero' \in 1..Len(nombres)  BY <1>1, <1>3, <1>5, TrasEs
  <1> QED
    <2>1. \/ /\ e.ok /\ bitmap' = M /\ libres' = L
             /\ op' = [op EXCEPT !.faltan = @ - 1, !.hechos = Append(@, b)]
          \/ ~ e.ok /\ op' = Nulo /\ Liberar(op.hechos, M, L)
      BY <1>5, <1>c
    <2>2. k1 <= Cardinality(bitmap[n1]) + IF n0 = n1 THEN 1 ELSE 0  BY <1>11, <1>12
    <2>3. b.dato \in Dato  BY <1>7, <1>15
    <2> QED  BY <1>3, <1>4, <1>8, <1>10, <1>12, <1>13, <1>14, <1>15, <1>16, <1>17, <2>1, <2>2, <2>3
         DEF n0, n1, M, L, b

LEMMA EmpiezaBien ==
  ASSUME Invariante, NEW r \in Rutas, NEW t \in Textos, NEW h \in Hilos,
         NEW bloques \in {Trozos(t), Pedidos(t)}, Empieza(r, t, h, bloques)
  PROVE  Invariante'
  <1>1. bloques \in Nat /\ Pedidos(t) \in Nat  BY TrozosEs, PedidosEs
  <1>2. bloques \in Largos  BY DEF Largos
  <1>3. op' = [ruta |-> r, hilo |-> h, pedidos |-> Pedidos(t), hechos |-> <<>>, faltan |-> bloques]
        /\ archivos' = archivos /\ r \notin DOMAIN archivos
    BY DEF Empieza
  <1>4. op' \in Operacion  BY <1>1, <1>3 DEF Operacion
  <1>5. BloquesDe(r, <<>>) /\ Len(<<>>) = 0
    <2>1. <<>> \in Seq(Buenos) /\ Len(<<>>) = 0 /\ 1..0 = {}  OBVIOUS
    <2> QED  BY <2>1 DEF BloquesDe
  <1>6. OpBien'  BY <1>1, <1>2, <1>3, <1>4, <1>5 DEF OpBien
  <1>7. UNCHANGED <<fs, nombres, socket, bitmap, libres, archivos, puntero, vivos, disco, prueba, sobra, muertes>>
    BY DEF Empieza, varsDN
  <1> QED  BY <1>6, <1>7, Igual DEF Invariante

LEMMA AgregaBloque ==
  ASSUME NEW r, NEW s, BloquesDe(r, s), NEW b \in Buenos, b.dato = <<r, Len(s) + 1>>
  PROVE  BloquesDe(r, Append(s, b)) /\ Len(Append(s, b)) = Len(s) + 1
         /\ Len(s) \in Nat /\ DOMAIN Append(s, b) = 1..(Len(s) + 1)
         /\ \A i \in 1..(Len(s) + 1) : Append(s, b)[i] = IF i = Len(s) + 1 THEN b ELSE s[i]
  <1>1. s \in Seq(Buenos) /\ \A i \in 1..Len(s) : s[i].dato = <<r, i>>  BY DEF BloquesDe
  <1> DEFINE t == Append(s, b)
  <1>2. /\ t \in Seq(Buenos) /\ Len(t) = Len(s) + 1 /\ Len(s) \in Nat /\ DOMAIN t = 1..(Len(s) + 1)
        /\ \A i \in 1..(Len(s) + 1) : t[i] = IF i = Len(s) + 1 THEN b ELSE s[i]
    BY <1>1
  <1> HIDE DEF t
  <1>3. \A i \in 1..Len(t) : t[i].dato = <<r, i>>
    <2> TAKE i \in 1..Len(t)
    <2>1. CASE i = Len(s) + 1  BY <1>2, <2>1
    <2>2. CASE i # Len(s) + 1
      <3>1. i \in 1..Len(s)  BY <1>2, <2>2
      <3> QED  BY <1>1, <1>2, <2>2, <3>1
    <2> QED  BY <2>1, <2>2
  <1>4. BloquesDe(r, t)  BY <1>2, <1>3 DEF BloquesDe
  <1> QED  BY <1>2, <1>4 DEF t

LEMMA EnviarBien == ASSUME Invariante, enviarBloque PROVE Invariante'
  <1>1. /\ op # Nulo /\ op.faltan > 0
        /\ UNCHANGED <<fs, nombres, socket, archivos, muertes>>
    BY DEF enviarBloque
  <1>2. PICK u \in Ubicaciones : \E k0, k1, e : Envio(u[1], u[2], k0, k1, e)  BY EnvioHay
  <1>3. PICK k0, k1, e : Envio(u[1], u[2], k0, k1, e)  BY <1>2
  <1> DEFINE n0 == nombres[u[1]]
             n1 == nombres[u[2]]
             b  == Recien(n0, k0, n1, k1)
             M  == ConBits(n0, k0, n1, k1)
             L  == SinLibres(n0, n1)
  <1>4. /\ u[1] \in 1..Len(nombres) /\ BitsBien(M, L) /\ b \in Buenos
        /\ EstadoDN' \in EstadosDN /\ puntero' \in 1..Len(nombres)
        /\ \/ /\ e.ok /\ bitmap' = M /\ libres' = L
              /\ op' = [op EXCEPT !.faltan = @ - 1, !.hechos = Append(@, b)]
           \/ ~ e.ok /\ op' = Nulo /\ Liberar(op.hechos, M, L)
    BY <1>1, <1>3, EnvioEs
  <1>5. NodosBien'
    <2>1. nombres # <<>>
      <3>1. nombres = <<>> => Len(nombres) = 0  OBVIOUS
      <3>2. nombres \in Seq(Nodos)  BY DEF Invariante, NodosBien
      <3> QED  BY <1>4, <3>1, <3>2
    <2> QED  BY <1>1, <1>4, <2>1 DEF Invariante, NodosBien
  <1>6. ArchivosBien'  BY <1>1, Igual DEF Invariante
  <1>7. /\ op \in Operacion /\ op.ruta \notin DOMAIN archivos
        /\ BloquesDe(op.ruta, op.hechos) /\ Len(op.hechos) + op.faltan \in Largos
    BY <1>1 DEF Invariante, OpBien
  <1>8. b.dato = <<op.ruta, Len(op.hechos) + 1>>  BY DEF Recien
  <1> HIDE DEF b, M, L
  <1>9. CASE /\ e.ok /\ bitmap' = M /\ libres' = L
             /\ op' = [op EXCEPT !.faltan = @ - 1, !.hechos = Append(@, b)]
    <2> DEFINE t == Append(op.hechos, b)
    <2>1. BloquesDe(op.ruta, t) /\ Len(t) = Len(op.hechos) + 1 /\ Len(op.hechos) \in Nat
      BY <1>4, <1>7, <1>8, AgregaBloque
    <2>2. op.faltan \in Nat /\ op.faltan - 1 \in Nat  BY <1>1, <1>7 DEF Operacion
    <2>3. t \in Seq(Bloque)  BY <2>1, BuenosSon DEF BloquesDe
    <2> HIDE DEF t
    <2>4. op' = [op EXCEPT !.faltan = @ - 1, !.hechos = t]  BY <1>9 DEF t
    <2>5. op' \in Operacion /\ op'.ruta = op.ruta /\ op'.hechos = t /\ op'.faltan = op.faltan - 1
      BY <1>7, <2>2, <2>3, <2>4 DEF Operacion
    <2>6. Len(t) + (op.faltan - 1) = Len(op.hechos) + op.faltan  BY <2>1, <2>2
    <2>7. OpBien'  BY <1>1, <1>7, <2>1, <2>5, <2>6 DEF OpBien
    <2> QED  BY <1>1, <1>4, <1>5, <1>6, <1>9, <2>7 DEF Invariante
  <1>10. CASE ~ e.ok /\ op' = Nulo /\ Liberar(op.hechos, M, L)
    <2>1. op.hechos \in Seq(Bloque)  BY <1>7 DEF Operacion
    <2>2. BitsBien(bitmap', libres')  BY <1>4, <1>10, <2>1, LiberarEs
    <2>3. OpBien'  BY <1>10 DEF OpBien
    <2> QED  BY <1>1, <1>4, <1>5, <1>6, <2>2, <2>3 DEF Invariante
  <1> QED  BY <1>4, <1>9, <1>10

LEMMA RegistrarBien == ASSUME Invariante, registrarArchivo PROVE Invariante'
  <1>1. /\ op # Nulo /\ op.faltan = 0 /\ op' = Nulo
        /\ archivos' = [r \in DOMAIN archivos \cup {op.ruta} |->
                          IF r = op.ruta THEN op.hechos ELSE archivos[r]]
        /\ UNCHANGED <<fs, nombres, socket, bitmap, libres, puntero, vivos, disco, prueba, sobra, muertes>>
    BY DEF registrarArchivo, varsDN
  <1>2. /\ op \in Operacion /\ BloquesDe(op.ruta, op.hechos)
        /\ Len(op.hechos) + op.faltan \in Largos
    BY <1>1 DEF Invariante, OpBien
  <1>3. Len(op.hechos) \in Largos
    <2>1. Len(op.hechos) \in Nat  BY <1>2 DEF BloquesDe
    <2>2. Len(op.hechos) + op.faltan = Len(op.hechos)  BY <1>1, <2>1
    <2> QED  BY <1>2, <2>2
  <1>4. ArchivosBien'
    <2>1. DOMAIN archivos' \subseteq Rutas  BY <1>1, <1>2 DEF Invariante, ArchivosBien, Operacion
    <2>2. \A r \in DOMAIN archivos' : BloquesDe(r, archivos'[r]) /\ Len(archivos'[r]) \in Largos
      BY <1>1, <1>2, <1>3 DEF Invariante, ArchivosBien
    <2> QED  BY <2>1, <2>2 DEF ArchivosBien
  <1>5. OpBien'  BY <1>1 DEF OpBien
  <1> QED  BY <1>1, <1>4, <1>5, Igual DEF Invariante

LEMMA HechosBien ==
  ASSUME Invariante
  PROVE  /\ op # Nulo => op.hechos \in Seq(Bloque)
         /\ \A r \in DOMAIN archivos : archivos[r] \in Seq(Bloque)
  <1>1. op # Nulo => op.hechos \in Seq(Bloque)  BY DEF Invariante, OpBien, Operacion
  <1>2. \A r \in DOMAIN archivos : archivos[r] \in Seq(Bloque)
    BY BuenosSon DEF Invariante, ArchivosBien, BloquesDe
  <1> QED  BY <1>1, <1>2

LEMMA RmArchivoBien ==
  ASSUME Invariante, NEW r \in Rutas, rmArchivo(r)
  PROVE  Invariante'
  <1>1. /\ r \in DOMAIN archivos /\ LiberarSinMutex(archivos[r])
        /\ archivos' = [q \in DOMAIN archivos \ {r} |-> archivos[q]]
        /\ UNCHANGED <<fs, op, nombres, socket, puntero, vivos, disco, prueba, sobra, muertes>>
    BY DEF rmArchivo, varsDN
  <1>2. BitsBien(bitmap', libres')
    <2>1. archivos[r] \in Seq(Bloque) /\ (op # Nulo => op.hechos \in Seq(Bloque))  BY <1>1, HechosBien
    <2> QED  BY <1>1, <2>1, LiberarSinMutexEs DEF Invariante
  <1>3. ArchivosBien'  BY <1>1 DEF Invariante, ArchivosBien
  <1>4. OpBien'  BY <1>1, Igual DEF Invariante
  <1> QED  BY <1>1, <1>2, <1>3, <1>4, Igual DEF Invariante

LEMMA FormatBien == ASSUME Invariante, formatFileSystem PROVE Invariante'
  <1>1. CASE /\ archivos' = <<>> /\ bitmap' = [n \in Nodos |-> {}]
             /\ \E S \in IF op = Nulo THEN {{}} ELSE SUBSET Range(nombres) :
                  libres' = [n \in Nodos |-> IF n \in Range(nombres) \ S THEN Capacidad[n]
                                             ELSE libres[n]]
             /\ UNCHANGED <<fs, op, nombres, socket, puntero, varsDN>>
    <2>1. PICK S : libres' = [n \in Nodos |-> IF n \in Range(nombres) \ S THEN Capacidad[n]
                                              ELSE libres[n]]
      BY <1>1
    <2>2. UNCHANGED <<fs, op, nombres, socket, puntero, vivos, disco, prueba, sobra, muertes>>
      BY <1>1 DEF varsDN
    <2>3. BitsBien(bitmap', libres')
      <3>0. \A n \in Nodos : Capacidad[n] \in Nat  BY SupuestoBloques
      <3>1. \A n \in Nodos : Capacidad[n] \in Int  BY <3>0
      <3>2. libres' \in [Nodos -> Int]  BY <2>1, <3>1 DEF Invariante, BitsBien
      <3>3. bitmap' = [n \in Nodos |-> {}]  BY <1>1
      <3> QED  BY <3>2, <3>3 DEF BitsBien
    <2>4. DOMAIN archivos' = {}  BY <1>1, SinNodos
    <2>5. ArchivosBien'  BY <2>4 DEF ArchivosBien
    <2>6. OpBien'  BY <2>2, <2>4, Igual DEF Invariante
    <2> QED  BY <2>2, <2>3, <2>5, <2>6, Igual DEF Invariante
  <1>2. CASE CaeFS  BY <1>2, CaeBien
  <1> QED  BY <1>1, <1>2 DEF formatFileSystem

\* What rm -b of a copy at u frees.
Quitado(b, u) == <<[b EXCEPT !.c0 = u, !.c1 = Ubi(u.nodo, -1), !.otras = Nulo]>>

LEMMA QuitadoEs ==
  ASSUME NEW b \in Bloque, NEW u \in Ubicacion
  PROVE  Quitado(b, u) \in Seq(Bloque)
  <1>1. Ubi(u.nodo, -1) \in Ubicacion  BY DEF Ubi, Ubicacion
  <1>2. [b EXCEPT !.c0 = u, !.c1 = Ubi(u.nodo, -1), !.otras = Nulo] \in Bloque  BY <1>1 DEF Bloque
  <1> QED  BY <1>2 DEF Quitado

\* The cases of rm -b: of one of the first two copies, of a further one, and the one that ends
\* the process.
LEMMA RmBloqueCasos ==
  ASSUME Invariante, NEW r \in DOMAIN archivos, NEW i \in DOMAIN archivos[r],
         NEW c \in 0..(MaxOtras + 2), rmBloque(r, i, c)
  PROVE  LET b == archivos[r][i]
         IN  /\ b \in Buenos /\ b \in Bloque
             /\ \/ CaeFS
                \/ \E u \in Ubicacion, s \in Buenos :
                     /\ s.dato = b.dato /\ LiberarSinMutex(Quitado(b, u)) /\ CambiaBloque(r, i, s)
                     /\ SinUna(b, s, u)
                     /\ SinRepetir(b) => SinRepetir(s) /\ Lugares(s) = Lugares(b) \ {u}
                     /\ u.num >= 0 => u \in Lugares(b)
                     /\ s.c0.num >= 0 \/ s.c0.nodo = b.c0.nodo
                     /\ UNCHANGED <<fs, op, nombres, socket, puntero, varsDN>>
  <1> DEFINE b == archivos[r][i]
             Hecho(u, s) == /\ s.dato = b.dato /\ LiberarSinMutex(Quitado(b, u)) /\ CambiaBloque(r, i, s)
                            /\ SinUna(b, s, u)
                            /\ SinRepetir(b) => SinRepetir(s) /\ Lugares(s) = Lugares(b) \ {u}
                            /\ u.num >= 0 => u \in Lugares(b)
                            /\ s.c0.num >= 0 \/ s.c0.nodo = b.c0.nodo
                            /\ UNCHANGED <<fs, op, nombres, socket, puntero, varsDN>>
  <1>1. b \in Buenos /\ b \in Bloque  BY BloqueDe DEF Invariante, ArchivosBien
  <1>2. CASE /\ c \in {0, 1} /\ Restante(b, c) # -1
             /\ LiberarSinMutex(Quitado(b, IF c = 0 THEN b.c0 ELSE b.c1))
             /\ CambiaBloque(r, i, SinCopia(b, c))
             /\ UNCHANGED <<fs, op, nombres, socket, puntero, varsDN>>
    <2> DEFINE u == IF c = 0 THEN b.c0 ELSE b.c1
               s == SinCopia(b, c)
    <2> HIDE DEF b
    <2>1. u \in Ubicacion  BY <1>1 DEF Bloque
    <2>c. s \in Buenos /\ s.dato = b.dato /\ SinUna(b, s, u)  BY <1>1, <1>2, SinCopiaEs
    <2>2. /\ s \in Buenos /\ s.dato = b.dato /\ SinUna(b, s, u)
          /\ (SinRepetir(b) => SinRepetir(s) /\ Lugares(s) = Lugares(b) \ {u})
      <3> HIDE DEF s, u
      <3> QED  BY <1>1, <2>1, <2>c, SinUnaEs, BuenosSon
    <2>a. u.num >= 0 => u \in Lugares(b)  BY <1>1, <2>1, LugaresSon
    <2>b. s.c0.num >= 0 \/ s.c0.nodo = b.c0.nodo  BY <1>1, <1>2, SinCopiaNodo
    <2>3. Hecho(u, s)  BY <1>2, <2>2, <2>a, <2>b
    <2> QED  BY <1>1, <2>1, <2>2, <2>3 DEF b
  <1>3. CASE /\ c >= 2 /\ b.otras # Nulo /\ c - 2 < Len(b.otras)
             /\ LiberarSinMutex(Quitado(b, b.otras[c - 1]))
             /\ CambiaBloque(r, i, [b EXCEPT !.otras = RemoveAt(@, c - 1)])
             /\ UNCHANGED <<fs, op, nombres, socket, puntero, varsDN>>
    <2> DEFINE u == b.otras[c - 1]
               s == [b EXCEPT !.otras = RemoveAt(@, c - 1)]
    <2>0. MaxOtras \in Nat  BY SupuestoBloques
    <2> HIDE DEF b
    <2>1. b.otras \in Seq(Ubicacion)  BY <1>1, <1>3 DEF Bloque
    <2>2. c - 1 \in 1..Len(b.otras)
      <3>1. Len(b.otras) \in Nat /\ c \in Int  BY <2>0, <2>1
      <3> QED  BY <1>3, <3>1
    <2>c. s \in Buenos /\ s.dato = b.dato /\ u \in Ubicacion /\ SinUna(b, s, u)
      BY <1>1, <1>3, <2>2, SinOtraEs
    <2>3. /\ s \in Buenos /\ s.dato = b.dato /\ u \in Ubicacion /\ SinUna(b, s, u)
          /\ (SinRepetir(b) => SinRepetir(s) /\ Lugares(s) = Lugares(b) \ {u})
      <3> HIDE DEF s, u
      <3> QED  BY <1>1, <2>c, SinUnaEs, BuenosSon
    <2>a. u.num >= 0 => u \in Lugares(b)
      <3>1. Otras(b) = b.otras  BY <1>3 DEF Otras
      <3> QED  BY <1>1, <2>2, <2>3, <3>1, LugaresSon
    <2>b. s.c0 = b.c0  BY <1>1 DEF Bloque
    <2>4. Hecho(u, s)  BY <1>3, <2>3, <2>a, <2>b
    <2> HIDE DEF u, s
    <2> QED  BY <1>1, <2>3, <2>4 DEF b
  <1>4. CASE CaeFS  BY <1>1, <1>4
  <1> QED  BY <1>2, <1>3, <1>4 DEF rmBloque, Quitado

LEMMA RmBloqueBien ==
  ASSUME Invariante, NEW r \in DOMAIN archivos, NEW i \in DOMAIN archivos[r],
         NEW c \in 0..(MaxOtras + 2), rmBloque(r, i, c)
  PROVE  Invariante'
  <1> DEFINE b == archivos[r][i]
  <1>1. /\ b \in Buenos /\ b \in Bloque
        /\ \/ CaeFS
           \/ \E u \in Ubicacion, s \in Buenos :
                /\ s.dato = b.dato /\ LiberarSinMutex(Quitado(b, u)) /\ CambiaBloque(r, i, s)
                /\ UNCHANGED <<fs, op, nombres, socket, puntero, varsDN>>
    BY RmBloqueCasos
  <1>2. CASE CaeFS  BY <1>2, CaeBien
  <1>3. ASSUME NEW u \in Ubicacion, NEW s \in Buenos, s.dato = b.dato,
               LiberarSinMutex(Quitado(b, u)), CambiaBloque(r, i, s),
               UNCHANGED <<fs, op, nombres, socket, puntero, varsDN>>
        PROVE  Invariante'
    <2>1. Quitado(b, u) \in Seq(Bloque)  BY <1>1, QuitadoEs
    <2>2. BitsBien(bitmap', libres')  BY <1>3, <2>1, HechosBien, LiberarSinMutexEs DEF Invariante
    <2>3. ArchivosBien' /\ DOMAIN archivos' = DOMAIN archivos
      BY <1>3, CambiaBien DEF Invariante
    <2>4. UNCHANGED <<fs, op, nombres, socket, puntero, vivos, disco, prueba, sobra, muertes>>
      BY <1>3 DEF varsDN
    <2>5. OpBien'  BY <2>3, <2>4, Igual DEF Invariante
    <2> QED  BY <2>2, <2>3, <2>4, <2>5, Igual DEF Invariante
  <1> QED  BY <1>1, <1>2, <1>3

\* What cpblock of block b on node n does: k is the bit it sets, e the outcome of reading and
\* of sending.
Copia(r, i, n, k, e) ==
  LET b == archivos[r][i]
      o == Fuente(b)
  IN  /\ k = BitLibre(bitmap[n]) /\ k < Capacidad[n] + MaxDeriva
      /\ bitmap' = [bitmap EXCEPT ![n] = @ \cup {k}]
      /\ \E d \in IF o.nodo \in socket THEN Lee(EstadoDN, o.nodo, o.num)
                  ELSE {[s |-> EstadoDN, ok |-> FALSE, dato |-> Basura]} :
           e \in IF d.ok THEN Manda(d.s, n, k, d.dato) ELSE {d}
      /\ NuevoDN(e.s)
      /\ \/ /\ e.ok /\ libres' = [libres EXCEPT ![n] = @ - 1]
            /\ CambiaBloque(r, i, ConCopia(b, Ubi(n, k)))
         \/ ~ e.ok /\ UNCHANGED <<libres, archivos>>

LEMMA CopiaHay ==
  ASSUME NEW r, NEW i, NEW n, cpblock(r, i, n)
  PROVE  \E k, e : Copia(r, i, n, k, e)
  <1> DEFINE b == archivos[r][i]
             k == BitLibre(bitmap[n])
             o == Fuente(b)
             leidos == IF o.nodo \in socket THEN Lee(EstadoDN, o.nodo, o.num)
                       ELSE {[s |-> EstadoDN, ok |-> FALSE, dato |-> Basura]}
             fin == UNION {IF e.ok THEN Manda(e.s, n, k, e.dato) ELSE {e} : e \in leidos}
             Luego(e) == \/ /\ e.ok /\ libres' = [libres EXCEPT ![n] = @ - 1]
                            /\ CambiaBloque(r, i, ConCopia(b, Ubi(n, k)))
                         \/ ~ e.ok /\ UNCHANGED <<libres, archivos>>
  <1>1. /\ k < Capacidad[n] + MaxDeriva
        /\ bitmap' = [bitmap EXCEPT ![n] = @ \cup {k}]
        /\ \E e \in fin : NuevoDN(e.s) /\ Luego(e)
    BY DEF cpblock
  <1>2. PICK e \in fin : NuevoDN(e.s) /\ Luego(e)  BY <1>1
  <1>3. \E d \in leidos : e \in IF d.ok THEN Manda(d.s, n, k, d.dato) ELSE {d}
    BY <1>2
  <1>4. Copia(r, i, n, k, e)  BY <1>1, <1>2, <1>3 DEF Copia
  <1> QED  BY <1>4

LEMMA CopiaEs ==
  ASSUME Invariante, NEW r \in DOMAIN archivos, NEW i \in DOMAIN archivos[r], NEW n \in Nodos,
         NEW k, NEW e, Copia(r, i, n, k, e)
  PROVE  LET b == archivos[r][i]
         IN  /\ b \in Buenos /\ k \in Nat /\ k \notin bitmap[n] /\ k <= Cardinality(bitmap[n])
             /\ Ubi(n, k) \in Ubicacion /\ EstadoDN' \in EstadosDN
             /\ BitsBien(bitmap', libres') /\ bitmap' = [bitmap EXCEPT ![n] = @ \cup {k}]
             /\ \/ /\ e.ok /\ libres' = [libres EXCEPT ![n] = @ - 1]
                   /\ CambiaBloque(r, i, ConCopia(b, Ubi(n, k)))
                \/ ~ e.ok /\ UNCHANGED <<libres, archivos>>
  <1> DEFINE b == archivos[r][i]
             o == Fuente(b)
             leidos == IF o.nodo \in socket THEN Lee(EstadoDN, o.nodo, o.num)
                       ELSE {[s |-> EstadoDN, ok |-> FALSE, dato |-> Basura]}
  <1>1. b \in Buenos /\ b \in Bloque  BY BloqueDe DEF Invariante, ArchivosBien
  <1>2. /\ k = BitLibre(bitmap[n]) /\ k < Capacidad[n] + MaxDeriva
        /\ bitmap' = [bitmap EXCEPT ![n] = @ \cup {k}] /\ NuevoDN(e.s)
        /\ \/ /\ e.ok /\ libres' = [libres EXCEPT ![n] = @ - 1]
              /\ CambiaBloque(r, i, ConCopia(b, Ubi(n, k)))
           \/ ~ e.ok /\ UNCHANGED <<libres, archivos>>
        /\ \E d \in leidos : e \in IF d.ok THEN Manda(d.s, n, k, d.dato) ELSE {d}
    BY DEF Copia
  <1>3. IsFiniteSet(bitmap[n]) /\ bitmap[n] \in SUBSET Nat  BY BitsFinitos DEF Invariante
  <1>4. k \in Nat /\ k \notin bitmap[n] /\ k <= Cardinality(bitmap[n])  BY <1>2, <1>3, BitLibreEs
  <1>5. Ubi(n, k) \in Ubicacion  BY <1>4 DEF Ubi, Ubicacion
  <1>6. BitsBien(bitmap', libres')
    <2>1. BitsBien(bitmap, libres)  BY DEF Invariante
    <2>2. bitmap' \in [Nodos -> SUBSET Nat]  BY <1>2, <1>4, <2>1 DEF BitsBien
    <2>3. libres' \in [Nodos -> Int]
      <3>1. libres \in [Nodos -> Int] /\ libres[n] - 1 \in Int  BY <2>1 DEF BitsBien
      <3> QED  BY <1>2, <3>1
    <2>4. \A m \in Nodos : bitmap'[m] = IF m = n THEN bitmap[n] \cup {k} ELSE bitmap[m]
      BY <1>2, <2>1 DEF BitsBien
    <2>5. \A m \in Nodos : \A j \in bitmap'[m] : j < Capacidad[m] + MaxDeriva
      BY <1>2, <2>1, <2>4 DEF BitsBien
    <2> QED  BY <2>2, <2>3, <2>5 DEF BitsBien
  <1>7. EstadoDN' \in EstadosDN
    <2>1. PICK d \in leidos : e \in IF d.ok THEN Manda(d.s, n, k, d.dato) ELSE {d}  BY <1>2
    <2>2. EstadoDN \in EstadosDN  BY DEF Invariante
    <2>3. o.nodo \in Nodos /\ o.num \in Int  BY <1>1 DEF Fuente, Bloque, Ubicacion
    <2>4. d.s \in EstadosDN /\ (d.ok => d.dato \in Dato)
      <3>1. CASE o.nodo \in socket
        <4>1. d \in Lee(EstadoDN, o.nodo, o.num)  BY <2>1, <3>1
        <4> HIDE DEF o, leidos
        <4> QED  BY <2>2, <2>3, <4>1, LeeEs
      <3>2. CASE o.nodo \notin socket
        <4>1. d = [s |-> EstadoDN, ok |-> FALSE, dato |-> Basura]  BY <2>1, <3>2
        <4>2. d.s = EstadoDN /\ ~ d.ok  BY <4>1
        <4> QED  BY <2>2, <4>2
      <3> QED  BY <3>1, <3>2
    <2>5. e.s \in EstadosDN
      <3>1. CASE d.ok
        <4>1. e \in Manda(d.s, n, k, d.dato)  BY <2>1, <3>1
        <4> QED  BY <1>4, <2>4, <3>1, <4>1, MandaEs
      <3>2. CASE ~ d.ok
        <4>1. e = d  BY <2>1, <3>2
        <4> QED  BY <2>4, <4>1
      <3> QED  BY <3>1, <3>2
    <2> QED  BY <1>2, <2>5, NuevoDNEs
  <1> QED  BY <1>1, <1>2, <1>4, <1>5, <1>6, <1>7

LEMMA CpblockBien ==
  ASSUME Invariante, NEW r \in DOMAIN archivos, NEW i \in DOMAIN archivos[r], NEW n \in Nodos,
         cpblock(r, i, n)
  PROVE  Invariante'
  <1> DEFINE b == archivos[r][i]
  <1>1. UNCHANGED <<fs, op, nombres, socket, puntero, muertes>>  BY DEF cpblock
  <1>2. PICK k, e : Copia(r, i, n, k, e)  BY CopiaHay
  <1>3. /\ b \in Buenos /\ k \in Nat /\ Ubi(n, k) \in Ubicacion
        /\ EstadoDN' \in EstadosDN /\ BitsBien(bitmap', libres')
        /\ CambiaBloque(r, i, ConCopia(b, Ubi(n, k))) \/ UNCHANGED archivos
    BY <1>2, CopiaEs
  <1>4. ArchivosBien' /\ DOMAIN archivos' = DOMAIN archivos
    <2>1. CASE UNCHANGED archivos  BY <2>1, Igual DEF Invariante
    <2>2. CASE CambiaBloque(r, i, ConCopia(b, Ubi(n, k)))
      <3>1. Ubi(n, k).num >= 0  BY <1>3 DEF Ubi
      <3>2. ConCopia(b, Ubi(n, k)) \in Buenos /\ ConCopia(b, Ubi(n, k)).dato = b.dato
        BY <1>3, <3>1, ConCopiaEs
      <3> QED  BY <2>2, <3>2, CambiaBien DEF Invariante
    <2> QED  BY <1>3, <2>1, <2>2
  <1>5. OpBien'  BY <1>1, <1>4, Igual DEF Invariante
  <1> QED  BY <1>1, <1>3, <1>4, <1>5, Igual DEF Invariante

LEMMA AgregaNodo ==
  ASSUME NEW S, NEW s \in Seq(S), NEW n \in S, IsInjective(s), n \notin Range(s)
  PROVE  /\ Append(s, n) \in Seq(S) /\ IsInjective(Append(s, n)) /\ Append(s, n) # <<>>
         /\ Len(Append(s, n)) = Len(s) + 1 /\ Range(Append(s, n)) = Range(s) \cup {n}
         /\ \A j \in 1..Len(s) : Append(s, n)[j] = s[j]
  <1> DEFINE t == Append(s, n)
             l == Len(s)
  <1>1. /\ l \in Nat /\ DOMAIN s = 1..l /\ t \in Seq(S) /\ Len(t) = l + 1 /\ DOMAIN t = 1..(l + 1)
        /\ t[l + 1] = n /\ \A j \in 1..l : t[j] = s[j]
    OBVIOUS
  <1> HIDE DEF t, l
  <1>2. \A j \in 1..(l + 1) : j \in 1..l \/ j = l + 1  BY <1>1
  <1>3. \A j \in 1..l : s[j] # n /\ j \in 1..(l + 1)  BY <1>1 DEF Range
  <1>a. l + 1 \in 1..(l + 1)  BY <1>1
  <1>4. IsInjective(t)
    <2> SUFFICES ASSUME NEW a \in 1..(l + 1), NEW b \in 1..(l + 1), t[a] = t[b] PROVE a = b
      BY <1>1 DEF IsInjective
    <2>1. CASE a \in 1..l /\ b \in 1..l  BY <1>1, <2>1 DEF IsInjective
    <2>2. CASE a = l + 1 /\ b \in 1..l  BY <1>1, <1>3, <2>2
    <2>3. CASE a \in 1..l /\ b = l + 1  BY <1>1, <1>3, <2>3
    <2> QED  BY <1>2, <2>1, <2>2, <2>3
  <1>5. Range(t) = Range(s) \cup {n}
    <2>1. ASSUME NEW x \in Range(t) PROVE x \in Range(s) \cup {n}  BY <1>1, <1>2, <2>1 DEF Range
    <2>2. ASSUME NEW x \in Range(s) PROVE x \in Range(t)  BY <1>1, <1>3, <2>2 DEF Range
    <2>3. n \in Range(t)  BY <1>1, <1>a DEF Range
    <2> QED  BY <2>1, <2>2, <2>3
  <1>6. t # <<>>
    <2>1. Len(<<>>) = 0  OBVIOUS
    <2> QED  BY <1>1, <2>1
  <1> QED  BY <1>1, <1>4, <1>5, <1>6 DEF t, l

\* What asociarNodo makes of the names and the counters.
LEMMA AsociaEs ==
  ASSUME Invariante, NEW n \in Nodos, asociarNodo(n)
  PROVE  /\ nombres' \in Seq(Nodos) /\ IsInjective(nombres') /\ nombres' # <<>>
         /\ Range(nombres') = Range(nombres) \cup {n} /\ NodosBien' /\ BitsBien(bitmap', libres')
         /\ EstadoDN' \in EstadosDN
         /\ n \notin Range(nombres) => nombres' = Append(nombres, n)
         /\ n \in Range(nombres) => UNCHANGED <<nombres, libres>>
         /\ libres' = [libres EXCEPT ![n] =
                         IF n \in Range(nombres) THEN @
                         ELSE IF HayPrueba /\ HayEspacio(1, [libres EXCEPT ![n] = Capacidad[n]],
                                                         socket \cup {n})
                              THEN Capacidad[n] ELSE Capacidad[n] + 2]
  <1> DEFINE nuevo == n \notin Range(nombres)
             L == IF nuevo THEN [libres EXCEPT ![n] = Capacidad[n]] ELSE libres
             probada == HayPrueba /\ HayEspacio(1, L, socket \cup {n})
  <1>1. /\ nombres' = IF nuevo THEN Append(nombres, n) ELSE nombres
        /\ libres' = IF nuevo /\ ~probada THEN [L EXCEPT ![n] = @ + 2] ELSE L
        /\ prueba' = [prueba EXCEPT ![n] = PruebaTras(probada)]
        /\ puntero' = IF ~probada THEN puntero
                      ELSE ((CHOOSE p \in DOMAIN nombres' : nombres'[p] = n) % Len(nombres')) + 1
        /\ socket' = socket \cup {n} /\ vivos' = vivos \cup {n}
        /\ sobra' = [sobra EXCEPT ![n] = <<>>] /\ UNCHANGED <<bitmap, disco>>
    BY DEF asociarNodo
  <1>2. /\ nombres \in Seq(Nodos) /\ IsInjective(nombres) /\ socket \subseteq Range(nombres)
        /\ puntero \in 1..(IF nombres = <<>> THEN 1 ELSE Len(nombres))
        /\ bitmap \in [Nodos -> SUBSET Nat] /\ libres \in [Nodos -> Int]
    BY DEF Invariante, NodosBien, BitsBien
  <1>3. Capacidad[n] \in Nat  BY SupuestoBloques
  <1>4. /\ nombres' \in Seq(Nodos) /\ IsInjective(nombres') /\ nombres' # <<>>
        /\ Range(nombres') = Range(nombres) \cup {n}
    <2>1. CASE nuevo  BY <1>1, <1>2, <2>1, AgregaNodo
    <2>2. CASE ~ nuevo
      <3>1. nombres # <<>>  BY <2>2, SinNodos DEF Range
      <3> QED  BY <1>1, <1>2, <2>2, <3>1
    <2> QED  BY <2>1, <2>2
  <1>5. Len(nombres') \in Nat \ {0} /\ DOMAIN nombres' = 1..Len(nombres')  BY <1>4
  <1>6. puntero' \in 1..Len(nombres')
    <2>1. CASE probada
      <3> DEFINE p == CHOOSE q \in DOMAIN nombres' : nombres'[q] = n
      <3>1. \E q \in DOMAIN nombres' : nombres'[q] = n  BY <1>4 DEF Range
      <3>2. p \in DOMAIN nombres'  BY <3>1
      <3> HIDE DEF p
      <3>3. p \in Nat  BY <1>5, <3>2
      <3>4. (p % Len(nombres')) + 1 \in 1..Len(nombres')
        <4> DEFINE l == Len(nombres')
        <4>1. l \in Nat \ {0}  BY <1>5
        <4> HIDE DEF l
        <4>2. p % l \in 0..(l - 1)  BY <3>3, <4>1
        <4>3. (p % l) + 1 \in 1..l  BY <4>1, <4>2
        <4> QED  BY <4>3 DEF l
      <3> QED  BY <1>1, <2>1, <3>4 DEF p
    <2>2. CASE ~ probada
      <3>1. puntero' = puntero  BY <1>1, <2>2
      <3>2. CASE nuevo
        <4>1. Len(nombres') = Len(nombres) + 1 /\ Len(nombres) \in Nat  BY <1>1, <1>2, <3>2, AgregaNodo
        <4>2. nombres = <<>> => Len(nombres) = 0  OBVIOUS
        <4> QED  BY <1>2, <3>1, <4>1, <4>2
      <3>3. CASE ~ nuevo
        <4>1. nombres' = nombres  BY <1>1, <3>3
        <4> QED  BY <1>2, <1>4, <3>1, <4>1
      <3> QED  BY <3>2, <3>3
    <2> QED  BY <2>1, <2>2
  <1>7. NodosBien'
    <2>1. socket' \subseteq Range(nombres')  BY <1>1, <1>2, <1>4
    <2> QED  BY <1>4, <1>6, <2>1 DEF NodosBien
  <1>8. libres' = [libres EXCEPT ![n] =
                     IF n \in Range(nombres) THEN @
                     ELSE IF HayPrueba /\ HayEspacio(1, [libres EXCEPT ![n] = Capacidad[n]],
                                                     socket \cup {n})
                          THEN Capacidad[n] ELSE Capacidad[n] + 2]
    <2>1. CASE ~ nuevo  BY <1>1, <1>2, <2>1
    <2>2. CASE nuevo
      <3>1. L = [libres EXCEPT ![n] = Capacidad[n]]  BY <2>2
      <3> DEFINE hay == HayEspacio(1, [libres EXCEPT ![n] = Capacidad[n]], socket \cup {n})
      <3>2. libres' = IF HayPrueba /\ hay THEN [libres EXCEPT ![n] = Capacidad[n]]
                      ELSE [[libres EXCEPT ![n] = Capacidad[n]] EXCEPT ![n] = @ + 2]
        BY <1>1, <2>2, <3>1
      <3> HIDE DEF hay
      <3>3. libres' = IF HayPrueba /\ hay THEN [libres EXCEPT ![n] = Capacidad[n]]
                      ELSE [libres EXCEPT ![n] = Capacidad[n] + 2]
        BY <1>2, <3>2
      <3> QED  BY <2>2, <3>3 DEF hay
    <2> QED  BY <2>1, <2>2
  <1>9. BitsBien(bitmap', libres')
    <2>1. libres' \in [Nodos -> Int]  BY <1>1, <1>2, <1>3
    <2> QED  BY <1>1, <2>1 DEF Invariante, BitsBien
  <1>10. EstadoDN' \in EstadosDN
    <2>1. PruebaTras(probada) \in 0..2  BY DEF PruebaTras
    <2>2. vivos \in SUBSET Nodos /\ disco \in Discos /\ prueba \in [Nodos -> 0..2]
          /\ sobra \in [Nodos -> Seq({"ok", "resto"})]
      BY EstadoSon DEF Invariante
    <2>3. prueba' \in [Nodos -> 0..2]
      <3> HIDE DEF probada
      <3> QED  BY <1>1, <2>1, <2>2
    <2>4. <<>> \in Seq({"ok", "resto"})  OBVIOUS
    <2>5. sobra' \in [Nodos -> Seq({"ok", "resto"})]  BY <1>1, <2>2, <2>4
    <2> QED  BY <1>1, <2>2, <2>3, <2>5, EstadoSonDespues
  <1>11. (nuevo => nombres' = Append(nombres, n)) /\ (~ nuevo => UNCHANGED <<nombres, libres>>)
    BY <1>1
  <1> QED  BY <1>4, <1>7, <1>8, <1>9, <1>10, <1>11

LEMMA AsociarBien == ASSUME Invariante, NEW n \in Nodos, asociarNodo(n) PROVE Invariante'
  <1>1. NodosBien' /\ BitsBien(bitmap', libres') /\ EstadoDN' \in EstadosDN  BY AsociaEs
  <1>2. UNCHANGED <<fs, op, archivos, muertes>>  BY DEF asociarNodo
  <1> QED  BY <1>1, <1>2, Igual DEF Invariante

LEMMA ClienteBien == ASSUME Invariante, NEW n \in Nodos, manejarCliente(n) PROVE Invariante'
  <1>1. /\ sobra[n] # <<>> /\ sobra' = [sobra EXCEPT ![n] = Tail(@)]
        /\ UNCHANGED <<fs, op, nombres, socket, bitmap, libres, archivos, puntero,
                       vivos, disco, prueba, muertes>>
    BY DEF manejarCliente, varsFS
  <1>2. EstadoDN' \in EstadosDN
    <2>1. vivos \in SUBSET Nodos /\ disco \in Discos /\ prueba \in [Nodos -> 0..2]
          /\ sobra \in [Nodos -> Seq({"ok", "resto"})]
      BY EstadoSon DEF Invariante
    <2>2. Tail(sobra[n]) \in Seq({"ok", "resto"})  BY <1>1, <2>1
    <2> QED  BY <1>1, <2>1, <2>2, EstadoSonDespues
  <1> QED  BY <1>1, <1>2, Igual DEF Invariante

LEMMA MarcarBien ==
  ASSUME Invariante, NEW n \in Nodos, marcarNodoDesconectado(n)
  PROVE  Invariante'
  <1>1. /\ socket' = socket \ {n}
        /\ UNCHANGED <<fs, op, nombres, bitmap, libres, archivos, puntero,
                       vivos, disco, prueba, sobra, muertes>>
    BY DEF marcarNodoDesconectado, varsDN
  <1>2. NodosBien'  BY <1>1 DEF Invariante, NodosBien
  <1> QED  BY <1>1, <1>2, Igual DEF Invariante

LEMMA MuereBien == ASSUME Invariante, NEW n \in Nodos, DataNodeMuere(n) PROVE Invariante'
  <1>1. /\ muertes < Muertes /\ vivos' = vivos \ {n} /\ muertes' = muertes + 1
        /\ UNCHANGED <<fs, op, nombres, socket, bitmap, libres, archivos, puntero,
                       disco, prueba, sobra>>
    BY DEF DataNodeMuere, varsFS
  <1>2. EstadoDN' \in EstadosDN  BY <1>1, EstadoSon, EstadoSonDespues DEF Invariante
  <1>3. muertes' \in 0..Muertes
    <2>1. Muertes \in Nat  BY SupuestoBloques
    <2> QED  BY <1>1, <2>1 DEF Invariante
  <1> QED  BY <1>1, <1>2, <1>3, Igual DEF Invariante

LEMMA CaeHay ==
  /\ enviarBloqueCae => CaeFS
  /\ \A r, i, n : cpblockCae(r, i, n) => CaeFS
  BY DEF enviarBloqueCae, cpblockCae

LEMMA PasoBien == ASSUME Invariante, [Next]_vars PROVE Invariante'
  <1>1. CASE UNCHANGED vars
    <2>1. UNCHANGED <<fs, op, nombres, socket, bitmap, libres, archivos, puntero,
                      vivos, disco, prueba, sobra, muertes>>
      BY <1>1 DEF vars, varsFS, varsDN
    <2> QED  BY <2>1, Igual DEF Invariante
  <1>2. ASSUME NEW r \in Rutas, NEW t \in Textos, cpfromBinary(r, t) PROVE Invariante'
    <2>1. "consola" \in Hilos /\ Empieza(r, t, "consola", Pedidos(t))  BY <1>2 DEF cpfromBinary
    <2> QED  BY <2>1, EmpiezaBien
  <1>3. ASSUME NEW r \in Rutas, NEW t \in Textos, NEW h \in Hilos, cpfrom(r, t, h)
        PROVE  Invariante'
    <2>1. Empieza(r, t, h, Trozos(t))  BY <1>3 DEF cpfrom
    <2> QED  BY <2>1, EmpiezaBien
  <1>4. CASE enviarBloque  BY <1>4, EnviarBien
  <1>5. CASE enviarBloqueCae  BY <1>5, CaeHay, CaeBien
  <1>6. CASE registrarArchivo  BY <1>6, RegistrarBien
  <1>7. CASE \E r \in Rutas : rmArchivo(r)  BY <1>7, RmArchivoBien
  <1>8. CASE formatFileSystem  BY <1>8, FormatBien
  <1>9. ASSUME NEW r \in DOMAIN archivos, NEW i \in DOMAIN archivos[r],
               \/ \E c \in 0..(MaxOtras + 2) : rmBloque(r, i, c)
               \/ \E n \in Nodos : cpblock(r, i, n) \/ cpblockCae(r, i, n)
        PROVE  Invariante'
    BY <1>9, RmBloqueBien, CpblockBien, CaeHay, CaeBien
  <1>10. ASSUME NEW n \in Nodos, \/ asociarNodo(n) \/ manejarCliente(n)
                                \/ marcarNodoDesconectado(n) \/ DataNodeMuere(n)
         PROVE  Invariante'
    BY <1>10, AsociarBien, ClienteBien, MarcarBien, MuereBien
  <1> QED  BY <1>1, <1>2, <1>3, <1>4, <1>5, <1>6, <1>7, <1>8, <1>9, <1>10 DEF Next

LEMMA SiempreBien == Spec => []Invariante
  <1> QED  BY InicioBien, PasoBien, PTL DEF Spec

\* A block of a registered file, or of the one that is being stored, is one that rm -b and
\* cpblock keep.
LEMMA GuardadosSon ==
  ASSUME Invariante, NEW b \in Guardados
  PROVE  b \in Buenos /\ b \in Bloque
  <1>1. CASE b \in UNION {Range(archivos[r]) : r \in DOMAIN archivos}
    <2>1. PICK r \in DOMAIN archivos : b \in Range(archivos[r])  BY <1>1
    <2>2. PICK i \in DOMAIN archivos[r] : b = archivos[r][i]  BY <2>1 DEF Range
    <2>3. BloquesDe(r, archivos[r])  BY DEF Invariante, ArchivosBien
    <2> QED  BY <2>2, <2>3, BloqueDe
  <1>2. CASE b \in Range(EnCurso)
    <2>1. op # Nulo
      <3>1. op = Nulo => Range(EnCurso) = {}  BY SinNodos DEF EnCurso, Range
      <3> QED  BY <1>2, <3>1
    <2>2. PICK i \in DOMAIN op.hechos : b = op.hechos[i]  BY <1>2, <2>1 DEF EnCurso, Range
    <2>3. BloquesDe(op.ruta, op.hechos)  BY <2>1 DEF Invariante, OpBien
    <2> QED  BY <2>2, <2>3, BloqueDe
  <1> QED  BY <1>1, <1>2 DEF Guardados

LEMMA InvarianteTipos == Invariante => TypeOKFS
  <1> SUFFICES ASSUME Invariante PROVE TypeOKFS  OBVIOUS
  <1>1. op = Nulo \/ /\ op.ruta \in Rutas /\ op.hilo \in Hilos
                     /\ op.faltan \in Nat /\ Range(op.hechos) \subseteq Bloque
    BY DEF Invariante, OpBien, Operacion, Range
  <1>2. /\ Range(nombres) \subseteq Nodos /\ IsInjective(nombres) /\ socket \subseteq Range(nombres)
        /\ puntero \in 1..(IF nombres = <<>> THEN 1 ELSE Len(nombres))
    BY DEF Invariante, NodosBien, Range
  <1>3. (\A n \in Nodos : bitmap[n] \subseteq 0..(Capacidad[n] + MaxDeriva - 1)) /\ libres \in [Nodos -> Int]
    BY BitsFinitos DEF Invariante, BitsBien
  <1>4. DOMAIN archivos \subseteq Rutas /\ \A r \in DOMAIN archivos : Range(archivos[r]) \subseteq Bloque
    BY HechosBien DEF Invariante, ArchivosBien, Range
  <1>5. /\ vivos \in SUBSET Nodos /\ disco \in Discos /\ prueba \in [Nodos -> 0..2]
        /\ sobra \in [Nodos -> Seq({"ok", "resto"})]
    BY EstadoSon DEF Invariante
  <1>6. \A n \in Nodos : \A k \in DOMAIN disco[n] : disco[n][k] \in Dato
    <2> TAKE n \in Nodos
    <2>1. disco[n] \in [0..(Capacidad[n] - 1) -> Dato]  BY <1>5, DiscosSon
    <2> QED  BY <2>1
  <1>7. \A n \in Nodos : Range(sobra[n]) \subseteq {"ok", "resto"}
    <2> TAKE n \in Nodos
    <2>1. sobra[n] \in Seq({"ok", "resto"})  BY <1>5
    <2> QED  BY <2>1 DEF Range
  <1> QED  BY <1>1, <1>2, <1>3, <1>4, <1>5, <1>6, <1>7 DEF Invariante, TypeOKFS

\* Types, of every state of the FileSystem and its DataNodes: among them that the hand of the
\* clock is on a node, that no name is registered twice, and that only registered nodes have
\* a socket.
THEOREM BloquesConTipo == Spec => []TypeOKFS
  <1> QED  BY SiempreBien, InvarianteTipos, PTL

\* A registered file has as many blocks as its text makes, each in its place: no store that
\* failed, and no command that runs meanwhile, leaves part of one.
THEOREM SiempreEnteros == Spec => []ArchivoEntero
  <1>1. Invariante => ArchivoEntero
    <2> SUFFICES ASSUME Invariante, NEW r \in DOMAIN archivos
                 PROVE  /\ \E t \in Textos : Len(archivos[r]) \in {Trozos(t), Pedidos(t)}
                        /\ \A i \in DOMAIN archivos[r] : archivos[r][i].dato = <<r, i>>
      BY DEF ArchivoEntero
    <2>1. BloquesDe(r, archivos[r]) /\ Len(archivos[r]) \in Largos  BY DEF Invariante, ArchivosBien
    <2>2. \E t \in Textos : Len(archivos[r]) \in {Trozos(t), Pedidos(t)}  BY <2>1 DEF Largos
    <2> QED  BY <2>1, <2>2, BloqueDe
  <1> QED  BY <1>1, SiempreBien, PTL

-----------------------------------------------------------------------------
(* The copies apart                                                        *)

\* Both copies go to one node: going round from the one after it, no other could take it.
LEMMA MismoNodo ==
  ASSUME nombres \in Seq(Nodos), IsInjective(nombres), libres \in [Nodos -> Int],
         puntero \in 1..(IF nombres = <<>> THEN 1 ELSE Len(nombres)),
         NEW u \in Ubicaciones, nombres[u[1]] = nombres[u[2]],
         NEW n \in socket, n \in Range(nombres), n # nombres[u[1]]
  PROVE  libres[n] <= 0
  <1> DEFINE l == Len(nombres)
             p == u[1]
             q == u[2]
             L == [libres EXCEPT ![nombres[p]] = @ - 1]
  <1>1. /\ p \in 1..l /\ q \in 1..l /\ q \in Elegible(Tras(p), L)
    BY UbicacionesEs
  <1>2. l \in Nat /\ DOMAIN nombres = 1..l  OBVIOUS
  <1> HIDE DEF l, p, q, L
  <1>3. p = q  BY <1>1, <1>2 DEF IsInjective, p, q
  <1>4. PICK j \in 1..l : nombres[j] = n  BY <1>2 DEF Range
  <1>5. j # p  BY <1>4 DEF p
  <1>6. Tras(p) \in 1..l /\ Tras(p) = IF p = l THEN 1 ELSE p + 1  BY <1>1, TrasEs DEF l
  <1>7. PICK k \in 0..(l - 1) : Vuelta(Tras(p), k) = p /\ \A m \in 0..(k - 1) : ~ Sirve(Tras(p), L, m)
    BY <1>1, <1>3, <1>6, ElegibleEs DEF l
  <1>8. PICK i \in 0..(l - 1) : Vuelta(Tras(p), i) = j  BY <1>4, <1>6, VueltaLlega DEF l
  <1>9. /\ p = IF Tras(p) + k <= l THEN Tras(p) + k ELSE Tras(p) + k - l
        /\ j = IF Tras(p) + i <= l THEN Tras(p) + i ELSE Tras(p) + i - l
    BY <1>6, <1>7, <1>8, VueltaEs DEF l
  <1>10. i \in 0..(k - 1)
    <2> DEFINE s == Tras(p)
    <2>1. s \in 1..l /\ (s = IF p = l THEN 1 ELSE p + 1) /\ p \in 1..l /\ j \in 1..l /\ l \in Nat
      BY <1>1, <1>2, <1>4, <1>6
    <2>2. (p = IF s + k <= l THEN s + k ELSE s + k - l) /\ (j = IF s + i <= l THEN s + i ELSE s + i - l)
      BY <1>9
    <2> HIDE DEF s
    <2>3. k = l - 1
      <3>1. CASE p = l  BY <2>1, <2>2, <3>1
      <3>2. CASE p # l  BY <2>1, <2>2, <3>2
      <3> QED  BY <3>1, <3>2
    <2>4. i # k  BY <1>5, <2>2
    <2> QED  BY <1>2, <2>3, <2>4
  <1>11. ~ (L[nombres[j]] > 0)  BY <1>4, <1>7, <1>8, <1>10 DEF Sirve
  <1>12. L[n] = libres[n] /\ n \in Nodos
    <2>1. n \in Nodos /\ n # nombres[p]  BY <1>4 DEF l, p
    <2> QED  BY <2>1 DEF L
  <1>13. libres[n] \in Int  BY <1>12
  <1> QED  BY <1>4, <1>11, <1>12, <1>13

\* Only enviarBloque makes blocks.
LEMMA QuienAgrega ==
  ASSUME [Next]_vars
  PROVE  enviarBloque \/ op' = op \/ op' = Nulo \/ op'.hechos = <<>>
  <1>1. CASE UNCHANGED vars  BY <1>1 DEF vars, varsFS
  <1>2. ASSUME NEW r, NEW t, NEW h, NEW k, Empieza(r, t, h, k) PROVE op'.hechos = <<>>
    BY <1>2 DEF Empieza
  <1>3. CASE enviarBloqueCae \/ registrarArchivo \/ formatFileSystem
    BY <1>3 DEF enviarBloqueCae, registrarArchivo, formatFileSystem, CaeFS
  <1>4. ASSUME NEW r, rmArchivo(r) PROVE op' = op  BY <1>4 DEF rmArchivo
  <1>5. ASSUME NEW r, NEW i, NEW c, rmBloque(r, i, c) PROVE op' = op \/ op' = Nulo
    BY <1>5 DEF rmBloque, CaeFS
  <1>6. ASSUME NEW r, NEW i, NEW n, cpblock(r, i, n) \/ cpblockCae(r, i, n) PROVE op' = op \/ op' = Nulo
    BY <1>6 DEF cpblock, cpblockCae, CaeFS
  <1>7. ASSUME NEW n, asociarNodo(n) \/ manejarCliente(n) \/ marcarNodoDesconectado(n) \/ DataNodeMuere(n)
        PROVE  op' = op
    BY <1>7 DEF asociarNodo, manejarCliente, marcarNodoDesconectado, DataNodeMuere, varsFS
  <1> QED  BY <1>1, <1>2, <1>3, <1>4, <1>5, <1>6, <1>7 DEF Next, cpfrom, cpfromBinary

\* The two copies of a block that is stored are on one node only if no other connected node
\* had a free block when _calcularUbicacionBloque looked.
THEOREM SiempreAparte == Spec => CopiasAparte
  <1> DEFINE Nuevos == Range(IF op' = Nulo THEN <<>> ELSE op'.hechos) \ Range(EnCurso)
             Aparte == \A b \in Nuevos :
                         b.c0.nodo = b.c1.nodo =>
                           \A n \in socket \ {b.c0.nodo} : n \in Range(nombres) => libres[n] <= 0
  <1>1. Invariante /\ [Next]_vars => Aparte
    <2> SUFFICES ASSUME Invariante, [Next]_vars, NEW b \in Nuevos, b.c0.nodo = b.c1.nodo,
                        NEW n \in socket \ {b.c0.nodo}, n \in Range(nombres)
                 PROVE  libres[n] <= 0
      OBVIOUS
    <2>1. op' # Nulo /\ b \in Range(op'.hechos) /\ b \notin Range(EnCurso)
      <3>1. Range(<<>>) = {}  BY SinNodos DEF Range
      <3> QED  BY <3>1
    <2>2. enviarBloque
      <3>1. op' # op  BY <2>1 DEF EnCurso
      <3>2. op'.hechos # <<>>  BY <2>1, SinNodos DEF Range
      <3> QED  BY <2>1, <3>1, <3>2, QuienAgrega
    <2>3. op # Nulo /\ op.faltan > 0  BY <2>2 DEF enviarBloque
    <2>4. PICK u \in Ubicaciones : \E k0, k1, e : Envio(u[1], u[2], k0, k1, e)  BY <2>2, EnvioHay
    <2>5. PICK k0, k1, e : Envio(u[1], u[2], k0, k1, e)  BY <2>4
    <2> DEFINE c == Recien(nombres[u[1]], k0, nombres[u[2]], k1)
    <2>6. op' = [op EXCEPT !.faltan = @ - 1, !.hechos = Append(@, c)] /\ c \in Buenos
      BY <2>1, <2>3, <2>5, EnvioEs
    <2>7. op \in Operacion /\ BloquesDe(op.ruta, op.hechos)  BY <2>3 DEF Invariante, OpBien
    <2>8. c.dato = <<op.ruta, Len(op.hechos) + 1>>  BY DEF Recien
    <2>9. c.c0.nodo = nombres[u[1]] /\ c.c1.nodo = nombres[u[2]]  BY DEF Recien, Ubi
    <2> HIDE DEF c
    <2>10. b = c
      <3> DEFINE t == Append(op.hechos, c)
      <3>1. Len(op.hechos) \in Nat /\ DOMAIN t = 1..(Len(op.hechos) + 1)
            /\ \A i \in 1..(Len(op.hechos) + 1) : t[i] = IF i = Len(op.hechos) + 1 THEN c ELSE op.hechos[i]
        BY <2>6, <2>7, <2>8, AgregaBloque
      <3>2. op'.hechos = t  BY <2>6, <2>7 DEF Operacion
      <3> HIDE DEF t
      <3>3. PICK i \in 1..(Len(op.hechos) + 1) : b = t[i]  BY <2>1, <3>1, <3>2 DEF Range
      <3>4. CASE i = Len(op.hechos) + 1  BY <3>1, <3>3, <3>4
      <3>5. CASE i # Len(op.hechos) + 1
        <4>1. i \in 1..Len(op.hechos) /\ b = op.hechos[i]  BY <3>1, <3>3, <3>5
        <4>2. DOMAIN op.hechos = 1..Len(op.hechos)  BY <2>7 DEF BloquesDe
        <4>3. b \in Range(EnCurso)  BY <2>3, <4>1, <4>2 DEF EnCurso, Range
        <4> QED  BY <2>1, <4>3
      <3> QED  BY <3>4, <3>5
    <2>11. nombres[u[1]] = nombres[u[2]] /\ n # nombres[u[1]]  BY <2>9, <2>10
    <2> QED  BY <2>11, MismoNodo DEF Invariante, NodosBien, BitsBien
  <1>2. Spec => [][Aparte]_vars  BY <1>1, SiempreBien, PTL DEF Spec
  <1> QED  BY <1>2 DEF CopiasAparte

-----------------------------------------------------------------------------
(* Nobody shares a block                                                   *)

\* Freeing takes the mutex, or nobody stores while the console frees.
SinCarreras == "servidor" \notin Hilos \/ Comandos \subseteq {"cpblock"}

\* No two copies at one place, and every place is set in its bitmap.
Sitios(G, M) ==
  /\ \A b \in G : SinRepetir(b)
  /\ \A b, c \in G : b # c => Lugares(b) \cap Lugares(c) = {}
  /\ \A b \in G : \A u \in Lugares(b) : u.num \in M[u.nodo]

LEMMA LugarEs ==
  ASSUME NEW b, NEW u \in Lugares(b)
  PROVE  u \in Ubicacion /\ u.nodo \in Nodos /\ u.num \in Nat /\ u = Ubi(u.nodo, u.num)
  BY DEF Lugares, Ubicacion, Ubi

\* What is freed is what blocks B hold.
LEMMA NumerosSon ==
  ASSUME NEW B \in Seq(Bloque), NEW n \in Nodos, NEW k
  PROVE  k \in Numeros(B, n) <=> \E i \in DOMAIN B : Ubi(n, k) \in Lugares(B[i])
  <1>1. ASSUME k \in Numeros(B, n) PROVE \E i \in DOMAIN B : Ubi(n, k) \in Lugares(B[i])
    <2>1. PICK u \in Usos(B, n) : k = Copias(B[u[1]])[u[2]].num  BY <1>1 DEF Numeros
    <2>2. PICK i \in DOMAIN B : u \in {i} \X DOMAIN Copias(B[i])  BY DEF Usos
    <2>3. u[1] = i /\ u[2] \in DOMAIN Copias(B[i])  BY <2>2
    <2> DEFINE c == Copias(B[i])[u[2]]
    <2>4. c.nodo = n /\ c.num >= 0 /\ c.num = k  BY <2>1, <2>3 DEF Usos
    <2>5. c \in Ubicacion
      <3>1. B[i] \in Bloque  OBVIOUS
      <3>2. Copias(B[i]) \in Seq(Ubicacion)  BY <3>1, CopiasEs
      <3> QED  BY <2>3, <3>2
    <2>6. c \in Lugares(B[i])  BY <2>3, <2>4, <2>5 DEF Lugares
    <2>7. c = Ubi(n, k)  BY <2>4, <2>6, LugarEs
    <2> QED  BY <2>6, <2>7
  <1>2. ASSUME NEW i \in DOMAIN B, Ubi(n, k) \in Lugares(B[i]) PROVE k \in Numeros(B, n)
    <2>1. PICK j \in DOMAIN Copias(B[i]) : Copias(B[i])[j] = Ubi(n, k)  BY <1>2 DEF Lugares
    <2>2. Ubi(n, k).num >= 0  BY <1>2 DEF Lugares
    <2> DEFINE u == <<i, j>>
    <2>3. u[1] = i /\ u[2] = j /\ u \in {i} \X DOMAIN Copias(B[i])  OBVIOUS
    <2>a. u \in UNION {{m} \X DOMAIN Copias(B[m]) : m \in DOMAIN B}
      <3> HIDE DEF u
      <3> QED  BY <2>3
    <2> HIDE DEF u
    <2>4. Copias(B[u[1]])[u[2]].nodo = n /\ Copias(B[u[1]])[u[2]].num = k /\ k >= 0
      BY <2>1, <2>2, <2>3 DEF Ubi
    <2>5. u \in Usos(B, n)  BY <2>4, <2>a DEF Usos
    <2> QED  BY <2>4, <2>5 DEF Numeros
  <1> QED  BY <1>1, <1>2

\* The blocks that are kept, and where.
LEMMA GuardadosDonde ==
  ASSUME NEW b
  PROVE  b \in Guardados <=>
           \/ \E r \in DOMAIN archivos : \E i \in DOMAIN archivos[r] : b = archivos[r][i]
           \/ op # Nulo /\ \E i \in DOMAIN op.hechos : b = op.hechos[i]
  <1>1. Range(<<>>) = {}  BY SinNodos DEF Range
  <1>2. b \in Range(EnCurso) <=> op # Nulo /\ \E i \in DOMAIN op.hechos : b = op.hechos[i]
    <2>1. CASE op = Nulo  BY <1>1, <2>1 DEF EnCurso
    <2>2. CASE op # Nulo  BY <2>2 DEF EnCurso, Range
    <2> QED  BY <2>1, <2>2
  <1>3. b \in UNION {Range(archivos[r]) : r \in DOMAIN archivos} <=>
          \E r \in DOMAIN archivos : \E i \in DOMAIN archivos[r] : b = archivos[r][i]
    BY DEF Range
  <1> QED  BY <1>2, <1>3 DEF Guardados

LEMMA GuardadosDespues ==
  ASSUME NEW b
  PROVE  b \in Guardados' <=>
           \/ \E r \in DOMAIN archivos' : \E i \in DOMAIN archivos'[r] : b = archivos'[r][i]
           \/ op' # Nulo /\ \E i \in DOMAIN op'.hechos : b = op'.hechos[i]
  <1>1. Range(<<>>) = {}  BY SinNodos DEF Range
  <1>2. b \in Range(EnCurso)' <=> op' # Nulo /\ \E i \in DOMAIN op'.hechos : b = op'.hechos[i]
    <2>1. CASE op' = Nulo  BY <1>1, <2>1 DEF EnCurso
    <2>2. CASE op' # Nulo  BY <2>2 DEF EnCurso, Range
    <2> QED  BY <2>1, <2>2
  <1>3. b \in UNION {Range(archivos'[r]) : r \in DOMAIN archivos'} <=>
          \E r \in DOMAIN archivos' : \E i \in DOMAIN archivos'[r] : b = archivos'[r][i]
    BY DEF Range
  <1> QED  BY <1>2, <1>3 DEF Guardados

\* A block is where its data say.
LEMMA PorSuDato ==
  ASSUME Invariante
  PROVE  /\ \A r \in DOMAIN archivos : \A i \in DOMAIN archivos[r] :
              archivos[r][i].dato = <<r, i>> /\ archivos[r][i] \in Buenos /\ archivos[r][i] \in Bloque
         /\ op # Nulo => \A i \in DOMAIN op.hechos :
              /\ op.hechos[i].dato = <<op.ruta, i>> /\ op.hechos[i] \in Buenos
              /\ op.hechos[i] \in Bloque
         /\ op # Nulo => op.ruta \notin DOMAIN archivos
  <1>1. ASSUME NEW r \in DOMAIN archivos, NEW i \in DOMAIN archivos[r]
        PROVE  archivos[r][i].dato = <<r, i>> /\ archivos[r][i] \in Buenos /\ archivos[r][i] \in Bloque
    BY BloqueDe DEF Invariante, ArchivosBien
  <1>2. ASSUME op # Nulo, NEW i \in DOMAIN op.hechos
        PROVE  /\ op.hechos[i].dato = <<op.ruta, i>> /\ op.hechos[i] \in Buenos
               /\ op.hechos[i] \in Bloque
    BY <1>2, BloqueDe DEF Invariante, OpBien
  <1> QED  BY <1>1, <1>2 DEF Invariante, OpBien

LEMMA ConsolaSola ==
  ASSUME SinCarreras, Invariante, NEW c \in {"rm", "rm -b", "format"}, ConsolaLibre(c)
  PROVE  op = Nulo
  <1>1. "servidor" \notin Hilos  BY DEF SinCarreras, ConsolaLibre
  <1>2. op # Nulo => op.hilo \in Hilos /\ op.hilo = "servidor"
    BY DEF ConsolaLibre, Invariante, OpBien, Operacion
  <1> QED  BY <1>1, <1>2

LEMMA SitiosMenos ==
  ASSUME NEW G, NEW M, Sitios(G, M), NEW H \in SUBSET G, NEW N,
         \A b \in H : \A u \in Lugares(b) : u.num \in M[u.nodo] => u.num \in N[u.nodo]
  PROVE  Sitios(H, N)
  BY DEF Sitios

LEMMA SitiosMas ==
  ASSUME NEW G, NEW M, Sitios(G, M), NEW H \in SUBSET G, NEW N, NEW s, SinRepetir(s),
         \A b \in H : \A u \in Lugares(b) : u.num \in N[u.nodo] /\ u \notin Lugares(s),
         \A u \in Lugares(s) : u.num \in N[u.nodo]
  PROVE  Sitios(H \cup {s}, N)
  <1>1. \A b \in H \cup {s} : SinRepetir(b)  BY DEF Sitios
  <1>2. \A b \in H \cup {s} : \A u \in Lugares(b) : u.num \in N[u.nodo]  OBVIOUS
  <1>3. \A b, c \in H \cup {s} : b # c => Lugares(b) \cap Lugares(c) = {}
    <2> TAKE b, c \in H \cup {s}
    <2> HAVE b # c
    <2>1. CASE b \in H /\ c \in H  BY <2>1 DEF Sitios
    <2>2. CASE b = s /\ c \in H  BY <2>2
    <2>3. CASE c = s /\ b \in H  BY <2>3
    <2> QED  BY <2>1, <2>2, <2>3
  <1> QED  BY <1>1, <1>2, <1>3 DEF Sitios

\* Freeing blocks that are kept leaves the places of all others set.
LEMMA LibreSeguro ==
  ASSUME NEW G, NEW M, Sitios(G, M), NEW B \in Seq(Bloque), \A i \in DOMAIN B : B[i] \in G,
         NEW c \in G, \A i \in DOMAIN B : B[i] # c, NEW u \in Lugares(c)
  PROVE  u.num \notin Numeros(B, u.nodo) /\ u.num \in M[u.nodo] /\ u.nodo \in Nodos
  <1>1. u.nodo \in Nodos /\ u = Ubi(u.nodo, u.num)  BY LugarEs
  <1>2. \A i \in DOMAIN B : u \notin Lugares(B[i])  BY DEF Sitios
  <1> QED  BY <1>1, <1>2, NumerosSon DEF Sitios

SitiosBien == Sitios(Guardados, bitmap)

LEMMA SitiosInicio == Init => SitiosBien
  <1>1. Init => Guardados = {}
    <2> SUFFICES ASSUME Init, NEW b \in Guardados PROVE FALSE  OBVIOUS
    <2>1. DOMAIN archivos = {} /\ op = Nulo  BY SinNodos DEF Init
    <2> QED  BY <2>1, GuardadosDonde
  <1> QED  BY <1>1 DEF SitiosBien, Sitios

LEMMA SitiosCae == ASSUME CaeFS PROVE SitiosBien' /\ Guardados' = {}
  <1>1. DOMAIN archivos' = {} /\ op' = Nulo  BY SinNodos DEF CaeFS
  <1>2. Guardados' = {}
    <2> SUFFICES ASSUME NEW b \in Guardados' PROVE FALSE  OBVIOUS
    <2> QED  BY <1>1, GuardadosDespues
  <1> QED  BY <1>2 DEF SitiosBien, Sitios

\* Nothing moves.
LEMMA SitiosIgual ==
  ASSUME SitiosBien, UNCHANGED bitmap, \A b : b \in Guardados' => b \in Guardados
  PROVE  SitiosBien'
  <1>1. Guardados' \in SUBSET Guardados  OBVIOUS
  <1>2. Sitios(Guardados', bitmap)  BY <1>1, SitiosMenos DEF SitiosBien
  <1> QED  BY <1>2 DEF SitiosBien

\* The blocks that are kept when a file begins to be stored, when it is registered, and when
\* nothing is stored or removed.
LEMMA GuardaEmpieza ==
  ASSUME NEW r, NEW t, NEW h, NEW k, Empieza(r, t, h, k)
  PROVE  Guardados' = Guardados
  <1>1. op = Nulo /\ op'.hechos = <<>> /\ archivos' = archivos  BY DEF Empieza
  <1>2. \A b : b \in Guardados' <=> b \in Guardados
    <2> TAKE b
    <2>1. ~ \E i \in DOMAIN op'.hechos : b = op'.hechos[i]  BY <1>1, SinNodos
    <2> QED  BY <1>1, <2>1, GuardadosDonde, GuardadosDespues
  <1> QED  BY <1>2

LEMMA GuardaRegistrar ==
  ASSUME Invariante, registrarArchivo
  PROVE  Guardados' = Guardados
  <1>1. /\ op # Nulo /\ op' = Nulo
        /\ archivos' = [r \in DOMAIN archivos \cup {op.ruta} |->
                          IF r = op.ruta THEN op.hechos ELSE archivos[r]]
    BY DEF registrarArchivo
  <1>2. op.ruta \notin DOMAIN archivos  BY <1>1, PorSuDato
  <1>3. \A b : b \in Guardados' <=> b \in Guardados
    <2> TAKE b
    <2>1. (\E r \in DOMAIN archivos' : \E i \in DOMAIN archivos'[r] : b = archivos'[r][i]) <=>
            \/ \E r \in DOMAIN archivos : \E i \in DOMAIN archivos[r] : b = archivos[r][i]
            \/ \E i \in DOMAIN op.hechos : b = op.hechos[i]
      BY <1>1, <1>2
    <2>2. op # Nulo /\ op' = Nulo  BY <1>1
    <2> QED  BY <2>1, <2>2, GuardadosDonde, GuardadosDespues
  <1> QED  BY <1>3

LEMMA GuardaQuieto ==
  ASSUME UNCHANGED <<op, archivos>>
  PROVE  Guardados' = Guardados
  <1>1. \A d : d \in Guardados' <=> d \in Guardados  BY GuardadosDonde, GuardadosDespues
  <1> QED  BY <1>1

LEMMA SitiosEmpieza ==
  ASSUME SitiosBien, NEW r, NEW t, NEW h, NEW k, Empieza(r, t, h, k)
  PROVE  SitiosBien' /\ Guardados' = Guardados
  <1>1. bitmap' = bitmap  BY DEF Empieza
  <1> QED  BY <1>1, GuardaEmpieza, SitiosIgual

LEMMA SitiosRegistrar ==
  ASSUME Invariante, SitiosBien, registrarArchivo
  PROVE  SitiosBien' /\ Guardados' = Guardados
  <1>1. bitmap' = bitmap  BY DEF registrarArchivo
  <1> QED  BY <1>1, GuardaRegistrar, SitiosIgual

\* The blocks that are kept once a block was sent, whether it went well or not.
LEMMA EnvioGuarda ==
  ASSUME Invariante, enviarBloque, NEW u \in Ubicaciones,
         NEW k0, NEW k1, NEW e, Envio(u[1], u[2], k0, k1, e)
  PROVE  \/ e.ok /\ Guardados' = Guardados \cup {Recien(nombres[u[1]], k0, nombres[u[2]], k1)}
         \/ ~ e.ok /\ \A c \in Guardados' : c \in Guardados /\ \A i \in DOMAIN op.hechos : op.hechos[i] # c
  <1>1. op # Nulo /\ op.faltan > 0 /\ archivos' = archivos  BY DEF enviarBloque
  <1> DEFINE n0 == nombres[u[1]]
             n1 == nombres[u[2]]
             b  == Recien(n0, k0, n1, k1)
  <1>4. /\ b \in Buenos
        /\ \/ e.ok /\ op' = [op EXCEPT !.faltan = @ - 1, !.hechos = Append(@, b)]
           \/ ~ e.ok /\ op' = Nulo
    BY <1>1, EnvioEs
  <1>7. op \in Operacion /\ BloquesDe(op.ruta, op.hechos)  BY <1>1 DEF Invariante, OpBien
  <1>8. b.dato = <<op.ruta, Len(op.hechos) + 1>>  BY DEF Recien
  <1> HIDE DEF b, n0, n1
  <1>9. CASE e.ok /\ op' = [op EXCEPT !.faltan = @ - 1, !.hechos = Append(@, b)]
    <2> DEFINE t == Append(op.hechos, b)
    <2>1. /\ Len(op.hechos) \in Nat /\ DOMAIN t = 1..(Len(op.hechos) + 1)
          /\ \A i \in 1..(Len(op.hechos) + 1) : t[i] = IF i = Len(op.hechos) + 1 THEN b ELSE op.hechos[i]
      BY <1>4, <1>7, <1>8, AgregaBloque
    <2>2. DOMAIN op.hechos = 1..Len(op.hechos)  BY <1>7 DEF BloquesDe
    <2> HIDE DEF t
    <2>3. op'.hechos = t /\ op' # Nulo
      <3>1. op' = [op EXCEPT !.faltan = @ - 1, !.hechos = t]  BY <1>9 DEF t
      <3>2. op'.hechos = t  BY <1>7, <3>1 DEF Operacion
      <3>3. op' # Nulo
        <4>1. Invariante'  BY EnviarBien
        <4>2. op' = Nulo => op' \notin Operacion  BY SupuestoNulo
        <4>3. op.faltan - 1 \in Nat  BY <1>1, <1>7 DEF Operacion
        <4>4. t \in Seq(Bloque)
          <5>1. BloquesDe(op.ruta, t)  BY <1>4, <1>7, <1>8, AgregaBloque DEF t
          <5> QED  BY <5>1, BuenosSon DEF BloquesDe
        <4>5. op' \in Operacion  BY <1>7, <3>1, <4>3, <4>4 DEF Operacion
        <4> QED  BY <4>2, <4>5
      <3> QED  BY <3>2, <3>3
    <2>4. Guardados' = Guardados \cup {b}
      <3>1. \A c : (\E i \in DOMAIN t : c = t[i]) <=> c = b \/ \E i \in DOMAIN op.hechos : c = op.hechos[i]
        <4> TAKE c
        <4>1. ASSUME NEW i \in DOMAIN t, c = t[i] PROVE c = b \/ \E j \in DOMAIN op.hechos : c = op.hechos[j]
          <5>1. CASE i = Len(op.hechos) + 1  BY <2>1, <4>1, <5>1
          <5>2. CASE i # Len(op.hechos) + 1
            <6>1. i \in DOMAIN op.hechos  BY <2>1, <2>2, <5>2
            <6> QED  BY <2>1, <4>1, <5>2, <6>1
          <5> QED  BY <5>1, <5>2
        <4>2. ASSUME NEW j \in DOMAIN op.hechos PROVE j \in DOMAIN t /\ t[j] = op.hechos[j]
          BY <2>1, <2>2
        <4>3. Len(op.hechos) + 1 \in DOMAIN t /\ t[Len(op.hechos) + 1] = b  BY <2>1
        <4> QED  BY <4>1, <4>2, <4>3
      <3>2. \A c : c \in Guardados <=> \/ \E r \in DOMAIN archivos : \E i \in DOMAIN archivos[r] : c = archivos[r][i]
                                       \/ \E i \in DOMAIN op.hechos : c = op.hechos[i]
        BY <1>1, GuardadosDonde
      <3>3. \A c : c \in Guardados' <=> \/ \E r \in DOMAIN archivos : \E i \in DOMAIN archivos[r] : c = archivos[r][i]
                                        \/ \E i \in DOMAIN t : c = t[i]
        BY <1>1, <2>3, GuardadosDespues
      <3>4. \A c : c \in Guardados' <=> c \in Guardados \/ c = b  BY <3>1, <3>2, <3>3
      <3> QED  BY <3>4
    <2> QED  BY <1>9, <2>4 DEF b, n0, n1
  <1>10. CASE ~ e.ok /\ op' = Nulo
    <2> DEFINE B == op.hechos
    <2>3. ASSUME NEW c \in Guardados' PROVE c \in Guardados /\ \A i \in DOMAIN B : B[i] # c
      <3>1. PICK r \in DOMAIN archivos : \E i \in DOMAIN archivos[r] : c = archivos[r][i]
        BY <1>1, <1>10, <2>3, GuardadosDespues
      <3>2. PICK j \in DOMAIN archivos[r] : c = archivos[r][j]  BY <3>1
      <3>3. c.dato = <<r, j>>  BY <3>2, PorSuDato
      <3>4. \A i \in DOMAIN B : B[i].dato = <<op.ruta, i>>  BY <1>1, PorSuDato
      <3>5. r # op.ruta  BY <1>1, PorSuDato
      <3>6. \A i \in DOMAIN B : B[i] # c  BY <3>3, <3>4, <3>5
      <3> QED  BY <3>1, <3>6, GuardadosDonde
    <2> QED  BY <1>10, <2>3
  <1> QED  BY <1>4, <1>9, <1>10

\* Storing a block, whether it goes well or not.
LEMMA SitiosEnvio ==
  ASSUME Invariante, SitiosBien, enviarBloque, NEW u \in Ubicaciones,
         NEW k0, NEW k1, NEW e, Envio(u[1], u[2], k0, k1, e)
  PROVE  /\ SitiosBien'
         /\ \/ e.ok /\ Guardados' = Guardados \cup {Recien(nombres[u[1]], k0, nombres[u[2]], k1)}
            \/ ~ e.ok /\ Guardados' \subseteq Guardados
  <1>1. op # Nulo /\ op.faltan > 0 /\ archivos' = archivos  BY DEF enviarBloque
  <1> DEFINE n0 == nombres[u[1]]
             n1 == nombres[u[2]]
             b  == Recien(n0, k0, n1, k1)
             M  == ConBits(n0, k0, n1, k1)
             L  == SinLibres(n0, n1)
  <1>4. /\ n0 \in Nodos /\ n1 \in Nodos /\ k0 \notin bitmap[n0] /\ k1 \notin bitmap[n1]
        /\ b \in Buenos /\ SinRepetir(b) /\ Lugares(b) = {Ubi(n0, k0), Ubi(n1, k1)}
        /\ \/ /\ e.ok /\ bitmap' = M /\ libres' = L
              /\ op' = [op EXCEPT !.faltan = @ - 1, !.hechos = Append(@, b)]
           \/ ~ e.ok /\ op' = Nulo /\ Liberar(op.hechos, M, L)
    BY <1>1, EnvioEs
  <1>c. \/ e.ok /\ Guardados' = Guardados \cup {b}
        \/ ~ e.ok /\ \A c \in Guardados' : c \in Guardados /\ \A i \in DOMAIN op.hechos : op.hechos[i] # c
    BY EnvioGuarda
  <1>5. \A n \in Nodos : bitmap[n] \subseteq M[n]  BY DEF ConBits
  <1>6. k0 \in M[n0] /\ k1 \in M[n1]  BY <1>4 DEF ConBits
  <1>7. op \in Operacion /\ BloquesDe(op.ruta, op.hechos)  BY <1>1 DEF Invariante, OpBien
  <1>8. b.dato = <<op.ruta, Len(op.hechos) + 1>>  BY DEF Recien
  <1> HIDE DEF b, M, L, n0, n1
  <1>9. CASE /\ e.ok /\ bitmap' = M /\ libres' = L
             /\ op' = [op EXCEPT !.faltan = @ - 1, !.hechos = Append(@, b)]
    <2>4. Guardados' = Guardados \cup {b}  BY <1>c, <1>9 DEF b, n0, n1
    <2>5. \A c \in Guardados : \A v \in Lugares(c) :
            v.num \in M[v.nodo] /\ v \notin Lugares(b)
      <3> TAKE c \in Guardados
      <3> TAKE v \in Lugares(c)
      <3>1. v.num \in bitmap[v.nodo]  BY DEF SitiosBien, Sitios
      <3>2. v.nodo \in Nodos  BY LugarEs
      <3>3. v.num \in M[v.nodo]  BY <1>5, <3>1, <3>2
      <3>4. v # Ubi(n0, k0)  BY <1>4, <3>1 DEF Ubi
      <3>5. v # Ubi(n1, k1)  BY <1>4, <3>1 DEF Ubi
      <3>6. Lugares(b) = {Ubi(n0, k0), Ubi(n1, k1)}  BY <1>4
      <3> QED  BY <3>3, <3>4, <3>5, <3>6
    <2>6. \A v \in Lugares(b) : v.num \in M[v.nodo]
      <3> TAKE v \in Lugares(b)
      <3>1. Lugares(b) = {Ubi(n0, k0), Ubi(n1, k1)}  BY <1>4
      <3>2. v = Ubi(n0, k0) \/ v = Ubi(n1, k1)  BY <3>1
      <3> QED  BY <1>6, <3>2 DEF Ubi
    <2> DEFINE H == Guardados
    <2>a. H \in SUBSET Guardados /\ Sitios(Guardados, bitmap)  BY DEF SitiosBien
    <2>b. /\ \A c \in H : \A v \in Lugares(c) : v.num \in M[v.nodo] /\ v \notin Lugares(b)
          /\ \A v \in Lugares(b) : v.num \in M[v.nodo]
      BY <2>5, <2>6
    <2>c. SinRepetir(b)  BY <1>4
    <2>7. Sitios(H \cup {b}, M)
      <3> HIDE DEF H
      <3> QED  BY <2>a, <2>b, <2>c, SitiosMas
    <2>8. SitiosBien'  BY <1>9, <2>4, <2>7 DEF SitiosBien
    <2> QED  BY <1>9, <2>4, <2>8 DEF b, n0, n1
  <1>10. CASE ~ e.ok /\ op' = Nulo /\ Liberar(op.hechos, M, L)
    <2> DEFINE B == op.hechos
    <2>1. B \in Seq(Bloque) /\ \A i \in DOMAIN B : B[i] \in Guardados
      BY <1>1, <1>7, GuardadosDonde DEF Operacion
    <2>2. \A n \in Nodos : bitmap'[n] = M[n] \ Numeros(B, n)  BY <1>10 DEF Liberar
    <2>3. \A c \in Guardados' : c \in Guardados /\ \A i \in DOMAIN B : B[i] # c  BY <1>c, <1>10
    <2> HIDE DEF B
    <2>4. \A c \in Guardados' : \A v \in Lugares(c) :
            v.num \in bitmap[v.nodo] => v.num \in bitmap'[v.nodo]
      <3> TAKE c \in Guardados'
      <3> TAKE v \in Lugares(c)
      <3>1. v.num \notin Numeros(B, v.nodo) /\ v.nodo \in Nodos
        BY <2>1, <2>3, LibreSeguro DEF SitiosBien
      <3> QED  BY <1>5, <2>2, <3>1
    <2>5. Guardados' \in SUBSET Guardados  BY <2>3
    <2>6. Sitios(Guardados', bitmap')  BY <2>4, <2>5, SitiosMenos DEF SitiosBien
    <2> QED  BY <1>10, <2>5, <2>6 DEF SitiosBien
  <1> QED  BY <1>4, <1>9, <1>10

LEMMA SitiosEnviar ==
  ASSUME Invariante, SitiosBien, enviarBloque
  PROVE  SitiosBien'
  <1>1. PICK u \in Ubicaciones : \E k0, k1, e : Envio(u[1], u[2], k0, k1, e)  BY EnvioHay
  <1>2. PICK k0, k1, e : Envio(u[1], u[2], k0, k1, e)  BY <1>1
  <1> QED  BY <1>2, SitiosEnvio

\* Freeing without the mutex, when nobody stores, is as freeing with it.
LEMMA SinNadie ==
  ASSUME op = Nulo, NEW B \in Seq(Bloque), LiberarSinMutex(B)
  PROVE  /\ bitmap' = [n \in Nodos |-> bitmap[n] \ Numeros(B, n)]
         /\ libres' = [n \in Nodos |-> libres[n] + Cardinality(Usos(B, n))]
  <1>1. PICK bits \in [Nodos -> Seq(Bloque)] : \E cuentas \in [Nodos -> Seq(Bloque)] :
           /\ bitmap' = [n \in Nodos |-> bitmap[n] \ Numeros(bits[n], n)]
           /\ libres' = [n \in Nodos |-> libres[n] + Cardinality(Usos(cuentas[n], n))]
           /\ \A n \in Nodos : bits[n] = B /\ cuentas[n] = B
    BY CarrerasSon
  <1>2. PICK cuentas \in [Nodos -> Seq(Bloque)] :
           /\ bitmap' = [n \in Nodos |-> bitmap[n] \ Numeros(bits[n], n)]
           /\ libres' = [n \in Nodos |-> libres[n] + Cardinality(Usos(cuentas[n], n))]
           /\ \A n \in Nodos : bits[n] = B /\ cuentas[n] = B
    BY <1>1
  <1>3. [n \in Nodos |-> bitmap[n] \ Numeros(bits[n], n)] = [n \in Nodos |-> bitmap[n] \ Numeros(B, n)]
    BY <1>2
  <1>4. [n \in Nodos |-> libres[n] + Cardinality(Usos(cuentas[n], n))]
          = [n \in Nodos |-> libres[n] + Cardinality(Usos(B, n))]
    BY <1>2
  <1> QED  BY <1>2, <1>3, <1>4

\* The only block that rm -b frees.
LEMMA QuitadoLugar ==
  ASSUME NEW b \in Bloque, NEW u \in Ubicacion
  PROVE  LET q == Quitado(b, u)[1]
         IN  /\ DOMAIN Quitado(b, u) = {1} /\ q \in Bloque /\ SinRepetir(q)
             /\ Lugares(q) = IF u.num >= 0 THEN {u} ELSE {}
  <1> DEFINE v == Ubi(u.nodo, -1)
             q == [b EXCEPT !.c0 = u, !.c1 = v, !.otras = Nulo]
  <1>1. v \in Ubicacion /\ v.num = -1 /\ ~ (v.num >= 0)  BY DEF Ubi, Ubicacion
  <1>2. Quitado(b, u) = <<q>>  BY DEF Quitado
  <1> HIDE DEF v
  <1>3. q \in Bloque /\ q.c0 = u /\ q.c1 = v /\ q.otras = Nulo  BY <1>1 DEF Bloque
  <1> HIDE DEF q
  <1>4. DOMAIN Quitado(b, u) = {1} /\ Quitado(b, u)[1] = q  BY <1>2
  <1>5. Otras(q) = <<>> /\ Len(<<>>) = 0  BY <1>3 DEF Otras
  <1>6. \A w : w \in Lugares(q) <=> w \in Ubicacion /\ w.num >= 0 /\ (w = u \/ w = v)
    BY <1>3, <1>5, LugaresSon
  <1>7. Lugares(q) = IF u.num >= 0 THEN {u} ELSE {}  BY <1>1, <1>6
  <1>8. SinRepetir(q)
    <2>1. \A w : w.num >= 0 => w # v  BY <1>1
    <2>2. \A w : w.num >= 0 => Unico(q, w)  BY <1>3, <1>5, <2>1, UnicoSon
    <2> QED  BY <1>3, <2>2, SinRepetirSon
  <1> QED  BY <1>3, <1>4, <1>7, <1>8

LEMMA RmGuarda ==
  ASSUME Invariante, NEW r \in Rutas, rmArchivo(r)
  PROVE  \A c \in Guardados' : c \in Guardados /\ \A i \in DOMAIN archivos[r] : archivos[r][i] # c
  <1>1. /\ r \in DOMAIN archivos /\ op' = op
        /\ archivos' = [q \in DOMAIN archivos \ {r} |-> archivos[q]]
    BY DEF rmArchivo
  <1> TAKE c \in Guardados'
  <1>2. CASE op # Nulo /\ \E j \in DOMAIN op.hechos : c = op.hechos[j]
    <2>1. PICK j \in DOMAIN op.hechos : c = op.hechos[j]  BY <1>2
    <2>2. c.dato = <<op.ruta, j>> /\ op.ruta # r  BY <1>1, <1>2, <2>1, PorSuDato
    <2>3. \A i \in DOMAIN archivos[r] : archivos[r][i].dato = <<r, i>>  BY <1>1, PorSuDato
    <2> QED  BY <1>2, <2>2, <2>3, GuardadosDonde
  <1>3. ASSUME NEW q \in DOMAIN archivos', NEW j \in DOMAIN archivos'[q], c = archivos'[q][j]
        PROVE  c \in Guardados /\ \A i \in DOMAIN archivos[r] : archivos[r][i] # c
    <2>1. q \in DOMAIN archivos /\ q # r /\ archivos'[q] = archivos[q]  BY <1>1
    <2>2. j \in DOMAIN archivos[q] /\ c = archivos[q][j]  BY <1>3, <2>1
    <2>3. c.dato = <<q, j>> /\ \A i \in DOMAIN archivos[r] : archivos[r][i].dato = <<r, i>>
      BY <1>1, <2>1, <2>2, PorSuDato
    <2> QED  BY <2>1, <2>2, <2>3, GuardadosDonde
  <1> QED  BY <1>1, <1>2, <1>3, GuardadosDespues

LEMMA SitiosRm ==
  ASSUME SinCarreras, Invariante, SitiosBien, NEW r \in Rutas, rmArchivo(r)
  PROVE  SitiosBien' /\ op = Nulo /\ Guardados' \subseteq Guardados
  <1> DEFINE B == archivos[r]
  <1>1. /\ r \in DOMAIN archivos /\ LiberarSinMutex(B) /\ op' = op
        /\ archivos' = [q \in DOMAIN archivos \ {r} |-> archivos[q]]
    BY DEF rmArchivo
  <1>2. op = Nulo  BY ConsolaSola DEF rmArchivo
  <1>3. B \in Seq(Bloque) /\ \A i \in DOMAIN B : B[i] \in Guardados
    BY <1>1, HechosBien, GuardadosDonde
  <1>4. \A n \in Nodos : bitmap'[n] = bitmap[n] \ Numeros(B, n)
    <2> HIDE DEF B
    <2> QED  BY <1>1, <1>2, <1>3, SinNadie
  <1>5. \A c \in Guardados' : c \in Guardados /\ \A i \in DOMAIN B : B[i] # c  BY RmGuarda
  <1> HIDE DEF B
  <1>6. \A c \in Guardados' : \A v \in Lugares(c) : v.num \in bitmap[v.nodo] => v.num \in bitmap'[v.nodo]
    <2> TAKE c \in Guardados'
    <2> TAKE v \in Lugares(c)
    <2>1. v.num \notin Numeros(B, v.nodo) /\ v.nodo \in Nodos
      BY <1>3, <1>5, LibreSeguro DEF SitiosBien
    <2> QED  BY <1>4, <2>1
  <1>7. Guardados' \in SUBSET Guardados  BY <1>5
  <1>8. Sitios(Guardados', bitmap')  BY <1>6, <1>7, SitiosMenos DEF SitiosBien
  <1> QED  BY <1>2, <1>7, <1>8 DEF SitiosBien

LEMMA SitiosFormat ==
  ASSUME SinCarreras, Invariante, formatFileSystem
  PROVE  SitiosBien' /\ op = Nulo /\ Guardados' = {}
  <1>1. op = Nulo  BY ConsolaSola DEF formatFileSystem
  <1>2. archivos' = <<>> /\ op' = op  BY <1>1 DEF formatFileSystem
  <1>3. DOMAIN archivos' = {} /\ op' = Nulo  BY <1>1, <1>2, SinNodos
  <1>4. Guardados' = {}
    <2> SUFFICES ASSUME NEW b \in Guardados' PROVE FALSE  OBVIOUS
    <2> QED  BY <1>3, GuardadosDespues
  <1> QED  BY <1>1, <1>4 DEF SitiosBien, Sitios

\* A command changes a block of a file, and of no other.
LEMMA CambiaGuardados ==
  ASSUME Invariante, op' = op, NEW r \in DOMAIN archivos,
         NEW i \in DOMAIN archivos[r], NEW s \in Buenos, s.dato = archivos[r][i].dato,
         CambiaBloque(r, i, s)
  PROVE  LET b == archivos[r][i]
         IN  b \in Guardados /\ Guardados' = (Guardados \ {b}) \cup {s}
  <1> DEFINE b == archivos[r][i]
  <1>1. /\ DOMAIN archivos' = DOMAIN archivos
        /\ \A q \in DOMAIN archivos :
             /\ DOMAIN archivos'[q] = DOMAIN archivos[q]
             /\ \A j \in DOMAIN archivos[q] :
                  archivos'[q][j] = IF q = r /\ j = i THEN s ELSE archivos[q][j]
    BY CambiaBien DEF Invariante
  <1>2. b \in Guardados  BY GuardadosDonde
  <1>3. \A q \in DOMAIN archivos : \A j \in DOMAIN archivos[q] : archivos[q][j] = b => q = r /\ j = i
    <2> TAKE q \in DOMAIN archivos
    <2> TAKE j \in DOMAIN archivos[q]
    <2>1. archivos[q][j].dato = <<q, j>> /\ b.dato = <<r, i>>  BY PorSuDato
    <2> QED  BY <2>1
  <1>a. op # Nulo => \A j \in DOMAIN op.hechos : op.hechos[j] # b
    <2> SUFFICES ASSUME op # Nulo, NEW j \in DOMAIN op.hechos PROVE op.hechos[j] # b  OBVIOUS
    <2>1. op.hechos[j].dato = <<op.ruta, j>> /\ b.dato = <<r, i>> /\ op.ruta # r  BY PorSuDato
    <2> QED  BY <2>1
  <1> HIDE DEF b
  <1>4. ASSUME NEW c \in Guardados' PROVE c \in (Guardados \ {b}) \cup {s}
    <2>1. CASE op # Nulo /\ \E j \in DOMAIN op.hechos : c = op.hechos[j]
      BY <1>a, <2>1, GuardadosDonde
    <2>2. ASSUME NEW q \in DOMAIN archivos, NEW j \in DOMAIN archivos[q], c = archivos'[q][j]
          PROVE  c \in (Guardados \ {b}) \cup {s}
      <3>1. CASE q = r /\ j = i  BY <1>1, <2>2, <3>1
      <3>2. CASE ~ (q = r /\ j = i)
        <4>1. c = archivos[q][j]  BY <1>1, <2>2, <3>2
        <4> QED  BY <1>3, <3>2, <4>1, GuardadosDonde
      <3> QED  BY <3>1, <3>2
    <2> QED  BY <1>1, <1>4, <2>1, <2>2, GuardadosDespues
  <1>5. s \in Guardados'  BY <1>1, GuardadosDespues
  <1>6. ASSUME NEW c \in Guardados, c # b PROVE c \in Guardados'
    <2>1. CASE op # Nulo /\ \E j \in DOMAIN op.hechos : c = op.hechos[j]  BY <2>1, GuardadosDespues
    <2>2. ASSUME NEW q \in DOMAIN archivos, NEW j \in DOMAIN archivos[q], c = archivos[q][j]
          PROVE  c \in Guardados'
      <3>1. ~ (q = r /\ j = i)  BY <1>6, <2>2 DEF b
      <3>2. c = archivos'[q][j] /\ q \in DOMAIN archivos' /\ j \in DOMAIN archivos'[q]
        BY <1>1, <2>2, <3>1
      <3> QED  BY <3>2, GuardadosDespues
    <2> QED  BY <1>6, <2>1, <2>2, GuardadosDonde
  <1> QED  BY <1>2, <1>4, <1>5, <1>6 DEF b

LEMMA SitiosRmBloque ==
  ASSUME SinCarreras, Invariante, SitiosBien, NEW r \in DOMAIN archivos,
         NEW i \in DOMAIN archivos[r], NEW c \in 0..(MaxOtras + 2), rmBloque(r, i, c)
  PROVE  SitiosBien' /\ op = Nulo
  <1> DEFINE b == archivos[r][i]
  <1>1. op = Nulo  BY ConsolaSola DEF rmBloque
  <1>2. /\ b \in Buenos /\ b \in Bloque
        /\ \/ CaeFS
           \/ \E u \in Ubicacion, s \in Buenos :
                /\ s.dato = b.dato /\ LiberarSinMutex(Quitado(b, u)) /\ CambiaBloque(r, i, s)
                /\ SinRepetir(b) => SinRepetir(s) /\ Lugares(s) = Lugares(b) \ {u}
                /\ u.num >= 0 => u \in Lugares(b)
                /\ UNCHANGED <<fs, op, nombres, socket, puntero, varsDN>>
    BY RmBloqueCasos
  <1>3. CASE CaeFS  BY <1>1, <1>3, SitiosCae
  <1>4. ASSUME NEW u \in Ubicacion, NEW s \in Buenos, s.dato = b.dato,
               LiberarSinMutex(Quitado(b, u)), CambiaBloque(r, i, s),
               SinRepetir(b) => SinRepetir(s) /\ Lugares(s) = Lugares(b) \ {u},
               u.num >= 0 => u \in Lugares(b),
               UNCHANGED <<fs, op, nombres, socket, puntero, varsDN>>
        PROVE  SitiosBien'
    <2>1. op' = Nulo  BY <1>1, <1>4
    <2>2. b \in Guardados /\ Guardados' = (Guardados \ {b}) \cup {s}
      BY <1>1, <1>4, <2>1, CambiaGuardados
    <2>3. Quitado(b, u) \in Seq(Bloque)  BY <1>2, QuitadoEs
    <2>4. \A n \in Nodos : bitmap'[n] = bitmap[n] \ Numeros(Quitado(b, u), n)
      BY <1>1, <1>4, <2>3, SinNadie
    <2>5. DOMAIN Quitado(b, u) = {1} /\ Lugares(Quitado(b, u)[1]) = IF u.num >= 0 THEN {u} ELSE {}
      BY <1>2, QuitadoLugar
    <2>6. SinRepetir(s) /\ Lugares(s) = Lugares(b) \ {u}
      BY <1>4, <2>2 DEF SitiosBien, Sitios
    <2> HIDE DEF b
    <2>7. ASSUME NEW c1 \in Guardados, NEW v \in Lugares(c1), v # u
          PROVE  v.num \in bitmap'[v.nodo]
      <3>1. v.nodo \in Nodos /\ v = Ubi(v.nodo, v.num)  BY LugarEs
      <3>2. v.num \notin Numeros(Quitado(b, u), v.nodo)
        BY <2>3, <2>5, <2>7, <3>1, NumerosSon
      <3>3. v.num \in bitmap[v.nodo]  BY DEF SitiosBien, Sitios
      <3> QED  BY <2>4, <3>1, <3>2, <3>3
    <2>8. \A d \in Guardados \ {b} : \A v \in Lugares(d) : v.num \in bitmap'[v.nodo] /\ v \notin Lugares(s)
      <3> TAKE d \in Guardados \ {b}
      <3> TAKE v \in Lugares(d)
      <3>1. v \notin Lugares(b)  BY <2>2 DEF SitiosBien, Sitios
      <3>2. v # u
        <4>1. v.num >= 0  BY DEF Lugares
        <4> QED  BY <1>4, <3>1, <4>1 DEF b
      <3> QED  BY <2>6, <2>7, <3>1, <3>2
    <2>9. \A v \in Lugares(s) : v.num \in bitmap'[v.nodo]  BY <2>2, <2>6, <2>7
    <2> DEFINE H == Guardados \ {b}
               N == bitmap'
    <2>10. H \in SUBSET Guardados /\ Sitios(Guardados, bitmap)  BY DEF SitiosBien
    <2>a. /\ \A d \in H : \A v \in Lugares(d) : v.num \in N[v.nodo] /\ v \notin Lugares(s)
          /\ \A v \in Lugares(s) : v.num \in N[v.nodo]
      BY <2>8, <2>9
    <2>11. Sitios(H \cup {s}, N)
      <3> HIDE DEF H, N
      <3> QED  BY <2>6, <2>10, <2>a, SitiosMas
    <2> QED  BY <2>2, <2>11 DEF SitiosBien
  <1> QED  BY <1>1, <1>2, <1>3, <1>4

LEMMA SitiosCpblock ==
  ASSUME Invariante, SitiosBien, NEW r \in DOMAIN archivos,
         NEW i \in DOMAIN archivos[r], NEW n \in Nodos, cpblock(r, i, n)
  PROVE  SitiosBien'
  <1> DEFINE b == archivos[r][i]
  <1>1. op = Nulo /\ op' = Nulo  BY DEF cpblock, PuedeCopiar
  <1>2. PICK k, e : Copia(r, i, n, k, e)  BY CopiaHay
  <1>3. /\ b \in Buenos /\ k \in Nat /\ k \notin bitmap[n] /\ Ubi(n, k) \in Ubicacion
        /\ bitmap' = [bitmap EXCEPT ![n] = @ \cup {k}]
        /\ CambiaBloque(r, i, ConCopia(b, Ubi(n, k))) \/ UNCHANGED archivos
    BY <1>2, CopiaEs
  <1>4. \A m \in Nodos : bitmap'[m] = IF m = n THEN bitmap[m] \cup {k} ELSE bitmap[m]
    BY <1>3 DEF Invariante, BitsBien
  <1>5. \A d \in Guardados : \A v \in Lugares(d) : v.num \in bitmap'[v.nodo] /\ v # Ubi(n, k)
    <2> TAKE d \in Guardados
    <2> TAKE v \in Lugares(d)
    <2>1. v.nodo \in Nodos /\ v.num \in bitmap[v.nodo]  BY LugarEs DEF SitiosBien, Sitios
    <2> QED  BY <1>3, <1>4, <2>1 DEF Ubi
  <1>6. CASE UNCHANGED archivos
    <2>1. \A d : d \in Guardados' => d \in Guardados
      BY <1>1, <1>6, GuardadosDonde, GuardadosDespues
    <2>2. Guardados' \in SUBSET Guardados  BY <2>1
    <2>3. Sitios(Guardados', bitmap')  BY <1>5, <2>2, SitiosMenos DEF SitiosBien
    <2> QED  BY <2>3 DEF SitiosBien
  <1>7. CASE CambiaBloque(r, i, ConCopia(b, Ubi(n, k)))
    <2> DEFINE s == ConCopia(b, Ubi(n, k))
    <2>1. Ubi(n, k).num >= 0  BY <1>3 DEF Ubi
    <2>2. /\ s \in Buenos /\ s.dato = b.dato
          /\ SinRepetir(b) /\ Ubi(n, k) \notin Lugares(b) =>
               SinRepetir(s) /\ Lugares(s) = Lugares(b) \cup {Ubi(n, k)}
      BY <1>3, <2>1, ConCopiaEs
    <2>3. b \in Guardados /\ Guardados' = (Guardados \ {b}) \cup {s}
      BY <1>1, <1>7, <2>2, CambiaGuardados
    <2> HIDE DEF b, s
    <2>4. SinRepetir(s) /\ Lugares(s) = Lugares(b) \cup {Ubi(n, k)}
      BY <1>5, <2>2, <2>3 DEF SitiosBien, Sitios
    <2>5. \A d \in Guardados \ {b} : \A v \in Lugares(d) : v.num \in bitmap'[v.nodo] /\ v \notin Lugares(s)
      <3> TAKE d \in Guardados \ {b}
      <3> TAKE v \in Lugares(d)
      <3>1. v \notin Lugares(b)  BY <2>3 DEF SitiosBien, Sitios
      <3> QED  BY <1>5, <2>4, <3>1
    <2>6. \A v \in Lugares(s) : v.num \in bitmap'[v.nodo]
      <3>1. Ubi(n, k).num \in bitmap'[Ubi(n, k).nodo]  BY <1>4 DEF Ubi
      <3> QED  BY <1>5, <2>3, <2>4, <3>1
    <2> DEFINE H == Guardados \ {b}
               N == bitmap'
    <2>7. H \in SUBSET Guardados /\ Sitios(Guardados, bitmap)  BY DEF SitiosBien
    <2>a. /\ \A d \in H : \A v \in Lugares(d) : v.num \in N[v.nodo] /\ v \notin Lugares(s)
          /\ \A v \in Lugares(s) : v.num \in N[v.nodo]
      BY <2>5, <2>6
    <2>8. Sitios(H \cup {s}, N)
      <3> HIDE DEF H, N
      <3> QED  BY <2>4, <2>7, <2>a, SitiosMas
    <2> QED  BY <2>3, <2>8 DEF SitiosBien
  <1> QED  BY <1>3, <1>6, <1>7

\* The other actions touch neither blocks nor bitmaps.
LEMMA SitiosQuieto ==
  ASSUME SitiosBien, UNCHANGED <<op, archivos, bitmap>>
  PROVE  SitiosBien' /\ Guardados' = Guardados
  BY GuardaQuieto, SitiosIgual

LEMMA SitiosPaso ==
  ASSUME SinCarreras, Invariante, SitiosBien, [Next]_vars
  PROVE  SitiosBien'
  <1>1. CASE UNCHANGED vars  BY <1>1, SitiosQuieto DEF vars, varsFS
  <1>2. ASSUME NEW r, NEW t, NEW h, NEW k, Empieza(r, t, h, k) PROVE SitiosBien'
    BY <1>2, SitiosEmpieza
  <1>3. CASE enviarBloque  BY <1>3, SitiosEnviar
  <1>4. CASE enviarBloqueCae  BY <1>4, CaeHay, SitiosCae
  <1>5. CASE registrarArchivo  BY <1>5, SitiosRegistrar
  <1>6. CASE \E r \in Rutas : rmArchivo(r)  BY <1>6, SitiosRm
  <1>7. CASE formatFileSystem  BY <1>7, SitiosFormat
  <1>8. ASSUME NEW r \in DOMAIN archivos, NEW i \in DOMAIN archivos[r],
               \/ \E c \in 0..(MaxOtras + 2) : rmBloque(r, i, c)
               \/ \E n \in Nodos : cpblock(r, i, n) \/ cpblockCae(r, i, n)
        PROVE  SitiosBien'
    BY <1>8, SitiosRmBloque, SitiosCpblock, CaeHay, SitiosCae
  <1>9. ASSUME NEW n \in Nodos, \/ asociarNodo(n) \/ manejarCliente(n)
                               \/ marcarNodoDesconectado(n) \/ DataNodeMuere(n)
        PROVE  SitiosBien'
    BY <1>9, SitiosQuieto
       DEF asociarNodo, manejarCliente, marcarNodoDesconectado, DataNodeMuere, varsFS
  <1> QED  BY <1>1, <1>2, <1>3, <1>4, <1>5, <1>6, <1>7, <1>8, <1>9 DEF Next, cpfrom, cpfromBinary

\* A copy is a place of the block it is of.
LEMMA VivaEs ==
  ASSUME Invariante, NEW c \in CopiasVivas
  PROVE  /\ c[1] \in Guardados /\ c[2] \in DOMAIN Copias(c[1]) /\ c = <<c[1], c[2]>>
         /\ Lugar(c).num >= 0 /\ Lugar(c) \in Lugares(c[1])
  <1>1. PICK b \in Guardados : c \in {<<b, j>> : j \in {j \in DOMAIN Copias(b) : Copias(b)[j].num >= 0}}
    BY DEF CopiasVivas
  <1>2. PICK j \in DOMAIN Copias(b) : Copias(b)[j].num >= 0 /\ c = <<b, j>>  BY <1>1
  <1>3. b \in Bloque  BY GuardadosSon
  <1>4. Copias(b)[j] \in Ubicacion
    <2>1. Copias(b) \in Seq(Ubicacion)  BY <1>3, CopiasEs
    <2> QED  BY <1>2, <2>1
  <1>5. c[1] = b /\ c[2] = j /\ Lugar(c) = Copias(b)[j]  BY <1>2 DEF Lugar
  <1> QED  BY <1>2, <1>4, <1>5 DEF Lugares

\* Each place of a block is that of a copy.
LEMMA VivaHay ==
  ASSUME NEW b \in Guardados, NEW u \in Lugares(b)
  PROVE  \E c \in CopiasVivas : Lugar(c) = u
  <1>1. PICK j \in DOMAIN Copias(b) : Copias(b)[j] = u /\ Copias(b)[j].num >= 0  BY DEF Lugares
  <1>2. <<b, j>> \in CopiasVivas  BY <1>1 DEF CopiasVivas
  <1>3. Lugar(<<b, j>>) = u  BY <1>1 DEF Lugar
  <1> QED  BY <1>2, <1>3

\* While nobody frees without the mutex, two copies never share a block of a DataNode, and the
\* block of a copy is set in the bitmap: through rm, rm -b, cpblock, format, stores that fail
\* and DataNodes that die in the middle of them.
THEOREM NadieComparte ==
  ASSUME SinCarreras
  PROVE  Spec => []NingunBloqueCompartido
  <1>1. Invariante /\ SitiosBien => NingunBloqueCompartido
    <2> SUFFICES ASSUME Invariante, SitiosBien PROVE NingunBloqueCompartido  OBVIOUS
    <2>1. \A c \in CopiasVivas : c[1] \in Guardados /\ c = <<c[1], c[2]>> /\ c[2] \in DOMAIN Copias(c[1])
                                   /\ Lugar(c).num >= 0 /\ Lugar(c) \in Lugares(c[1])
      BY VivaEs
    <2>2. ASSUME NEW c \in CopiasVivas, NEW d \in CopiasVivas, Lugar(c) = Lugar(d) PROVE c = d
      <3>1. c[1] = d[1]  BY <2>1, <2>2 DEF SitiosBien, Sitios
      <3>2. SinRepetir(c[1])  BY <2>1 DEF SitiosBien, Sitios
      <3>3. c[2] = d[2]  BY <2>1, <2>2, <3>1, <3>2 DEF SinRepetir, Lugar
      <3> QED  BY <2>1, <3>1, <3>3
    <2>3. ASSUME NEW c \in CopiasVivas PROVE Lugar(c).num \in bitmap[Lugar(c).nodo]
      BY <2>1 DEF SitiosBien, Sitios
    <2> QED  BY <2>2, <2>3 DEF NingunBloqueCompartido
  <1>2. Invariante /\ SitiosBien /\ [Next]_vars => SitiosBien'  BY SitiosPaso
  <1> QED  BY <1>1, <1>2, SitiosInicio, SiempreBien, PTL DEF Spec

-----------------------------------------------------------------------------
(* The counters and the bitmaps                                            *)

\* The probe is made of every DataNode that starts: its file is there, and its two copies fit.
PruebaCabe == HayPrueba /\ \A n \in Nodos : Capacidad[n] >= 2

\* A counter that agrees with its bitmap, of bits within the node.
Cuadra(n, bits, cuenta) ==
  /\ cuenta \in Nat /\ cuenta + Cardinality(bits) = Capacidad[n]
  /\ \A k \in bits : k < Capacidad[n]
Cuentas(S, M, L) ==
  \A n \in Nodos : IF n \in S THEN Cuadra(n, M[n], L[n]) ELSE M[n] = {} /\ L[n] = 0

\* The blocks of B are as many as the places they name: each is counted once when freed.
LEMMA UsosNumeros ==
  ASSUME NEW G, NEW M, Sitios(G, M), NEW B \in Seq(Bloque), \A i \in DOMAIN B : B[i] \in G,
         \A i, j \in DOMAIN B : B[i] = B[j] => i = j, NEW n \in Nodos
  PROVE  /\ Numeros(B, n) \subseteq M[n] /\ IsFiniteSet(Numeros(B, n))
         /\ Cardinality(Usos(B, n)) = Cardinality(Numeros(B, n))
  <1> DEFINE U == Usos(B, n)
             N == Numeros(B, n)
             f == [u \in U |-> Copias(B[u[1]])[u[2]].num]
  <1>1. IsFiniteSet(U)  BY UsosFinitos
  <1>2. ASSUME NEW u \in U
        PROVE  /\ u[1] \in DOMAIN B /\ u[2] \in DOMAIN Copias(B[u[1]]) /\ u = <<u[1], u[2]>>
               /\ Copias(B[u[1]])[u[2]] = Ubi(n, f[u]) /\ f[u] >= 0
               /\ Ubi(n, f[u]) \in Lugares(B[u[1]])
    <2>1. PICK i \in DOMAIN B : u \in {i} \X DOMAIN Copias(B[i])  BY DEF Usos
    <2>2. u[1] = i /\ u[2] \in DOMAIN Copias(B[i]) /\ u = <<u[1], u[2]>>  BY <2>1
    <2> DEFINE c == Copias(B[u[1]])[u[2]]
    <2>3. c.nodo = n /\ c.num >= 0 /\ f[u] = c.num  BY DEF Usos
    <2>4. c \in Ubicacion
      <3>1. B[i] \in Bloque  OBVIOUS
      <3>2. Copias(B[i]) \in Seq(Ubicacion)  BY <3>1, CopiasEs
      <3> QED  BY <2>2, <3>2
    <2>5. c \in Lugares(B[u[1]])  BY <2>2, <2>3, <2>4 DEF Lugares
    <2> HIDE DEF f
    <2>6. c = Ubi(n, f[u])  BY <2>3, <2>5, LugarEs
    <2> QED  BY <2>2, <2>3, <2>5, <2>6
  <1>3. f \in [U -> N] /\ \A k \in N : \E u \in U : f[u] = k  BY DEF Numeros
  <1> HIDE DEF f
  <1>4. ASSUME NEW u \in U, NEW v \in U, f[u] = f[v] PROVE u = v
    <2> DEFINE w == Ubi(n, f[u])
    <2>1. /\ w \in Lugares(B[u[1]]) /\ w \in Lugares(B[v[1]]) /\ w.num >= 0
          /\ Copias(B[u[1]])[u[2]] = w /\ Copias(B[v[1]])[v[2]] = w
          /\ u[1] \in DOMAIN B /\ v[1] \in DOMAIN B
          /\ u[2] \in DOMAIN Copias(B[u[1]]) /\ v[2] \in DOMAIN Copias(B[v[1]])
      BY <1>2, <1>4 DEF Ubi
    <2> HIDE DEF w, U
    <2>2. B[u[1]] = B[v[1]]  BY <2>1 DEF Sitios
    <2>3. u[1] = v[1]  BY <2>1, <2>2
    <2>4. SinRepetir(B[u[1]])  BY <2>1 DEF Sitios
    <2>5. u[2] = v[2]  BY <2>1, <2>2, <2>3, <2>4 DEF SinRepetir
    <2>6. u = <<u[1], u[2]>> /\ v = <<v[1], v[2]>>  BY <1>2
    <2> QED  BY <2>3, <2>5, <2>6
  <1>5. f \in Bijection(U, N)
    <2> HIDE DEF U, N
    <2> QED  BY <1>3, <1>4 DEF Bijection, Injection, Surjection, IsInjective
  <1>6. ExistsBijection(U, N)  BY <1>5 DEF ExistsBijection
  <1>7. IsFiniteSet(N) /\ Cardinality(U) = Cardinality(N)
    <2> HIDE DEF U, N
    <2> QED  BY <1>1, <1>6, FS_Bijection
  <1>8. N \subseteq M[n]
    <2> SUFFICES ASSUME NEW k \in N PROVE k \in M[n]  OBVIOUS
    <2>1. PICK i \in DOMAIN B : Ubi(n, k) \in Lugares(B[i])  BY NumerosSon
    <2>2. Ubi(n, k).nodo = n /\ Ubi(n, k).num = k  BY DEF Ubi
    <2> QED  BY <2>1, <2>2 DEF Sitios
  <1> QED  BY <1>7, <1>8

\* Freeing gives the counter what it takes from the bitmap.
LEMMA LiberaCuentas ==
  ASSUME NEW G, NEW M, NEW L, Sitios(G, M), BitsBien(M, L), NEW S, Cuentas(S, M, L),
         NEW B \in Seq(Bloque), \A i \in DOMAIN B : B[i] \in G,
         \A i, j \in DOMAIN B : B[i] = B[j] => i = j, NEW M2, NEW L2,
         \A n \in Nodos : M2[n] = M[n] \ Numeros(B, n) /\ L2[n] = L[n] + Cardinality(Usos(B, n))
  PROVE  Cuentas(S, M2, L2)
  <1> SUFFICES ASSUME NEW n \in Nodos
               PROVE  IF n \in S THEN Cuadra(n, M2[n], L2[n]) ELSE M2[n] = {} /\ L2[n] = 0
    BY DEF Cuentas
  <1> DEFINE N == Numeros(B, n)
             c == Cardinality(N)
  <1>1. N \subseteq M[n] /\ IsFiniteSet(N) /\ Cardinality(Usos(B, n)) = c  BY UsosNumeros
  <1>2. IsFiniteSet(M[n])  BY BitsFinitos
  <1>3. c \in Nat /\ Cardinality(M[n]) \in Nat /\ c <= Cardinality(M[n])
    BY <1>1, <1>2, FS_CardinalityType, FS_Subset
  <1>4. M[n] \cap N = N  BY <1>1
  <1>5. Cardinality(M[n] \ N) = Cardinality(M[n]) - c
    <2> DEFINE T == M[n]
    <2>1. IsFiniteSet(T) /\ T \cap N = N  BY <1>2, <1>4
    <2> HIDE DEF T, N
    <2>2. Cardinality(T \ N) = Cardinality(T) - Cardinality(T \cap N)  BY <2>1, FS_Difference
    <2> QED  BY <2>1, <2>2 DEF T
  <1>6. M2[n] = M[n] \ N /\ L2[n] = L[n] + c  BY <1>1
  <1> HIDE DEF N, c
  <1>7. CASE n \in S
    <2>1. L[n] \in Nat /\ L[n] + Cardinality(M[n]) = Capacidad[n] /\ \A k \in M[n] : k < Capacidad[n]
      BY <1>7 DEF Cuentas, Cuadra
    <2>2. L2[n] \in Nat /\ L2[n] + Cardinality(M2[n]) = Capacidad[n]  BY <1>3, <1>5, <1>6, <2>1
    <2>3. \A k \in M2[n] : k < Capacidad[n]  BY <1>6, <2>1
    <2> QED  BY <1>7, <2>2, <2>3 DEF Cuadra
  <1>8. CASE n \notin S
    <2>1. M[n] = {} /\ L[n] = 0  BY <1>8 DEF Cuentas
    <2>2. N = {}  BY <1>1, <2>1
    <2>3. c = 0  BY <2>2, FS_EmptySet DEF c
    <2> QED  BY <1>6, <1>8, <2>1, <2>3
  <1> QED  BY <1>7, <1>8

\* Taking the first free block.
LEMMA CuadraToma ==
  ASSUME NEW n \in Nodos, NEW B, IsFiniteSet(B), NEW l, Cuadra(n, B, l), l > 0,
         NEW k \in Nat, k \notin B, k <= Cardinality(B)
  PROVE  Cuadra(n, B \cup {k}, l - 1) /\ k < Capacidad[n]
  <1>1. Cardinality(B) \in Nat  BY FS_CardinalityType
  <1>2. Cardinality(B \cup {k}) = Cardinality(B) + 1  BY FS_AddElement
  <1>3. l \in Nat /\ l + Cardinality(B) = Capacidad[n] /\ \A j \in B : j < Capacidad[n]  BY DEF Cuadra
  <1>4. k < Capacidad[n] /\ l - 1 \in Nat  BY <1>1, <1>3
  <1>5. l - 1 + Cardinality(B \cup {k}) = Capacidad[n]  BY <1>1, <1>2, <1>3
  <1> QED  BY <1>3, <1>4, <1>5 DEF Cuadra

LEMMA TomaCuentas ==
  ASSUME BitsBien(bitmap, libres), Cuentas(socket, bitmap, libres),
         NEW n0 \in Nodos, n0 \in socket, NEW n1 \in Nodos, n1 \in socket,
         libres[n0] > 0, libres[n1] > IF n0 = n1 THEN 1 ELSE 0,
         NEW k0 \in Nat, k0 \notin bitmap[n0], k0 <= Cardinality(bitmap[n0]),
         NEW k1 \in Nat, k1 \notin bitmap[n1], n0 = n1 => k0 # k1,
         k1 <= Cardinality(bitmap[n1]) + IF n0 = n1 THEN 1 ELSE 0
  PROVE  /\ Cuentas(socket, ConBits(n0, k0, n1, k1), SinLibres(n0, n1))
         /\ k0 < Capacidad[n0] /\ k1 < Capacidad[n1]
  <1> DEFINE M == ConBits(n0, k0, n1, k1)
             L == SinLibres(n0, n1)
  <1>1. \A n \in Nodos :
          /\ M[n] = bitmap[n] \cup (IF n = n0 THEN {k0} ELSE {}) \cup (IF n = n1 THEN {k1} ELSE {})
          /\ L[n] = libres[n] - (IF n = n0 THEN 1 ELSE 0) - (IF n = n1 THEN 1 ELSE 0)
    BY DEF ConBits, SinLibres
  <1>2. \A n \in Nodos : IsFiniteSet(bitmap[n]) /\ libres[n] \in Int  BY BitsFinitos DEF BitsBien
  <1>3. Cuadra(n0, bitmap[n0], libres[n0]) /\ Cuadra(n1, bitmap[n1], libres[n1])  BY DEF Cuentas
  <1> HIDE DEF M, L
  <1>4. Cuadra(n0, bitmap[n0] \cup {k0}, libres[n0] - 1) /\ k0 < Capacidad[n0]
    BY <1>2, <1>3, CuadraToma
  <1>5. /\ k1 < Capacidad[n1]
        /\ n0 = n1 => Cuadra(n1, (bitmap[n1] \cup {k0}) \cup {k1}, libres[n1] - 1 - 1)
        /\ n0 # n1 => Cuadra(n1, bitmap[n1] \cup {k1}, libres[n1] - 1)
    <2>1. CASE n0 = n1
      <3> DEFINE B == bitmap[n1] \cup {k0}
                 l == libres[n1] - 1
      <3>1. IsFiniteSet(B) /\ Cardinality(B) = Cardinality(bitmap[n1]) + 1
        BY <1>2, <2>1, FS_AddElement
      <3>2. Cuadra(n1, B, l) /\ k1 \notin B /\ l > 0  BY <1>2, <1>4, <2>1
      <3>3. k1 <= Cardinality(B)  BY <2>1, <3>1
      <3> HIDE DEF B, l
      <3>4. Cuadra(n1, B \cup {k1}, l - 1) /\ k1 < Capacidad[n1]  BY <3>1, <3>2, <3>3, CuadraToma
      <3> QED  BY <2>1, <3>4 DEF B, l
    <2>2. CASE n0 # n1
      <3>1. k1 <= Cardinality(bitmap[n1]) /\ libres[n1] > 0
        <4>1. Cardinality(bitmap[n1]) \in Nat  BY <1>2, FS_CardinalityType
        <4> QED  BY <2>2, <4>1
      <3> QED  BY <1>2, <1>3, <2>2, <3>1, CuadraToma
    <2> QED  BY <2>1, <2>2
  <1>6. ASSUME NEW n \in Nodos
        PROVE  IF n \in socket THEN Cuadra(n, M[n], L[n]) ELSE M[n] = {} /\ L[n] = 0
    <2>1. CASE n = n0 /\ n = n1
      <3>1. M[n] = (bitmap[n1] \cup {k0}) \cup {k1} /\ L[n] = libres[n1] - 1 - 1  BY <1>1, <2>1
      <3> QED  BY <1>5, <2>1, <3>1
    <2>2. CASE n = n0 /\ n # n1
      <3>1. M[n] = bitmap[n0] \cup {k0}  BY <1>1, <2>2
      <3>2. L[n] = libres[n0] - 1  BY <1>1, <1>2, <2>2
      <3> QED  BY <1>4, <2>2, <3>1, <3>2
    <2>3. CASE n # n0 /\ n = n1
      <3>1. M[n] = bitmap[n1] \cup {k1}  BY <1>1, <2>3
      <3>2. L[n] = libres[n1] - 1  BY <1>1, <1>2, <2>3
      <3> QED  BY <1>5, <2>3, <3>1, <3>2
    <2>4. CASE n # n0 /\ n # n1
      <3>1. M[n] = bitmap[n]  BY <1>1, <2>4
      <3>2. L[n] = libres[n]  BY <1>1, <1>2, <2>4
      <3> QED  BY <3>1, <3>2 DEF Cuentas
    <2> QED  BY <2>1, <2>2, <2>3, <2>4
  <1>7. Cuentas(socket, M, L)  BY <1>6 DEF Cuentas
  <1> QED  BY <1>4, <1>5, <1>7 DEF M, L

\* x is written on two places of the disks, and nothing else.
Escritos(E, d, n0, k0, n1, k1, x) ==
  \A m \in Nodos : \A j \in 0..(Capacidad[m] - 1) :
    E[m][j] = IF (m = n0 /\ j = k0) \/ (m = n1 /\ j = k1) THEN x ELSE d[m][j]

LEMMA DosEscritos ==
  ASSUME NEW d \in Discos, NEW n0 \in Nodos, NEW n1 \in Nodos, NEW k0, NEW k1, NEW x \in Dato
  PROVE  Escritos(Escribe(Escribe(d, n0, k0, x), n1, k1, x), d, n0, k0, n1, k1, x)
  <1> DEFINE D == Escribe(d, n0, k0, x)
             E == Escribe(D, n1, k1, x)
  <1>1. D \in Discos /\ \A m \in Nodos : \A j \in 0..(Capacidad[m] - 1) :
          D[m][j] = IF m = n0 /\ j = k0 THEN x ELSE d[m][j]
    BY EscribeEs
  <1> HIDE DEF D
  <1>2. \A m \in Nodos : \A j \in 0..(Capacidad[m] - 1) :
          E[m][j] = IF m = n1 /\ j = k1 THEN x ELSE D[m][j]
    BY <1>1, EscribeEs
  <1> HIDE DEF E
  <1>3. Escritos(E, d, n0, k0, n1, k1, x)
    <2> SUFFICES ASSUME NEW m \in Nodos, NEW j \in 0..(Capacidad[m] - 1)
                 PROVE  E[m][j] = IF (m = n0 /\ j = k0) \/ (m = n1 /\ j = k1) THEN x ELSE d[m][j]
      BY DEF Escritos
    <2>1. D[m][j] = IF m = n0 /\ j = k0 THEN x ELSE d[m][j]  BY <1>1
    <2>2. E[m][j] = IF m = n1 /\ j = k1 THEN x ELSE D[m][j]  BY <1>2
    <2> QED  BY <2>1, <2>2
  <1> QED  BY <1>3 DEF E, D

\* What both sends do to DataNodes that are there, within their size.
LEMMA EnvioDN ==
  ASSUME Invariante, op # Nulo, op.faltan > 0, NEW u \in Ubicaciones,
         NEW k0, NEW k1, NEW e, Envio(u[1], u[2], k0, k1, e),
         nombres[u[1]] \in vivos, nombres[u[2]] \in vivos,
         k0 < Capacidad[nombres[u[1]]], k1 < Capacidad[nombres[u[2]]]
  PROVE  LET n0 == nombres[u[1]]
             n1 == nombres[u[2]]
             x  == <<op.ruta, Len(op.hechos) + 1>>
         IN  /\ vivos' = vivos
             /\ sobra[n0] = <<>> /\ sobra[n1] = <<>> => e.ok /\ sobra' = sobra
             /\ sobra[n0] = <<>> /\ sobra[n1] = <<>> /\ prueba[n0] = 0 /\ prueba[n1] = 0 =>
                  prueba' = prueba /\ Escritos(disco', disco, n0, k0, n1, k1, x)
  <1> DEFINE n0 == nombres[u[1]]
             n1 == nombres[u[2]]
             x  == <<op.ruta, Len(op.hechos) + 1>>
  <1>1. n0 \in Nodos /\ n1 \in Nodos /\ k0 \in Nat /\ k1 \in Nat  BY EnvioEs
  <1>2. x \in Dato
    <2>1. Recien(n0, k0, n1, k1).dato \in Dato  BY EnvioEs
    <2> QED  BY <2>1 DEF Recien
  <1>3. /\ NuevoDN(e.s)
        /\ \E d \in MandaYEspera(EstadoDN, n0, k0, x) :
             e \in IF d.ok THEN MandaYEspera(d.s, n1, k1, x) ELSE {d}
    BY DEF Envio
  <1>4. n0 \in vivos /\ n1 \in vivos /\ k0 < Capacidad[n0] /\ k1 < Capacidad[n1]  OBVIOUS
  <1> HIDE DEF n0, n1, x
  <1>5. PICK d \in MandaYEspera(EstadoDN, n0, k0, x) :
           e \in IF d.ok THEN MandaYEspera(d.s, n1, k1, x) ELSE {d}
    BY <1>3
  <1>6. /\ EstadoDN \in EstadosDN /\ EstadoDN.vivos = vivos /\ EstadoDN.disco = disco
        /\ EstadoDN.prueba = prueba /\ EstadoDN.sobra = sobra
    BY DEF Invariante, EstadoDN
  <1>7. /\ d.s \in EstadosDN /\ d.ok \in BOOLEAN /\ d.s.vivos = vivos
        /\ sobra[n0] = <<>> => d.ok /\ d.s.sobra = sobra
        /\ prueba[n0] = 0 => d.s.prueba = prueba /\ d.s.disco = [disco EXCEPT ![n0][k0] = x]
    <2> DEFINE s == EstadoDN
    <2>1. /\ s \in EstadosDN /\ s.vivos = vivos /\ s.disco = disco /\ s.prueba = prueba
          /\ s.sobra = sobra /\ n0 \in s.vivos /\ d \in MandaYEspera(s, n0, k0, x)
      BY <1>4, <1>5, <1>6
    <2>2. /\ d.s \in EstadosDN /\ d.ok \in BOOLEAN /\ d.s.vivos = s.vivos
          /\ s.sobra[n0] = <<>> => d.ok /\ d.s.sobra = s.sobra
          /\ s.prueba[n0] = 0 => /\ d.s.prueba = s.prueba
                                 /\ d.s.disco = [s.disco EXCEPT ![n0][k0] = x]
      <3> HIDE DEF s
      <3> QED  BY <1>1, <1>2, <1>4, <2>1, MandaYEsperaEs
    <2> HIDE DEF s
    <2> QED  BY <2>1, <2>2
  <1>8. vivos' = e.s.vivos /\ disco' = e.s.disco /\ prueba' = e.s.prueba /\ sobra' = e.s.sobra
    BY <1>3 DEF NuevoDN
  <1>9. CASE ~ d.ok
    <2>1. e = d /\ ~ (sobra[n0] = <<>>)  BY <1>5, <1>7, <1>9
    <2> QED  BY <1>7, <1>8, <2>1 DEF n0
  <1>10. CASE d.ok
    <2>1. e \in MandaYEspera(d.s, n1, k1, x)  BY <1>5, <1>10
    <2> DEFINE s == d.s
    <2>a. e \in MandaYEspera(s, n1, k1, x) /\ s \in EstadosDN /\ n1 \in s.vivos  BY <1>4, <1>7, <2>1
    <2>b. /\ e.s.vivos = s.vivos
          /\ s.sobra[n1] = <<>> => e.ok /\ e.s.sobra = s.sobra
          /\ s.prueba[n1] = 0 => /\ e.s.prueba = s.prueba
                                 /\ e.s.disco = [s.disco EXCEPT ![n1][k1] = x]
      <3> HIDE DEF s
      <3> QED  BY <1>1, <1>2, <1>4, <2>a, MandaYEsperaEs
    <2>2. /\ e.s.vivos = d.s.vivos
          /\ d.s.sobra[n1] = <<>> => e.ok /\ e.s.sobra = d.s.sobra
          /\ d.s.prueba[n1] = 0 => /\ e.s.prueba = d.s.prueba
                                   /\ e.s.disco = [d.s.disco EXCEPT ![n1][k1] = x]
      BY <2>b
    <2> HIDE DEF s
    <2>3. vivos' = vivos  BY <1>7, <1>8, <2>2
    <2>4. sobra[n0] = <<>> /\ sobra[n1] = <<>> => e.ok /\ sobra' = sobra  BY <1>7, <1>8, <2>2
    <2>5. ASSUME prueba[n0] = 0, prueba[n1] = 0
          PROVE  prueba' = prueba /\ Escritos(disco', disco, n0, k0, n1, k1, x)
      <3>1. d.s.disco = Escribe(disco, n0, k0, x) /\ disco' = Escribe(d.s.disco, n1, k1, x)
        BY <1>7, <1>8, <2>2, <2>5 DEF Escribe
      <3>2. prueba' = prueba  BY <1>7, <1>8, <2>2, <2>5
      <3>3. disco \in Discos  BY EstadoSon DEF Invariante
      <3>4. Escritos(Escribe(Escribe(disco, n0, k0, x), n1, k1, x), disco, n0, k0, n1, k1, x)
        BY <1>1, <1>2, <3>3, DosEscritos
      <3> QED  BY <3>1, <3>2, <3>4
    <2> QED  BY <2>3, <2>4, <2>5 DEF n0, n1, x
  <1> QED  BY <1>7, <1>9, <1>10

\* cpblock does not fail while the DataNode it reads from and the one it sends to are there.
LEMMA CopiaDN ==
  ASSUME Invariante, NEW r \in DOMAIN archivos, NEW i \in DOMAIN archivos[r], NEW n \in Nodos,
         NEW k, NEW e, Copia(r, i, n, k, e), n \in vivos, k < Capacidad[n],
         Fuente(archivos[r][i]).nodo \in socket, Fuente(archivos[r][i]).nodo \in vivos,
         Fuente(archivos[r][i]).num < Capacidad[Fuente(archivos[r][i]).nodo]
  PROVE  e.ok /\ vivos' = vivos
  <1> DEFINE b == archivos[r][i]
             o == Fuente(b)
  <1>1. b \in Buenos /\ b \in Bloque /\ k \in Nat  BY CopiaEs, BuenosSon
  <1>2. o.nodo \in Nodos /\ o.num \in Int  BY <1>1 DEF Fuente, Bloque, Ubicacion
  <1>3. o.nodo \in socket /\ o.nodo \in vivos /\ o.num < Capacidad[o.nodo]  OBVIOUS
  <1>4. /\ NuevoDN(e.s)
        /\ \E d \in Lee(EstadoDN, o.nodo, o.num) : e \in IF d.ok THEN Manda(d.s, n, k, d.dato) ELSE {d}
    BY <1>3 DEF Copia
  <1> HIDE DEF b, o
  <1>5. PICK d \in Lee(EstadoDN, o.nodo, o.num) : e \in IF d.ok THEN Manda(d.s, n, k, d.dato) ELSE {d}
    BY <1>4
  <1>6. EstadoDN \in EstadosDN /\ EstadoDN.vivos = vivos  BY DEF Invariante, EstadoDN
  <1>7. d.s \in EstadosDN /\ d.ok /\ d.dato \in Dato /\ d.s.vivos = vivos
    BY <1>2, <1>3, <1>6, LeeEs
  <1>8. e \in Manda(d.s, n, k, d.dato)  BY <1>5, <1>7
  <1>9. e.ok /\ e.s.vivos = vivos
    <2> DEFINE s == d.s
               y == d.dato
    <2>1. e \in Manda(s, n, k, y) /\ s \in EstadosDN /\ y \in Dato /\ n \in s.vivos /\ s.vivos = vivos
      BY <1>7, <1>8
    <2> HIDE DEF s, y
    <2>2. e.ok /\ e.s.vivos = s.vivos  BY <1>1, <2>1, MandaEs
    <2> QED  BY <2>1, <2>2
  <1> QED  BY <1>4, <1>9 DEF NuevoDN

Contado ==
  muertes = 0 => /\ socket = Range(nombres) /\ socket \subseteq vivos
                 /\ Cuentas(socket, bitmap, libres)
                 /\ \A b \in Guardados : b.c0.nodo \in socket

LEMMA CuentaInicio == Init => Contado
  <1> SUFFICES ASSUME Init PROVE Contado  OBVIOUS
  <1>1. Range(nombres) = {} /\ socket = {}  BY SinNodos DEF Init, Range
  <1>2. Guardados = {}
    <2> SUFFICES ASSUME NEW b \in Guardados PROVE FALSE  OBVIOUS
    <2>1. DOMAIN archivos = {} /\ op = Nulo  BY SinNodos DEF Init
    <2> QED  BY <2>1, GuardadosDonde
  <1>3. Cuentas(socket, bitmap, libres)  BY <1>1 DEF Init, Cuentas
  <1> QED  BY <1>1, <1>2, <1>3 DEF Contado

LEMMA CuentaCae == ASSUME CaeFS PROVE Contado'
  <1>1. Range(nombres)' = {} /\ socket' = {}  BY SinNodos DEF CaeFS, Range
  <1>2. Guardados' = {}  BY SitiosCae
  <1>3. Cuentas(socket, bitmap, libres)'  BY <1>1 DEF CaeFS, Cuentas
  <1> QED  BY <1>1, <1>2, <1>3 DEF Contado

\* Neither a node nor a counter changes.
LEMMA CuentaQuieto ==
  ASSUME Contado, UNCHANGED <<nombres, socket, bitmap, libres, vivos, muertes>>, Guardados' = Guardados
  PROVE  Contado'
  <1>1. Range(nombres)' = Range(nombres)  BY DEF Range
  <1>2. Cuentas(socket, bitmap, libres)' = Cuentas(socket, bitmap, libres)  BY DEF Cuentas
  <1> QED  BY <1>1, <1>2 DEF Contado

\* What Contado is while no DataNode has died, and what is to be shown of it.
LEMMA ContadoDespues ==
  ASSUME Contado, UNCHANGED <<nombres, socket, muertes>>,
         muertes = 0 => /\ vivos' = vivos /\ Cuentas(socket, bitmap', libres')
                        /\ \A b \in Guardados' : b.c0.nodo \in socket
  PROVE  Contado'
  <1> SUFFICES ASSUME muertes = 0 PROVE Contado'  BY DEF Contado
  <1>1. Range(nombres)' = Range(nombres) /\ socket' = socket /\ socket = Range(nombres)
    BY DEF Contado, Range
  <1>2. socket' \subseteq vivos'  BY DEF Contado
  <1>3. Cuentas(socket', bitmap', libres')  BY <1>1
  <1> QED  BY <1>1, <1>2, <1>3 DEF Contado

\* The blocks of one file are told apart by their data.
LEMMA HechosDistintos ==
  ASSUME NEW r, NEW s, BloquesDe(r, s)
  PROVE  \A i, j \in DOMAIN s : s[i] = s[j] => i = j
  <1>1. \A i \in DOMAIN s : s[i].dato = <<r, i>>  BY BloqueDe
  <1> QED  BY <1>1

LEMMA CuentaEnviar ==
  ASSUME Invariante, SitiosBien, Contado, enviarBloque
  PROVE  Contado'
  <1>1. op # Nulo /\ op.faltan > 0 /\ UNCHANGED <<nombres, socket, muertes>>  BY DEF enviarBloque
  <1> SUFFICES ASSUME muertes = 0
               PROVE  /\ vivos' = vivos /\ Cuentas(socket, bitmap', libres')
                      /\ \A b \in Guardados' : b.c0.nodo \in socket
    BY <1>1, ContadoDespues
  <1>2. PICK u \in Ubicaciones : \E k0, k1, e : Envio(u[1], u[2], k0, k1, e)  BY EnvioHay
  <1>3. PICK k0, k1, e : Envio(u[1], u[2], k0, k1, e)  BY <1>2
  <1> DEFINE n0 == nombres[u[1]]
             n1 == nombres[u[2]]
             b  == Recien(n0, k0, n1, k1)
             M  == ConBits(n0, k0, n1, k1)
             L  == SinLibres(n0, n1)
  <1>4. /\ n0 \in Nodos /\ n1 \in Nodos /\ n0 \in socket /\ n1 \in socket
        /\ libres[n0] > 0 /\ libres[n1] > IF n0 = n1 THEN 1 ELSE 0
        /\ k0 \in Nat /\ k0 \notin bitmap[n0] /\ k0 <= Cardinality(bitmap[n0])
        /\ k1 \in Nat /\ k1 \notin bitmap[n1] /\ (n0 = n1 => k0 # k1)
        /\ k1 <= Cardinality(bitmap[n1]) + IF n0 = n1 THEN 1 ELSE 0
        /\ BitsBien(M, L)
        /\ \/ e.ok /\ bitmap' = M /\ libres' = L
           \/ ~ e.ok /\ Liberar(op.hechos, M, L)
    BY <1>1, <1>3, EnvioEs
  <1>5. /\ socket \subseteq vivos /\ Cuentas(socket, bitmap, libres) /\ BitsBien(bitmap, libres)
        /\ \A c \in Guardados : c.c0.nodo \in socket
    BY DEF Contado, Invariante
  <1>6. /\ b.c0.nodo = n0
        /\ \/ e.ok /\ Guardados' = Guardados \cup {b}
           \/ ~ e.ok /\ Guardados' \subseteq Guardados
    <2>1. b.c0.nodo = n0  BY DEF Recien, Ubi
    <2> QED  BY <1>3, <2>1, SitiosEnvio
  <1>7. \A n \in Nodos : bitmap[n] \subseteq M[n]  BY DEF ConBits
  <1>8. Cuentas(socket, M, L) /\ k0 < Capacidad[n0] /\ k1 < Capacidad[n1]
    <2> HIDE DEF n0, n1
    <2> QED  BY <1>4, <1>5, TomaCuentas
  <1>9. vivos' = vivos
    <2>1. n0 \in vivos /\ n1 \in vivos  BY <1>4, <1>5
    <2> QED  BY <1>1, <1>3, <1>8, <2>1, EnvioDN
  <1> HIDE DEF n0, n1, b, M, L
  <1>10. \A c \in Guardados' : c.c0.nodo \in socket  BY <1>4, <1>5, <1>6
  <1>11. CASE ~ e.ok /\ Liberar(op.hechos, M, L)
    <2> DEFINE B == op.hechos
               G == Guardados
    <2>1. B \in Seq(Bloque) /\ \A i \in DOMAIN B : B[i] \in G
      BY <1>1, GuardadosDonde DEF Invariante, OpBien, Operacion
    <2>2. \A i, j \in DOMAIN B : B[i] = B[j] => i = j
      BY <1>1, HechosDistintos DEF Invariante, OpBien
    <2>3. \A n \in Nodos : bitmap'[n] = M[n] \ Numeros(B, n) /\ libres'[n] = L[n] + Cardinality(Usos(B, n))
      BY <1>11 DEF Liberar
    <2>4. \A c \in G : \A v \in Lugares(c) : v.num \in bitmap[v.nodo] => v.num \in M[v.nodo]
      BY <1>7, LugarEs
    <2>5. Sitios(G, bitmap) /\ G \in SUBSET G  BY DEF SitiosBien
    <2> HIDE DEF B, G
    <2>6. Sitios(G, M)  BY <2>4, <2>5, SitiosMenos
    <2> DEFINE M2 == bitmap'
               L2 == libres'
    <2>7. Cuentas(socket, M2, L2)
      <3>1. \A n \in Nodos : M2[n] = M[n] \ Numeros(B, n) /\ L2[n] = L[n] + Cardinality(Usos(B, n))
        BY <2>3
      <3> HIDE DEF M2, L2
      <3> QED  BY <1>4, <1>8, <2>1, <2>2, <2>6, <3>1, LiberaCuentas
    <2> QED  BY <1>9, <1>10, <2>7
  <1>12. CASE bitmap' = M /\ libres' = L  BY <1>8, <1>9, <1>10, <1>12
  <1> QED  BY <1>4, <1>11, <1>12

\* Commands that free, while nobody stores.
LEMMA CuentaLibera ==
  ASSUME Invariante, op = Nulo, Cuentas(socket, bitmap, libres), NEW B \in Seq(Bloque),
         LiberarSinMutex(B), NEW G, Sitios(G, bitmap), \A i \in DOMAIN B : B[i] \in G,
         \A i, j \in DOMAIN B : B[i] = B[j] => i = j
  PROVE  Cuentas(socket, bitmap', libres')
  <1>1. BitsBien(bitmap, libres)  BY DEF Invariante
  <1>2. \A n \in Nodos : bitmap'[n] = bitmap[n] \ Numeros(B, n) /\ libres'[n] = libres[n] + Cardinality(Usos(B, n))
    BY SinNadie
  <1> DEFINE M2 == bitmap'
             L2 == libres'
  <1>3. \A n \in Nodos : M2[n] = bitmap[n] \ Numeros(B, n) /\ L2[n] = libres[n] + Cardinality(Usos(B, n))
    BY <1>2
  <1>4. Cuentas(socket, M2, L2)
    <2> HIDE DEF M2, L2
    <2> QED  BY <1>1, <1>3, LiberaCuentas
  <1> QED  BY <1>4

LEMMA CuentaRm ==
  ASSUME SinCarreras, Invariante, SitiosBien, Contado, NEW r \in Rutas, rmArchivo(r)
  PROVE  Contado'
  <1> DEFINE B == archivos[r]
  <1>1. /\ r \in DOMAIN archivos /\ LiberarSinMutex(B)
        /\ UNCHANGED <<nombres, socket, vivos, muertes>>
    BY DEF rmArchivo, varsDN
  <1>2. op = Nulo  BY SitiosRm
  <1>3. B \in Seq(Bloque) /\ \A i \in DOMAIN B : B[i] \in Guardados
    BY <1>1, HechosBien, GuardadosDonde
  <1>4. \A i, j \in DOMAIN B : B[i] = B[j] => i = j
    BY <1>1, HechosDistintos DEF Invariante, ArchivosBien
  <1>5. Guardados' \subseteq Guardados  BY SitiosRm
  <1> HIDE DEF B
  <1>6. muertes = 0 => Cuentas(socket, bitmap', libres')
    BY <1>1, <1>2, <1>3, <1>4, CuentaLibera DEF Contado, SitiosBien
  <1> QED  BY <1>1, <1>5, <1>6, ContadoDespues DEF Contado

LEMMA CuentaFormat ==
  ASSUME SinCarreras, Invariante, Contado, formatFileSystem
  PROVE  Contado'
  <1>1. op = Nulo /\ Guardados' = {}  BY SitiosFormat
  <1>2. /\ bitmap' = [n \in Nodos |-> {}] /\ UNCHANGED <<nombres, socket, vivos, muertes>>
        /\ libres' = [n \in Nodos |-> IF n \in Range(nombres) \ {} THEN Capacidad[n] ELSE libres[n]]
    BY <1>1 DEF formatFileSystem, varsDN
  <1>3. ASSUME muertes = 0 PROVE Cuentas(socket, bitmap', libres')
    <2>1. socket = Range(nombres)  BY <1>3 DEF Contado
    <2>2. ASSUME NEW n \in Nodos, n \in socket PROVE Cuadra(n, bitmap'[n], libres'[n])
      <3>1. bitmap'[n] = {} /\ libres'[n] = Capacidad[n]  BY <1>2, <2>1, <2>2
      <3>2. Capacidad[n] \in Nat /\ Cardinality({}) = 0  BY SupuestoBloques, FS_EmptySet
      <3>3. Cuadra(n, {}, Capacidad[n])  BY <3>2 DEF Cuadra
      <3> QED  BY <3>1, <3>3
    <2>3. ASSUME NEW n \in Nodos, n \notin socket PROVE bitmap'[n] = {} /\ libres'[n] = 0
      BY <1>2, <1>3, <2>1, <2>3 DEF Contado, Cuentas
    <2> QED  BY <2>2, <2>3 DEF Cuentas
  <1> QED  BY <1>1, <1>2, <1>3, ContadoDespues

LEMMA CuentaRmBloque ==
  ASSUME SinCarreras, Invariante, SitiosBien, Contado, NEW r \in DOMAIN archivos,
         NEW i \in DOMAIN archivos[r], NEW c \in 0..(MaxOtras + 2), rmBloque(r, i, c)
  PROVE  Contado'
  <1> DEFINE b == archivos[r][i]
  <1>1. op = Nulo  BY SitiosRmBloque
  <1>2. /\ b \in Buenos /\ b \in Bloque
        /\ \/ CaeFS
           \/ \E u \in Ubicacion, s \in Buenos :
                /\ s.dato = b.dato /\ LiberarSinMutex(Quitado(b, u)) /\ CambiaBloque(r, i, s)
                /\ u.num >= 0 => u \in Lugares(b)
                /\ s.c0.num >= 0 \/ s.c0.nodo = b.c0.nodo
                /\ UNCHANGED <<fs, op, nombres, socket, puntero, varsDN>>
    BY RmBloqueCasos
  <1>3. CASE CaeFS  BY <1>3, CuentaCae
  <1>4. ASSUME NEW u \in Ubicacion, NEW s \in Buenos, s.dato = b.dato,
               LiberarSinMutex(Quitado(b, u)), CambiaBloque(r, i, s),
               u.num >= 0 => u \in Lugares(b), s.c0.num >= 0 \/ s.c0.nodo = b.c0.nodo,
               UNCHANGED <<fs, op, nombres, socket, puntero, varsDN>>
        PROVE  Contado'
    <2>1. op' = Nulo /\ UNCHANGED <<nombres, socket, vivos, muertes>>  BY <1>1, <1>4 DEF varsDN
    <2>2. b \in Guardados /\ Guardados' = (Guardados \ {b}) \cup {s}
      BY <1>1, <1>4, <2>1, CambiaGuardados
    <2> DEFINE B == Quitado(b, u)
               q == B[1]
    <2>3. B \in Seq(Bloque)  BY <1>2, QuitadoEs
    <2>4. /\ DOMAIN B = {1} /\ SinRepetir(q)
          /\ Lugares(q) = IF u.num >= 0 THEN {u} ELSE {}
      BY <1>2, QuitadoLugar
    <2>5. LiberarSinMutex(B) /\ (u.num >= 0 => u.num \in bitmap[u.nodo])
      BY <1>4, <2>2 DEF SitiosBien, Sitios
    <2>6. SitiosBien'  BY SitiosRmBloque
    <2> HIDE DEF B, q, b
    <2>7. Sitios({q}, bitmap)  BY <2>4, <2>5 DEF Sitios
    <2>8. \A j \in DOMAIN B : B[j] \in {q}  BY <2>4 DEF q
    <2>9. \A j, k \in DOMAIN B : B[j] = B[k] => j = k  BY <2>4
    <2>10. ASSUME muertes = 0 PROVE Cuentas(socket, bitmap', libres')
      <3> DEFINE G == {q}
      <3>1. Sitios(G, bitmap) /\ \A j \in DOMAIN B : B[j] \in G  BY <2>7, <2>8
      <3> HIDE DEF G
      <3> QED  BY <1>1, <2>3, <2>5, <2>9, <2>10, <3>1, CuentaLibera DEF Contado
    <2>11. ASSUME muertes = 0 PROVE s.c0.nodo \in socket
      <3>1. CASE s.c0.num >= 0
        <4>1. s.c0 \in Ubicacion /\ s \in Bloque  BY BuenosSon DEF Bloque
        <4>2. s.c0 \in Lugares(s)  BY <3>1, <4>1, LugaresSon
        <4>3. s.c0.num \in bitmap'[s.c0.nodo] /\ s.c0.nodo \in Nodos
          BY <2>2, <2>6, <4>1, <4>2 DEF SitiosBien, Sitios, Ubicacion
        <4>4. Cuentas(socket, bitmap', libres')  BY <2>10, <2>11
        <4> QED  BY <4>3, <4>4 DEF Cuentas
      <3>2. CASE s.c0.nodo = b.c0.nodo  BY <2>2, <2>11, <3>2 DEF Contado
      <3> QED  BY <1>4, <3>1, <3>2 DEF b
    <2>12. muertes = 0 => \A d \in Guardados' : d.c0.nodo \in socket
      BY <2>2, <2>11 DEF Contado
    <2> QED  BY <2>1, <2>10, <2>12, ContadoDespues
  <1> QED  BY <1>2, <1>3, <1>4

LEMMA CuentaCpblock ==
  ASSUME Invariante, SitiosBien, Contado, NEW r \in DOMAIN archivos,
         NEW i \in DOMAIN archivos[r], NEW n \in Nodos, cpblock(r, i, n)
  PROVE  Contado'
  <1> DEFINE b == archivos[r][i]
             o == Fuente(b)
  <1>1. /\ op = Nulo /\ op' = Nulo /\ UNCHANGED <<nombres, socket, muertes>>
        /\ n \in socket /\ libres[n] # 0
    BY DEF cpblock, PuedeCopiar
  <1> SUFFICES ASSUME muertes = 0
               PROVE  /\ vivos' = vivos /\ Cuentas(socket, bitmap', libres')
                      /\ \A d \in Guardados' : d.c0.nodo \in socket
    BY <1>1, ContadoDespues
  <1>2. PICK k, e : Copia(r, i, n, k, e)  BY CopiaHay
  <1>3. /\ b \in Buenos /\ k \in Nat /\ k \notin bitmap[n] /\ k <= Cardinality(bitmap[n])
        /\ Ubi(n, k) \in Ubicacion /\ bitmap' = [bitmap EXCEPT ![n] = @ \cup {k}]
        /\ \/ /\ e.ok /\ libres' = [libres EXCEPT ![n] = @ - 1]
              /\ CambiaBloque(r, i, ConCopia(b, Ubi(n, k)))
           \/ ~ e.ok /\ UNCHANGED <<libres, archivos>>
    BY <1>2, CopiaEs
  <1>4. /\ socket \subseteq vivos /\ Cuentas(socket, bitmap, libres) /\ BitsBien(bitmap, libres)
        /\ \A d \in Guardados : d.c0.nodo \in socket
    BY DEF Contado, Invariante
  <1>5. b \in Guardados /\ b \in Bloque  BY <1>3, GuardadosDonde, BuenosSon
  <1>6. Cuadra(n, bitmap[n] \cup {k}, libres[n] - 1) /\ k < Capacidad[n]
    <2>1. Cuadra(n, bitmap[n], libres[n]) /\ IsFiniteSet(bitmap[n])
      BY <1>1, <1>4, BitsFinitos DEF Cuentas
    <2>2. libres[n] > 0  BY <1>1, <2>1 DEF Cuadra
    <2> QED  BY <1>3, <2>1, <2>2, CuadraToma
  <1>7. o = b.c0 /\ o.nodo \in socket /\ o.nodo \in vivos  BY <1>4, <1>5 DEF Fuente
  <1>8. o.num < Capacidad[o.nodo]
    <2>1. o \in Ubicacion /\ o.nodo \in Nodos /\ o.num \in Int  BY <1>5, <1>7 DEF Bloque, Ubicacion
    <2>2. Capacidad[o.nodo] \in Nat  BY <2>1, SupuestoBloques
    <2>3. CASE o.num >= 0
      <3>1. o \in Lugares(b)  BY <1>5, <1>7, <2>1, <2>3, LugaresSon
      <3>2. o.num \in bitmap[o.nodo]  BY <1>5, <3>1 DEF SitiosBien, Sitios
      <3> QED  BY <1>4, <1>7, <2>1, <3>2 DEF Cuentas, Cuadra
    <2>4. CASE ~ (o.num >= 0)  BY <2>1, <2>2, <2>4
    <2> QED  BY <2>3, <2>4
  <1>9. e.ok /\ vivos' = vivos
    <2>1. n \in vivos  BY <1>1, <1>4
    <2> QED  BY <1>2, <1>6, <1>7, <1>8, <2>1, CopiaDN
  <1>10. Cuentas(socket, bitmap', libres')
    <2>1. \A m \in Nodos : bitmap'[m] = IF m = n THEN bitmap[n] \cup {k} ELSE bitmap[m]
      BY <1>3, <1>4 DEF BitsBien
    <2>2. libres' = [libres EXCEPT ![n] = @ - 1]  BY <1>3, <1>9
    <2>3. \A m \in Nodos : libres'[m] = IF m = n THEN libres[n] - 1 ELSE libres[m]
      BY <1>4, <2>2 DEF BitsBien
    <2>4. ASSUME NEW m \in Nodos
          PROVE  IF m \in socket THEN Cuadra(m, bitmap'[m], libres'[m])
                 ELSE bitmap'[m] = {} /\ libres'[m] = 0
      <3>1. CASE m = n  BY <1>1, <1>6, <2>1, <2>3, <3>1
      <3>2. CASE m # n
        <4>1. bitmap'[m] = bitmap[m] /\ libres'[m] = libres[m]  BY <2>1, <2>3, <3>2
        <4> QED  BY <1>4, <4>1 DEF Cuentas
      <3> QED  BY <3>1, <3>2
    <2> QED  BY <2>4 DEF Cuentas
  <1>11. \A d \in Guardados' : d.c0.nodo \in socket
    <2> DEFINE s == ConCopia(b, Ubi(n, k))
    <2>1. CambiaBloque(r, i, s)  BY <1>3, <1>9
    <2>2. s \in Buenos /\ s.dato = b.dato
      <3>1. Ubi(n, k).num >= 0  BY <1>3 DEF Ubi
      <3> QED  BY <1>3, <3>1, ConCopiaEs
    <2>3. Guardados' = (Guardados \ {b}) \cup {s}  BY <1>1, <2>1, <2>2, CambiaGuardados
    <2>4. s.c0 = b.c0 \/ s.c0 = Ubi(n, k)
      <3> HIDE DEF b
      <3> QED  BY <1>5 DEF ConCopia, Bloque
    <2>5. s.c0.nodo \in socket  BY <1>1, <1>4, <1>5, <2>4 DEF Ubi
    <2> HIDE DEF s
    <2> QED  BY <1>4, <2>3, <2>5
  <1> QED  BY <1>9, <1>10, <1>11

\* A DataNode that starts while none has died is new, and its probe is made.
LEMMA CuentaAsociar ==
  ASSUME PruebaCabe, Invariante, Contado, NEW n \in Nodos, asociarNodo(n)
  PROVE  /\ Contado'
         /\ muertes = 0 => prueba' = [prueba EXCEPT ![n] = 0]
  <1>1. /\ n \notin vivos /\ op = Nulo /\ socket' = socket \cup {n} /\ vivos' = vivos \cup {n}
        /\ UNCHANGED <<op, bitmap, archivos, muertes>>
        /\ prueba' = [prueba EXCEPT ![n] = PruebaTras(
             /\ HayPrueba
             /\ HayEspacio(1, IF n \notin Range(nombres) THEN [libres EXCEPT ![n] = Capacidad[n]]
                              ELSE libres, socket \cup {n}))]
    BY DEF asociarNodo
  <1> SUFFICES ASSUME muertes = 0
               PROVE  Contado' /\ prueba' = [prueba EXCEPT ![n] = 0]
    BY <1>1 DEF Contado
  <1>2. /\ socket = Range(nombres) /\ socket \subseteq vivos /\ Cuentas(socket, bitmap, libres)
        /\ \A b \in Guardados : b.c0.nodo \in socket
        /\ libres \in [Nodos -> Int] /\ socket \subseteq Nodos
    BY DEF Contado, Invariante, BitsBien, NodosBien, Range
  <1>3. n \notin socket  BY <1>1, <1>2
  <1> DEFINE L == [libres EXCEPT ![n] = Capacidad[n]]
             S == socket \cup {n}
  <1>4. Capacidad[n] \in Nat /\ Capacidad[n] >= 2  BY SupuestoBloques DEF PruebaCabe
  <1>5. \A m \in S : L[m] \in Nat  BY <1>2, <1>4 DEF Cuentas, Cuadra
  <1>6. IsFiniteSet(S) /\ n \in S
    <2>1. IsFiniteSet(Nodos) /\ S \in SUBSET Nodos  BY <1>2, SupuestoBloques
    <2> QED  BY <2>1, FS_Subset
  <1>7. L[n] = Capacidad[n]  BY <1>2
  <1>8. HayEspacio(1, L, S)
    <2> HIDE DEF L, S
    <2>1. SumFunctionOnSet(L, S) \in Nat /\ L[n] <= SumFunctionOnSet(L, S)  BY <1>5, <1>6, SumaEs
    <2>2. 2 <= SumFunctionOnSet(L, S)  BY <1>4, <1>7, <2>1
    <2> QED  BY <2>2 DEF HayEspacio
  <1>9. prueba' = [prueba EXCEPT ![n] = 0]
    <2>1. HayPrueba  BY DEF PruebaCabe
    <2>2. n \notin Range(nombres)  BY <1>2, <1>3
    <2> HIDE DEF L, S
    <2>3. prueba' = [prueba EXCEPT ![n] = PruebaTras(HayPrueba /\ HayEspacio(1, L, S))]
      BY <1>1, <2>2 DEF L, S
    <2> QED  BY <1>8, <2>1, <2>3 DEF PruebaTras
  <1>10. libres' = L
    <2>1. HayPrueba  BY DEF PruebaCabe
    <2>2. libres' = [libres EXCEPT ![n] =
                       IF n \in Range(nombres) THEN @
                       ELSE IF HayPrueba /\ HayEspacio(1, [libres EXCEPT ![n] = Capacidad[n]],
                                                       socket \cup {n})
                            THEN Capacidad[n] ELSE Capacidad[n] + 2]
      BY AsociaEs
    <2> QED  BY <1>2, <1>3, <1>8, <2>1, <2>2
  <1>11. Cuentas(socket', bitmap', libres')
    <2>1. bitmap[n] = {}  BY <1>2, <1>3 DEF Cuentas
    <2>2. Cuadra(n, {}, Capacidad[n])
      <3>1. Cardinality({}) = 0  BY FS_EmptySet
      <3> QED  BY <1>4, <3>1 DEF Cuadra
    <2>3. \A m \in Nodos : m # n => L[m] = libres[m]  BY <1>2
    <2> QED  BY <1>1, <1>2, <1>7, <1>10, <2>1, <2>2, <2>3 DEF Cuentas
  <1>12. Guardados' = Guardados
    <2>1. \A d : d \in Guardados' <=> d \in Guardados  BY <1>1, GuardadosDonde, GuardadosDespues
    <2> QED  BY <2>1
  <1>13. Range(nombres)' = Range(nombres) \cup {n}  BY AsociaEs
  <1> QED  BY <1>1, <1>2, <1>9, <1>11, <1>12, <1>13 DEF Contado

LEMMA CuentaPaso ==
  ASSUME SinCarreras, PruebaCabe, Invariante, SitiosBien, Contado, [Next]_vars
  PROVE  Contado'
  <1>1. CASE UNCHANGED vars  BY <1>1, SitiosQuieto, CuentaQuieto DEF vars, varsFS, varsDN
  <1>2. ASSUME NEW r, NEW t, NEW h, NEW k, Empieza(r, t, h, k) PROVE Contado'
    <2>1. UNCHANGED <<nombres, socket, bitmap, libres, vivos, muertes>>  BY <1>2 DEF Empieza, varsDN
    <2> QED  BY <1>2, <2>1, SitiosEmpieza, CuentaQuieto
  <1>3. CASE enviarBloque  BY <1>3, CuentaEnviar
  <1>4. CASE enviarBloqueCae  BY <1>4, CaeHay, CuentaCae
  <1>5. CASE registrarArchivo
    <2>1. UNCHANGED <<nombres, socket, bitmap, libres, vivos, muertes>>
      BY <1>5 DEF registrarArchivo, varsDN
    <2> QED  BY <1>5, <2>1, SitiosRegistrar, CuentaQuieto
  <1>6. CASE \E r \in Rutas : rmArchivo(r)  BY <1>6, CuentaRm
  <1>7. CASE formatFileSystem  BY <1>7, CuentaFormat
  <1>8. ASSUME NEW r \in DOMAIN archivos, NEW i \in DOMAIN archivos[r],
               \/ \E c \in 0..(MaxOtras + 2) : rmBloque(r, i, c)
               \/ \E n \in Nodos : cpblock(r, i, n) \/ cpblockCae(r, i, n)
        PROVE  Contado'
    BY <1>8, CuentaRmBloque, CuentaCpblock, CaeHay, CuentaCae
  <1>9. ASSUME NEW n \in Nodos, asociarNodo(n) PROVE Contado'  BY <1>9, CuentaAsociar
  <1>10. ASSUME NEW n \in Nodos, manejarCliente(n) PROVE Contado'
    <2>1. UNCHANGED <<op, archivos, nombres, socket, bitmap, libres, vivos, muertes>>
      BY <1>10 DEF manejarCliente, varsFS
    <2> QED  BY <2>1, SitiosQuieto, CuentaQuieto
  <1>11. ASSUME NEW n \in Nodos, marcarNodoDesconectado(n) PROVE Contado'
    \* A node that does not answer has died: there has been a death.
    BY <1>11 DEF marcarNodoDesconectado, varsDN, Contado
  <1>12. ASSUME NEW n \in Nodos, DataNodeMuere(n) PROVE Contado'
    <2>1. muertes \in Nat /\ muertes' = muertes + 1  BY <1>12 DEF Invariante, DataNodeMuere
    <2> QED  BY <2>1 DEF Contado
  <1> QED  BY <1>1, <1>2, <1>3, <1>4, <1>5, <1>6, <1>7, <1>8, <1>9, <1>10, <1>11, <1>12
           DEF Next, cpfrom, cpfromBinary

\* Until a DataNode is lost, the counter of free blocks of a node is what its bitmap says,
\* through every store, copy, removal and format, and through the probe of the nodes that
\* start: nobody frees without the mutex meanwhile, and the probe that asociarNodo makes, which
\* gives two blocks back, has always been able to take them.
THEOREM CuentaExacta ==
  ASSUME SinCarreras, PruebaCabe
  PROVE  Spec => []ContadorBitmap
  <1>1. Invariante /\ Contado => ContadorBitmap
    <2> SUFFICES ASSUME Invariante, Contado, muertes = 0, NEW n \in Range(nombres)
                 PROVE  libres[n] + Cardinality(bitmap[n]) = Capacidad[n]
      BY DEF ContadorBitmap
    <2>1. n \in Nodos  BY DEF Invariante, NodosBien, Range
    <2>2. Cuadra(n, bitmap[n], libres[n])  BY <2>1 DEF Contado, Cuentas
    <2> QED  BY <2>2 DEF Cuadra
  <1>2. Invariante /\ SitiosBien /\ Contado /\ [Next]_vars => Contado'  BY CuentaPaso
  <1>3. Invariante /\ SitiosBien /\ [Next]_vars => SitiosBien'  BY SitiosPaso
  <1> QED  BY <1>1, <1>2, <1>3, CuentaInicio, SitiosInicio, SiempreBien, PTL DEF Spec

-----------------------------------------------------------------------------
(* The bits of copies                                                      *)

\* No DataNode is lost and no block is copied by hand: the copy of cpblock may be made of a
\* place that was given back, and its bit stays when the copy fails.
SinPerdidas == Muertes = 0 /\ "cpblock" \notin Comandos

\* Every bit that is set is of a copy of some block.
Llenos(G, M) == \A n \in Nodos : \A k \in M[n] : \E b \in G : Ubi(n, k) \in Lugares(b)

\* Meanwhile no answer is left unread, and every node was told from a probe.
Fieles ==
  /\ Llenos(Guardados, bitmap)
  /\ \A n \in Nodos : sobra[n] = <<>>
  /\ \A n \in socket : prueba[n] = 0

\* What is freed is what blocks B held, and the rest is still held by those of H.
LEMMA LlenosMenos ==
  ASSUME NEW G, NEW M, Llenos(G, M), NEW H, NEW N, NEW B \in Seq(Bloque),
         \A n \in Nodos : N[n] = M[n] \ Numeros(B, n),
         \A c \in G : \A v \in Lugares(c) : \/ \E i \in DOMAIN B : v \in Lugares(B[i])
                                            \/ \E h \in H : v \in Lugares(h)
  PROVE  Llenos(H, N)
  <1> SUFFICES ASSUME NEW n \in Nodos, NEW k \in N[n] PROVE \E h \in H : Ubi(n, k) \in Lugares(h)
    BY DEF Llenos
  <1>1. k \in M[n] /\ k \notin Numeros(B, n)  OBVIOUS
  <1>2. PICK c \in G : Ubi(n, k) \in Lugares(c)  BY <1>1 DEF Llenos
  <1>3. ~ \E i \in DOMAIN B : Ubi(n, k) \in Lugares(B[i])  BY <1>1, NumerosSon
  <1> QED  BY <1>2, <1>3

\* A copy is within the size of its node, and its node is connected.
LEMMA DentroDelNodo ==
  ASSUME SitiosBien, Contado, muertes = 0, NEW b \in Guardados, NEW u \in Lugares(b)
  PROVE  /\ u \in Ubicacion /\ u.nodo \in socket /\ u.nodo \in Nodos /\ u.num \in bitmap[u.nodo]
         /\ u.num \in 0..(Capacidad[u.nodo] - 1)
  <1>1. u \in Ubicacion /\ u.nodo \in Nodos /\ u.num \in Nat  BY LugarEs
  <1>2. u.num \in bitmap[u.nodo]  BY DEF SitiosBien, Sitios
  <1>3. Cuentas(socket, bitmap, libres)  BY DEF Contado
  <1>4. u.nodo \in socket /\ u.num < Capacidad[u.nodo]  BY <1>1, <1>2, <1>3 DEF Cuentas, Cuadra
  <1>5. Capacidad[u.nodo] \in Nat  BY <1>1, SupuestoBloques
  <1> QED  BY <1>1, <1>2, <1>4, <1>5

LEMMA FielesVacio ==
  ASSUME Guardados' = {}, bitmap' = [n \in Nodos |-> {}], UNCHANGED sobra,
         \A n \in Nodos : sobra[n] = <<>>, \A n \in socket' : prueba'[n] = 0
  PROVE  Fieles'
  <1>1. Llenos(Guardados', bitmap')  BY DEF Llenos
  <1> QED  BY <1>1 DEF Fieles

LEMMA FielesInicio == Init => Fieles
  <1> SUFFICES ASSUME Init PROVE Fieles  OBVIOUS
  <1>1. Guardados = {}
    <2> SUFFICES ASSUME NEW b \in Guardados PROVE FALSE  OBVIOUS
    <2>1. DOMAIN archivos = {} /\ op = Nulo  BY SinNodos DEF Init
    <2> QED  BY <2>1, GuardadosDonde
  <1>2. bitmap = [n \in Nodos |-> {}] /\ socket = {} /\ sobra = [n \in Nodos |-> <<>>]  BY DEF Init
  <1>3. Llenos(Guardados, bitmap)  BY <1>2 DEF Llenos
  <1> QED  BY <1>2, <1>3 DEF Fieles

LEMMA FielesCae == ASSUME Fieles, CaeFS PROVE Fieles'
  <1>1. Guardados' = {}  BY SitiosCae
  <1>2. bitmap' = [n \in Nodos |-> {}] /\ sobra' = sobra /\ socket' = {}  BY DEF CaeFS, varsDN
  <1> QED  BY <1>1, <1>2, FielesVacio DEF Fieles

\* Blocks do not change.
LEMMA FielesQuieto ==
  ASSUME Fieles, Guardados' = Guardados, UNCHANGED <<bitmap, sobra>>,
         \A n \in socket' : prueba'[n] = 0
  PROVE  Fieles'
  <1>1. Llenos(Guardados', bitmap')  BY DEF Fieles
  <1>2. \A n \in Nodos : sobra'[n] = <<>>  BY DEF Fieles
  <1> QED  BY <1>1, <1>2 DEF Fieles

\* A block that is stored takes both its places and no other.
LEMMA FielesEnviar ==
  ASSUME Invariante, SitiosBien, Contado, muertes = 0, Fieles, enviarBloque
  PROVE  Fieles'
  <1>1. op # Nulo /\ op.faltan > 0 /\ socket' = socket  BY DEF enviarBloque
  <1>2. PICK u \in Ubicaciones : \E k0, k1, e : Envio(u[1], u[2], k0, k1, e)  BY EnvioHay
  <1>3. PICK k0, k1, e : Envio(u[1], u[2], k0, k1, e)  BY <1>2
  <1> DEFINE n0 == nombres[u[1]]
             n1 == nombres[u[2]]
             b  == Recien(n0, k0, n1, k1)
             x  == <<op.ruta, Len(op.hechos) + 1>>
             M  == ConBits(n0, k0, n1, k1)
             L  == SinLibres(n0, n1)
  <1>4. /\ n0 \in Nodos /\ n1 \in Nodos /\ n0 \in socket /\ n1 \in socket
        /\ libres[n0] > 0 /\ libres[n1] > IF n0 = n1 THEN 1 ELSE 0
        /\ k0 \in Nat /\ k0 \notin bitmap[n0] /\ k0 <= Cardinality(bitmap[n0])
        /\ k1 \in Nat /\ k1 \notin bitmap[n1] /\ (n0 = n1 => k0 # k1)
        /\ k1 <= Cardinality(bitmap[n1]) + IF n0 = n1 THEN 1 ELSE 0
        /\ BitsBien(M, L)
        /\ Lugares(b) = {Ubi(n0, k0), Ubi(n1, k1)}
        /\ e.ok => bitmap' = M
    BY <1>1, <1>3, EnvioEs
  <1>5. /\ socket \subseteq vivos /\ Cuentas(socket, bitmap, libres) /\ BitsBien(bitmap, libres)
    BY DEF Contado, Invariante
  <1>6. k0 < Capacidad[n0] /\ k1 < Capacidad[n1]
    <2> HIDE DEF n0, n1
    <2> QED  BY <1>4, <1>5, TomaCuentas
  <1>7. /\ e.ok /\ sobra' = sobra /\ prueba' = prueba
        /\ Escritos(disco', disco, n0, k0, n1, k1, x)
    <2>1. n0 \in vivos /\ n1 \in vivos  BY <1>4, <1>5
    <2>2. sobra[n0] = <<>> /\ sobra[n1] = <<>> /\ prueba[n0] = 0 /\ prueba[n1] = 0
      BY <1>4 DEF Fieles
    <2> QED  BY <1>1, <1>3, <1>6, <2>1, <2>2, EnvioDN
  <1>8. Guardados' = Guardados \cup {b}  BY <1>3, <1>7, SitiosEnvio
  <1>9. b.dato = x  BY DEF Recien
  <1>10. Capacidad[n0] \in Nat /\ Capacidad[n1] \in Nat  BY <1>4, SupuestoBloques
  <1>11. bitmap' = M  BY <1>4, <1>7
  <1>12. \A n \in Nodos : M[n] = bitmap[n] \cup (IF n = n0 THEN {k0} ELSE {}) \cup (IF n = n1 THEN {k1} ELSE {})
    BY DEF ConBits
  <1> HIDE DEF n0, n1, b, x, M, L
  <1>13. Llenos(Guardados', bitmap')
    <2> SUFFICES ASSUME NEW n \in Nodos, NEW k \in M[n]
                 PROVE  \E c \in Guardados \cup {b} : Ubi(n, k) \in Lugares(c)
      BY <1>8, <1>11 DEF Llenos
    <2>1. CASE k \in bitmap[n]
      <3>1. PICK c \in Guardados : Ubi(n, k) \in Lugares(c)  BY <2>1 DEF Fieles, Llenos
      <3> QED  BY <3>1
    <2>2. CASE k \notin bitmap[n]
      <3>1. Ubi(n, k) \in {Ubi(n0, k0), Ubi(n1, k1)}  BY <1>12, <2>2
      <3> QED  BY <1>4, <3>1
    <2> QED  BY <2>1, <2>2
  <1> QED  BY <1>1, <1>7, <1>13 DEF Fieles

LEMMA FielesRm ==
  ASSUME SinCarreras, Invariante, SitiosBien, Fieles, NEW r \in Rutas, rmArchivo(r)
  PROVE  Fieles'
  <1> DEFINE B == archivos[r]
  <1>1. /\ r \in DOMAIN archivos /\ LiberarSinMutex(B) /\ op' = op
        /\ archivos' = [q \in DOMAIN archivos \ {r} |-> archivos[q]]
        /\ UNCHANGED <<socket, disco, sobra, prueba>>
    BY DEF rmArchivo, varsDN
  <1>2. op = Nulo /\ Guardados' \subseteq Guardados  BY SitiosRm
  <1>3. B \in Seq(Bloque)  BY <1>1, HechosBien
  <1>4. \A n \in Nodos : bitmap'[n] = bitmap[n] \ Numeros(B, n)
    <2> HIDE DEF B
    <2> QED  BY <1>1, <1>2, <1>3, SinNadie
  <1>5. ASSUME NEW c \in Guardados, NEW v \in Lugares(c)
        PROVE  (\E i \in DOMAIN B : v \in Lugares(B[i])) \/ \E h \in Guardados' : v \in Lugares(h)
    <2>1. PICK q \in DOMAIN archivos : \E i \in DOMAIN archivos[q] : c = archivos[q][i]
      BY <1>2, GuardadosDonde
    <2>2. CASE q = r  BY <2>1, <2>2
    <2>3. CASE q # r
      <3>1. q \in DOMAIN archivos' /\ archivos'[q] = archivos[q]  BY <1>1, <2>3
      <3>2. c \in Guardados'  BY <2>1, <3>1, GuardadosDespues
      <3> QED  BY <3>2
    <2> QED  BY <2>2, <2>3
  <1> DEFINE G == Guardados
             H == Guardados'
             M == bitmap
             N == bitmap'
  <1>6. /\ Llenos(G, M) /\ \A n \in Nodos : N[n] = M[n] \ Numeros(B, n)
        /\ \A c \in G : \A v \in Lugares(c) : \/ \E i \in DOMAIN B : v \in Lugares(B[i])
                                              \/ \E h \in H : v \in Lugares(h)
    BY <1>4, <1>5 DEF Fieles
  <1>7. Llenos(H, N)
    <2> HIDE DEF B, G, H, M, N
    <2> QED  BY <1>3, <1>6, LlenosMenos
  <1> QED  BY <1>1, <1>7 DEF Fieles

LEMMA FielesFormat ==
  ASSUME SinCarreras, Invariante, Fieles, formatFileSystem
  PROVE  Fieles'
  <1>1. op = Nulo /\ Guardados' = {}  BY SitiosFormat
  <1>2. bitmap' = [n \in Nodos |-> {}] /\ UNCHANGED <<socket, sobra, prueba>>
    BY <1>1 DEF formatFileSystem, varsDN
  <1> QED  BY <1>1, <1>2, FielesVacio DEF Fieles

LEMMA FielesRmBloque ==
  ASSUME SinCarreras, Invariante, SitiosBien, Fieles, NEW r \in DOMAIN archivos,
         NEW i \in DOMAIN archivos[r], NEW c \in 0..(MaxOtras + 2), rmBloque(r, i, c)
  PROVE  Fieles'
  <1> DEFINE b == archivos[r][i]
  <1>1. op = Nulo  BY SitiosRmBloque
  <1>2. /\ b \in Buenos /\ b \in Bloque
        /\ \/ CaeFS
           \/ \E u \in Ubicacion, s \in Buenos :
                /\ s.dato = b.dato /\ LiberarSinMutex(Quitado(b, u)) /\ CambiaBloque(r, i, s)
                /\ SinRepetir(b) => SinRepetir(s) /\ Lugares(s) = Lugares(b) \ {u}
                /\ u.num >= 0 => u \in Lugares(b)
                /\ UNCHANGED <<fs, op, nombres, socket, puntero, varsDN>>
    BY RmBloqueCasos
  <1>3. CASE CaeFS  BY <1>3, FielesCae
  <1>4. ASSUME NEW u \in Ubicacion, NEW s \in Buenos, s.dato = b.dato,
               LiberarSinMutex(Quitado(b, u)), CambiaBloque(r, i, s),
               SinRepetir(b) => SinRepetir(s) /\ Lugares(s) = Lugares(b) \ {u},
               u.num >= 0 => u \in Lugares(b),
               UNCHANGED <<fs, op, nombres, socket, puntero, varsDN>>
        PROVE  Fieles'
    <2>1. op' = Nulo /\ UNCHANGED <<socket, disco, sobra, prueba>>  BY <1>1, <1>4 DEF varsDN
    <2>2. b \in Guardados /\ Guardados' = (Guardados \ {b}) \cup {s}
      BY <1>1, <1>4, <2>1, CambiaGuardados
    <2>3. Lugares(s) = Lugares(b) \ {u}  BY <1>4, <2>2 DEF SitiosBien, Sitios
    <2> DEFINE B == Quitado(b, u)
    <2>4. B \in Seq(Bloque)  BY <1>2, QuitadoEs
    <2>5. DOMAIN B = {1} /\ Lugares(B[1]) = IF u.num >= 0 THEN {u} ELSE {}
      BY <1>2, QuitadoLugar
    <2>6. \A n \in Nodos : bitmap'[n] = bitmap[n] \ Numeros(B, n)
      <3>1. LiberarSinMutex(B)  BY <1>4
      <3> HIDE DEF B
      <3> QED  BY <1>1, <2>4, <3>1, SinNadie
    <2>7. s.dato = b.dato  BY <1>4
    <2> HIDE DEF b, B
    <2>8. ASSUME NEW d \in Guardados, NEW v \in Lugares(d)
          PROVE  (\E j \in DOMAIN B : v \in Lugares(B[j])) \/ \E h \in Guardados' : v \in Lugares(h)
      <3>1. CASE d # b  BY <2>2, <3>1
      <3>2. CASE d = b /\ v # u  BY <2>2, <2>3, <3>2
      <3>3. CASE v = u
        <4>1. u.num >= 0  BY <3>3 DEF Lugares
        <4> QED  BY <2>5, <3>3, <4>1
      <3> QED  BY <3>1, <3>2, <3>3
    <2> DEFINE G == Guardados
               H == Guardados'
               M == bitmap
               N == bitmap'
    <2>9. /\ Llenos(G, M) /\ \A n \in Nodos : N[n] = M[n] \ Numeros(B, n)
          /\ \A d \in G : \A v \in Lugares(d) : \/ \E j \in DOMAIN B : v \in Lugares(B[j])
                                                \/ \E h \in H : v \in Lugares(h)
      BY <2>6, <2>8 DEF Fieles
    <2>10. Llenos(H, N)
      <3> HIDE DEF G, H, M, N
      <3> QED  BY <2>4, <2>9, LlenosMenos
    <2> QED  BY <2>1, <2>10 DEF Fieles
  <1> QED  BY <1>2, <1>3, <1>4

LEMMA FielesAsociar ==
  ASSUME PruebaCabe, Invariante, SitiosBien, Contado, muertes = 0, Fieles,
         NEW n \in Nodos, asociarNodo(n)
  PROVE  Fieles'
  <1>1. /\ UNCHANGED <<op, archivos, bitmap, disco>> /\ socket' = socket \cup {n}
        /\ sobra' = [sobra EXCEPT ![n] = <<>>]
    BY DEF asociarNodo
  <1>2. prueba' = [prueba EXCEPT ![n] = 0]  BY CuentaAsociar
  <1>3. socket \subseteq Nodos /\ prueba \in [Nodos -> 0..2]
    BY EstadoSon DEF Invariante, NodosBien, Range
  <1>4. \A m \in socket' : prueba'[m] = 0  BY <1>1, <1>2, <1>3 DEF Fieles
  <1>5. sobra \in [Nodos -> Seq({"ok", "resto"})]  BY EstadoSon DEF Invariante
  <1>6. \A m \in Nodos : sobra'[m] = <<>>  BY <1>1, <1>5 DEF Fieles
  <1>7. Guardados' = Guardados  BY <1>1, SitiosQuieto
  <1>8. Llenos(Guardados', bitmap')  BY <1>1, <1>7 DEF Fieles
  <1> QED  BY <1>4, <1>6, <1>8 DEF Fieles

LEMMA FielesPaso ==
  ASSUME SinCarreras, PruebaCabe, SinPerdidas, Invariante, SitiosBien, Contado, Fieles, [Next]_vars
  PROVE  Fieles'
  <1>0. muertes = 0 /\ ~ (muertes < Muertes)  BY DEF SinPerdidas, Invariante
  <1>1. CASE UNCHANGED vars
    <2>1. UNCHANGED <<op, archivos, bitmap, socket, disco, sobra, prueba>>  BY <1>1 DEF vars, varsFS, varsDN
    <2> QED  BY <2>1, SitiosQuieto, FielesQuieto DEF Fieles
  <1>2. ASSUME NEW r, NEW t, NEW h, NEW k, Empieza(r, t, h, k) PROVE Fieles'
    <2>1. UNCHANGED <<bitmap, socket, disco, sobra, prueba>>  BY <1>2 DEF Empieza, varsDN
    <2> QED  BY <1>2, <2>1, SitiosEmpieza, FielesQuieto DEF Fieles
  <1>3. CASE enviarBloque  BY <1>0, <1>3, FielesEnviar
  <1>4. CASE enviarBloqueCae  BY <1>4, CaeHay, FielesCae
  <1>5. CASE registrarArchivo
    <2>1. UNCHANGED <<bitmap, socket, disco, sobra, prueba>>  BY <1>5 DEF registrarArchivo, varsDN
    <2> QED  BY <1>5, <2>1, SitiosRegistrar, FielesQuieto DEF Fieles
  <1>6. CASE \E r \in Rutas : rmArchivo(r)  BY <1>6, FielesRm
  <1>7. CASE formatFileSystem  BY <1>7, FielesFormat
  <1>8. ASSUME NEW r \in DOMAIN archivos, NEW i \in DOMAIN archivos[r],
               \E c \in 0..(MaxOtras + 2) : rmBloque(r, i, c)
        PROVE  Fieles'
    BY <1>8, FielesRmBloque
  <1>9. ASSUME NEW r, NEW i, NEW n, cpblock(r, i, n) \/ cpblockCae(r, i, n) PROVE FALSE
    BY <1>9 DEF cpblock, cpblockCae, PuedeCopiar, SinPerdidas
  <1>10. ASSUME NEW n \in Nodos, asociarNodo(n) PROVE Fieles'  BY <1>0, <1>10, FielesAsociar
  <1>11. ASSUME NEW n \in Nodos, manejarCliente(n) PROVE FALSE
    BY <1>11 DEF manejarCliente, Fieles
  <1>12. ASSUME NEW n \in Nodos, marcarNodoDesconectado(n) PROVE FALSE
    BY <1>0, <1>12 DEF marcarNodoDesconectado, Contado
  <1>13. ASSUME NEW n \in Nodos, DataNodeMuere(n) PROVE FALSE
    BY <1>0, <1>13 DEF DataNodeMuere
  <1> QED  BY <1>1, <1>2, <1>3, <1>4, <1>5, <1>6, <1>7, <1>8, <1>9, <1>10, <1>11, <1>12, <1>13
           DEF Next, cpfrom, cpfromBinary

LEMMA SiempreFieles ==
  ASSUME SinCarreras, PruebaCabe, SinPerdidas
  PROVE  Spec => [](Invariante /\ SitiosBien /\ Contado /\ Fieles)
  <1>1. Invariante /\ SitiosBien /\ [Next]_vars => SitiosBien'  BY SitiosPaso
  <1>2. Invariante /\ SitiosBien /\ Contado /\ [Next]_vars => Contado'  BY CuentaPaso
  <1>3. Invariante /\ SitiosBien /\ Contado /\ Fieles /\ [Next]_vars => Fieles'  BY FielesPaso
  <1> QED  BY <1>1, <1>2, <1>3, FielesInicio, CuentaInicio, SitiosInicio, SiempreBien, PTL DEF Spec

\* While no DataNode is lost, nobody types cpblock, the probes fit (PruebaCabe) and nobody frees
\* beside a store, rm, rm -b, format and stores give back every block they free: a bit is set
\* exactly when a copy holds it, so the space of a DataNode never leaks.
THEOREM BitsDeCopias ==
  ASSUME SinCarreras, PruebaCabe, SinPerdidas
  PROVE  Spec => []BitsExactos
  <1>1. Invariante /\ SitiosBien /\ Fieles => BitsExactos
    <2> SUFFICES ASSUME Invariante, SitiosBien, Fieles, NEW n \in Nodos
                 PROVE  bitmap[n] = {Lugar(c).num : c \in {d \in CopiasVivas : Lugar(d).nodo = n}}
      BY DEF BitsExactos
    <2>1. ASSUME NEW k \in bitmap[n]
          PROVE  \E c \in {d \in CopiasVivas : Lugar(d).nodo = n} : k = Lugar(c).num
      <3>1. PICK b \in Guardados : Ubi(n, k) \in Lugares(b)  BY DEF Fieles, Llenos
      <3>2. PICK c \in CopiasVivas : Lugar(c) = Ubi(n, k)  BY <3>1, VivaHay
      <3> QED  BY <3>2 DEF Ubi
    <2>2. ASSUME NEW c \in CopiasVivas, Lugar(c).nodo = n PROVE Lugar(c).num \in bitmap[n]
      <3>1. c[1] \in Guardados /\ Lugar(c) \in Lugares(c[1])  BY VivaEs
      <3> QED  BY <2>2, <3>1 DEF SitiosBien, Sitios
    <2> QED  BY <2>1, <2>2
  <1> QED  BY <1>1, SiempreFieles, PTL


-----------------------------------------------------------------------------
(* What is not doubtful                                                    *)

\* Of blocks G, bitmaps M and disks E: a place outside D is of one copy of one block, set in its
\* bitmap, within its node, and holds the data of that block.
Sano(G, M, E, D) ==
  /\ \A b \in G : \A v \in Lugares(b) \ D :
       /\ Unico(b, v) /\ v.num \in M[v.nodo]
       /\ v.num < Capacidad[v.nodo] /\ E[v.nodo][v.num] = b.dato
  /\ \A b, c \in G : b # c => Lugares(b) \cap Lugares(c) \subseteq D

SanoBien == Sano(Guardados, bitmap, disco, dudosos)

LEMMA SanoMenos ==
  ASSUME NEW G, NEW M, NEW E, NEW D, Sano(G, M, E, D), NEW H, H \subseteq G, NEW N, NEW F,
         NEW T, D \subseteq T,
         \A b \in H : \A v \in Lugares(b) \ T :
           v.num \in M[v.nodo] /\ v.num < Capacidad[v.nodo] =>
             v.num \in N[v.nodo] /\ F[v.nodo][v.num] = E[v.nodo][v.num]
  PROVE  Sano(H, N, F, T)
  <1>1. \A b \in H : \A v \in Lugares(b) \ T :
          /\ Unico(b, v) /\ v.num \in N[v.nodo]
          /\ v.num < Capacidad[v.nodo] /\ F[v.nodo][v.num] = b.dato
    BY DEF Sano
  <1>2. \A b, c \in H : b # c => Lugares(b) \cap Lugares(c) \subseteq T  BY DEF Sano
  <1> QED  BY <1>1, <1>2 DEF Sano

LEMMA SanoMas ==
  ASSUME NEW H, NEW N, NEW F, NEW D, Sano(H, N, F, D), NEW s,
         \A v \in Lugares(s) \ D : /\ Unico(s, v) /\ v.num \in N[v.nodo]
                                   /\ v.num < Capacidad[v.nodo] /\ F[v.nodo][v.num] = s.dato,
         \A b \in H : Lugares(b) \cap Lugares(s) \subseteq D
  PROVE  Sano(H \cup {s}, N, F, D)
  <1>1. \A b \in H \cup {s} : \A v \in Lugares(b) \ D :
          /\ Unico(b, v) /\ v.num \in N[v.nodo]
          /\ v.num < Capacidad[v.nodo] /\ F[v.nodo][v.num] = b.dato
    BY DEF Sano
  <1>2. \A b, c \in H \cup {s} : b # c => Lugares(b) \cap Lugares(c) \subseteq D
    <2> TAKE b, c \in H \cup {s}
    <2> HAVE b # c
    <2>1. CASE b \in H /\ c \in H  BY <2>1 DEF Sano
    <2>2. CASE b = s /\ c \in H  BY <2>2
    <2>3. CASE c = s /\ b \in H  BY <2>3
    <2> QED  BY <2>1, <2>2, <2>3
  <1> QED  BY <1>1, <1>2 DEF Sano

\* The places of a block are among those the history looks at.
LEMMA VivasSon ==
  ASSUME NEW G, NEW b \in G
  PROVE  Lugares(b) \subseteq LugaresDe(G)
  BY DEF Lugares, VivasDe, LugaresDe

\* What is noted is doubtful wherever a copy still is.
LEMMA AnotaEs ==
  ASSUME NEW S, Anota(S), Sano(Guardados', bitmap', disco', dudosos \cup S)
  PROVE  SanoBien'
  <1> DEFINE G == Guardados'
             D == dudosos \cup S
             N == dudosos'
             M == bitmap'
             E == disco'
  <1>1. N = D \cap LugaresDe(G)  BY DEF Anota
  <1>2. Sano(G, M, E, D)  OBVIOUS
  <1> HIDE DEF G, D, N, M, E
  <1>3. \A b \in G : \A v \in Lugares(b) : v \in D <=> v \in N  BY <1>1, VivasSon
  <1>4. \A b \in G : \A v \in Lugares(b) \ N :
          /\ Unico(b, v) /\ v.num \in M[v.nodo]
          /\ v.num < Capacidad[v.nodo] /\ E[v.nodo][v.num] = b.dato
    BY <1>2, <1>3 DEF Sano
  <1>5. \A b, c \in G : b # c => Lugares(b) \cap Lugares(c) \subseteq N
    BY <1>2, <1>3 DEF Sano
  <1>6. Sano(G, M, E, N)  BY <1>4, <1>5 DEF Sano
  <1> QED  BY <1>6 DEF SanoBien, G, M, E, N

\* Nothing is stored, changed or freed.
LEMMA SanoIgual ==
  ASSUME SanoBien, Anota({}), Guardados' \subseteq Guardados, UNCHANGED <<bitmap, disco>>
  PROVE  SanoBien'
  <1> DEFINE H == Guardados'
             N == bitmap'
             F == disco'
             T == dudosos \cup {}
  <1>1. /\ Sano(Guardados, bitmap, disco, dudosos) /\ H \subseteq Guardados
        /\ N = bitmap /\ F = disco /\ dudosos \subseteq T
    BY DEF SanoBien
  <1>2. Sano(H, N, F, T)
    <2> HIDE DEF H, N, F, T
    <2> QED  BY <1>1, SanoMenos
  <1> QED  BY <1>2, AnotaEs

LEMMA SanoVacio ==
  ASSUME Guardados' = {}
  PROVE  SanoBien'
  BY DEF SanoBien, Sano

-----------------------------------------------------------------------------
(* What is sent and read changes one place at most                         *)

\* Nothing but the block that is sent is written.
Solo(E, D, n, k) ==
  \A m \in Nodos : \A j \in 0..(Capacidad[m] - 1) : ~ (m = n /\ j = k) => E[m][j] = D[m][j]

LEMMA MandaSolo ==
  ASSUME NEW s \in EstadosDN, NEW n \in Nodos, NEW k \in Nat, NEW x \in Dato,
         NEW e \in Manda(s, n, k, x)
  PROVE  /\ Solo(e.s.disco, s.disco, n, k)
         /\ \A m \in Nodos : m # n => e.s.prueba[m] = s.prueba[m] /\ e.s.sobra[m] = s.sobra[m]
         /\ e.ok /\ s.prueba[n] = 0 =>
              \/ e.s.sobra[n] = s.sobra[n]
              \/ /\ n \in s.vivos /\ k < Capacidad[n] /\ e.s.disco[n][k] = x
                 /\ e.s.prueba[n] = 0 /\ e.s.sobra[n] = Append(s.sobra[n], "ok")
         /\ n \in s.vivos /\ s.prueba[n] = 0 /\ k < Capacidad[n] => e.s.disco[n][k] = x
  <1>0. /\ s.vivos \in SUBSET Nodos /\ s.disco \in Discos /\ s.prueba \in [Nodos -> 0..2]
        /\ s.sobra \in [Nodos -> Seq({"ok", "resto"})]
        /\ s = [vivos |-> s.vivos, disco |-> s.disco, prueba |-> s.prueba, sobra |-> s.sobra]
    BY DEF EstadosDN
  <1>1. CASE n \notin s.vivos
    <2>1. e.s = s  BY <1>1 DEF Manda
    <2> QED  BY <1>1, <2>1 DEF Solo
  <1>2. CASE n \in s.vivos /\ s.prueba[n] = 0 /\ k >= Capacidad[n]
    <2>1. e.s = [s EXCEPT !.vivos = @ \ {n}]  BY <1>2 DEF Manda, Muere
    <2>2. e.s.disco = s.disco /\ e.s.prueba = s.prueba /\ e.s.sobra = s.sobra  BY <1>0, <2>1
    <2>3. ~ (k < Capacidad[n])
      <3>1. Capacidad[n] \in Nat  BY SupuestoBloques
      <3> QED  BY <1>2, <3>1
    <2> QED  BY <2>2, <2>3 DEF Solo
  <1>3. CASE n \in s.vivos /\ ~ (s.prueba[n] = 0 /\ k >= Capacidad[n])
    <2>1. e.s = setBloque(s, n, k, x)  BY <1>3 DEF Manda
    <2> DEFINE d == [s.disco EXCEPT ![n][k] = x]
               p == [s.prueba EXCEPT ![n] = @ - 1]
               c == [s.sobra EXCEPT ![n] = Append(@, "ok")]
    <2>2. \A m \in Nodos : \A j \in 0..(Capacidad[m] - 1) :
            d[m][j] = IF m = n /\ j = k THEN x ELSE s.disco[m][j]
      <3>1. d = Escribe(s.disco, n, k, x)  BY DEF Escribe
      <3> HIDE DEF d
      <3> QED  BY <1>0, <3>1, EscribeEs
    <2>3. (\A m \in Nodos : m # n => p[m] = s.prueba[m] /\ c[m] = s.sobra[m])
          /\ c[n] = Append(s.sobra[n], "ok")
      BY <1>0
    <2>4. e.s = IF s.prueba[n] = 0
                THEN [vivos |-> s.vivos, disco |-> d, prueba |-> s.prueba, sobra |-> c]
                ELSE [vivos |-> s.vivos, disco |-> s.disco, prueba |-> p, sobra |-> c]
      BY <1>0, <2>1 DEF setBloque
    <2> HIDE DEF d, p, c
    <2>5. CASE s.prueba[n] = 0
      <3>1. e.s.disco = d /\ e.s.prueba = s.prueba /\ e.s.sobra = c  BY <2>4, <2>5
      <3>2. Capacidad[n] \in Nat /\ k < Capacidad[n] /\ k \in 0..(Capacidad[n] - 1)
        <4>1. Capacidad[n] \in Nat  BY SupuestoBloques
        <4> QED  BY <1>3, <2>5, <4>1
      <3>3. d[n][k] = x  BY <2>2, <3>2
      <3>4. Solo(d, s.disco, n, k)  BY <2>2 DEF Solo
      <3> QED  BY <1>3, <2>3, <2>5, <3>1, <3>2, <3>3, <3>4
    <2>6. CASE s.prueba[n] # 0
      <3>1. e.s.disco = s.disco /\ e.s.prueba = p /\ e.s.sobra = c  BY <2>4, <2>6
      <3> QED  BY <2>3, <2>6, <3>1 DEF Solo
    <2> QED  BY <2>5, <2>6
  <1> QED  BY <1>1, <1>2, <1>3

\* An answer that was read with nothing before it is the answer to this block.
LEMMA MandaYEsperaSolo ==
  ASSUME NEW s \in EstadosDN, NEW n \in Nodos, NEW k \in Nat, NEW x \in Dato,
         NEW e \in MandaYEspera(s, n, k, x)
  PROVE  /\ Solo(e.s.disco, s.disco, n, k)
         /\ \A m \in Nodos : m # n => e.s.prueba[m] = s.prueba[m] /\ e.s.sobra[m] = s.sobra[m]
         /\ e.ok /\ s.prueba[n] = 0 /\ s.sobra[n] = <<>> =>
              /\ k < Capacidad[n] /\ e.s.disco[n][k] = x
              /\ e.s.prueba[n] = 0 /\ e.s.sobra[n] = <<>>
  <1>1. PICK m \in Manda(s, n, k, x) : e \in (IF m.ok THEN Acuse(m.s, n) ELSE {m})
    BY DEF MandaYEspera
  <1>2. m.s \in EstadosDN  BY MandaEs
  <1>3. /\ Solo(m.s.disco, s.disco, n, k)
        /\ \A o \in Nodos : o # n => m.s.prueba[o] = s.prueba[o] /\ m.s.sobra[o] = s.sobra[o]
        /\ m.ok /\ s.prueba[n] = 0 =>
              \/ m.s.sobra[n] = s.sobra[n]
              \/ /\ n \in s.vivos /\ k < Capacidad[n] /\ m.s.disco[n][k] = x
                 /\ m.s.prueba[n] = 0 /\ m.s.sobra[n] = Append(s.sobra[n], "ok")
    BY MandaSolo
  <1>4. CASE ~ m.ok  BY <1>1, <1>3, <1>4
  <1>5. CASE m.ok
    <2>1. e \in Acuse(m.s, n)  BY <1>1, <1>5
    <2>2. e.s.disco = m.s.disco /\ e.s.prueba = m.s.prueba  BY <1>2, <2>1, AcuseEs
    <2>3. \A o \in Nodos : o # n => e.s.sobra[o] = m.s.sobra[o]  BY <1>2, <2>1, AcuseEs
    <2>4. ASSUME e.ok, s.prueba[n] = 0, s.sobra[n] = <<>>
          PROVE  /\ k < Capacidad[n] /\ e.s.disco[n][k] = x
                 /\ e.s.prueba[n] = 0 /\ e.s.sobra[n] = <<>>
      <3>1. m.s.sobra[n] # <<>>  BY <1>2, <2>1, <2>4, AcuseEs
      <3>2. /\ k < Capacidad[n] /\ m.s.disco[n][k] = x /\ m.s.prueba[n] = 0
            /\ m.s.sobra[n] = <<"ok">>
        <4>1. Append(<<>>, "ok") = <<"ok">>  OBVIOUS
        <4> QED  BY <1>3, <1>5, <2>4, <3>1, <4>1
      <3>3. e.s.sobra = [m.s.sobra EXCEPT ![n] = <<>>]  BY <1>2, <2>1, <3>2, AcuseEs
      <3>4. m.s.sobra \in [Nodos -> Seq({"ok", "resto"})]  BY <1>2 DEF EstadosDN
      <3> QED  BY <2>2, <3>2, <3>3, <3>4
    <2> QED  BY <1>3, <2>2, <2>3, <2>4
  <1> QED  BY <1>4, <1>5

LEMMA SoloDos ==
  ASSUME NEW F, NEW E, NEW D, NEW n, NEW k, NEW m, NEW j, Solo(E, D, n, k), Solo(F, E, m, j)
  PROVE  \A o \in Nodos : \A i \in 0..(Capacidad[o] - 1) :
           ~ (o = n /\ i = k) /\ ~ (o = m /\ i = j) => F[o][i] = D[o][i]
  BY DEF Solo

\* What both sends of a block do, whatever the DataNodes have come to: each writes its place and
\* no other, and one that was not pending is known to have been written.
LEMMA EnvioSolo ==
  ASSUME Invariante, op # Nulo, op.faltan > 0, NEW u \in Ubicaciones,
         NEW k0, NEW k1, NEW e, Envio(u[1], u[2], k0, k1, e)
  PROVE  LET n0 == nombres[u[1]]
             n1 == nombres[u[2]]
             x  == <<op.ruta, Len(op.hechos) + 1>>
         IN  /\ \A m \in Nodos : \A j \in 0..(Capacidad[m] - 1) :
                  ~ (m = n0 /\ j = k0) /\ ~ (m = n1 /\ j = k1) => disco'[m][j] = disco[m][j]
             /\ e.ok /\ ~ Pendiente(n0) => k0 < Capacidad[n0] /\ disco'[n0][k0] = x
             /\ e.ok /\ ~ Pendiente(n1) => k1 < Capacidad[n1] /\ disco'[n1][k1] = x
  <1> DEFINE n0 == nombres[u[1]]
             n1 == nombres[u[2]]
             x  == <<op.ruta, Len(op.hechos) + 1>>
  <1>1. n0 \in Nodos /\ n1 \in Nodos /\ k0 \in Nat /\ k1 \in Nat /\ (n0 = n1 => k0 # k1)  BY EnvioEs
  <1>2. x \in Dato
    <2>1. Recien(n0, k0, n1, k1).dato \in Dato  BY EnvioEs
    <2> QED  BY <2>1 DEF Recien
  <1>3. /\ NuevoDN(e.s)
        /\ \E d \in MandaYEspera(EstadoDN, n0, k0, x) :
             e \in IF d.ok THEN MandaYEspera(d.s, n1, k1, x) ELSE {d}
    BY DEF Envio
  <1> HIDE DEF n0, n1, x
  <1>4. PICK d \in MandaYEspera(EstadoDN, n0, k0, x) :
           e \in IF d.ok THEN MandaYEspera(d.s, n1, k1, x) ELSE {d}
    BY <1>3
  <1>5. /\ EstadoDN \in EstadosDN /\ EstadoDN.disco = disco
        /\ EstadoDN.prueba = prueba /\ EstadoDN.sobra = sobra
    BY DEF Invariante, EstadoDN
  <1>6. /\ d.s \in EstadosDN /\ d.ok \in BOOLEAN /\ Solo(d.s.disco, disco, n0, k0)
        /\ \A m \in Nodos : m # n0 => d.s.prueba[m] = prueba[m] /\ d.s.sobra[m] = sobra[m]
        /\ d.ok /\ ~ Pendiente(n0) =>
             /\ k0 < Capacidad[n0] /\ d.s.disco[n0][k0] = x
             /\ d.s.prueba[n0] = 0 /\ d.s.sobra[n0] = <<>>
    <2> DEFINE s == EstadoDN
    <2>1. /\ s \in EstadosDN /\ s.disco = disco /\ s.prueba = prueba /\ s.sobra = sobra
          /\ d \in MandaYEspera(s, n0, k0, x)
      BY <1>4, <1>5
    <2> HIDE DEF s
    <2>2. d.s \in EstadosDN /\ d.ok \in BOOLEAN  BY <1>1, <1>2, <2>1, MandaYEsperaEs
    <2>3. /\ Solo(d.s.disco, s.disco, n0, k0)
          /\ \A m \in Nodos : m # n0 => d.s.prueba[m] = s.prueba[m] /\ d.s.sobra[m] = s.sobra[m]
          /\ d.ok /\ s.prueba[n0] = 0 /\ s.sobra[n0] = <<>> =>
               /\ k0 < Capacidad[n0] /\ d.s.disco[n0][k0] = x
               /\ d.s.prueba[n0] = 0 /\ d.s.sobra[n0] = <<>>
      BY <1>1, <1>2, <2>1, MandaYEsperaSolo
    <2> QED  BY <2>1, <2>2, <2>3 DEF Pendiente
  <1>7. disco' = e.s.disco  BY <1>3 DEF NuevoDN
  <1>8. CASE ~ d.ok
    <2>1. e = d  BY <1>4, <1>8
    <2>2. Solo(disco', disco, n0, k0) /\ ~ e.ok  BY <1>6, <1>7, <1>8, <2>1
    <2> QED  BY <2>2 DEF Solo, n0, n1, x
  <1>9. CASE d.ok
    <2> DEFINE s == d.s
    <2>1. e \in MandaYEspera(s, n1, k1, x) /\ s \in EstadosDN  BY <1>4, <1>6, <1>9
    <2>2. /\ Solo(disco', s.disco, n1, k1)
          /\ e.ok /\ s.prueba[n1] = 0 /\ s.sobra[n1] = <<>> =>
               k1 < Capacidad[n1] /\ disco'[n1][k1] = x
      <3> HIDE DEF s
      <3> QED  BY <1>1, <1>2, <1>7, <2>1, MandaYEsperaSolo
    <2>3. \A m \in Nodos : \A j \in 0..(Capacidad[m] - 1) :
            ~ (m = n0 /\ j = k0) /\ ~ (m = n1 /\ j = k1) => disco'[m][j] = disco[m][j]
      BY <1>6, <2>2, SoloDos
    <2>4. ASSUME e.ok, ~ Pendiente(n0) PROVE k0 < Capacidad[n0] /\ disco'[n0][k0] = x
      <3>1. k0 < Capacidad[n0] /\ s.disco[n0][k0] = x  BY <1>6, <1>9, <2>4
      <3>2. k0 \in 0..(Capacidad[n0] - 1)
        <4>1. Capacidad[n0] \in Nat  BY <1>1, SupuestoBloques
        <4> QED  BY <1>1, <3>1, <4>1
      <3>3. disco'[n0][k0] = s.disco[n0][k0]  BY <1>1, <2>2, <3>2 DEF Solo
      <3> QED  BY <3>1, <3>3
    <2>5. ASSUME e.ok, ~ Pendiente(n1) PROVE k1 < Capacidad[n1] /\ disco'[n1][k1] = x
      <3>1. s.prueba[n1] = 0 /\ s.sobra[n1] = <<>>
        <4>1. CASE n1 = n0  BY <1>6, <1>9, <2>5, <4>1
        <4>2. CASE n1 # n0  BY <1>1, <1>6, <2>5, <4>2 DEF Pendiente
        <4> QED  BY <4>1, <4>2
      <3> QED  BY <2>2, <2>5, <3>1
    <2> QED  BY <2>3, <2>4, <2>5 DEF n0, n1, x
  <1> QED  BY <1>6, <1>8, <1>9

\* The block that is stored is not one that was kept.
LEMMA RecienNuevo ==
  ASSUME Invariante, op # Nulo, NEW n0, NEW k0, NEW n1, NEW k1
  PROVE  Recien(n0, k0, n1, k1) \notin Guardados
  <1> DEFINE b == Recien(n0, k0, n1, k1)
  <1>1. b.dato = <<op.ruta, Len(op.hechos) + 1>>  BY DEF Recien
  <1>2. Len(op.hechos) \in Nat /\ DOMAIN op.hechos = 1..Len(op.hechos)
    BY DEF Invariante, OpBien, BloquesDe
  <1> HIDE DEF b
  <1>3. ASSUME NEW r \in DOMAIN archivos, NEW i \in DOMAIN archivos[r], b = archivos[r][i] PROVE FALSE
    <2>1. archivos[r][i].dato = <<r, i>> /\ op.ruta # r  BY PorSuDato
    <2> QED  BY <1>1, <1>3, <2>1
  <1>4. ASSUME NEW i \in DOMAIN op.hechos, b = op.hechos[i] PROVE FALSE
    <2>1. op.hechos[i].dato = <<op.ruta, i>> /\ i # Len(op.hechos) + 1  BY <1>2, PorSuDato
    <2> QED  BY <1>1, <1>4, <2>1
  <1> QED  BY <1>3, <1>4, GuardadosDonde DEF b

\* Of a store that went well only the places on DataNodes that were pending are in doubt.
LEMMA SanoEnvio ==
  ASSUME Invariante, SanoBien, EnviaD, NEW u \in Ubicaciones,
         NEW k0, NEW k1, NEW e, Envio(u[1], u[2], k0, k1, e)
  PROVE  SanoBien'
  <1> DEFINE n0 == nombres[u[1]]
             n1 == nombres[u[2]]
             b  == Recien(n0, k0, n1, k1)
             x  == <<op.ruta, Len(op.hechos) + 1>>
             M  == ConBits(n0, k0, n1, k1)
             S  == {v \in LugaresDe(Guardados' \ Guardados) : Pendiente(v.nodo)}
             H  == Guardados'
             N  == bitmap'
             F  == disco'
  <1>1. enviarBloque /\ op # Nulo /\ op.faltan > 0 /\ archivos' = archivos /\ Anota(S)
    BY DEF EnviaD, enviarBloque
  <1>2. /\ n0 \in Nodos /\ n1 \in Nodos /\ k0 \notin bitmap[n0] /\ k1 \notin bitmap[n1]
        /\ k0 \in Nat /\ k1 \in Nat /\ b \in Buenos /\ SinRepetir(b)
        /\ Lugares(b) = {Ubi(n0, k0), Ubi(n1, k1)}
        /\ \/ /\ e.ok /\ bitmap' = M
              /\ op' = [op EXCEPT !.faltan = @ - 1, !.hechos = Append(@, b)]
           \/ ~ e.ok /\ op' = Nulo /\ Liberar(op.hechos, M, SinLibres(n0, n1))
    BY <1>1, EnvioEs
  <1>3. /\ \A m \in Nodos : \A j \in 0..(Capacidad[m] - 1) :
             ~ (m = n0 /\ j = k0) /\ ~ (m = n1 /\ j = k1) => F[m][j] = disco[m][j]
        /\ e.ok /\ ~ Pendiente(n0) => k0 < Capacidad[n0] /\ F[n0][k0] = x
        /\ e.ok /\ ~ Pendiente(n1) => k1 < Capacidad[n1] /\ F[n1][k1] = x
    BY <1>1, EnvioSolo
  <1>4. \A n \in Nodos : M[n] = bitmap[n] \cup (IF n = n0 THEN {k0} ELSE {}) \cup (IF n = n1 THEN {k1} ELSE {})
    BY DEF ConBits
  <1>5. b.dato = x /\ b \notin Guardados  BY <1>1, RecienNuevo DEF Recien
  <1>6. /\ Sano(Guardados, bitmap, disco, dudosos)
        /\ \A c \in Guardados : \A v \in Lugares(c) \ dudosos :
             /\ v.nodo \in Nodos /\ v.num \in bitmap[v.nodo] /\ v.num < Capacidad[v.nodo]
             /\ F[v.nodo][v.num] = disco[v.nodo][v.num]
             /\ v # Ubi(n0, k0) /\ v # Ubi(n1, k1)
    <2>1. Sano(Guardados, bitmap, disco, dudosos)  BY DEF SanoBien
    <2>2. ASSUME NEW c \in Guardados, NEW v \in Lugares(c) \ dudosos
          PROVE  /\ v.nodo \in Nodos /\ v.num \in bitmap[v.nodo] /\ v.num < Capacidad[v.nodo]
                 /\ F[v.nodo][v.num] = disco[v.nodo][v.num]
                 /\ v # Ubi(n0, k0) /\ v # Ubi(n1, k1)
      <3>1. v.nodo \in Nodos /\ v.num \in Nat /\ v = Ubi(v.nodo, v.num)  BY LugarEs
      <3>2. v.num \in bitmap[v.nodo] /\ v.num < Capacidad[v.nodo]  BY <2>1 DEF Sano
      <3>3. ~ (v.nodo = n0 /\ v.num = k0) /\ ~ (v.nodo = n1 /\ v.num = k1)  BY <1>2, <3>2
      <3>4. Capacidad[v.nodo] \in Nat  BY <3>1, SupuestoBloques
      <3>5. v.num \in 0..(Capacidad[v.nodo] - 1)  BY <3>1, <3>2, <3>4
      <3> QED  BY <1>3, <3>1, <3>2, <3>3, <3>5 DEF Ubi
    <2> QED  BY <2>1, <2>2
  <1> HIDE DEF n0, n1, b, x, M, F, N
  <1>7. CASE /\ e.ok /\ bitmap' = M
             /\ op' = [op EXCEPT !.faltan = @ - 1, !.hechos = Append(@, b)]
    <2>1. H = Guardados \cup {b}
      <3>1. e.ok  BY <1>7
      <3> QED  BY <1>1, <3>1, EnvioGuarda DEF b, n0, n1
    <2>2. \A v \in Lugares(b) : v \notin S => ~ Pendiente(v.nodo)
      <3>1. b \in H \ Guardados  BY <1>5, <2>1
      <3>2. Lugares(b) \subseteq LugaresDe(H \ Guardados)  BY <3>1, VivasSon
      <3> QED  BY <3>2
    <2> DEFINE T == dudosos \cup S
    <2>3. /\ \A v \in Lugares(b) : v \notin T => ~ Pendiente(v.nodo)
          /\ N = M /\ dudosos \subseteq T
      BY <1>7, <2>2 DEF N
    <2> HIDE DEF T, S, H
    <2>4. Sano(Guardados, N, F, T)
      <3>1. \A c \in Guardados : \A v \in Lugares(c) \ T :
              v.num \in bitmap[v.nodo] /\ v.num < Capacidad[v.nodo] =>
                v.num \in N[v.nodo] /\ F[v.nodo][v.num] = disco[v.nodo][v.num]
        BY <1>4, <1>6, <2>3
      <3>2. Guardados \subseteq Guardados /\ Sano(Guardados, bitmap, disco, dudosos)  BY <1>6
      <3> QED  BY <2>3, <3>1, <3>2, SanoMenos
    <2>5. \A v \in Lugares(b) \ T :
            /\ Unico(b, v) /\ v.num \in N[v.nodo]
            /\ v.num < Capacidad[v.nodo] /\ F[v.nodo][v.num] = b.dato
      <3> TAKE v \in Lugares(b) \ T
      <3>1. v \in Ubicacion /\ v.num \in Nat  BY LugarEs
      <3>2. Unico(b, v)
        <4>1. b \in Bloque /\ v.num >= 0  BY <1>2, <3>1, BuenosSon
        <4> QED  BY <1>2, <3>1, <4>1, SinRepetirSon
      <3>3. ~ Pendiente(v.nodo)  BY <2>3
      <3>4. CASE v = Ubi(n0, k0)
        <4>1. v.nodo = n0 /\ v.num = k0  BY <3>4 DEF Ubi
        <4> QED  BY <1>2, <1>3, <1>4, <1>5, <1>7, <2>3, <3>2, <3>3, <4>1
      <3>5. CASE v = Ubi(n1, k1)
        <4>1. v.nodo = n1 /\ v.num = k1  BY <3>5 DEF Ubi
        <4> QED  BY <1>2, <1>3, <1>4, <1>5, <1>7, <2>3, <3>2, <3>3, <4>1
      <3> QED  BY <1>2, <3>4, <3>5
    <2>6. \A c \in Guardados : Lugares(c) \cap Lugares(b) \subseteq T
      BY <1>2, <1>6, <2>3
    <2>7. Sano(Guardados \cup {b}, N, F, T)  BY <2>4, <2>5, <2>6, SanoMas
    <2>8. Sano(H, N, F, dudosos \cup S)  BY <2>1, <2>7 DEF T
    <2> QED  BY <1>1, <2>8, AnotaEs DEF H, N, F
  <1>8. CASE ~ e.ok /\ op' = Nulo /\ Liberar(op.hechos, M, SinLibres(n0, n1))
    <2> DEFINE B == op.hechos
    <2>1. H \in SUBSET Guardados /\ \A c \in H : \A i \in DOMAIN B : B[i] # c
      <3>1. ~ e.ok  BY <1>8
      <3> QED  BY <1>1, <3>1, EnvioGuarda DEF b, n0, n1
    <2>2. \A n \in Nodos : N[n] = M[n] \ Numeros(B, n)  BY <1>8 DEF Liberar, N
    <2>3. B \in Seq(Bloque) /\ \A i \in DOMAIN B : B[i] \in Guardados
      <3>1. BloquesDe(op.ruta, B)  BY <1>1 DEF Invariante, OpBien
      <3> QED  BY <1>1, <3>1, BuenosSon, GuardadosDonde DEF BloquesDe
    <2> DEFINE T == dudosos \cup S
    <2>a. dudosos \subseteq T  OBVIOUS
    <2> HIDE DEF T, H, S, B
    <2>4. \A c \in H : \A v \in Lugares(c) \ T :
            v.num \in bitmap[v.nodo] /\ v.num < Capacidad[v.nodo] =>
              v.num \in N[v.nodo] /\ F[v.nodo][v.num] = disco[v.nodo][v.num]
      <3> TAKE c \in H
      <3> TAKE v \in Lugares(c) \ T
      <3>1. v \notin dudosos /\ c \in Guardados /\ v = Ubi(v.nodo, v.num)  BY <2>1, <2>a, LugarEs
      <3>2. /\ v.nodo \in Nodos /\ v.num \in bitmap[v.nodo]
            /\ F[v.nodo][v.num] = disco[v.nodo][v.num]
        BY <1>6, <3>1
      <3>3. \A i \in DOMAIN B : v \notin Lugares(B[i])
        BY <1>6, <2>1, <2>3, <3>1 DEF Sano
      <3>4. v.num \notin Numeros(B, v.nodo)  BY <2>3, <3>1, <3>2, <3>3, NumerosSon
      <3> QED  BY <1>4, <2>2, <3>2, <3>4
    <2>5. Sano(H, N, F, T)
      <3>1. Sano(Guardados, bitmap, disco, dudosos) /\ H \subseteq Guardados  BY <1>6, <2>1
      <3> QED  BY <2>4, <2>a, <3>1, SanoMenos
    <2> QED  BY <1>1, <2>5, AnotaEs DEF H, N, F, T
  <1> QED  BY <1>2, <1>7, <1>8

-----------------------------------------------------------------------------
(* Removing                                                                *)

\* What is freed without the mutex is what blocks B hold, and the last block that is stored.
LEMMA SinMutexDeja ==
  ASSUME op # Nulo => op.hechos \in Seq(Bloque), NEW B \in Seq(Bloque), LiberarSinMutex(B),
         NEW v, v.nodo \in Nodos, v = Ubi(v.nodo, v.num), v.num \in bitmap[v.nodo],
         \A i \in DOMAIN B : v \notin Lugares(B[i]), v \notin LugaresDe(Ultimo)
  PROVE  v.num \in bitmap'[v.nodo]
  <1> DEFINE ultimo == IF op = Nulo \/ op.hechos = <<>> THEN <<>> ELSE <<Last(op.hechos)>>
             quedan(n) == IF op = Nulo \/ Usos(B, n) = {} THEN {B} ELSE {B, <<>>, B \o ultimo}
             carreras == {c \in [Nodos -> {B, <<>>, B \o ultimo}] : \A n \in Nodos : c[n] \in quedan(n)}
  <1>1. PICK bits \in [Nodos -> {B, <<>>, B \o ultimo}] :
          bitmap' = [n \in Nodos |-> bitmap[n] \ Numeros(bits[n], n)]
    <2>1. \E bits \in carreras : bitmap' = [n \in Nodos |-> bitmap[n] \ Numeros(bits[n], n)]
      BY DEF LiberarSinMutex
    <2>2. carreras \subseteq [Nodos -> {B, <<>>, B \o ultimo}]  OBVIOUS
    <2> HIDE DEF carreras
    <2> QED  BY <2>1, <2>2
  <1>2. ultimo \in Seq(Bloque) /\ \A i \in DOMAIN ultimo : v \notin Lugares(ultimo[i])
    <2>1. CASE op = Nulo \/ op.hechos = <<>>  BY <2>1, SinNodos
    <2>2. CASE op # Nulo /\ op.hechos # <<>>
      <3> DEFINE h == op.hechos
      <3>1. h \in Seq(Bloque) /\ h # <<>> /\ EnCurso = h  BY <2>2 DEF EnCurso
      <3>2. Last(h) \in Ultimo  BY <3>1 DEF Ultimo
      <3> HIDE DEF h
      <3>3. Last(h) \in Bloque  BY <3>1 DEF Last
      <3>4. v \notin Lugares(Last(h))
        <4> DEFINE b == Last(h)
        <4>1. b \in Ultimo  BY <3>2
        <4> HIDE DEF b
        <4>2. Lugares(b) \subseteq LugaresDe(Ultimo)  BY <4>1, VivasSon
        <4> QED  BY <4>2 DEF b
      <3>5. ultimo = <<Last(h)>>  BY <2>2 DEF h
      <3> QED  BY <3>3, <3>4, <3>5
    <2> QED  BY <2>1, <2>2
  <1> HIDE DEF ultimo
  <1>3. /\ B \o ultimo \in Seq(Bloque) /\ <<>> \in Seq(Bloque) /\ DOMAIN <<>> = {}
        /\ \A i \in DOMAIN (B \o ultimo) : v \notin Lugares((B \o ultimo)[i])
    <2>1. /\ Len(B \o ultimo) = Len(B) + Len(ultimo) /\ B \o ultimo \in Seq(Bloque)
          /\ \A i \in 1..(Len(B) + Len(ultimo)) :
               (B \o ultimo)[i] = IF i <= Len(B) THEN B[i] ELSE ultimo[i - Len(B)]
      BY <1>2, ConcatProperties
    <2>2. /\ DOMAIN B = 1..Len(B) /\ DOMAIN ultimo = 1..Len(ultimo) /\ Len(B) \in Nat
          /\ Len(ultimo) \in Nat /\ DOMAIN (B \o ultimo) = 1..(Len(B) + Len(ultimo))
      BY <1>2, <2>1
    <2>3. ASSUME NEW i \in 1..(Len(B) + Len(ultimo)) PROVE v \notin Lugares((B \o ultimo)[i])
      <3>1. CASE i <= Len(B)
        <4>1. i \in DOMAIN B /\ (B \o ultimo)[i] = B[i]  BY <2>1, <2>2, <3>1
        <4> QED  BY <4>1
      <3>2. CASE ~ (i <= Len(B))
        <4>1. i - Len(B) \in DOMAIN ultimo /\ (B \o ultimo)[i] = ultimo[i - Len(B)]
          BY <2>1, <2>2, <3>2
        <4> QED  BY <1>2, <4>1
      <3> QED  BY <3>1, <3>2
    <2>4. <<>> \in Seq(Bloque) /\ DOMAIN <<>> = {}  OBVIOUS
    <2> QED  BY <2>1, <2>2, <2>3, <2>4
  <1> DEFINE C == bits[v.nodo]
  <1>4. C \in Seq(Bloque) /\ \A i \in DOMAIN C : v \notin Lugares(C[i])
    <2>1. C \in {B, <<>>, B \o ultimo}  BY <1>1
    <2> HIDE DEF C
    <2>2. CASE C = B  BY <2>2
    <2>3. CASE C = <<>>  BY <1>3, <2>3
    <2>4. CASE C = B \o ultimo  BY <1>3, <2>4
    <2> QED  BY <2>1, <2>2, <2>3, <2>4
  <1>5. v.num \notin Numeros(C, v.nodo)
    <2> HIDE DEF C
    <2> QED  BY <1>4, NumerosSon
  <1> QED  BY <1>1, <1>5

LEMMA SanoRm ==
  ASSUME Invariante, SanoBien, NEW r \in Rutas, RmD(r)
  PROVE  SanoBien'
  <1> DEFINE B == archivos[r]
             T == dudosos \cup LugaresDe(Ultimo)
             H == Guardados'
             N == bitmap'
             F == disco'
  <1>1. /\ rmArchivo(r) /\ r \in DOMAIN archivos /\ LiberarSinMutex(B) /\ F = disco
        /\ Anota(LugaresDe(Ultimo))
    BY DEF RmD, rmArchivo, varsDN
  <1>2. B \in Seq(Bloque) /\ \A i \in DOMAIN B : B[i] \in Guardados
    BY <1>1, HechosBien, GuardadosDonde
  <1>3. \A c \in H : c \in Guardados /\ \A i \in DOMAIN B : B[i] # c  BY <1>1, RmGuarda
  <1>4. op # Nulo => op.hechos \in Seq(Bloque)  BY BuenosSon DEF Invariante, OpBien, BloquesDe
  <1>5. Sano(Guardados, bitmap, disco, dudosos)  BY DEF SanoBien
  <1>6. dudosos \subseteq T /\ LugaresDe(Ultimo) \subseteq T /\ N = bitmap'  OBVIOUS
  <1> HIDE DEF B, T, H, N, F
  <1>7. \A c \in H : \A v \in Lugares(c) \ T :
          v.num \in bitmap[v.nodo] /\ v.num < Capacidad[v.nodo] =>
            v.num \in N[v.nodo] /\ F[v.nodo][v.num] = disco[v.nodo][v.num]
    <2> TAKE c \in H
    <2> TAKE v \in Lugares(c) \ T
    <2> HAVE v.num \in bitmap[v.nodo] /\ v.num < Capacidad[v.nodo]
    <2>1. v.nodo \in Nodos /\ v = Ubi(v.nodo, v.num)  BY LugarEs
    <2>2. \A i \in DOMAIN B : v \notin Lugares(B[i])  BY <1>2, <1>3, <1>5, <1>6 DEF Sano
    <2>3. v.num \in bitmap'[v.nodo]  BY <1>1, <1>2, <1>4, <1>6, <2>1, <2>2, SinMutexDeja
    <2> QED  BY <1>1, <1>6, <2>3
  <1>8. H \subseteq Guardados  BY <1>3
  <1>9. Sano(H, N, F, T)  BY <1>5, <1>6, <1>7, <1>8, SanoMenos
  <1> QED  BY <1>1, <1>9, AnotaEs DEF H, N, F, T

LEMMA SanoFormat ==
  ASSUME Invariante, SanoBien, FormatD
  PROVE  SanoBien'
  <1> DEFINE T == dudosos \cup LugaresDe(Range(EnCurso))
             H == Guardados'
             N == bitmap'
             F == disco'
  <1>1. Anota(LugaresDe(Range(EnCurso))) /\ formatFileSystem  BY DEF FormatD
  <1>2. CASE archivos' = <<>> /\ op' = op /\ F = disco
    <2>1. DOMAIN archivos' = {}  BY <1>2, SinNodos
    <2>2. H \subseteq Guardados /\ \A c \in H : Lugares(c) \subseteq T
      <3> SUFFICES ASSUME NEW c \in H PROVE c \in Guardados /\ Lugares(c) \subseteq T  OBVIOUS
      <3>1. op # Nulo /\ \E i \in DOMAIN op.hechos : c = op.hechos[i]
        BY <1>2, <2>1, GuardadosDespues
      <3>2. c \in Range(EnCurso)  BY <3>1 DEF EnCurso, Range
      <3>3. Lugares(c) \subseteq LugaresDe(Range(EnCurso))  BY <3>2, VivasSon
      <3> QED  BY <3>1, <3>3, GuardadosDonde
    <2>3. dudosos \subseteq T /\ Sano(Guardados, bitmap, disco, dudosos)  BY DEF SanoBien
    <2> HIDE DEF H, N, F, T
    <2>4. Sano(H, N, F, T)  BY <2>2, <2>3, SanoMenos
    <2> QED  BY <1>1, <2>4, AnotaEs DEF H, N, F, T
  <1>3. CASE CaeFS  BY <1>3, SitiosCae, SanoVacio
  <1> QED  BY <1>1, <1>2, <1>3 DEF formatFileSystem, varsDN

\* Of the block that rm -b changes only the copy it takes away is freed.
LEMMA SanoRmBloque ==
  ASSUME Invariante, SanoBien, NEW r \in DOMAIN archivos, NEW i \in DOMAIN archivos[r],
         NEW c \in 0..(MaxOtras + 2), RmBloqueD(r, i, c)
  PROVE  SanoBien'
  <1> DEFINE b == archivos[r][i]
  <1>1. rmBloque(r, i, c) /\ Anota(LugaresDe(Ultimo))  BY DEF RmBloqueD
  <1>2. /\ b \in Buenos /\ b \in Bloque
        /\ \/ CaeFS
           \/ \E u \in Ubicacion, s \in Buenos :
                /\ s.dato = b.dato /\ LiberarSinMutex(Quitado(b, u)) /\ CambiaBloque(r, i, s)
                /\ SinUna(b, s, u) /\ (u.num >= 0 => u \in Lugares(b))
                /\ UNCHANGED <<fs, op, nombres, socket, puntero, varsDN>>
    BY <1>1, RmBloqueCasos
  <1>3. CASE CaeFS  BY <1>3, SitiosCae, SanoVacio
  <1>4. ASSUME NEW u \in Ubicacion, NEW s \in Buenos, s.dato = b.dato,
               LiberarSinMutex(Quitado(b, u)), CambiaBloque(r, i, s),
               SinUna(b, s, u), u.num >= 0 => u \in Lugares(b),
               UNCHANGED <<fs, op, nombres, socket, puntero, varsDN>>
        PROVE  SanoBien'
    <2> DEFINE Q == Quitado(b, u)
               T == dudosos \cup LugaresDe(Ultimo)
               G == Guardados \ {b}
               N == bitmap'
               F == disco'
    <2>1. b \in Guardados /\ Guardados' = G \cup {s}  BY <1>4, CambiaGuardados
    <2>2. /\ Q \in Seq(Bloque) /\ DOMAIN Q = {1}
          /\ Lugares(Q[1]) = IF u.num >= 0 THEN {u} ELSE {}
      BY <1>2, QuitadoEs, QuitadoLugar
    <2>3. Sano(Guardados, bitmap, disco, dudosos)  BY DEF SanoBien
    <2>4. /\ dudosos \subseteq T /\ LugaresDe(Ultimo) \subseteq T /\ F = disco
          /\ LiberarSinMutex(Q) /\ N = bitmap' /\ G = Guardados \ {b}
      BY <1>4 DEF varsDN
    <2>5. op # Nulo => op.hechos \in Seq(Bloque)  BY HechosBien
    <2> HIDE DEF b, Q, T, G, N, F
    <2>6. ASSUME NEW d \in Guardados, NEW v \in Lugares(d), v \notin T, v # u
          PROVE  v.num \in N[v.nodo] /\ F[v.nodo][v.num] = disco[v.nodo][v.num]
      <3>1. v.nodo \in Nodos /\ v = Ubi(v.nodo, v.num)  BY LugarEs
      <3>2. v.num \in bitmap[v.nodo]  BY <2>3, <2>4, <2>6 DEF Sano
      <3>3. \A j \in DOMAIN Q : v \notin Lugares(Q[j])  BY <2>2, <2>6
      <3>4. v.num \in bitmap'[v.nodo]  BY <2>2, <2>4, <2>5, <2>6, <3>1, <3>2, <3>3, SinMutexDeja
      <3> QED  BY <2>4, <3>4
    <2>7. Sano(G, N, F, T)
      <3>1. \A d \in G : \A v \in Lugares(d) \ T : v # u
        <4> TAKE d \in G
        <4> TAKE v \in Lugares(d) \ T
        <4>1. CASE u.num >= 0
          <5>1. u \in Lugares(b)  BY <1>4, <4>1 DEF b
          <5> QED  BY <2>1, <2>3, <2>4, <5>1 DEF Sano
        <4>2. CASE ~ (u.num >= 0)
          <5>1. v.num >= 0  BY DEF Lugares
          <5> QED  BY <4>2, <5>1
        <4> QED  BY <4>1, <4>2
      <3>2. \A d \in G : \A v \in Lugares(d) \ T :
              v.num \in bitmap[v.nodo] /\ v.num < Capacidad[v.nodo] =>
                v.num \in N[v.nodo] /\ F[v.nodo][v.num] = disco[v.nodo][v.num]
        BY <2>4, <2>6, <3>1
      <3>3. G \subseteq Guardados  BY <2>4
      <3> QED  BY <2>3, <2>4, <3>2, <3>3, SanoMenos
    <2>8. SinUna(b, s, u) /\ s.dato = b.dato  BY <1>4 DEF b
    <2>9. \A v \in Lugares(s) \ T :
            /\ Unico(s, v) /\ v.num \in N[v.nodo]
            /\ v.num < Capacidad[v.nodo] /\ F[v.nodo][v.num] = s.dato
      <3> TAKE v \in Lugares(s) \ T
      <3>1. v \in Lugares(b) /\ v \in Ubicacion /\ v.num >= 0  BY <2>8 DEF SinUna, Lugares
      <3>2. /\ Unico(b, v) /\ v.num \in bitmap[v.nodo]
            /\ v.num < Capacidad[v.nodo] /\ disco[v.nodo][v.num] = b.dato
        BY <2>1, <2>3, <2>4, <3>1 DEF Sano
      <3>3. Unico(s, v)  BY <2>8, <3>1, <3>2 DEF SinUna
      <3>4. v # u  BY <2>8, <3>2 DEF SinUna
      <3>5. v.num \in N[v.nodo] /\ F[v.nodo][v.num] = disco[v.nodo][v.num]
        BY <2>1, <2>6, <3>1, <3>4
      <3> QED  BY <2>8, <3>2, <3>3, <3>5
    <2>10. \A d \in G : Lugares(d) \cap Lugares(s) \subseteq T
      <3> TAKE d \in G
      <3>1. Lugares(d) \cap Lugares(b) \subseteq dudosos  BY <2>1, <2>3, <2>4 DEF Sano
      <3>2. Lugares(s) \subseteq Lugares(b)  BY <2>8 DEF SinUna
      <3> QED  BY <2>4, <3>1, <3>2
    <2>11. Sano(G \cup {s}, N, F, T)  BY <2>7, <2>9, <2>10, SanoMas
    <2> QED  BY <1>1, <2>1, <2>11, AnotaEs DEF N, F, T
  <1> QED  BY <1>2, <1>3, <1>4

-----------------------------------------------------------------------------
(* Copying                                                                 *)

\* A copy writes its place and no other; and from a place that is as noted, with nothing before
\* the data, to a DataNode that waits for nothing, what is written is what was there.
LEMMA CopiaSolo ==
  ASSUME Invariante, NEW r \in DOMAIN archivos, NEW i \in DOMAIN archivos[r], NEW n \in Nodos,
         NEW k, NEW e, Copia(r, i, n, k, e)
  PROVE  LET o == Fuente(archivos[r][i])
         IN  /\ Solo(disco', disco, n, k)
             /\ e.ok /\ CopiaSegura(o, Ubi(n, k)) /\ o.num < Capacidad[o.nodo] =>
                  disco'[n][k] = disco[o.nodo][o.num]
  <1> DEFINE o == Fuente(archivos[r][i])
             s == EstadoDN
  <1>1. k \in Nat  BY CopiaEs
  <1>2. /\ NuevoDN(e.s)
        /\ \E d \in IF o.nodo \in socket THEN Lee(s, o.nodo, o.num)
                    ELSE {[s |-> s, ok |-> FALSE, dato |-> Basura]} :
             e \in IF d.ok THEN Manda(d.s, n, k, d.dato) ELSE {d}
    BY DEF Copia
  <1>3. o.nodo \in Nodos /\ o.num \in Int
    <2>1. archivos[r][i] \in Bloque  BY PorSuDato
    <2> QED  BY <2>1 DEF Fuente, Bloque, Ubicacion
  <1>4. s \in EstadosDN /\ s.disco = disco /\ s.prueba = prueba /\ s.vivos = vivos /\ s.sobra = sobra
    BY DEF Invariante, EstadoDN
  <1>5. disco' = e.s.disco  BY <1>2 DEF NuevoDN
  <1> HIDE DEF o, s
  <1>6. CASE o.nodo \notin socket
    <2>1. e = [s |-> s, ok |-> FALSE, dato |-> Basura]
      <3> DEFINE w == [s |-> s, ok |-> FALSE, dato |-> Basura]
      <3>1. ~ w.ok  OBVIOUS
      <3>2. e \in IF w.ok THEN Manda(w.s, n, k, w.dato) ELSE {w}  BY <1>2, <1>6
      <3> QED  BY <3>1, <3>2
    <2>2. disco' = disco /\ ~ e.ok  BY <1>4, <1>5, <2>1
    <2> QED  BY <2>2 DEF Solo, o
  <1>7. CASE o.nodo \in socket
    <2>1. PICK d \in Lee(s, o.nodo, o.num) : e \in IF d.ok THEN Manda(d.s, n, k, d.dato) ELSE {d}
      BY <1>2, <1>7
    <2>2. /\ d.s \in EstadosDN /\ d.ok \in BOOLEAN /\ d.dato \in Dato
          /\ d.s.disco = disco /\ d.s.prueba = prueba
          /\ o.nodo \in vivos /\ o.num < Capacidad[o.nodo] => d.ok /\ d.s.vivos = vivos
      BY <1>3, <1>4, LeeEs
    <2>3. CASE ~ d.ok
      <3>1. e = d  BY <2>1, <2>3
      <3>2. disco' = disco /\ ~ e.ok  BY <1>5, <2>2, <2>3, <3>1
      <3> QED  BY <3>2 DEF Solo, o
    <2>4. CASE d.ok
      <3> DEFINE t == d.s
                 x == d.dato
      <3>1. e \in Manda(t, n, k, x) /\ t \in EstadosDN /\ x \in Dato  BY <2>1, <2>2, <2>4
      <3>2. t.disco = disco /\ t.prueba = prueba  BY <2>2
      <3>3. ASSUME CopiaSegura(o, Ubi(n, k)), o.num < Capacidad[o.nodo]
            PROVE  /\ n \in t.vivos /\ t.prueba[n] = 0 /\ k < Capacidad[n]
                   /\ x = disco[o.nodo][o.num]
        <4>1. /\ o.num >= 0 /\ sobra[o.nodo] = <<>> /\ n \in vivos /\ prueba[n] = 0
              /\ k < Capacidad[n]
          BY <3>3 DEF CopiaSegura, Ubi
        <4>2. o.nodo \in vivos
          <5> SUFFICES ASSUME o.nodo \notin vivos PROVE FALSE  OBVIOUS
          <5>1. d = [s |-> Muere(s, o.nodo), ok |-> FALSE, dato |-> Basura]
            BY <1>4, <2>1, <4>1 DEF Lee
          <5> QED  BY <2>4, <5>1
        <4>3. d.dato = s.disco[o.nodo][o.num]
          <5>1. d = [s |-> [s EXCEPT !.sobra[o.nodo] = [j \in DOMAIN s.sobra[o.nodo] |-> "resto"]],
                     ok |-> TRUE, dato |-> s.disco[o.nodo][o.num]]
            BY <1>3, <1>4, <2>1, <3>3, <4>1, <4>2 DEF Lee
          <5> QED  BY <5>1
        <4>4. t.vivos = vivos  BY <2>2, <3>3, <4>2
        <4> QED  BY <1>4, <3>2, <4>1, <4>3, <4>4
      <3> HIDE DEF t, x
      <3>4. Solo(disco', disco, n, k)
        <4>1. Solo(e.s.disco, t.disco, n, k)  BY <1>1, <3>1, MandaSolo
        <4> QED  BY <1>5, <3>2, <4>1
      <3>5. ASSUME CopiaSegura(o, Ubi(n, k)), o.num < Capacidad[o.nodo]
            PROVE  disco'[n][k] = disco[o.nodo][o.num]
        <4>1. n \in t.vivos /\ t.prueba[n] = 0 /\ k < Capacidad[n] /\ x = disco[o.nodo][o.num]
          BY <3>3, <3>5
        <4>2. e.s.disco[n][k] = x  BY <1>1, <3>1, <4>1, MandaSolo
        <4> QED  BY <1>5, <4>1, <4>2
      <3> QED  BY <3>4, <3>5 DEF o
    <2> QED  BY <2>2, <2>3, <2>4
  <1> QED  BY <1>6, <1>7

LEMMA SanoCopia ==
  ASSUME Invariante, SanoBien, NEW r \in DOMAIN archivos, NEW i \in DOMAIN archivos[r],
         NEW n \in Nodos, CopiaD(r, i, n)
  PROVE  SanoBien'
  <1> DEFINE b == archivos[r][i]
             o == Fuente(b)
  <1>1. PICK k, e : Copia(r, i, n, k, e)  BY CopiaHay DEF CopiaD
  <1> DEFINE u == Ubi(n, k)
             S == IF CopiaSegura(o, u) THEN {} ELSE {u}
             T == dudosos \cup S
             N == bitmap'
             F == disco'
             s == ConCopia(b, u)
             G == Guardados \ {b}
  <1>2. op' = op /\ k = BitLibre(bitmap[n]) /\ Anota(S)  BY <1>1 DEF CopiaD, cpblock, Copia
  <1>3. /\ b \in Buenos /\ k \in Nat /\ k \notin bitmap[n] /\ u \in Ubicacion
        /\ u.num >= 0 /\ u.nodo = n /\ u.num = k
        /\ \A m \in Nodos : N[m] = IF m = n THEN bitmap[m] \cup {k} ELSE bitmap[m]
        /\ \/ e.ok /\ CambiaBloque(r, i, s)
           \/ ~ e.ok /\ UNCHANGED archivos
    <2>1. /\ b \in Buenos /\ k \in Nat /\ k \notin bitmap[n] /\ u \in Ubicacion
          /\ bitmap' = [bitmap EXCEPT ![n] = @ \cup {k}]
          /\ \/ e.ok /\ CambiaBloque(r, i, s)
             \/ ~ e.ok /\ UNCHANGED archivos
      BY <1>1, CopiaEs
    <2>2. u.num >= 0 /\ u.nodo = n /\ u.num = k  BY <2>1 DEF Ubi
    <2>3. \A m \in Nodos : N[m] = IF m = n THEN bitmap[m] \cup {k} ELSE bitmap[m]
      BY <2>1 DEF Invariante, BitsBien
    <2> QED  BY <2>1, <2>2, <2>3
  <1>4. /\ Solo(F, disco, n, k)
        /\ e.ok /\ CopiaSegura(o, u) /\ o.num < Capacidad[o.nodo] => F[n][k] = disco[o.nodo][o.num]
    BY <1>1, CopiaSolo
  <1>5. b \in Guardados /\ b \in Bloque /\ G \subseteq Guardados  BY PorSuDato, GuardadosDonde
  <1>6. Sano(Guardados, bitmap, disco, dudosos)  BY DEF SanoBien
  <1>7. /\ dudosos \subseteq T /\ (u \notin T => CopiaSegura(o, u))
        /\ CopiaSegura(o, u) => o.num >= 0 /\ o \notin dudosos /\ k < Capacidad[n]
    BY <1>3 DEF CopiaSegura
  <1>8. \A c \in Guardados : \A v \in Lugares(c) \ dudosos :
          /\ v.num \in bitmap[v.nodo] /\ v.num < Capacidad[v.nodo] /\ v # u
          /\ v.num \in N[v.nodo] /\ F[v.nodo][v.num] = disco[v.nodo][v.num]
    <2> TAKE c \in Guardados
    <2> TAKE v \in Lugares(c) \ dudosos
    <2>1. v.nodo \in Nodos /\ v.num \in Nat  BY LugarEs
    <2>2. v.num \in bitmap[v.nodo] /\ v.num < Capacidad[v.nodo]  BY <1>6 DEF Sano
    <2>3. v # u /\ ~ (v.nodo = n /\ v.num = k) /\ v.num \in N[v.nodo]  BY <1>3, <2>1, <2>2
    <2>4. Capacidad[v.nodo] \in Nat  BY <2>1, SupuestoBloques
    <2>5. v.num \in 0..(Capacidad[v.nodo] - 1)  BY <2>1, <2>2, <2>4
    <2> QED  BY <1>4, <2>1, <2>2, <2>3, <2>5 DEF Solo
  <1>9. CASE ~ e.ok /\ UNCHANGED archivos
    <2> DEFINE H == Guardados'
    <2>1. H \subseteq Guardados  BY <1>2, <1>9, GuardaQuieto
    <2> HIDE DEF b, o, u, S, T, N, F, s, G, H
    <2>2. \A c \in H : \A v \in Lugares(c) \ T :
            v.num \in bitmap[v.nodo] /\ v.num < Capacidad[v.nodo] =>
              v.num \in N[v.nodo] /\ F[v.nodo][v.num] = disco[v.nodo][v.num]
      BY <1>7, <1>8, <2>1
    <2>3. Sano(H, N, F, T)  BY <1>6, <1>7, <2>1, <2>2, SanoMenos
    <2> QED  BY <1>2, <2>3, AnotaEs DEF H, N, F, T
  <1>10. CASE e.ok /\ CambiaBloque(r, i, s)
    <2>1. /\ s \in Buenos /\ s.dato = b.dato /\ Lugares(s) = Lugares(b) \cup {u}
          /\ \A v \in Ubicacion : v.num >= 0 /\ Unico(b, v) /\ (v = u => u \notin Lugares(b)) => Unico(s, v)
      BY <1>3, ConCopiaEs
    <2>2. Guardados' = G \cup {s}  BY <1>2, <1>10, <2>1, CambiaGuardados
    <2>3. o.num >= 0 => o \in Lugares(b)  BY <1>5, LugaresSon DEF Fuente, Bloque
    <2>4. G = Guardados \ {b}  OBVIOUS
    <2> HIDE DEF b, o, u, S, T, N, F, s, G
    <2>5. Sano(G, N, F, T)
      <3>1. \A c \in G : \A v \in Lugares(c) \ T :
              v.num \in bitmap[v.nodo] /\ v.num < Capacidad[v.nodo] =>
                v.num \in N[v.nodo] /\ F[v.nodo][v.num] = disco[v.nodo][v.num]
        BY <1>5, <1>7, <1>8
      <3> QED  BY <1>5, <1>6, <1>7, <3>1, SanoMenos
    <2>6. \A v \in Lugares(s) \ T :
            /\ Unico(s, v) /\ v.num \in N[v.nodo]
            /\ v.num < Capacidad[v.nodo] /\ F[v.nodo][v.num] = s.dato
      <3> TAKE v \in Lugares(s) \ T
      <3>1. v \in Ubicacion /\ v.num >= 0  BY DEF Lugares
      <3>2. CASE v \in Lugares(b)
        <4>1. /\ Unico(b, v) /\ v.num < Capacidad[v.nodo] /\ disco[v.nodo][v.num] = b.dato
              /\ v # u /\ v.num \in N[v.nodo] /\ F[v.nodo][v.num] = disco[v.nodo][v.num]
          BY <1>5, <1>6, <1>7, <1>8, <3>2 DEF Sano
        <4> QED  BY <2>1, <3>1, <4>1
      <3>3. CASE v = u /\ v \notin Lugares(b)
        <4>1. CopiaSegura(o, u) /\ o.num >= 0 /\ o \notin dudosos /\ k < Capacidad[n]
          BY <1>7, <3>3
        <4>2. o \in Lugares(b) /\ o.num < Capacidad[o.nodo] /\ disco[o.nodo][o.num] = b.dato
          BY <1>5, <1>6, <2>3, <4>1 DEF Sano
        <4>3. F[n][k] = b.dato  BY <1>4, <1>10, <4>1, <4>2
        <4>4. Unico(b, v)  BY <3>1, <3>3 DEF Unico, Lugares
        <4>5. Unico(s, v)  BY <2>1, <3>1, <3>3, <4>4
        <4>6. k \in N[n]  BY <1>3
        <4> QED  BY <1>3, <2>1, <3>3, <4>1, <4>3, <4>5, <4>6
      <3> QED  BY <2>1, <3>2, <3>3
    <2>7. \A c \in G : Lugares(c) \cap Lugares(s) \subseteq T
      <3> TAKE c \in G
      <3>1. c \in Guardados /\ Lugares(c) \cap Lugares(b) \subseteq dudosos
        BY <1>5, <1>6, <2>4 DEF Sano
      <3>2. u \in Lugares(c) => u \in dudosos  BY <1>8, <3>1
      <3> QED  BY <1>7, <2>1, <3>1, <3>2
    <2>8. Sano(G \cup {s}, N, F, T)  BY <2>5, <2>6, <2>7, SanoMas
    <2> QED  BY <1>2, <2>2, <2>8, AnotaEs DEF N, F, T
  <1> QED  BY <1>3, <1>9, <1>10

-----------------------------------------------------------------------------
(* Every step                                                              *)

LEMMA SanoEnviar ==
  ASSUME Invariante, SanoBien, EnviaD
  PROVE  SanoBien'
  <1>1. PICK u \in Ubicaciones : \E k0, k1, e : Envio(u[1], u[2], k0, k1, e)
    BY EnvioHay DEF EnviaD
  <1>2. PICK k0, k1, e : Envio(u[1], u[2], k0, k1, e)  BY <1>1
  <1> QED  BY <1>2, SanoEnvio

\* The steps that make nothing doubtful.
Seguro ==
  \/ \E r \in Rutas, t \in Textos : cpfromBinary(r, t) \/ \E h \in Hilos : cpfrom(r, t, h)
  \/ enviarBloqueCae \/ registrarArchivo
  \/ \E r \in DOMAIN archivos : \E i \in DOMAIN archivos[r] : \E n \in Nodos : cpblockCae(r, i, n)
  \/ \E n \in Nodos : \/ asociarNodo(n) \/ manejarCliente(n)
                      \/ marcarNodoDesconectado(n) \/ DataNodeMuere(n)

LEMMA NextDSon ==
  NextD => \/ EnviaD \/ FormatD \/ (Seguro /\ Anota({}))
           \/ \E r \in Rutas : RmD(r)
           \/ \E r \in DOMAIN archivos : \E i \in DOMAIN archivos[r] :
                \/ \E c \in 0..(MaxOtras + 2) : RmBloqueD(r, i, c)
                \/ \E n \in Nodos : CopiaD(r, i, n)
  BY DEF NextD, Seguro

LEMMA SanoSeguro ==
  ASSUME Invariante, SanoBien, Seguro, Anota({})
  PROVE  SanoBien'
  <1>1. ASSUME NEW r, NEW t, NEW h, NEW k, Empieza(r, t, h, k) PROVE SanoBien'
    <2>1. UNCHANGED <<bitmap, disco>>  BY <1>1 DEF Empieza, varsDN
    <2> QED  BY <1>1, <2>1, GuardaEmpieza, SanoIgual
  <1>2. CASE registrarArchivo
    <2>1. UNCHANGED <<bitmap, disco>>  BY <1>2 DEF registrarArchivo, varsDN
    <2> QED  BY <1>2, <2>1, GuardaRegistrar, SanoIgual
  <1>3. CASE CaeFS  BY <1>3, SitiosCae, SanoVacio
  <1>4. ASSUME NEW n \in Nodos, \/ asociarNodo(n) \/ manejarCliente(n)
                               \/ marcarNodoDesconectado(n) \/ DataNodeMuere(n)
        PROVE  SanoBien'
    <2>1. UNCHANGED <<op, archivos, bitmap, disco>>
      BY <1>4 DEF asociarNodo, manejarCliente, marcarNodoDesconectado, DataNodeMuere, varsFS, varsDN
    <2> QED  BY <2>1, GuardaQuieto, SanoIgual
  <1> QED  BY <1>1, <1>2, <1>3, <1>4, CaeHay DEF Seguro, cpfrom, cpfromBinary

LEMMA SanoInicio == InitD => SanoBien
  <1>1. Init => Guardados = {}
    <2> SUFFICES ASSUME Init, NEW b \in Guardados PROVE FALSE  OBVIOUS
    <2>1. DOMAIN archivos = {} /\ op = Nulo  BY SinNodos DEF Init
    <2> QED  BY <2>1, GuardadosDonde
  <1> QED  BY <1>1 DEF InitD, SanoBien, Sano

\* The history takes away no step of the FileSystem, and adds none.
LEMMA PasoDePaso == NextD => Next
  BY NextDSon DEF Next, EnviaD, FormatD, RmD, RmBloqueD, CopiaD, Seguro

LEMMA SanoPaso ==
  ASSUME Invariante, SanoBien, [NextD]_varsD
  PROVE  SanoBien'
  <1>1. CASE UNCHANGED varsD
    <2>1. UNCHANGED <<op, archivos, bitmap, disco, dudosos>>  BY <1>1 DEF varsD, vars, varsFS, varsDN
    <2>2. Guardados' = Guardados  BY <2>1, GuardaQuieto
    <2> QED  BY <2>1, <2>2 DEF SanoBien
  <1>2. CASE EnviaD  BY <1>2, SanoEnviar
  <1>3. CASE FormatD  BY <1>3, SanoFormat
  <1>4. CASE Seguro /\ Anota({})  BY <1>4, SanoSeguro
  <1>5. CASE \E r \in Rutas : RmD(r)  BY <1>5, SanoRm
  <1>6. ASSUME NEW r \in DOMAIN archivos, NEW i \in DOMAIN archivos[r],
               \/ \E c \in 0..(MaxOtras + 2) : RmBloqueD(r, i, c)
               \/ \E n \in Nodos : CopiaD(r, i, n)
        PROVE  SanoBien'
    BY <1>6, SanoRmBloque, SanoCopia
  <1> QED  BY <1>1, <1>2, <1>3, <1>4, <1>5, <1>6, NextDSon

LEMMA SiempreSano == SpecD => [](Invariante /\ SanoBien)
  <1>1. InitD => Invariante /\ SanoBien  BY InicioBien, SanoInicio DEF InitD
  <1>2. Invariante /\ SanoBien /\ [NextD]_varsD => (Invariante /\ SanoBien)'
    <2>1. [NextD]_varsD => [Next]_vars  BY PasoDePaso DEF varsD
    <2> QED  BY <2>1, PasoBien, SanoPaso
  <1> QED  BY <1>1, <1>2, PTL DEF SpecD

LEMMA SeguraEs ==
  ASSUME Invariante, SanoBien, NEW c \in Seguras
  PROVE  /\ Lugar(c) \in Ubicacion /\ Lugar(c).num \in bitmap[Lugar(c).nodo]
         /\ Lugar(c).num < Capacidad[Lugar(c).nodo]
         /\ disco[Lugar(c).nodo][Lugar(c).num] = c[1].dato
         /\ \A d \in CopiasVivas : Lugar(d) = Lugar(c) => d = c
  <1>1. c \in CopiasVivas /\ Lugar(c) \notin dudosos  BY DEF Seguras
  <1>2. /\ c[1] \in Guardados /\ c[2] \in DOMAIN Copias(c[1]) /\ c = <<c[1], c[2]>>
        /\ Lugar(c) \in Lugares(c[1])
    BY <1>1, VivaEs
  <1>3. /\ Unico(c[1], Lugar(c)) /\ Lugar(c).num \in bitmap[Lugar(c).nodo]
        /\ Lugar(c).num < Capacidad[Lugar(c).nodo]
        /\ disco[Lugar(c).nodo][Lugar(c).num] = c[1].dato
    BY <1>1, <1>2 DEF SanoBien, Sano
  <1>4. ASSUME NEW d \in CopiasVivas, Lugar(d) = Lugar(c) PROVE d = c
    <2>1. /\ d[1] \in Guardados /\ d[2] \in DOMAIN Copias(d[1]) /\ d = <<d[1], d[2]>>
          /\ Lugar(d) \in Lugares(d[1])
      BY VivaEs
    <2>2. d[1] = c[1]  BY <1>1, <1>2, <1>4, <2>1 DEF SanoBien, Sano
    <2>3. d[2] = c[2]  BY <1>2, <1>3, <1>4, <2>1, <2>2 DEF Unico, Lugar
    <2> QED  BY <1>2, <2>1, <2>2, <2>3
  <1> QED  BY <1>2, <1>3, <1>4, LugarEs

\* Wherever a copy is noted, and the place is not doubtful for one of the causes FSDudas names,
\* the DataNode has the data of the block there: whatever is typed, whoever stores at the same
\* time, however many DataNodes die and come back, and whether the probe fits or not.
THEOREM DatosDondeDicen == SpecD => []DatosEnDisco
  <1>1. Invariante /\ SanoBien => DatosEnDisco  BY SeguraEs DEF DatosEnDisco
  <1> QED  BY <1>1, SiempreSano, PTL

\* Of such a place the bit is set, and no other copy is there, though rm, rm -b and format free
\* bits without the mutex while the server's thread stores: what they spoil is of that store.
THEOREM SitiosSinOtro == SpecD => []SitiosPropios
  <1>1. Invariante /\ SanoBien => SitiosPropios
    <2>1. \A c \in Seguras : c \in CopiasVivas  BY DEF Seguras
    <2> QED  BY <2>1, SeguraEs DEF SitiosPropios
  <1> QED  BY <1>1, SiempreSano, PTL
=============================================================================
