--------------------------- MODULE FSLecturaPrueba ---------------------------
(***************************************************************************)
(* Reading a file, for every set of nodes, every file and every node that  *)
(* dies: proofs that an answer is read by the thread it is for             *)
(* (UnaRespuesta), that what is written is the file (ArchivoFiel) and that *)
(* a read is given up only when the search had nothing to find             *)
(* (SoloSinCopias).                                                        *)
(***************************************************************************)
EXTENDS FSLectura, FiniteSetTheorems, SequenceTheorems, TLAPS

-----------------------------------------------------------------------------
(* Naturals                                                                *)

LEMMA Menor ==
  ASSUME NEW S \in SUBSET Nat, S # {}
  PROVE  \E x \in S : \A y \in S : x <= y
  <1>1. \E x \in S : \A y \in S : ~ (<<y, x>> \in OpToRel(<, Nat))
    BY WFMin, NatLessThanWellFounded
  <1>2. PICK x \in S : \A y \in S : ~ (<<y, x>> \in OpToRel(<, Nat))  BY <1>1
  <1>3. \A y \in S : ~ (y < x)  BY <1>2 DEF OpToRel
  <1> QED  BY <1>3

LEMMA MinEs ==
  ASSUME NEW S \in SUBSET Nat, S # {}
  PROVE  Min(S) \in S /\ \A y \in S : Min(S) <= y
  BY Menor DEF Min

\* A remainder is what is left after some turns.
LEMMA Resto ==
  ASSUME NEW N \in Nat \ {0}, NEW d \in Nat, NEW t \in 0..(N - 1)
  PROVE  (N * d + t) % N = t
  OBVIOUS

LEMMA RestoDe ==
  ASSUME NEW N \in Nat \ {0}, NEW x \in Nat
  PROVE  x % N \in 0..(N - 1) /\ \E d \in Nat : x = N * d + (x % N)
  <1>1. x \div N \in Nat /\ x % N \in 0..(N - 1)  OBVIOUS
  <1>2. x = N * (x \div N) + (x % N)  OBVIOUS
  <1> QED  BY <1>1, <1>2

-----------------------------------------------------------------------------
(* The round of nombreNodos                                                *)

NN == Cardinality(Nodos)

LEMMA Nombres ==
  /\ NN \in Nat \ {0} /\ Len(nombreNodos) = NN /\ nombreNodos \in [1..NN -> Nodos]
  /\ \A n \in Nodos : \E k \in 1..NN : nombreNodos[k] = n
  /\ \A i, k \in 1..NN : nombreNodos[i] = nombreNodos[k] => i = k
  <1>1. IsFiniteSet(Nodos) /\ Nodos # {}  BY SupuestoLectura
  <1>2. NN \in Nat \ {0}  BY <1>1, FS_CardinalityType, FS_EmptySet DEF NN
  <1>3. \E f \in [1..NN -> Nodos] : IsInjective(f)
    <2>1. Bijection(1..NN, Nodos) # {}  BY <1>1, FS_CardinalityType DEF NN, ExistsBijection
    <2> QED  BY <2>1 DEF Bijection, Injection
  <1>4. nombreNodos \in [1..NN -> Nodos] /\ IsInjective(nombreNodos)
    BY <1>3 DEF nombreNodos, SetToSeq, NN
  <1>5. nombreNodos \in Injection(1..NN, Nodos)  BY <1>4 DEF Injection
  <1>6. IsFiniteSet(1..NN) /\ Cardinality(1..NN) = NN  BY <1>2, FS_Interval
  <1>7. nombreNodos \in Surjection(1..NN, Nodos)
    BY <1>1, <1>5, <1>6, FS_Injection DEF NN
  <1>8. \A n \in Nodos : \E k \in 1..NN : nombreNodos[k] = n  BY <1>7 DEF Surjection
  <1>9. \A i, k \in 1..NN : nombreNodos[i] = nombreNodos[k] => i = k
    BY <1>4 DEF IsInjective
  <1>10. Len(nombreNodos) = NN  BY <1>2, <1>4
  <1> QED  BY <1>2, <1>4, <1>8, <1>9, <1>10

LEMMA VueltaEs ==
  ASSUME NEW p \in 1..NN, NEW k \in Nat
  PROVE  Vuelta(p, k) \in 1..NN /\ Vuelta(p, k) = ((p - 1 + k) % NN) + 1
  <1>1. NN \in Nat \ {0} /\ Len(nombreNodos) = NN  BY Nombres
  <1>2. p - 1 + k \in Nat  BY <1>1
  <1>3. (p - 1 + k) % NN \in 0..(NN - 1)  BY <1>1, <1>2, RestoDe
  <1> QED  BY <1>1, <1>3 DEF Vuelta

\* Any NN turns in a row pass by every node.
LEMMA PasaPor ==
  ASSUME NEW p \in 1..NN, NEW q \in Nat, NEW n \in Nodos
  PROVE  \E m \in (q + 1)..(q + NN) : nombreNodos[Vuelta(p, m - 1)] = n
  <1>1. NN \in Nat \ {0}  BY Nombres
  <1>2. PICK i \in 1..NN : nombreNodos[i] = n  BY Nombres
  <1> DEFINE t == i - 1
             r == (p - 1 + q) % NN
  <1>3. t \in 0..(NN - 1) /\ r \in 0..(NN - 1) /\ p - 1 + q \in Nat  BY <1>1, RestoDe
  <1>4. PICK d \in Nat : p - 1 + q = NN * d + r  BY <1>1, <1>3, RestoDe
  <1> HIDE DEF t, r
  <1>5. CASE r <= t
    <2> DEFINE m == q + 1 + (t - r)
    <2>1. m \in (q + 1)..(q + NN) /\ m - 1 \in Nat  BY <1>1, <1>3, <1>5
    <2>2. p - 1 + (m - 1) = NN * d + t  BY <1>1, <1>3, <1>4
    <2>3. (NN * d + t) % NN = t  BY <1>1, <1>3, Resto
    <2>4. Vuelta(p, m - 1) = ((p - 1 + (m - 1)) % NN) + 1  BY <2>1, VueltaEs
    <2>5. Vuelta(p, m - 1) = t + 1  BY <2>2, <2>3, <2>4
    <2> QED  BY <1>2, <2>1, <2>5 DEF t
  <1>6. CASE r > t
    <2> DEFINE m == q + 1 + (NN + t - r)
    <2>1. m \in (q + 1)..(q + NN) /\ m - 1 \in Nat  BY <1>1, <1>3, <1>6
    <2>2. NN * (d + 1) = NN * d + NN  BY <1>1
    <2>3. p - 1 + (m - 1) = NN * (d + 1) + t  BY <1>1, <1>3, <1>4, <2>2
    <2>4. (NN * (d + 1) + t) % NN = t  BY <1>1, <1>3, Resto
    <2>5. Vuelta(p, m - 1) = ((p - 1 + (m - 1)) % NN) + 1  BY <2>1, VueltaEs
    <2>6. Vuelta(p, m - 1) = t + 1  BY <2>3, <2>4, <2>5
    <2> QED  BY <1>2, <2>1, <2>6 DEF t
  <1> QED  BY <1>3, <1>5, <1>6

\* The first NN turns pass by no node twice.
LEMMA SinRepetir ==
  ASSUME NEW p \in 1..NN, NEW m \in 1..NN, NEW k \in 1..NN,
         nombreNodos[Vuelta(p, m - 1)] = nombreNodos[Vuelta(p, k - 1)]
  PROVE  m = k
  <1>1. NN \in Nat \ {0}  BY Nombres
  <1>2. m - 1 \in Nat /\ k - 1 \in Nat  BY <1>1
  <1> DEFINE u == Vuelta(p, m - 1)
             v == Vuelta(p, k - 1)
             r == (p - 1 + (m - 1)) % NN
  <1>a. u \in 1..NN /\ u = r + 1  BY <1>2, VueltaEs
  <1>b. v \in 1..NN /\ v = ((p - 1 + (k - 1)) % NN) + 1  BY <1>2, VueltaEs
  <1>c. u = v
    <2> HIDE DEF u, v
    <2>1. nombreNodos[u] = nombreNodos[v]  BY DEF u, v
    <2> QED  BY <1>a, <1>b, <2>1, Nombres
  <1>4. p - 1 + (m - 1) \in Nat /\ p - 1 + (k - 1) \in Nat  BY <1>1
  <1>d. r \in Nat /\ (p - 1 + (k - 1)) % NN \in Nat  BY <1>1, <1>4, RestoDe
  <1> HIDE DEF u, v
  <1>3. r = (p - 1 + (k - 1)) % NN  BY <1>a, <1>b, <1>c, <1>d
  <1>5. PICK d \in Nat : p - 1 + (m - 1) = NN * d + r  BY <1>1, <1>4, RestoDe
  <1>6. PICK e \in Nat : p - 1 + (k - 1) = NN * e + r  BY <1>1, <1>3, <1>4, RestoDe
  <1>7. r \in Nat  BY <1>1, <1>4, RestoDe
  <1> HIDE DEF r
  <1>8. NN * d \in Nat /\ NN * e \in Nat /\ NN * d - NN * e < NN /\ NN * e - NN * d < NN
    BY <1>1, <1>5, <1>6, <1>7
  <1>9. d = e
    <2>1. d < e => NN * e >= NN * (d + 1)  BY <1>1
    <2>2. e < d => NN * d >= NN * (e + 1)  BY <1>1
    <2>3. NN * (d + 1) = NN * d + NN /\ NN * (e + 1) = NN * e + NN  BY <1>1
    <2> QED  BY <1>1, <1>8, <2>1, <2>2, <2>3
  <1> QED  BY <1>5, <1>6, <1>7, <1>8, <1>9

-----------------------------------------------------------------------------
(* The copies of a block                                                   *)

LEMMA CopiasEs ==
  ASSUME NEW b \in Bloque
  PROVE  /\ Copias(b) \in Seq(Ubicacion) /\ Len(Copias(b)) = Intentos(b)
         /\ Intentos(b) \in Nat \ {0} /\ Intentos(b) = 2 + Len(b.otras)
         /\ Copias(b)[1] = b.c0 /\ Copias(b)[2] = b.c1
         /\ \A i \in 1..Len(b.otras) : Copias(b)[i + 2] = b.otras[i]
  <1>1. b.c0 \in Ubicacion /\ b.c1 \in Ubicacion /\ b.otras \in Seq(Ubicacion)  BY DEF Bloque
  <1> DEFINE s == <<b.c0, b.c1>>
  <1>2. s \in Seq(Ubicacion) /\ Len(s) = 2 /\ s[1] = b.c0 /\ s[2] = b.c1  BY <1>1
  <1> HIDE DEF s
  <1>3. s \o b.otras \in Seq(Ubicacion) /\ Len(s \o b.otras) = 2 + Len(b.otras)
    <2>1. \A x, y \in Seq(Ubicacion) : x \o y \in Seq(Ubicacion) /\ Len(x \o y) = Len(x) + Len(y)
      BY ConcatProperties
    <2> QED  BY <1>1, <1>2, <2>1
  <1>4. /\ (s \o b.otras)[1] = b.c0 /\ (s \o b.otras)[2] = b.c1
        /\ \A i \in 1..Len(b.otras) : (s \o b.otras)[i + 2] = b.otras[i]
    BY <1>1, <1>2, <1>3
  <1>5. Len(b.otras) \in Nat  BY <1>1
  <1> QED  BY <1>3, <1>4, <1>5 DEF Copias, Intentos, s

LEMMA CopiaDe ==
  ASSUME NEW b \in Bloque, NEW n \in Nodos
  PROVE  /\ CopiaEn(b, n) = Nulo => \A i \in 1..Intentos(b) : Copias(b)[i].nodo # n
         /\ CopiaEn(b, n) # Nulo =>
              /\ CopiaEn(b, n) \in Ubicacion /\ CopiaEn(b, n).nodo = n
              /\ \E i \in 1..Intentos(b) : CopiaEn(b, n) = Copias(b)[i]
  <1>1. /\ Len(Copias(b)) = Intentos(b) /\ Intentos(b) \in Nat \ {0} /\ Intentos(b) = 2 + Len(b.otras)
        /\ Copias(b)[1] = b.c0 /\ Copias(b)[2] = b.c1
        /\ \A i \in 1..Len(b.otras) : Copias(b)[i + 2] = b.otras[i]
    BY CopiasEs
  <1>2. b.c0 \in Ubicacion /\ b.c1 \in Ubicacion /\ b.otras \in Seq(Ubicacion)  BY DEF Bloque
  <1>3. Nulo \notin Ubicacion  BY SupuestoLectura
  <1>4. Len(b.otras) \in Nat /\ 1 \in 1..Intentos(b) /\ 2 \in 1..Intentos(b)  BY <1>1, <1>2
  <1> DEFINE otras == {i \in DOMAIN b.otras : b.otras[i].nodo = n}
  <1>5. CASE b.c0.nodo = n
    <2>1. CopiaEn(b, n) = b.c0  BY <1>5 DEF CopiaEn
    <2> QED  BY <1>1, <1>2, <1>3, <1>4, <1>5, <2>1
  <1>6. CASE b.c0.nodo # n /\ b.c1.nodo = n
    <2>1. CopiaEn(b, n) = b.c1  BY <1>6 DEF CopiaEn
    <2> QED  BY <1>1, <1>2, <1>3, <1>4, <1>6, <2>1
  <1>7. CASE n \notin {b.c0.nodo, b.c1.nodo} /\ otras # {}
    <2>1. CopiaEn(b, n) = b.otras[Min(otras)]  BY <1>7 DEF CopiaEn
    <2>2. otras \subseteq Nat  BY <1>2
    <2>3. Min(otras) \in otras  BY <1>7, <2>2, MinEs
    <2> DEFINE k == Min(otras)
    <2> HIDE DEF k
    <2>4. k \in 1..Len(b.otras) /\ b.otras[k].nodo = n  BY <1>2, <2>3 DEF k
    <2>5. k + 2 \in 1..Intentos(b) /\ b.otras[k] \in Ubicacion /\ Copias(b)[k + 2] = b.otras[k]
      BY <1>1, <1>2, <1>4, <2>4
    <2>6. CopiaEn(b, n) = b.otras[k]  BY <2>1 DEF k
    <2> QED  BY <1>3, <2>4, <2>5, <2>6
  <1>8. CASE n \notin {b.c0.nodo, b.c1.nodo} /\ otras = {}
    <2>1. CopiaEn(b, n) = Nulo  BY <1>8 DEF CopiaEn
    <2>2. ASSUME NEW i \in 1..Intentos(b)  PROVE Copias(b)[i].nodo # n
      <3>1. CASE i \in {1, 2}  BY <1>1, <1>8, <3>1
      <3>2. CASE i > 2
        <4>1. i - 2 \in 1..Len(b.otras) /\ i = (i - 2) + 2  BY <1>1, <1>4, <3>2
        <4>2. Copias(b)[i] = b.otras[i - 2]  BY <1>1, <4>1
        <4>3. b.otras[i - 2].nodo # n  BY <1>2, <1>8, <4>1
        <4> QED  BY <4>2, <4>3
      <3> QED  BY <1>1, <3>1, <3>2
    <2> QED  BY <2>1, <2>2
  <1> QED  BY <1>5, <1>6, <1>7, <1>8

NodosDe(b) == {n \in Nodos : CopiaEn(b, n) # Nulo}

LEMMA NodosDeCota ==
  ASSUME NEW b \in Bloque
  PROVE  IsFiniteSet(NodosDe(b)) /\ Cardinality(NodosDe(b)) <= Intentos(b) /\ b.c0.nodo \in NodosDe(b)
  <1>1. Intentos(b) \in Nat \ {0} /\ Copias(b)[1] = b.c0  BY CopiasEs
  <1> DEFINE f == [i \in 1..Intentos(b) |-> Copias(b)[i].nodo]
             T == {f[i] : i \in 1..Intentos(b)}
  <1>2. f \in Surjection(1..Intentos(b), T)  BY DEF Surjection
  <1> HIDE DEF f
  <1>3. IsFiniteSet(1..Intentos(b)) /\ Cardinality(1..Intentos(b)) = Intentos(b)
    BY <1>1, FS_Interval
  <1> HIDE DEF T
  <1>4. IsFiniteSet(T) /\ Cardinality(T) <= Intentos(b)  BY <1>2, <1>3, FS_Surjection
  <1>5. NodosDe(b) \subseteq T
    <2> SUFFICES ASSUME NEW n \in NodosDe(b)  PROVE n \in T
      OBVIOUS
    <2>1. n \in Nodos /\ CopiaEn(b, n) # Nulo  BY DEF NodosDe
    <2>2. PICK i \in 1..Intentos(b) : CopiaEn(b, n) = Copias(b)[i]  BY <2>1, CopiaDe
    <2>3. Copias(b)[i].nodo = n  BY <2>1, <2>2, CopiaDe
    <2> QED  BY <2>3 DEF T, f
  <1>6. IsFiniteSet(NodosDe(b)) /\ Cardinality(NodosDe(b)) <= Cardinality(T)
    BY <1>4, <1>5, FS_Subset
  <1>7. b.c0.nodo \in NodosDe(b)
    <2>1. b.c0.nodo \in Nodos  BY DEF Bloque, Ubicacion
    <2>2. 1 \in 1..Intentos(b)  BY <1>1
    <2> QED  BY <1>1, <2>1, <2>2, CopiaDe DEF NodosDe
  <1> QED
    <2>1. Cardinality(NodosDe(b)) \in Nat /\ Cardinality(T) \in Nat  BY <1>4, <1>6, FS_CardinalityType
    <2> QED  BY <1>1, <1>4, <1>6, <1>7, <2>1

-----------------------------------------------------------------------------
(* The search for a copy                                                   *)

NodoEn(k)   == nombreNodos[Vuelta(puntero, k - 1)]
Malas(b, k) == {m \in 1..k : CopiaEn(b, NodoEn(m)) # Nulo /\ ~Sirve(b, NodoEn(m))}
Acaba(b, k) == Sirve(b, NodoEn(k)) \/ Cardinality(Malas(b, k)) = Intentos(b)

LEMMA NodoEnEs ==
  ASSUME puntero \in 1..NN
  PROVE  /\ \A k \in Nat \ {0} : NodoEn(k) \in Nodos
         /\ \A q \in Nat, n \in Nodos : \E m \in (q + 1)..(q + NN) : NodoEn(m) = n
         /\ \A m, k \in 1..NN : NodoEn(m) = NodoEn(k) => m = k
  <1>1. NN \in Nat \ {0} /\ nombreNodos \in [1..NN -> Nodos]  BY Nombres
  <1>2. ASSUME NEW k \in Nat \ {0}  PROVE NodoEn(k) \in Nodos
    <2>1. k - 1 \in Nat  OBVIOUS
    <2>2. Vuelta(puntero, k - 1) \in 1..NN  BY <2>1, VueltaEs
    <2> QED  BY <1>1, <2>2 DEF NodoEn
  <1>3. \A q \in Nat, n \in Nodos : \E m \in (q + 1)..(q + NN) : NodoEn(m) = n
    BY PasaPor DEF NodoEn
  <1>4. \A m, k \in 1..NN : NodoEn(m) = NodoEn(k) => m = k
    BY SinRepetir DEF NodoEn
  <1> QED  BY <1>2, <1>3, <1>4

LEMMA MalasPaso ==
  ASSUME NEW b, NEW k \in Nat
  PROVE  /\ IsFiniteSet(Malas(b, k)) /\ Cardinality(Malas(b, k)) \in Nat
         /\ Cardinality(Malas(b, 0)) = 0
         /\ Cardinality(Malas(b, k + 1)) \in {Cardinality(Malas(b, k)), Cardinality(Malas(b, k)) + 1}
         /\ k + 1 \in Malas(b, k + 1) =>
              Cardinality(Malas(b, k + 1)) = Cardinality(Malas(b, k)) + 1
  <1>1. IsFiniteSet(1..k) /\ Malas(b, k) \in SUBSET (1..k)  BY FS_Interval DEF Malas
  <1>2. IsFiniteSet(Malas(b, k))  BY <1>1, FS_Subset
  <1>3. Cardinality(Malas(b, k)) \in Nat  BY <1>2, FS_CardinalityType
  <1>4. Malas(b, 0) = {}  BY DEF Malas
  <1>5. k + 1 \notin Malas(b, k)  BY <1>1
  <1>6. Malas(b, k + 1) = Malas(b, k) \cup (IF k + 1 \in Malas(b, k + 1) THEN {k + 1} ELSE {})
    <2>1. 1..(k + 1) = (1..k) \cup {k + 1}  OBVIOUS
    <2> QED  BY <2>1 DEF Malas
  <1>7. Cardinality(Malas(b, k) \cup {k + 1}) = Cardinality(Malas(b, k)) + 1
    BY <1>2, <1>5, FS_AddElement
  <1> QED  BY <1>2, <1>3, <1>4, <1>6, <1>7, FS_EmptySet

LEMMA MalasCrece ==
  ASSUME NEW b, NEW k \in Nat, NEW m \in Nat, m <= k
  PROVE  Malas(b, m) \subseteq Malas(b, k) /\ Cardinality(Malas(b, m)) <= Cardinality(Malas(b, k))
  <1>1. Malas(b, m) \subseteq Malas(b, k)  BY DEF Malas
  <1> QED  BY <1>1, MalasPaso, FS_Subset

\* Each round passes by the node of copy 0, so the search ends.
LEMMA TurnosHay ==
  ASSUME NEW b \in Bloque, puntero \in 1..NN
  PROVE  \E k \in 1..(NN * Intentos(b)) : Acaba(b, k) /\ \A m \in 1..(k - 1) : ~Acaba(b, m)
  <1> DEFINE I == Intentos(b)
             C(k) == Cardinality(Malas(b, k))
  <1>1. NN \in Nat \ {0} /\ I \in Nat \ {0}  BY Nombres, CopiasEs
  <1>2. NN * I \in Nat  BY <1>1
  <1>3. \A k \in Nat : C(k) \in Nat /\ C(0) = 0 /\ C(k + 1) \in {C(k), C(k) + 1}  BY MalasPaso
  <1>4. b.c0.nodo \in Nodos /\ CopiaEn(b, b.c0.nodo) # Nulo  BY NodosDeCota DEF NodosDe
  <1>5. ASSUME \A k \in 1..(NN * I) : ~Acaba(b, k)  PROVE FALSE
    <2> DEFINE S == {j \in 0..I : C(NN * j) < j}
    <2>1. ASSUME S # {}  PROVE FALSE
      <3>1. S \in SUBSET Nat  BY <1>1
      <3> HIDE DEF S
      <3>2. PICK j \in S : \A i \in S : j <= i  BY <2>1, <3>1, Menor
      <3>3. j \in 0..I /\ C(NN * j) < j  BY <3>2 DEF S
      <3>4. j # 0
        <4>1. NN * 0 = 0  BY <1>1
        <4> QED  BY <1>3, <3>3, <4>1
      <3> DEFINE i == j - 1
                 q == NN * i
      <3>5. i \in 0..I /\ j = i + 1 /\ i \in Nat  BY <1>1, <3>3, <3>4
      <3>6. i \notin S  BY <3>2, <3>5
      <3>7. C(q) >= i  BY <3>5, <3>6, <1>1, <1>3 DEF S
      <3>8. q \in Nat /\ NN * j = q + NN /\ NN * j <= NN * I
        <4>1. NN * j = NN * i + NN  BY <1>1, <3>5
        <4>2. q \in Nat  BY <1>1, <3>5
        <4>3. NN * j <= NN * I  BY <1>1, <3>3
        <4> QED  BY <4>1, <4>2, <4>3
      <3> HIDE DEF i, q
      <3>9. PICK m \in (q + 1)..(q + NN) : NodoEn(m) = b.c0.nodo  BY <1>4, <3>8, NodoEnEs
      <3>10. m \in 1..(NN * I) /\ m \in Nat /\ m - 1 \in Nat /\ q <= m - 1 /\ m <= NN * j /\ NN * j \in Nat
        BY <1>1, <1>2, <3>8, <3>9
      <3>11. m \in Malas(b, m)
        <4>1. ~Sirve(b, NodoEn(m))  BY <1>5, <3>10 DEF Acaba
        <4> QED  BY <1>4, <3>9, <3>10, <4>1 DEF Malas
      <3>12. C(m) = C(m - 1) + 1
        <4>1. (m - 1) + 1 = m  BY <3>10
        <4>2. (m - 1) + 1 \in Malas(b, (m - 1) + 1)  BY <3>11, <4>1
        <4>3. C((m - 1) + 1) = C(m - 1) + 1  BY <3>10, <4>2, MalasPaso
        <4> QED  BY <4>1, <4>3
      <3>13. C(q) <= C(m - 1) /\ C(m) <= C(NN * j)  BY <3>8, <3>10, MalasCrece
      <3>14. C(q) \in Nat /\ C(m - 1) \in Nat /\ C(m) \in Nat /\ C(NN * j) \in Nat
        BY <1>3, <3>8, <3>10
      <3> HIDE DEF C
      <3> QED  BY <3>3, <3>5, <3>7, <3>12, <3>13, <3>14
    <2>2. C(NN * I) >= I
      <3>1. I \in 0..I /\ I \notin S  BY <1>1, <2>1
      <3>2. C(NN * I) \in Nat  BY <1>2, <1>3
      <3> QED  BY <1>1, <3>1, <3>2
    <2> DEFINE T == {k \in Nat : C(k) >= I}
    <2>3. T \in SUBSET Nat /\ NN * I \in T  BY <1>2, <2>2
    <2> HIDE DEF T
    <2>4. PICK k \in T : \A m \in T : k <= m  BY <2>3, Menor
    <2>5. k \in Nat /\ k <= NN * I /\ C(k) >= I  BY <2>3, <2>4 DEF T
    <2>6. k # 0  BY <1>1, <1>3, <2>5
    <2>7. k - 1 \in Nat /\ k - 1 \notin T /\ k \in 1..(NN * I)  BY <1>2, <2>4, <2>5, <2>6
    <2>8. ~(C(k - 1) >= I)  BY <2>7 DEF T
    <2>9. C(k) \in {C(k - 1), C(k - 1) + 1}
      <3>1. (k - 1) + 1 = k  BY <2>5
      <3>2. C((k - 1) + 1) \in {C(k - 1), C(k - 1) + 1}  BY <1>3, <2>7
      <3> QED  BY <3>1, <3>2
    <2>10. C(k) = I
      <3>1. C(k - 1) \in Nat /\ C(k) \in Nat  BY <1>3, <2>5, <2>7
      <3> HIDE DEF C
      <3> QED  BY <1>1, <2>5, <2>8, <2>9, <3>1
    <2>11. Acaba(b, k)  BY <2>10 DEF Acaba
    <2> QED  BY <1>5, <2>7, <2>11
  <1> DEFINE A == {k \in 1..(NN * I) : Acaba(b, k)}
  <1>6. A \in SUBSET Nat /\ A # {}  BY <1>2, <1>5
  <1> HIDE DEF A
  <1>7. PICK k \in A : \A m \in A : k <= m  BY <1>6, Menor
  <1>8. k \in 1..(NN * I) /\ Acaba(b, k)  BY <1>7 DEF A
  <1>9. ASSUME NEW m \in 1..(k - 1)  PROVE ~Acaba(b, m)
    <2>1. m \in 1..(NN * I) /\ m < k  BY <1>2, <1>8
    <2> QED  BY <1>7, <2>1, <1>8 DEF A
  <1> QED  BY <1>8, <1>9

LEMMA TurnosEs ==
  ASSUME NEW b \in Bloque, puntero \in 1..NN
  PROVE  /\ Turnos(b) \in 1..(NN * Intentos(b)) /\ Turnos(b) \in Nat \ {0}
         /\ Acaba(b, Turnos(b)) /\ \A m \in 1..(Turnos(b) - 1) : ~Acaba(b, m)
  <1>1. Len(nombreNodos) = NN /\ NN \in Nat \ {0}  BY Nombres
  <1>2. Turnos(b) = CHOOSE k \in 1..(NN * Intentos(b)) : Acaba(b, k) /\ \A m \in 1..(k - 1) : ~Acaba(b, m)
    BY <1>1 DEF Turnos, Acaba, Malas, NodoEn
  <1>3. Turnos(b) \in 1..(NN * Intentos(b)) /\ Acaba(b, Turnos(b)) /\ \A m \in 1..(Turnos(b) - 1) : ~Acaba(b, m)
    BY <1>2, TurnosHay
  <1>4. NN * Intentos(b) \in Nat  BY <1>1, CopiasEs
  <1> QED  BY <1>3, <1>4

\* What the search returns is a copy that can be read, of a connected node.
LEMMA LoQueElige ==
  ASSUME NEW b \in Bloque, puntero \in 1..NN
  PROVE  /\ Vuelta(puntero, Turnos(b)) \in 1..NN
         /\ LET u == seleccionarNodoLectura(b)
            IN  u # Nulo => u \in Ubicacion /\ u.nodo \in socket /\ u.num # -1 /\ EsCopia(u, b)
  <1> DEFINE n == NodoEn(Turnos(b))
  <1>1. Turnos(b) \in Nat \ {0} /\ n \in Nodos  BY TurnosEs, NodoEnEs
  <1>2. Vuelta(puntero, Turnos(b)) \in 1..NN  BY <1>1, VueltaEs
  <1>3. ASSUME seleccionarNodoLectura(b) # Nulo
        PROVE  LET u == seleccionarNodoLectura(b)
               IN  u \in Ubicacion /\ u.nodo \in socket /\ u.num # -1 /\ EsCopia(u, b)
    <2>1. Sirve(b, n) /\ seleccionarNodoLectura(b) = CopiaEn(b, n)
      BY <1>3 DEF seleccionarNodoLectura, NodoEn
    <2> HIDE DEF n
    <2>2. CopiaEn(b, n) # Nulo /\ n \in socket /\ CopiaEn(b, n).num # -1  BY <2>1 DEF Sirve
    <2>3. CopiaEn(b, n) \in Ubicacion /\ CopiaEn(b, n).nodo = n  BY <1>1, <2>2, CopiaDe
    <2>4. PICK i \in 1..Intentos(b) : CopiaEn(b, n) = Copias(b)[i]  BY <1>1, <2>2, CopiaDe
    <2>5. DOMAIN Copias(b) = 1..Intentos(b)  BY CopiasEs
    <2>6. EsCopia(CopiaEn(b, n), b)  BY <2>4, <2>5 DEF EsCopia, Range
    <2> QED  BY <2>1, <2>2, <2>3, <2>6
  <1> QED  BY <1>2, <1>3

(***************************************************************************)
(* When the search gives up no node serves.  If one did the round would    *)
(* have met it within NN turns; before that no node is met twice, and      *)
(* without that one the block has fewer nodes than tries.                  *)
(***************************************************************************)
LEMMA SiNoElige ==
  ASSUME NEW b \in Bloque, puntero \in 1..NN, seleccionarNodoLectura(b) = Nulo
  PROVE  \A n \in Nodos : ~Sirve(b, n)
  <1> DEFINE k == Turnos(b)
             M == Malas(b, k)
  <1>1. k \in Nat \ {0} /\ Acaba(b, k) /\ \A m \in 1..(k - 1) : ~Acaba(b, m)  BY TurnosEs
  <1>2. ~Sirve(b, NodoEn(k))
    <2>1. ASSUME Sirve(b, NodoEn(k))  PROVE FALSE
      <3>1. seleccionarNodoLectura(b) = CopiaEn(b, NodoEn(k))
        BY <2>1 DEF seleccionarNodoLectura, NodoEn
      <3> QED  BY <2>1, <3>1 DEF Sirve
    <2> QED  BY <2>1
  <1>3. Cardinality(M) = Intentos(b)  BY <1>1, <1>2 DEF Acaba
  <1>4. \A m \in 1..k : ~Sirve(b, NodoEn(m))
    <2>1. \A m \in 1..(k - 1) : ~Sirve(b, NodoEn(m))  BY <1>1 DEF Acaba
    <2> HIDE DEF k
    <2>2. \A m \in 1..k : m \in 1..(k - 1) \/ m = k  BY <1>1
    <2> QED  BY <1>2, <2>1, <2>2 DEF k
  <1> SUFFICES ASSUME NEW n \in Nodos, Sirve(b, n)  PROVE FALSE
    OBVIOUS
  <1> HIDE DEF k
  <1>5. NN \in Nat \ {0}  BY Nombres
  <1>6. k < NN
    <2>1. PICK m \in (0 + 1)..(0 + NN) : NodoEn(m) = n  BY NodoEnEs
    <2>2. m \in 1..NN /\ m \notin 1..k  BY <1>4, <1>5, <2>1
    <2> QED  BY <1>1, <1>5, <2>2
  <1> DEFINE T == NodosDe(b) \ {n}
             f == [m \in M |-> NodoEn(m)]
  <1>7. M \subseteq 1..k /\ 1..k \subseteq 1..NN  BY <1>1, <1>5, <1>6 DEF Malas
  <1>8. f \in Injection(M, T)
    <2>1. ASSUME NEW m \in M  PROVE NodoEn(m) \in T
      <3>1. m \in 1..k /\ m \in Nat \ {0} /\ CopiaEn(b, NodoEn(m)) # Nulo  BY <1>1, <1>7 DEF Malas
      <3>2. NodoEn(m) \in Nodos /\ NodoEn(m) # n  BY <1>4, <3>1, NodoEnEs
      <3> QED  BY <3>1, <3>2 DEF NodosDe
    <2>2. \A m, i \in M : NodoEn(m) = NodoEn(i) => m = i
      <3>1. \A m, i \in 1..NN : NodoEn(m) = NodoEn(i) => m = i  BY NodoEnEs
      <3> QED  BY <1>7, <3>1
    <2> HIDE DEF M, T
    <2> QED  BY <2>1, <2>2 DEF Injection, IsInjective
  <1>9. IsFiniteSet(NodosDe(b)) /\ Cardinality(NodosDe(b)) <= Intentos(b)  BY NodosDeCota
  <1>10. n \in NodosDe(b)  BY DEF NodosDe, Sirve
  <1>11. IsFiniteSet(T) /\ Cardinality(T) = Cardinality(NodosDe(b)) - 1
    BY <1>9, <1>10, FS_RemoveElement
  <1> HIDE DEF M, T, f
  <1>12. Cardinality(M) <= Cardinality(T)  BY <1>8, <1>11, FS_Injection
  <1>13. Cardinality(NodosDe(b)) \in Nat /\ Intentos(b) \in Nat  BY <1>9, FS_CardinalityType, CopiasEs
  <1> QED  BY <1>3, <1>9, <1>11, <1>12, <1>13

-----------------------------------------------------------------------------
(* The invariant                                                           *)

DatoT    == [nodo : Nodos \cup {Nulo}, num : Int]
HiloT    == [nodo : Nodos, num : Nat, pc : {"pide", "espera", "bien", "mal"}, dato : DatoT \cup {Nulo}]
Palabra  == [dato : DatoT, entero : BOOLEAN]
Leidos   == Archivos \cup {Prueba(n) : n \in Nodos}
LecturaT == [archivo : Leidos, primero : Nat \ {0}]

Tipos ==
  /\ fs \in {"vivo", "caido"} /\ puntero \in 1..NN
  /\ lectura # Nulo => lectura \in LecturaT /\ lectura.primero <= Len(hilos) + 1
  /\ hilos \in Seq(HiloT) /\ \E S : resultados \in Seq(S)
  /\ socket \subseteq Nodos /\ vivos \subseteq socket /\ mutex \in [Nodos -> BOOLEAN]
  /\ pedido \in [Nodos -> Seq(Nat)] /\ canal \in [Nodos -> Seq(Palabra)]
  /\ muertes \in 0..Muertes

\* Of the threads H, those that have the mutex of node n.
Ocupa(H, n) == {h \in 1..Len(H) : H[h].nodo = n /\ H[h].pc # "bien"}

\* A connection carries one answer at most, and it is for the thread that has the mutex:
\* of node n, the mutex m, the threads H, and the connection, p one way and c the other.
Atiende(n, m, H, p, c) ==
  /\ m = (Ocupa(H, n) # {})
  /\ \A h, k \in Ocupa(H, n) : h = k
  /\ Len(p) + Len(c) <= 1
  /\ Ocupa(H, n) = {} => p = <<>> /\ c = <<>>
  /\ \A h \in Ocupa(H, n) :
       /\ H[h].pc = "pide" => p = <<>> /\ c = <<>>
       /\ \A i \in 1..Len(p) : p[i] = H[h].num
       /\ \A i \in 1..Len(c) : c[i].entero => c[i].dato = [nodo |-> n, num |-> H[h].num]

Conexion(n) == Atiende(n, mutex[n], hilos, pedido[n], canal[n])

\* What is cut on a connection was cut by a death, or by the server after a read was given up.
Cortes == \A n \in Nodos : \A i \in 1..Len(canal[n]) : canal[n][i].entero \/ Perdida

Fieles ==
  \A h \in 1..Len(hilos) : hilos[h].pc = "bien" =>
    \/ hilos[h].dato = [nodo |-> hilos[h].nodo, num |-> hilos[h].num]
    \/ hilos[h].dato = Basura /\ Perdida

\* While no node dies none is lost and no thread fails; and while no read is given up
\* either, no thread outlives its read.
SinMuertes ==
  muertes = 0 => socket = vivos /\ \A h \in 1..Len(hilos) : hilos[h].nodo \in socket /\ hilos[h].pc # "mal"

SinRestos ==
  ~Perdida => \A h \in 1..Len(hilos) : lectura = Nulo \/ h < lectura.primero => hilos[h].pc = "bien"

\* The threads of the read under way are for the first blocks of its file, in order.
EnOrden ==
  lectura # Nulo =>
    /\ Len(hilos) - lectura.primero + 1 <= Len(lectura.archivo)
    /\ \A h \in lectura.primero..Len(hilos) :
         EsCopia([nodo |-> hilos[h].nodo, num |-> hilos[h].num], lectura.archivo[h - lectura.primero + 1])

Escritos ==
  \A r \in Range(resultados) : r.estado = 0 /\ ~Perdida =>
    /\ Len(r.datos) = Len(r.archivo)
    /\ \A i \in DOMAIN r.datos : EsCopia(r.datos[i], r.archivo[i])

Inv ==
  /\ Tipos /\ \A n \in Nodos : Conexion(n)
  /\ Cortes /\ Fieles /\ SinMuertes /\ SinRestos /\ EnOrden /\ Escritos /\ SoloSinCopias

LEMMA LeidosSon ==
  ASSUME NEW a \in Leidos
  PROVE  a \in Seq(Bloque) /\ \A i \in 1..Len(a) : a[i] \in Bloque /\ Guardado(a[i])
  <1>1. CASE a \in Archivos  BY <1>1, SupuestoLectura
  <1>2. ASSUME NEW n \in Nodos, a = Prueba(n)
        PROVE  a \in Seq(Bloque) /\ \A i \in 1..Len(a) : a[i] \in Bloque /\ Guardado(a[i])
    <2> DEFINE b == [c0 |-> [nodo |-> n, num |-> 0], c1 |-> [nodo |-> n, num |-> 1], otras |-> <<>>]
    <2>1. b \in Bloque /\ b.c0.num = 0 /\ b.c1.num = 1 /\ b.otras = <<>>  BY DEF Bloque, Ubicacion
    <2>2. a = <<b>>  BY <1>2 DEF Prueba
    <2> HIDE DEF b
    <2>a. /\ Copias(b) \in Seq(Ubicacion) /\ Len(Copias(b)) = Intentos(b)
          /\ Intentos(b) = 2 + Len(b.otras) /\ Copias(b)[1] = b.c0 /\ Copias(b)[2] = b.c1
      BY <2>1, CopiasEs
    <2>3. DOMAIN Copias(b) = 1..2 /\ Copias(b)[1].num = 0 /\ Copias(b)[2].num = 1
      <3>1. Len(b.otras) = 0  BY <2>1
      <3>2. DOMAIN Copias(b) = 1..2  BY <2>a, <3>1
      <3> QED  BY <2>1, <2>a, <3>2
    <2>4. Guardado(b)  BY <2>3 DEF Guardado
    <2> QED  BY <2>1, <2>2, <2>4
  <1> QED  BY <1>1, <1>2 DEF Leidos

-----------------------------------------------------------------------------
(* Steps that leave the threads and the connections alone                  *)

LEMMA EmpiezaEs ==
  ASSUME Tipos, NEW a \in Leidos
  PROVE  /\ Empieza(a) \in LecturaT /\ Empieza(a).archivo = a /\ Empieza(a).primero = Len(hilos) + 1
         /\ Len(hilos) \in Nat
  <1>1. Len(hilos) \in Nat  BY DEF Tipos
  <1> QED  BY <1>1 DEF Empieza, LecturaT

LEMMA AtiendeVacia ==
  ASSUME NEW n, NEW m, NEW H, NEW p, NEW c, Atiende(n, m, H, p, c)
  PROVE  Atiende(n, m, H, <<>>, <<>>)
  <1>1. Len(<<>>) = 0 /\ 1..Len(<<>>) = {}  OBVIOUS
  <1> QED  BY <1>1 DEF Atiende

LEMMA InvInicial == Init => Inv
  <1> SUFFICES ASSUME Init  PROVE Inv
    OBVIOUS
  <1>1. Tipos
    <2>1. resultados \in Seq({})  BY DEF Init
    <2> QED  BY <2>1, SupuestoLectura DEF Init, Tipos, NN
  <1>2. Len(hilos) = 0 /\ 1..Len(hilos) = {}  BY DEF Init
  <1>3. ASSUME NEW n \in Nodos  PROVE Conexion(n)
    <2>1. Ocupa(hilos, n) = {}  BY <1>2 DEF Ocupa
    <2>2. mutex[n] = FALSE /\ pedido[n] = <<>> /\ canal[n] = <<>> /\ Len(<<>>) = 0  BY DEF Init
    <2>3. Len(pedido[n]) + Len(canal[n]) <= 1  BY <2>2
    <2>4. mutex[n] = (Ocupa(hilos, n) # {})  BY <2>1, <2>2
    <2> QED  BY <2>1, <2>2, <2>3, <2>4 DEF Conexion, Atiende
  <1>4. Range(resultados) = {}  BY DEF Init, Range
  <1>5. Cortes  BY DEF Init, Cortes
  <1>6. Fieles /\ SinMuertes /\ SinRestos  BY <1>2 DEF Init, Fieles, SinMuertes, SinRestos
  <1>7. EnOrden /\ Escritos /\ SoloSinCopias  BY <1>4 DEF Init, EnOrden, Escritos, SoloSinCopias
  <1> QED  BY <1>1, <1>3, <1>5, <1>6, <1>7 DEF Inv

LEMMA ObtenerArchivoInv ==
  ASSUME Inv, NEW f \in Archivos, obtenerArchivo(f)  PROVE Inv'
  <1> USE DEF varsDN
  <1>1. f \in Leidos  BY DEF Leidos
  <1>2. lectura = Nulo /\ lectura' = Empieza(f) /\ UNCHANGED <<fs, socket, hilos, resultados, puntero, mutex, varsDN>>
    BY DEF obtenerArchivo
  <1>3. /\ lectura' \in LecturaT /\ lectura'.archivo = f /\ lectura'.primero = Len(hilos) + 1
        /\ Len(hilos) \in Nat
    BY <1>1, <1>2, EmpiezaEs DEF Inv
  <1>4. Perdida' = Perdida  BY <1>2 DEF Perdida
  <1>5. Tipos'  BY <1>2, <1>3 DEF Inv, Tipos
  <1>6. ASSUME NEW n \in Nodos  PROVE Conexion(n)'
    BY <1>2 DEF Inv, Conexion
  <1>7. Cortes' /\ Fieles' /\ SinMuertes'  BY <1>2, <1>4 DEF Inv, Cortes, Fieles, SinMuertes
  <1>8. SinRestos'  BY <1>2, <1>4 DEF Inv, SinRestos
  <1>9. EnOrden'
    <2>1. Len(f) \in Nat  BY <1>1, LeidosSon
    <2> QED  BY <1>2, <1>3, <2>1 DEF EnOrden
  <1>10. Escritos' /\ SoloSinCopias'  BY <1>2, <1>4 DEF Inv, Escritos, SoloSinCopias
  <1> QED  BY <1>5, <1>6, <1>7, <1>8, <1>9, <1>10 DEF Inv

LEMMA MarcarNodoDesconectadoInv ==
  ASSUME Inv, NEW n \in Nodos, marcarNodoDesconectado(n)  PROVE Inv'
  <1> USE DEF varsDN, varsFS
  <1>1. n \in socket \ vivos /\ socket' = socket \ {n} /\ UNCHANGED <<fs, varsFS, varsDN>>
    BY DEF marcarNodoDesconectado
  <1>2. Perdida' = Perdida  BY <1>1 DEF Perdida
  <1>3. Tipos'  BY <1>1 DEF Inv, Tipos
  <1>4. ASSUME NEW m \in Nodos  PROVE Conexion(m)'
    BY <1>1 DEF Inv, Conexion
  <1>5. Cortes' /\ Fieles' /\ SinMuertes'  BY <1>1, <1>2 DEF Inv, Cortes, Fieles, SinMuertes
  <1>6. SinRestos' /\ EnOrden'  BY <1>1, <1>2 DEF Inv, SinRestos, EnOrden
  <1>7. Escritos' /\ SoloSinCopias'  BY <1>1, <1>2 DEF Inv, Escritos, SoloSinCopias
  <1> QED  BY <1>3, <1>4, <1>5, <1>6, <1>7 DEF Inv

LEMMA AsociarNodoInv ==
  ASSUME Inv, NEW n \in Nodos, asociarNodo(n)  PROVE Inv'
  <1>1. /\ lectura = Nulo /\ n \notin vivos
        /\ vivos' = vivos \cup {n} /\ socket' = socket \cup {n}
        /\ pedido' = [pedido EXCEPT ![n] = <<>>] /\ canal' = [canal EXCEPT ![n] = <<>>]
        /\ lectura' = IF HayPrueba THEN Empieza(Prueba(n)) ELSE Nulo
        /\ UNCHANGED <<fs, hilos, resultados, puntero, mutex, muertes>>
    BY DEF asociarNodo
  <1>2. Perdida' = Perdida  BY <1>1 DEF Perdida
  <1>3. Prueba(n) \in Leidos  BY DEF Leidos
  <1>4. lectura' # Nulo => /\ lectura' \in LecturaT /\ lectura'.archivo = Prueba(n)
                          /\ lectura'.primero = Len(hilos) + 1 /\ Len(hilos) \in Nat
    BY <1>1, <1>3, EmpiezaEs DEF Inv
  <1>5. /\ pedido \in [Nodos -> Seq(Nat)] /\ canal \in [Nodos -> Seq(Palabra)]
        /\ pedido' \in [Nodos -> Seq(Nat)] /\ canal' \in [Nodos -> Seq(Palabra)]
    <2>1. <<>> \in Seq(Nat) /\ <<>> \in Seq(Palabra)  OBVIOUS
    <2> QED  BY <1>1, <2>1 DEF Inv, Tipos
  <1>6. Tipos'  BY <1>1, <1>4, <1>5 DEF Inv, Tipos
  <1>7. ASSUME NEW m \in Nodos  PROVE Conexion(m)'
    <2>1. Conexion(m)  BY DEF Inv
    <2>2. CASE m # n
      <3>1. pedido'[m] = pedido[m] /\ canal'[m] = canal[m]  BY <1>1, <1>5, <2>2
      <3> QED  BY <1>1, <2>1, <3>1 DEF Conexion
    <2>3. CASE m = n
      <3>1. pedido'[m] = <<>> /\ canal'[m] = <<>>  BY <1>1, <1>5, <2>3
      <3> QED  BY <1>1, <2>1, <3>1, AtiendeVacia DEF Conexion
    <2> QED  BY <2>2, <2>3
  <1>8. Cortes'
    <2>1. ASSUME NEW m \in Nodos, NEW i \in 1..Len(canal'[m])  PROVE canal'[m][i].entero \/ Perdida
      <3>1. m # n  BY <1>1, <1>5
      <3>2. canal'[m] = canal[m]  BY <1>1, <1>5, <3>1
      <3> QED  BY <3>2 DEF Inv, Cortes
    <2> QED  BY <1>2, <2>1 DEF Cortes
  <1>9. Fieles' /\ SinMuertes'  BY <1>1, <1>2 DEF Inv, Fieles, SinMuertes
  <1>10. SinRestos'  BY <1>1, <1>2 DEF Inv, SinRestos
  <1>11. EnOrden'
    <2>1. Len(Prueba(n)) \in Nat  BY <1>3, LeidosSon
    <2> QED  BY <1>1, <1>4, <2>1 DEF EnOrden
  <1>12. Escritos' /\ SoloSinCopias'  BY <1>1, <1>2 DEF Inv, Escritos, SoloSinCopias
  <1> QED  BY <1>6, <1>7, <1>8, <1>9, <1>10, <1>11, <1>12 DEF Inv

-----------------------------------------------------------------------------
(* What each step does to the threads and the connection of one node       *)

\* Of the threads H, thread h goes to x; G is what they are then.
Pasa(G, H, h, x) ==
  /\ G \in Seq(HiloT) /\ Len(G) = Len(H)
  /\ \A k \in 1..Len(H) : k # h => G[k] = H[k]
  /\ G[h].nodo = H[h].nodo /\ G[h].num = H[h].num /\ G[h].pc = x

LEMMA AtiendeCrea ==
  ASSUME NEW n, NEW m, NEW H \in Seq(HiloT), NEW p, NEW c, Atiende(n, m, H, p, c), NEW e \in HiloT
  PROVE  /\ e.nodo # n => Atiende(n, m, Append(H, e), p, c)
         /\ e.nodo = n /\ e.pc = "pide" /\ m = FALSE => Atiende(n, TRUE, Append(H, e), p, c)
  <1> DEFINE G == Append(H, e)
  <1>1. /\ Len(G) = Len(H) + 1 /\ Len(H) \in Nat /\ G[Len(H) + 1] = e
        /\ \A k \in 1..Len(H) : G[k] = H[k]
    BY AppendProperties
  <1> HIDE DEF G
  <1>2. 1..Len(G) = (1..Len(H)) \cup {Len(H) + 1}  BY <1>1
  <1>3. ASSUME e.nodo # n  PROVE Atiende(n, m, G, p, c)
    <2>1. Ocupa(G, n) = Ocupa(H, n)  BY <1>1, <1>2, <1>3 DEF Ocupa
    <2>2. \A k \in Ocupa(H, n) : G[k] = H[k]  BY <1>1 DEF Ocupa
    <2> QED  BY <2>1, <2>2 DEF Atiende
  <1>4. ASSUME e.nodo = n, e.pc = "pide", m = FALSE  PROVE Atiende(n, TRUE, G, p, c)
    <2>1. Ocupa(H, n) = {}  BY <1>4 DEF Atiende
    <2>2. p = <<>> /\ c = <<>> /\ Len(p) + Len(c) <= 1  BY <2>1 DEF Atiende
    <2>3. Ocupa(G, n) = {Len(H) + 1}
      <3>1. \A k \in 1..Len(H) : ~(G[k].nodo = n /\ G[k].pc # "bien")  BY <1>1, <2>1 DEF Ocupa
      <3> QED  BY <1>1, <1>2, <1>4, <3>1 DEF Ocupa
    <2>4. 1..Len(<<>>) = {}  OBVIOUS
    <2>5. TRUE = (Ocupa(G, n) # {})  BY <2>3
    <2> QED  BY <2>2, <2>3, <2>4, <2>5 DEF Atiende
  <1> QED  BY <1>3, <1>4 DEF G

LEMMA AtiendeOtra ==
  ASSUME NEW n, NEW m, NEW H, NEW p, NEW c, Atiende(n, m, H, p, c),
         NEW G, NEW h \in 1..Len(H), NEW x, Pasa(G, H, h, x), H[h].nodo # n
  PROVE  Atiende(n, m, G, p, c)
  <1>1. Ocupa(G, n) = Ocupa(H, n)  BY DEF Ocupa, Pasa
  <1>2. \A k \in Ocupa(H, n) : G[k] = H[k]  BY DEF Ocupa, Pasa
  <1>3. m = (Ocupa(G, n) # {})  BY <1>1 DEF Atiende
  <1>4. /\ \A k, l \in Ocupa(G, n) : k = l
        /\ Len(p) + Len(c) <= 1 /\ (Ocupa(G, n) = {} => p = <<>> /\ c = <<>>)
    BY <1>1 DEF Atiende
  <1>5. ASSUME NEW k \in Ocupa(G, n)
        PROVE  /\ G[k].pc = "pide" => p = <<>> /\ c = <<>>
               /\ \A i \in 1..Len(p) : p[i] = G[k].num
               /\ \A i \in 1..Len(c) : c[i].entero => c[i].dato = [nodo |-> n, num |-> G[k].num]
    <2>1. k \in Ocupa(H, n) /\ G[k] = H[k]  BY <1>1, <1>2, <1>5
    <2>2. PICK v : v = H[k]  OBVIOUS
    <2>3. /\ v.pc = "pide" => p = <<>> /\ c = <<>>
          /\ \A i \in 1..Len(p) : p[i] = v.num
          /\ \A i \in 1..Len(c) : c[i].entero => c[i].dato = [nodo |-> n, num |-> v.num]
      BY <2>1, <2>2 DEF Atiende
    <2> QED  BY <2>1, <2>2, <2>3
  <1> QED  BY <1>3, <1>4, <1>5 DEF Atiende

\* The thread asks, or fails.
LEMMA AtiendePide ==
  ASSUME NEW n, NEW m, NEW H, NEW p, NEW c, Atiende(n, m, H, p, c),
         NEW G, NEW h \in 1..Len(H), H[h].nodo = n, H[h].pc # "bien"
  PROVE  /\ Pasa(G, H, h, "mal") => Atiende(n, m, G, p, c)
         /\ Pasa(G, H, h, "espera") => Atiende(n, m, G, p, c)
         /\ Pasa(G, H, h, "espera") /\ H[h].pc = "pide" => Atiende(n, m, G, Append(p, H[h].num), c)
  <1>1. ASSUME NEW x, Pasa(G, H, h, x), x # "bien"
        PROVE  Ocupa(G, n) = Ocupa(H, n) /\ \A k \in Ocupa(H, n) : k = h /\ G[k].pc = x /\ G[k].num = H[k].num
    <2>1. Ocupa(G, n) = Ocupa(H, n)  BY <1>1 DEF Ocupa, Pasa
    <2>2. h \in Ocupa(H, n)  BY DEF Ocupa
    <2>3. \A k \in Ocupa(H, n) : k = h  BY <2>2 DEF Atiende
    <2> QED  BY <1>1, <2>1, <2>3 DEF Pasa
  <1>2. ASSUME Pasa(G, H, h, "mal")  PROVE Atiende(n, m, G, p, c)
    <2>1. Ocupa(G, n) = Ocupa(H, n) /\ \A k \in Ocupa(H, n) : k = h /\ G[k].pc = "mal" /\ G[k].num = H[k].num
      BY <1>1, <1>2
    <2> QED  BY <2>1 DEF Atiende
  <1>3. ASSUME Pasa(G, H, h, "espera")
        PROVE  /\ Atiende(n, m, G, p, c)
               /\ H[h].pc = "pide" => Atiende(n, m, G, Append(p, H[h].num), c)
    <2>1. Ocupa(G, n) = Ocupa(H, n) /\ \A k \in Ocupa(H, n) : k = h /\ G[k].pc = "espera" /\ G[k].num = H[k].num
      BY <1>1, <1>3
    <2>2. Atiende(n, m, G, p, c)  BY <2>1 DEF Atiende
    <2>3. ASSUME H[h].pc = "pide"  PROVE Atiende(n, m, G, Append(p, H[h].num), c)
      <3>1. h \in Ocupa(H, n)  BY DEF Ocupa
      <3>2. p = <<>> /\ c = <<>>  BY <2>3, <3>1 DEF Atiende
      <3> DEFINE q == Append(p, H[h].num)
      <3>3. Len(q) = 1 /\ q[1] = H[h].num /\ Len(c) = 0  BY <3>2
      <3> HIDE DEF q
      <3>4. Len(q) + Len(c) <= 1 /\ 1..Len(c) = {} /\ 1..Len(q) = {1}  BY <3>3
      <3>5. m = (Ocupa(G, n) # {})  BY <2>1 DEF Atiende
      <3>6. Ocupa(G, n) # {} /\ \A k, l \in Ocupa(G, n) : k = l  BY <2>1, <3>1
      <3>7. \A k \in Ocupa(G, n) : G[k].pc # "pide" /\ G[k].num = H[h].num  BY <2>1
      <3>8. Atiende(n, m, G, q, c)  BY <3>3, <3>4, <3>5, <3>6, <3>7 DEF Atiende
      <3> QED  BY <3>8 DEF q
    <2> QED  BY <2>2, <2>3
  <1> QED  BY <1>2, <1>3

\* The thread reads whatever there is and gives the mutex back.
LEMMA AtiendeLee ==
  ASSUME NEW n, NEW m, NEW H, NEW p, NEW c, Atiende(n, m, H, p, c),
         NEW G, NEW h \in 1..Len(H), H[h].nodo = n, H[h].pc # "bien", Pasa(G, H, h, "bien")
  PROVE  Atiende(n, FALSE, G, <<>>, <<>>)
  <1>1. h \in Ocupa(H, n)  BY DEF Ocupa
  <1>2. \A k \in Ocupa(H, n) : k = h  BY <1>1 DEF Atiende
  <1>3. Ocupa(G, n) = {}
    <2> SUFFICES ASSUME NEW k \in Ocupa(G, n)  PROVE FALSE
      OBVIOUS
    <2>1. k \in 1..Len(H) /\ G[k].nodo = n /\ G[k].pc # "bien"  BY DEF Ocupa, Pasa
    <2>2. k # h  BY <2>1 DEF Pasa
    <2>3. k \in Ocupa(H, n)  BY <2>1, <2>2 DEF Ocupa, Pasa
    <2> QED  BY <1>2, <2>2, <2>3
  <1>4. FALSE = (Ocupa(G, n) # {})  BY <1>3
  <1>5. Len(<<>>) + Len(<<>>) <= 1  OBVIOUS
  <1> QED  BY <1>3, <1>4, <1>5 DEF Atiende

LEMMA UnaPalabra ==
  ASSUME NEW n, NEW m, NEW H, NEW p \in Seq(Nat), NEW c \in Seq(Palabra), Atiende(n, m, H, p, c)
  PROVE  /\ Len(p) \in {0, 1} /\ Len(c) \in {0, 1}
         /\ p # <<>> => c = <<>> /\ Len(p) = 1 /\ Ocupa(H, n) # {}
         /\ c # <<>> => p = <<>> /\ Len(c) = 1 /\ Tail(c) = <<>> /\ Head(c) = c[1] /\ Ocupa(H, n) # {}
  <1>1. Len(p) \in Nat /\ Len(c) \in Nat /\ Len(p) + Len(c) <= 1  BY DEF Atiende
  <1>2. Len(p) \in {0, 1} /\ Len(c) \in {0, 1}
    <2> \A x, y \in Nat : x + y <= 1 => x \in {0, 1} /\ y \in {0, 1}  OBVIOUS
    <2> QED  BY <1>1
  <1>3. p # <<>> => Len(p) # 0  OBVIOUS
  <1>4. c # <<>> => Len(c) # 0 /\ Head(c) = c[1]  OBVIOUS
  <1>5. Len(c) = 1 => Tail(c) = <<>>
    <2>1. c # <<>> => Tail(c) \in Seq(Palabra) /\ Len(Tail(c)) = Len(c) - 1  BY HeadTailProperties
    <2>2. \A s \in Seq(Palabra) : Len(s) = 0 => s = <<>>  OBVIOUS
    <2>3. Len(c) = 1 => c # <<>>  OBVIOUS
    <2>4. Len(c) = 1 => Tail(c) \in Seq(Palabra) /\ Len(Tail(c)) = 0  BY <2>1, <2>3
    <2> QED  BY <2>2, <2>4
  <1>6. (Len(p) = 0 => p = <<>>) /\ (Len(c) = 0 => c = <<>>)  OBVIOUS
  <1>7. Ocupa(H, n) = {} => p = <<>> /\ c = <<>>  BY DEF Atiende
  <1> QED  BY <1>1, <1>2, <1>3, <1>4, <1>5, <1>6, <1>7

\* The other end answers, dies or is cut: what there is on the connection is one word, for the
\* same thread.
LEMMA AtiendePalabra ==
  ASSUME NEW n, NEW m, NEW H, NEW p, NEW c, Atiende(n, m, H, p, c), Ocupa(H, n) # {},
         NEW w \in Palabra, w.entero => \A h \in Ocupa(H, n) : w.dato = [nodo |-> n, num |-> H[h].num],
         \A h \in Ocupa(H, n) : H[h].pc # "pide"
  PROVE  Atiende(n, m, H, <<>>, <<w>>)
  <1> DEFINE d == <<w>>
  <1>1. Len(d) = 1 /\ d[1] = w /\ Len(<<>>) = 0 /\ 1..Len(<<>>) = {} /\ 1..Len(d) = {1}  OBVIOUS
  <1> HIDE DEF d
  <1>2. m = (Ocupa(H, n) # {}) /\ \A h, k \in Ocupa(H, n) : h = k  BY DEF Atiende
  <1>3. Len(<<>>) + Len(d) <= 1  BY <1>1
  <1>4. Atiende(n, m, H, <<>>, d)  BY <1>1, <1>2, <1>3 DEF Atiende
  <1> QED  BY <1>4 DEF d

-----------------------------------------------------------------------------
(* DataNodes, and the server that reads what is for a thread               *)

LEMMA PalabrasDe ==
  ASSUME Inv, NEW n \in Nodos
  PROVE  /\ pedido \in [Nodos -> Seq(Nat)] /\ canal \in [Nodos -> Seq(Palabra)]
         /\ pedido[n] \in Seq(Nat) /\ canal[n] \in Seq(Palabra)
         /\ Atiende(n, mutex[n], hilos, pedido[n], canal[n])
  BY DEF Inv, Tipos, Conexion

LEMMA UnElemento ==
  ASSUME NEW S, NEW s \in Seq(S), Len(s) = 1
  PROVE  s[1] \in S /\ s = <<s[1]>> /\ DOMAIN s = 1..1
  <1>1. DOMAIN s = 1..1 /\ s[1] \in S  OBVIOUS
  <1>2. s = <<s[1]>>  OBVIOUS
  <1> QED  BY <1>1, <1>2

LEMMA DeUno ==
  ASSUME NEW u
  PROVE  /\ SubSeq(<<u>>, 1, 0) = <<>> /\ SubSeq(<<u>>, 1, 1) = <<u>>
         /\ <<>> \o <<u>> = <<u>> /\ <<u>> \o <<>> = <<u>>
  <1>1. SubSeq(<<u>>, 1, 0) = <<>>  OBVIOUS
  <1>2. SubSeq(<<u>>, 1, 1) = <<u>>
    <2>1. <<u>> \in Seq({u}) /\ Len(<<u>>) = 1  OBVIOUS
    <2>2. SubSeq(<<u>>, 1, Len(<<u>>)) = <<u>>  BY <2>1, SubSeqFull
    <2> QED  BY <2>1, <2>2
  <1>3. <<>> \o <<u>> = <<u>>  OBVIOUS
  <1>4. <<u>> \o <<>> = <<u>>  OBVIOUS
  <1> QED  BY <1>1, <1>2, <1>3, <1>4

LEMMA UnaDe ==
  ASSUME Inv, NEW n \in Nodos
  PROVE  /\ pedido[n] # <<>> =>
              /\ canal[n] = <<>> /\ Ocupa(hilos, n) # {}
              /\ Len(pedido[n]) = 1 /\ pedido[n] = <<pedido[n][1]>> /\ pedido[n][1] \in Nat
              /\ \A h \in Ocupa(hilos, n) : hilos[h].pc # "pide" /\ pedido[n][1] = hilos[h].num
         /\ canal[n] # <<>> =>
              /\ pedido[n] = <<>> /\ Ocupa(hilos, n) # {}
              /\ Len(canal[n]) = 1 /\ canal[n] = <<canal[n][1]>> /\ canal[n][1] \in Palabra
              /\ Head(canal[n]) = canal[n][1] /\ Tail(canal[n]) = <<>>
              /\ \A h \in Ocupa(hilos, n) :
                   /\ hilos[h].pc # "pide"
                   /\ canal[n][1].entero => canal[n][1].dato = [nodo |-> n, num |-> hilos[h].num]
  <1>1. PICK p \in Seq(Nat) : p = pedido[n]  BY PalabrasDe
  <1>2. PICK c \in Seq(Palabra) : c = canal[n]  BY PalabrasDe
  <1>3. Atiende(n, mutex[n], hilos, p, c)  BY <1>1, <1>2, PalabrasDe
  <1>4. /\ p # <<>> => c = <<>> /\ Len(p) = 1 /\ Ocupa(hilos, n) # {}
        /\ c # <<>> => p = <<>> /\ Len(c) = 1 /\ Tail(c) = <<>> /\ Head(c) = c[1] /\ Ocupa(hilos, n) # {}
    BY <1>3, UnaPalabra
  <1>5. ASSUME p # <<>>  PROVE \A h \in Ocupa(hilos, n) : hilos[h].pc # "pide" /\ p[1] = hilos[h].num
    <2>1. 1 \in 1..Len(p)  BY <1>4, <1>5
    <2> QED  BY <1>3, <1>5, <2>1 DEF Atiende
  <1>6. ASSUME c # <<>>
        PROVE  \A h \in Ocupa(hilos, n) :
                 /\ hilos[h].pc # "pide"
                 /\ c[1].entero => c[1].dato = [nodo |-> n, num |-> hilos[h].num]
    <2>1. 1 \in 1..Len(c)  BY <1>4, <1>6
    <2> QED  BY <1>3, <1>6, <2>1 DEF Atiende
  <1>7. Len(p) = 1 => p[1] \in Nat /\ p = <<p[1]>>  BY UnElemento
  <1>8. Len(c) = 1 => c[1] \in Palabra /\ c = <<c[1]>>  BY UnElemento
  <1> QED  BY <1>1, <1>2, <1>4, <1>5, <1>6, <1>7, <1>8

\* What there is to read of a node is nothing, or one word for the thread.
LEMMA LoQueHay ==
  ASSUME Inv, NEW n \in Nodos
  PROVE  \/ canal[n] \o Enviado(n) = <<>>
         \/ \E u \in Palabra :
              /\ canal[n] \o Enviado(n) = <<u>> /\ Ocupa(hilos, n) # {}
              /\ \A h \in Ocupa(hilos, n) :
                   hilos[h].pc # "pide" /\ (u.entero => u.dato = [nodo |-> n, num |-> hilos[h].num])
  <1>1. pedido[n] \in Seq(Nat) /\ canal[n] \in Seq(Palabra)  BY PalabrasDe
  <1>2. CASE pedido[n] = <<>> /\ canal[n] = <<>>
    <2>1. DOMAIN pedido[n] = {}  BY <1>2
    <2>2. Enviado(n) = <<>>  BY <2>1 DEF Enviado
    <2> QED  BY <1>2, <2>2
  <1>3. CASE pedido[n] # <<>>
    <2> DEFINE v == [dato |-> [nodo |-> n, num |-> pedido[n][1]], entero |-> TRUE]
    <2>1. /\ canal[n] = <<>> /\ Ocupa(hilos, n) # {} /\ Len(pedido[n]) = 1 /\ pedido[n][1] \in Nat
          /\ \A h \in Ocupa(hilos, n) : hilos[h].pc # "pide" /\ pedido[n][1] = hilos[h].num
      BY <1>3, UnaDe
    <2>2. DOMAIN pedido[n] = 1..1  BY <1>1, <2>1, UnElemento
    <2>3. v \in Palabra /\ v.dato = [nodo |-> n, num |-> pedido[n][1]]  BY <2>1 DEF Palabra, DatoT
    <2>4. Enviado(n) = <<v>>
      <3>1. Enviado(n) = [i \in 1..1 |-> [dato |-> [nodo |-> n, num |-> pedido[n][i]], entero |-> TRUE]]
        BY <2>2 DEF Enviado
      <3>2. \A i \in 1..1 : i = 1  OBVIOUS
      <3>3. Enviado(n) = [i \in 1..1 |-> v]  BY <3>1, <3>2
      <3> HIDE DEF v
      <3>4. [i \in 1..1 |-> v] = <<v>>  OBVIOUS
      <3> QED  BY <3>3, <3>4
    <2> HIDE DEF v
    <2>5. canal[n] \o Enviado(n) = <<v>>  BY <2>1, <2>4, DeUno
    <2> QED  BY <2>1, <2>3, <2>5
  <1>4. CASE canal[n] # <<>>
    <2>1. /\ pedido[n] = <<>> /\ Ocupa(hilos, n) # {} /\ canal[n] = <<canal[n][1]>> /\ canal[n][1] \in Palabra
          /\ \A h \in Ocupa(hilos, n) :
               /\ hilos[h].pc # "pide"
               /\ canal[n][1].entero => canal[n][1].dato = [nodo |-> n, num |-> hilos[h].num]
      BY <1>4, UnaDe
    <2>2. Enviado(n) = <<>>
      <3>1. DOMAIN pedido[n] = {}  BY <2>1
      <3> QED  BY <3>1 DEF Enviado
    <2>3. PICK u \in Palabra : u = canal[n][1]  BY <2>1
    <2>4. canal[n] = <<u>>  BY <2>1, <2>3
    <2>5. canal[n] \o Enviado(n) = <<u>>  BY <2>2, <2>4, DeUno
    <2> QED  BY <2>1, <2>3, <2>5
  <1> QED  BY <1>2, <1>3, <1>4

\* Connection n is what it was for the thread, or less; the others are as they were.
LEMMA SoloConexion ==
  ASSUME Inv, NEW n \in Nodos, NEW q \in Seq(Nat), NEW d \in Seq(Palabra),
         pedido' = [pedido EXCEPT ![n] = q], canal' = [canal EXCEPT ![n] = d],
         Atiende(n, mutex[n], hilos, q, d), UNCHANGED <<fs, socket, varsFS>>,
         vivos' \subseteq vivos, muertes' \in 0..Muertes, muertes' >= muertes,
         muertes' = 0 => vivos' = vivos,
         \A i \in 1..Len(d) : d[i].entero \/ Perdida'
  PROVE  Inv'
  <1> USE DEF varsFS
  <1>1. /\ pedido' \in [Nodos -> Seq(Nat)] /\ canal' \in [Nodos -> Seq(Palabra)]
        /\ pedido'[n] = q /\ canal'[n] = d
        /\ \A m \in Nodos : m # n => pedido'[m] = pedido[m] /\ canal'[m] = canal[m]
    BY DEF Inv, Tipos
  <1>2. muertes \in Nat /\ muertes' \in Nat /\ (muertes' = 0 => muertes = 0)
    <2>1. Muertes \in Nat  BY SupuestoLectura
    <2> QED  BY <2>1 DEF Inv, Tipos
  <1>3. Perdida => Perdida'  BY <1>2 DEF Perdida
  <1>4. Tipos'  BY <1>1 DEF Inv, Tipos
  <1>5. ASSUME NEW m \in Nodos  PROVE Conexion(m)'
    <2>1. Conexion(m)  BY DEF Inv
    <2>2. CASE m # n  BY <1>1, <2>1, <2>2 DEF Conexion
    <2>3. CASE m = n  BY <1>1, <2>3 DEF Conexion
    <2> QED  BY <2>2, <2>3
  <1>6. Cortes'
    <2>1. ASSUME NEW m \in Nodos, NEW i \in 1..Len(canal'[m])
          PROVE  canal'[m][i].entero \/ Perdida'
      <3>1. CASE m = n  BY <1>1, <3>1
      <3>2. CASE m # n  BY <1>1, <1>3, <3>2 DEF Inv, Cortes
      <3> QED  BY <3>1, <3>2
    <2> QED  BY <2>1 DEF Cortes
  <1>7. Fieles'  BY <1>3 DEF Inv, Fieles
  <1>8. SinMuertes'  BY <1>2 DEF Inv, SinMuertes
  <1>9. SinRestos' /\ EnOrden'  BY <1>3 DEF Inv, SinRestos, EnOrden
  <1>10. Escritos' /\ SoloSinCopias'  BY <1>3 DEF Inv, Escritos, SoloSinCopias
  <1> QED  BY <1>4, <1>5, <1>6, <1>7, <1>8, <1>9, <1>10 DEF Inv

LEMMA GetBloqueInv ==
  ASSUME Inv, NEW n \in Nodos, getBloque(n)  PROVE Inv'
  <1> DEFINE p == pedido[n]
             c == canal[n]
             w == [dato |-> [nodo |-> n, num |-> p[1]], entero |-> TRUE]
  <1>1. /\ p # <<>> /\ canal' = [canal EXCEPT ![n] = Append(@, Head(Enviado(n)))]
        /\ pedido' = [pedido EXCEPT ![n] = Tail(@)] /\ UNCHANGED <<fs, socket, varsFS, vivos, muertes>>
    BY DEF getBloque
  <1>2. /\ p \in Seq(Nat) /\ c \in Seq(Palabra) /\ Atiende(n, mutex[n], hilos, p, c)
        /\ pedido \in [Nodos -> Seq(Nat)] /\ canal \in [Nodos -> Seq(Palabra)]
    BY PalabrasDe
  <1>3. c = <<>> /\ Len(p) = 1 /\ Ocupa(hilos, n) # {}  BY <1>1, <1>2, UnaPalabra
  <1>4. p[1] \in Nat /\ Tail(p) = <<>>
    <2>1. Tail(p) \in Seq(Nat) /\ Len(Tail(p)) = 0  BY <1>1, <1>2, <1>3, HeadTailProperties
    <2>2. \A s \in Seq(Nat) : (Len(s) = 0 => s = <<>>) /\ (Len(s) = 1 => s[1] \in Nat)  OBVIOUS
    <2>3. p[1] \in Nat  BY <1>2, <1>3, <2>2
    <2>4. Tail(p) = <<>>  BY <2>1, <2>2
    <2> QED  BY <2>3, <2>4
  <1>5. Head(Enviado(n)) = w
    <2>1. DOMAIN p = 1..1  BY <1>2, <1>3
    <2> QED  BY <2>1 DEF Enviado
  <1>6. w \in Palabra  BY <1>4 DEF Palabra, DatoT
  <1>7. /\ \A h \in Ocupa(hilos, n) : hilos[h].pc # "pide" /\ w.dato = [nodo |-> n, num |-> hilos[h].num]
        /\ w.entero
    <2>1. \A h \in Ocupa(hilos, n) : p[1] = hilos[h].num /\ hilos[h].pc # "pide"
      <3>1. 1 \in 1..Len(p)  BY <1>3
      <3> QED  BY <1>1, <1>2, <3>1 DEF Atiende
    <2> QED  BY <2>1
  <1>8. pedido' = [pedido EXCEPT ![n] = <<>>] /\ canal' = [canal EXCEPT ![n] = <<w>>]
    <2>1. Append(c, w) = <<w>>  BY <1>3
    <2> QED  BY <1>1, <1>2, <1>4, <1>5, <2>1
  <1> HIDE DEF w, p, c
  <1>9. Atiende(n, mutex[n], hilos, <<>>, <<w>>)  BY <1>2, <1>3, <1>6, <1>7, AtiendePalabra
  <1> DEFINE d == <<w>>
             q == <<>>
  <1>10. d \in Seq(Palabra) /\ q \in Seq(Nat) /\ \A i \in 1..Len(d) : d[i].entero  BY <1>6, <1>7
  <1>11. muertes' \in 0..Muertes /\ muertes' >= muertes /\ vivos' = vivos
    <2>1. Muertes \in Nat  BY SupuestoLectura
    <2> QED  BY <1>1, <2>1 DEF Inv, Tipos
  <1>12. /\ pedido' = [pedido EXCEPT ![n] = q] /\ canal' = [canal EXCEPT ![n] = d]
         /\ Atiende(n, mutex[n], hilos, q, d) /\ UNCHANGED <<fs, socket, varsFS>>
    BY <1>1, <1>8, <1>9
  <1> HIDE DEF d, q
  <1> QED  BY <1>10, <1>11, <1>12, SoloConexion

LEMMA ManejarClienteInv ==
  ASSUME Inv, NEW n \in Nodos, manejarCliente(n)  PROVE Inv'
  <1> DEFINE c == canal[n]
             w == [dato |-> Basura, entero |-> FALSE]
  <1>1. /\ lectura = Nulo /\ c # <<>> /\ canal' = [canal EXCEPT ![n][1] = w]
        /\ UNCHANGED <<fs, socket, varsFS, pedido, vivos, muertes>>
    BY DEF manejarCliente
  <1>2. /\ pedido[n] \in Seq(Nat) /\ c \in Seq(Palabra) /\ Atiende(n, mutex[n], hilos, pedido[n], c)
        /\ pedido \in [Nodos -> Seq(Nat)] /\ canal \in [Nodos -> Seq(Palabra)]
    BY PalabrasDe
  <1>3. pedido[n] = <<>> /\ Len(c) = 1 /\ Ocupa(hilos, n) # {}  BY <1>1, UnaDe
  <1>4. w \in Palabra /\ w.entero = FALSE  BY DEF Palabra, DatoT, Basura
  <1> HIDE DEF w
  <1>5. canal' = [canal EXCEPT ![n] = <<w>>]
    <2>1. canal' = [canal EXCEPT ![n] = [c EXCEPT ![1] = w]]  BY <1>1, <1>2
    <2>2. \A s \in Seq(Palabra) : Len(s) = 1 => [s EXCEPT ![1] = w] = <<w>>  BY <1>4
    <2>3. [c EXCEPT ![1] = w] = <<w>>  BY <1>2, <1>3, <2>2
    <2> QED  BY <2>1, <2>3
  <1>6. pedido' = [pedido EXCEPT ![n] = <<>>]  BY <1>1, <1>2, <1>3
  <1>7. \A h \in Ocupa(hilos, n) : hilos[h].pc # "pide"  BY <1>1, <1>2 DEF Atiende
  <1>8. Atiende(n, mutex[n], hilos, <<>>, <<w>>)
    BY <1>2, <1>3, <1>4, <1>7, AtiendePalabra
  <1>9. Perdida'
    <2>1. PICK h \in 1..Len(hilos) : hilos[h].pc # "bien"  BY <1>3 DEF Ocupa
    <2>2. Perdida  BY <1>1, <2>1 DEF Inv, SinRestos
    <2> QED  BY <1>1, <2>2 DEF Perdida, varsFS
  <1> DEFINE d == <<w>>
             q == <<>>
  <1>10. d \in Seq(Palabra) /\ q \in Seq(Nat)  BY <1>4
  <1>11. muertes' \in 0..Muertes /\ muertes' >= muertes /\ vivos' = vivos
    <2>1. Muertes \in Nat  BY SupuestoLectura
    <2> QED  BY <1>1, <2>1 DEF Inv, Tipos
  <1>12. /\ pedido' = [pedido EXCEPT ![n] = q] /\ canal' = [canal EXCEPT ![n] = d]
         /\ Atiende(n, mutex[n], hilos, q, d) /\ UNCHANGED <<fs, socket, varsFS>>
    BY <1>1, <1>5, <1>6, <1>8
  <1> HIDE DEF d, q
  <1> QED  BY <1>9, <1>10, <1>11, <1>12, SoloConexion

LEMMA DataNodeMuereInv ==
  ASSUME Inv, NEW n \in Nodos, DataNodeMuere(n)  PROVE Inv'
  <1> DEFINE todo == canal[n] \o Enviado(n)
             w == [dato |-> Basura, entero |-> FALSE]
  <1>1. PICK k \in 0..Len(todo) :
          \E cola \in {<<>>} \cup (IF k = Len(todo) THEN {} ELSE {<<w>>}) :
            canal' = [canal EXCEPT ![n] = SubSeq(todo, 1, k) \o cola]
    BY DEF DataNodeMuere
  <1>2. PICK cola \in {<<>>} \cup (IF k = Len(todo) THEN {} ELSE {<<w>>}) :
          canal' = [canal EXCEPT ![n] = SubSeq(todo, 1, k) \o cola]
    BY <1>1
  <1>3. /\ muertes < Muertes /\ vivos' = vivos \ {n} /\ muertes' = muertes + 1
        /\ pedido' = [pedido EXCEPT ![n] = <<>>] /\ UNCHANGED <<fs, socket, varsFS>>
    BY DEF DataNodeMuere
  <1>4. Atiende(n, mutex[n], hilos, pedido[n], canal[n])  BY PalabrasDe
  <1>5. muertes' \in 0..Muertes /\ muertes' >= muertes /\ muertes' > 0 /\ Perdida'
    <2>1. Muertes \in Nat  BY SupuestoLectura
    <2> QED  BY <1>3, <2>1 DEF Inv, Tipos, Perdida
  <1>6. w \in Palabra /\ ~w.entero  BY DEF Palabra, DatoT, Basura
  <1>7. \/ todo = <<>>
        \/ \E u \in Palabra :
             /\ todo = <<u>> /\ Ocupa(hilos, n) # {}
             /\ \A h \in Ocupa(hilos, n) :
                  hilos[h].pc # "pide" /\ (u.entero => u.dato = [nodo |-> n, num |-> hilos[h].num])
    BY LoQueHay
  <1> HIDE DEF todo, w
  <1>8. PICK d \in Seq(Palabra) :
          d = SubSeq(todo, 1, k) \o cola /\ Atiende(n, mutex[n], hilos, <<>>, d)
    <2>1. CASE todo = <<>>
      <3>1. Len(todo) = 0 /\ k = 0 /\ cola = <<>>  BY <1>1, <1>2, <2>1
      <3>2. SubSeq(todo, 1, k) \o cola = <<>>  BY <2>1, <3>1
      <3>3. Atiende(n, mutex[n], hilos, <<>>, <<>>) /\ <<>> \in Seq(Palabra)  BY <1>4, AtiendeVacia
      <3> QED  BY <3>2, <3>3
    <2>2. ASSUME NEW u \in Palabra, todo = <<u>>, Ocupa(hilos, n) # {},
                 \A h \in Ocupa(hilos, n) :
                   hilos[h].pc # "pide" /\ (u.entero => u.dato = [nodo |-> n, num |-> hilos[h].num])
          PROVE  \E d \in Seq(Palabra) :
                   d = SubSeq(todo, 1, k) \o cola /\ Atiende(n, mutex[n], hilos, <<>>, d)
      <3>1. Len(todo) = 1 /\ k \in {0, 1} /\ cola \in {<<>>, <<w>>} /\ (k = 1 => cola = <<>>)
        BY <1>1, <1>2, <2>2
      <3>2. SubSeq(todo, 1, k) \o cola \in {<<>>, <<u>>, <<w>>}
        <4>1. SubSeq(<<u>>, 1, 0) = <<>> /\ SubSeq(<<u>>, 1, 1) = <<u>>  BY DeUno
        <4>2. <<>> \o <<w>> = <<w>> /\ <<u>> \o <<>> = <<u>> /\ <<>> \o <<>> = <<>>  BY DeUno
        <4>3. SubSeq(todo, 1, k) \in {<<>>, <<u>>} /\ (k = 0 => SubSeq(todo, 1, k) = <<>>)
          BY <2>2, <3>1, <4>1
        <4> QED  BY <3>1, <4>1, <4>2, <4>3
      <3>3. Atiende(n, mutex[n], hilos, <<>>, <<>>)  BY <1>4, AtiendeVacia
      <3>4. Atiende(n, mutex[n], hilos, <<>>, <<u>>)
        <4>1. u.entero => \A h \in Ocupa(hilos, n) : u.dato = [nodo |-> n, num |-> hilos[h].num]
          BY <2>2
        <4> QED  BY <1>4, <2>2, <4>1, AtiendePalabra
      <3>5. Atiende(n, mutex[n], hilos, <<>>, <<w>>)
        BY <1>4, <1>6, <2>2, AtiendePalabra
      <3>6. <<u>> \in Seq(Palabra) /\ <<w>> \in Seq(Palabra) /\ <<>> \in Seq(Palabra)  BY <1>6
      <3> QED  BY <3>2, <3>3, <3>4, <3>5, <3>6
    <2> QED  BY <1>7, <2>1, <2>2
  <1>9. PICK q \in Seq(Nat) : q = <<>>
    <2>1. <<>> \in Seq(Nat)  OBVIOUS
    <2> QED  BY <2>1
  <1>10. /\ pedido' = [pedido EXCEPT ![n] = q] /\ canal' = [canal EXCEPT ![n] = d]
         /\ Atiende(n, mutex[n], hilos, q, d) /\ vivos' \subseteq vivos
         /\ UNCHANGED <<fs, socket, varsFS>> /\ (muertes' = 0 => vivos' = vivos)
         /\ \A i \in 1..Len(d) : d[i].entero \/ Perdida'
    BY <1>2, <1>3, <1>5, <1>8, <1>9
  <1> QED  BY <1>5, <1>10, SoloConexion

-----------------------------------------------------------------------------
(* The threads of _guardarBloque                                           *)

LEMMA HilosSon ==
  ASSUME Inv
  PROVE  /\ hilos \in Seq(HiloT) /\ Len(hilos) \in Nat /\ DOMAIN hilos = 1..Len(hilos)
         /\ \A h \in 1..Len(hilos) :
              /\ hilos[h] \in HiloT /\ hilos[h].nodo \in Nodos /\ hilos[h].num \in Nat
              /\ hilos[h].pc \in {"pide", "espera", "bien", "mal"}
  <1>1. hilos \in Seq(HiloT)  BY DEF Inv, Tipos
  <1>2. /\ Len(hilos) \in Nat /\ DOMAIN hilos = 1..Len(hilos)
        /\ \A h \in 1..Len(hilos) : hilos[h] \in HiloT
    BY <1>1
  <1> QED  BY <1>1, <1>2 DEF HiloT

(***************************************************************************)
(* Thread h, that has not ended well, goes to x.  What it must show: its   *)
(* node's connection serves it, what it has read is what it asked for, it  *)
(* ends badly only after a death.                                          *)
(***************************************************************************)
LEMMA SoloHilo ==
  ASSUME Inv, NEW h \in 1..Len(hilos), hilos[h].pc # "bien",
         NEW n \in Nodos, n = hilos[h].nodo, NEW G, G = hilos', NEW x, Pasa(G, hilos, h, x),
         x = "bien" => \/ G[h].dato = [nodo |-> n, num |-> hilos[h].num]
                       \/ G[h].dato = Basura /\ Perdida,
         x = "mal" => muertes # 0,
         NEW q \in Seq(Nat), NEW d \in Seq(Palabra), NEW m \in BOOLEAN,
         pedido' = [pedido EXCEPT ![n] = q], canal' = [canal EXCEPT ![n] = d],
         mutex' = [mutex EXCEPT ![n] = m], Atiende(n, m, G, q, d),
         \A i \in 1..Len(d) : d[i].entero \/ Perdida,
         fs' \in {"vivo", "caido"},
         UNCHANGED <<socket, lectura, resultados, puntero, vivos, muertes>>
  PROVE  Inv'
  <1>1. n = hilos[h].nodo  OBVIOUS
  <1>2. /\ pedido' \in [Nodos -> Seq(Nat)] /\ canal' \in [Nodos -> Seq(Palabra)]
        /\ mutex' \in [Nodos -> BOOLEAN]
        /\ pedido'[n] = q /\ canal'[n] = d /\ mutex'[n] = m
        /\ \A k \in Nodos : k # n => /\ pedido'[k] = pedido[k] /\ canal'[k] = canal[k]
                                    /\ mutex'[k] = mutex[k]
    BY <1>1 DEF Inv, Tipos
  <1>3. Perdida' = Perdida  BY DEF Perdida
  <1>4. /\ hilos' \in Seq(HiloT) /\ Len(hilos') = Len(hilos) /\ Len(hilos) \in Nat
        /\ \A k \in 1..Len(hilos) :
             hilos'[k].nodo = hilos[k].nodo /\ hilos'[k].num = hilos[k].num /\ (k # h => hilos'[k] = hilos[k])
        /\ hilos'[h].pc = x
    BY HilosSon DEF Pasa
  <1>5. Tipos'  BY <1>2, <1>4 DEF Inv, Tipos
  <1>6. ASSUME NEW k \in Nodos  PROVE Conexion(k)'
    <2>1. CASE k = n  BY <1>1, <1>2, <2>1 DEF Conexion
    <2>2. CASE k # n
      <3>1. Atiende(k, mutex[k], hilos, pedido[k], canal[k])  BY PalabrasDe
      <3>3. Pasa(G, hilos, h, x) /\ hilos[h].nodo # k  BY <1>1, <2>2
      <3>4. Atiende(k, mutex[k], G, pedido[k], canal[k])  BY <3>1, <3>3, AtiendeOtra
      <3> QED  BY <1>2, <2>2, <3>4 DEF Conexion
    <2> QED  BY <2>1, <2>2
  <1>7. Cortes'
    <2>1. ASSUME NEW k \in Nodos, NEW i \in 1..Len(canal'[k])  PROVE canal'[k][i].entero \/ Perdida
      <3>1. CASE k = n  BY <1>2, <3>1
      <3>2. CASE k # n  BY <1>2, <3>2 DEF Inv, Cortes
      <3> QED  BY <3>1, <3>2
    <2> QED  BY <1>3, <2>1 DEF Cortes
  <1>8. Fieles'
    <2>1. ASSUME NEW k \in 1..Len(hilos), hilos'[k].pc = "bien"
          PROVE  \/ hilos'[k].dato = [nodo |-> hilos'[k].nodo, num |-> hilos'[k].num]
                 \/ hilos'[k].dato = Basura /\ Perdida
      <3>1. CASE k = h  BY <1>4, <2>1, <3>1
      <3>2. CASE k # h  BY <1>4, <2>1, <3>2 DEF Inv, Fieles
      <3> QED  BY <3>1, <3>2
    <2> QED  BY <1>3, <1>4, <2>1 DEF Fieles
  <1>9. SinMuertes'  BY <1>4 DEF Inv, SinMuertes
  <1>10. SinRestos'
    <2>1. ASSUME ~Perdida, NEW k \in 1..Len(hilos), lectura = Nulo \/ k < lectura.primero
          PROVE  hilos'[k].pc = "bien"
      <3>1. hilos[k].pc = "bien"  BY <2>1 DEF Inv, SinRestos
      <3> QED  BY <1>4, <3>1
    <2> QED  BY <1>3, <1>4, <2>1 DEF SinRestos
  <1>11. EnOrden'
    <2>1. ASSUME lectura # Nulo, NEW k \in lectura.primero..Len(hilos)
          PROVE  EsCopia([nodo |-> hilos'[k].nodo, num |-> hilos'[k].num], lectura.archivo[k - lectura.primero + 1])
      <3>1. k \in 1..Len(hilos)  BY <1>4, <2>1 DEF Inv, Tipos, LecturaT
      <3>2. EsCopia([nodo |-> hilos[k].nodo, num |-> hilos[k].num], lectura.archivo[k - lectura.primero + 1])
        BY <2>1 DEF Inv, EnOrden
      <3> QED  BY <1>4, <3>1, <3>2
    <2> QED  BY <1>4, <2>1 DEF Inv, EnOrden
  <1>12. Escritos' /\ SoloSinCopias'  BY <1>3 DEF Inv, Escritos, SoloSinCopias
  <1> QED  BY <1>5, <1>6, <1>7, <1>8, <1>9, <1>10, <1>11, <1>12 DEF Inv

LEMMA CambiaUno ==
  ASSUME NEW S, NEW H \in Seq(S), NEW h \in 1..Len(H), NEW g \in S, NEW G, G = [H EXCEPT ![h] = g]
  PROVE  G \in Seq(S) /\ Len(G) = Len(H) /\ G[h] = g /\ \A k \in 1..Len(H) : k # h => G[k] = H[k]
  OBVIOUS

LEMMA PasaA ==
  ASSUME NEW H \in Seq(HiloT), NEW h \in 1..Len(H), NEW g \in HiloT,
         g.nodo = H[h].nodo, g.num = H[h].num
  PROVE  Pasa([H EXCEPT ![h] = g], H, h, g.pc) /\ [H EXCEPT ![h] = g][h] = g
  <1> DEFINE G == [H EXCEPT ![h] = g]
  <1>1. /\ G \in Seq(HiloT) /\ Len(G) = Len(H) /\ G[h] = g
        /\ \A k \in 1..Len(H) : k # h => G[k] = H[k]
    BY CambiaUno
  <1> HIDE DEF G
  <1>2. Pasa(G, H, h, g.pc)  BY <1>1 DEF Pasa
  <1> QED  BY <1>1, <1>2 DEF G

LEMMA PasaPc ==
  ASSUME NEW H \in Seq(HiloT), NEW h \in 1..Len(H), NEW x \in {"pide", "espera", "bien", "mal"}
  PROVE  Pasa([H EXCEPT ![h].pc = x], H, h, x)
  <1>1. H[h] \in HiloT  OBVIOUS
  <1> DEFINE g == [H[h] EXCEPT !.pc = x]
  <1>2. g \in HiloT /\ g.nodo = H[h].nodo /\ g.num = H[h].num /\ g.pc = x  BY <1>1 DEF HiloT
  <1> HIDE DEF g
  <1>3. Pasa([H EXCEPT ![h] = g], H, h, x)  BY <1>2, PasaA
  <1> QED  BY <1>3 DEF g

\* A thread that waits or asks is on a node that was connected while no node died.
LEMMA PorMuerte ==
  ASSUME Inv, NEW h \in 1..Len(hilos), hilos[h].nodo \notin vivos
  PROVE  muertes # 0 /\ Perdida
  <1>1. muertes # 0  BY DEF Inv, SinMuertes
  <1>2. muertes \in Nat
    <2>1. Muertes \in Nat  BY SupuestoLectura
    <2> QED  BY <2>1 DEF Inv, Tipos
  <1> QED  BY <1>1, <1>2 DEF Perdida

LEMMA PedirBloqueInv ==
  ASSUME Inv, NEW h \in 1..Len(hilos), pedirBloque(h)  PROVE Inv'
  <1>1. PICK n \in Nodos : n = hilos[h].nodo  BY HilosSon
  <1>2. /\ hilos[h].pc = "pide"
        /\ UNCHANGED <<socket, lectura, resultados, puntero, mutex, canal, vivos, muertes>>
        /\ \/ /\ n \in socket
              /\ hilos' = [hilos EXCEPT ![h].pc = "espera"]
              /\ pedido' = IF n \in vivos THEN [pedido EXCEPT ![n] = Append(@, hilos[h].num)] ELSE pedido
              /\ UNCHANGED fs
           \/ n \notin vivos /\ Falla(h) /\ UNCHANGED <<fs, pedido>>
           \/ n \in socket \ vivos /\ fs' = "caido" /\ UNCHANGED <<hilos, pedido>>
    BY <1>1 DEF pedirBloque
  <1>3. PICK p \in Seq(Nat), c \in Seq(Palabra), m \in BOOLEAN :
          p = pedido[n] /\ c = canal[n] /\ m = mutex[n]
    BY PalabrasDe DEF Inv, Tipos
  <1>4. Atiende(n, m, hilos, p, c)  BY <1>3, PalabrasDe
  <1>5. /\ pedido = [pedido EXCEPT ![n] = p] /\ canal = [canal EXCEPT ![n] = c]
        /\ mutex = [mutex EXCEPT ![n] = m]
    BY <1>3 DEF Inv, Tipos
  <1>6. \A i \in 1..Len(c) : c[i].entero \/ Perdida  BY <1>3 DEF Inv, Cortes
  <1>7. PICK G : G = hilos'  OBVIOUS
  <1>8. hilos \in Seq(HiloT) /\ hilos[h].num \in Nat  BY HilosSon
  <1>9. CASE hilos' = [hilos EXCEPT ![h].pc = "espera"]
    <2>1. Pasa(G, hilos, h, "espera")  BY <1>7, <1>8, <1>9, PasaPc
    <2> DEFINE r == Append(p, hilos[h].num)
    <2>2. Atiende(n, m, G, p, c) /\ Atiende(n, m, G, r, c)
      BY <1>1, <1>2, <1>4, <2>1, AtiendePide
    <2>3. r \in Seq(Nat)  BY <1>8
    <2> HIDE DEF r
    <2>4. PICK q \in {p, r} : pedido' = [pedido EXCEPT ![n] = q] /\ UNCHANGED fs
      <3>1. hilos # hilos'
        <4>1. G[h].pc # hilos[h].pc  BY <1>2, <2>1 DEF Pasa
        <4> QED  BY <1>7, <4>1
      <3>2. ~Falla(h)
        <4>1. ASSUME Falla(h)  PROVE FALSE
          <5>1. Pasa(G, hilos, h, "mal")  BY <1>7, <1>8, <4>1, PasaPc DEF Falla
          <5> QED  BY <2>1, <5>1 DEF Pasa
        <4> QED  BY <4>1
      <3>3. pedido' = IF n \in vivos THEN [pedido EXCEPT ![n] = Append(@, hilos[h].num)] ELSE pedido
        BY <1>2, <3>1, <3>2
      <3>4. UNCHANGED fs  BY <1>2, <3>1, <3>2
      <3>5. [pedido EXCEPT ![n] = Append(@, hilos[h].num)] = [pedido EXCEPT ![n] = r]
        BY <1>3 DEF r, Inv, Tipos
      <3> QED  BY <1>5, <3>3, <3>4, <3>5
    <2>5. q \in Seq(Nat) /\ Atiende(n, m, G, q, c)  BY <2>2, <2>3, <2>4
    <2>6. fs' \in {"vivo", "caido"}  BY <2>4 DEF Inv, Tipos
    <2>7. PICK x : x = "espera"  OBVIOUS
    <2>8. /\ hilos[h].pc # "bien" /\ n = hilos[h].nodo /\ G = hilos' /\ Pasa(G, hilos, h, x)
          /\ x # "bien" /\ x # "mal"
          /\ pedido' = [pedido EXCEPT ![n] = q] /\ canal' = [canal EXCEPT ![n] = c]
          /\ mutex' = [mutex EXCEPT ![n] = m]
          /\ UNCHANGED <<socket, lectura, resultados, puntero, vivos, muertes>>
      BY <1>1, <1>2, <1>5, <1>7, <2>1, <2>4, <2>7
    <2> QED  BY <1>6, <2>5, <2>6, <2>8, SoloHilo
  <1>10. CASE n \notin vivos /\ Falla(h) /\ UNCHANGED <<fs, pedido>>
    <2>1. Pasa(G, hilos, h, "mal")  BY <1>7, <1>8, <1>10, PasaPc DEF Falla
    <2>2. Atiende(n, m, G, p, c)  BY <1>1, <1>2, <1>4, <2>1, AtiendePide
    <2>3. muertes # 0  BY <1>1, <1>10, PorMuerte
    <2>4. fs' \in {"vivo", "caido"}  BY <1>10 DEF Inv, Tipos
    <2>7. PICK x : x = "mal"  OBVIOUS
    <2>8. /\ hilos[h].pc # "bien" /\ n = hilos[h].nodo /\ G = hilos' /\ Pasa(G, hilos, h, x)
          /\ x # "bien"
          /\ pedido' = [pedido EXCEPT ![n] = p] /\ canal' = [canal EXCEPT ![n] = c]
          /\ mutex' = [mutex EXCEPT ![n] = m]
          /\ UNCHANGED <<socket, lectura, resultados, puntero, vivos, muertes>>
      BY <1>1, <1>2, <1>5, <1>7, <1>10, <2>1, <2>7
    <2> QED  BY <1>6, <2>2, <2>3, <2>4, <2>8, SoloHilo
  <1>11. CASE fs' = "caido" /\ UNCHANGED <<hilos, pedido>>
    <2>1. Perdida' = Perdida  BY <1>2 DEF Perdida
    <2>2. Tipos'  BY <1>2, <1>11 DEF Inv, Tipos
    <2>3. \A k \in Nodos : Conexion(k)'  BY <1>2, <1>11 DEF Inv, Conexion
    <2>4. Cortes' /\ Fieles' /\ SinMuertes' /\ SinRestos'
      BY <1>2, <1>11, <2>1 DEF Inv, Cortes, Fieles, SinMuertes, SinRestos
    <2>5. EnOrden' /\ Escritos' /\ SoloSinCopias'
      BY <1>2, <1>11, <2>1 DEF Inv, EnOrden, Escritos, SoloSinCopias
    <2> QED  BY <2>2, <2>3, <2>4, <2>5 DEF Inv
  <1> QED  BY <1>2, <1>9, <1>10, <1>11

LEMMA RecibirBloqueInv ==
  ASSUME Inv, NEW h \in 1..Len(hilos), recibirBloque(h)  PROVE Inv'
  <1>1. PICK n \in Nodos : n = hilos[h].nodo  BY HilosSon
  <1>2. PICK p \in Seq(Nat), c \in Seq(Palabra), m \in BOOLEAN :
          p = pedido[n] /\ c = canal[n] /\ m = mutex[n]
    BY PalabrasDe DEF Inv, Tipos
  <1>3. /\ hilos[h].pc = "espera" /\ h \in Ocupa(hilos, n) /\ fs' = fs
        /\ UNCHANGED <<socket, lectura, resultados, puntero, pedido, vivos, muertes>>
    BY <1>1 DEF recibirBloque, Ocupa
  <1>4. Atiende(n, m, hilos, p, c)  BY <1>2, PalabrasDe
  <1>5. /\ pedido = [pedido EXCEPT ![n] = p] /\ canal = [canal EXCEPT ![n] = c]
        /\ mutex = [mutex EXCEPT ![n] = m]
    BY <1>2 DEF Inv, Tipos
  <1>6. fs' \in {"vivo", "caido"}  BY <1>3 DEF Inv, Tipos
  <1>7. hilos \in Seq(HiloT) /\ hilos[h].num \in Nat  BY HilosSon
  <1>8. /\ c # <<>> => /\ p = <<>> /\ Len(c) = 1 /\ Head(c) = c[1] /\ Tail(c) = <<>> /\ c[1] \in Palabra
                       /\ c[1].entero => c[1].dato = [nodo |-> n, num |-> hilos[h].num]
        /\ \A i \in 1..Len(c) : c[i].entero \/ Perdida
    <2>1. \A i \in 1..Len(c) : c[i].entero \/ Perdida  BY <1>2 DEF Inv, Cortes
    <2> QED  BY <1>2, <1>3, <2>1, UnaDe
  <1>c. Len(c) \in Nat /\ (c = <<>> => Len(c) = 0)  OBVIOUS
  <1> DEFINE recibe(dato, resto) ==
               /\ hilos' = [hilos EXCEPT ![h].pc = "bien", ![h].dato = dato]
               /\ canal' = [canal EXCEPT ![n] = resto]
               /\ mutex' = [mutex EXCEPT ![n] = FALSE]
  <1>9. \/ c # <<>> /\ Head(c).entero /\ recibe(Head(c).dato, Tail(c))
        \/ Len(c) > 1
        \/ Len(c) = 1 /\ ~Head(c).entero /\ recibe(Basura, <<>>)
        \/ (n \notin socket \/ n \notin vivos) /\ Falla(h) /\ UNCHANGED <<canal, mutex>>
    BY <1>1, <1>2 DEF recibirBloque, Suelta
  <1>10. ASSUME NEW v \in DatoT, recibe(v, <<>>), c # <<>>,
                \/ v = [nodo |-> n, num |-> hilos[h].num]
                \/ v = Basura /\ Perdida
         PROVE  Inv'
    <2>1. PICK G : G = hilos'  OBVIOUS
    <2>2. Pasa(G, hilos, h, "bien") /\ G[h].dato = v
      <3> DEFINE g == [hilos[h] EXCEPT !.pc = "bien", !.dato = v]
      <3>1. hilos[h] \in HiloT  BY HilosSon
      <3>2. /\ g \in HiloT /\ g.nodo = hilos[h].nodo /\ g.num = hilos[h].num
            /\ g.pc = "bien" /\ g.dato = v
        BY <3>1 DEF HiloT
      <3>3. hilos' = [hilos EXCEPT ![h] = g]  BY <1>10
      <3> HIDE DEF g
      <3>4. Pasa([hilos EXCEPT ![h] = g], hilos, h, g.pc) /\ [hilos EXCEPT ![h] = g][h] = g
        BY <1>7, <3>2, PasaA
      <3> QED  BY <2>1, <3>2, <3>3, <3>4
    <2>3. hilos[h].pc # "bien" /\ n = hilos[h].nodo  BY <1>1, <1>3
    <2>4. Atiende(n, FALSE, G, <<>>, <<>>)  BY <1>4, <2>2, <2>3, AtiendeLee
    <2>5. PICK x : x = "bien"  OBVIOUS
    <2>6. PICK l : l = FALSE  OBVIOUS
    <2>7. PICK q \in Seq(Nat), d \in Seq(Palabra) : q = <<>> /\ d = <<>>
      <3>1. <<>> \in Seq(Nat) /\ <<>> \in Seq(Palabra)  OBVIOUS
      <3> QED  BY <3>1
    <2>8. /\ l \in BOOLEAN /\ hilos[h].pc # "bien" /\ n = hilos[h].nodo /\ G = hilos'
          /\ Pasa(G, hilos, h, x) /\ x # "mal" /\ Atiende(n, l, G, q, d)
      BY <2>1, <2>2, <2>3, <2>4, <2>5, <2>6, <2>7
    <2>9. /\ pedido' = [pedido EXCEPT ![n] = q] /\ canal' = [canal EXCEPT ![n] = d]
          /\ mutex' = [mutex EXCEPT ![n] = l]
          /\ UNCHANGED <<socket, lectura, resultados, puntero, vivos, muertes>>
      BY <1>3, <1>5, <1>8, <1>10, <2>6, <2>7
    <2>10. \/ G[h].dato = [nodo |-> n, num |-> hilos[h].num]
           \/ G[h].dato = Basura /\ Perdida
      BY <1>10, <2>2
    <2>11. \A i \in 1..Len(d) : d[i].entero \/ Perdida  BY <2>7
    <2> QED  BY <1>6, <2>8, <2>9, <2>10, <2>11, SoloHilo
  <1>11. CASE c # <<>> /\ Head(c).entero /\ recibe(Head(c).dato, Tail(c))
    <2>1. PICK v \in DatoT : v = Head(c).dato
      <3>1. c[1].dato \in DatoT  BY <1>8, <1>11 DEF Palabra
      <3> QED  BY <1>8, <1>11, <3>1
    <2>2. recibe(v, <<>>) /\ v = [nodo |-> n, num |-> hilos[h].num]  BY <1>8, <1>11, <2>1
    <2> HIDE DEF recibe
    <2> QED  BY <1>10, <1>11, <2>2
  <1>12. CASE Len(c) = 1 /\ ~Head(c).entero /\ recibe(Basura, <<>>)
    <2>1. c # <<>> /\ Perdida
      <3>1. Len(c) = 1 /\ 1 \in 1..Len(c) /\ ~Head(c).entero  BY <1>12
      <3>2. c # <<>>  BY <1>c, <3>1
      <3> QED  BY <1>8, <3>1, <3>2
    <2>2. Basura \in DatoT  BY DEF Basura, DatoT
    <2> HIDE DEF recibe
    <2> QED  BY <1>10, <1>12, <2>1, <2>2
  <1>13. CASE (n \notin socket \/ n \notin vivos) /\ Falla(h) /\ UNCHANGED <<canal, mutex>>
    <2>1. PICK G : G = hilos'  OBVIOUS
    <2>2. Pasa(G, hilos, h, "mal")  BY <1>7, <1>13, <2>1, PasaPc DEF Falla
    <2>3. hilos[h].pc # "bien" /\ n = hilos[h].nodo  BY <1>1, <1>3
    <2>4. Atiende(n, m, G, p, c)  BY <1>4, <2>2, <2>3, AtiendePide
    <2>5. muertes # 0
      <3>1. n \notin vivos  BY <1>13 DEF Inv, Tipos
      <3> QED  BY <1>1, <3>1, PorMuerte
    <2>6. PICK x : x = "mal"  OBVIOUS
    <2>7. /\ hilos[h].pc # "bien" /\ n = hilos[h].nodo /\ G = hilos'
          /\ Pasa(G, hilos, h, x) /\ x # "bien" /\ Atiende(n, m, G, p, c)
      BY <2>1, <2>2, <2>3, <2>4, <2>6
    <2>8. /\ pedido' = [pedido EXCEPT ![n] = p] /\ canal' = [canal EXCEPT ![n] = c]
          /\ mutex' = [mutex EXCEPT ![n] = m]
          /\ UNCHANGED <<socket, lectura, resultados, puntero, vivos, muertes>>
      BY <1>3, <1>5, <1>13
    <2> QED  BY <1>6, <1>8, <2>5, <2>7, <2>8, SoloHilo
  <1>14. CASE Len(c) > 1
    <2> HIDE DEF recibe
    <2>1. Len(c) # 1
      <3> \A x \in Nat : x > 1 => x # 1  OBVIOUS
      <3> QED  BY <1>c, <1>14
    <2>2. c # <<>>  BY <1>c, <1>14
    <2> QED  BY <1>8, <2>1, <2>2
  <1> HIDE DEF recibe
  <1> QED  BY <1>9, <1>11, <1>12, <1>13, <1>14

-----------------------------------------------------------------------------
(* The thread that reads the file                                          *)

\* The next block to ask for, while there is one, and what is known of a read under way.
LEMMA LecturaEs ==
  ASSUME Inv, lectura # Nulo
  PROVE  /\ lectura.archivo \in Leidos /\ lectura.archivo \in Seq(Bloque) /\ Len(lectura.archivo) \in Nat
         /\ lectura.primero \in Nat \ {0} /\ lectura.primero <= Len(hilos) + 1
         /\ Siguiente \in Nat \ {0}
         /\ Siguiente <= Len(lectura.archivo) =>
              lectura.archivo[Siguiente] \in Bloque /\ Guardado(lectura.archivo[Siguiente])
  <1>1. lectura \in LecturaT /\ lectura.primero <= Len(hilos) + 1  BY DEF Inv, Tipos
  <1>2. lectura.archivo \in Leidos /\ lectura.primero \in Nat \ {0}  BY <1>1 DEF LecturaT
  <1>3. /\ lectura.archivo \in Seq(Bloque)
        /\ \A i \in 1..Len(lectura.archivo) : lectura.archivo[i] \in Bloque /\ Guardado(lectura.archivo[i])
    BY <1>2, LeidosSon
  <1>4. Len(hilos) \in Nat  BY HilosSon
  <1>5. Siguiente \in Nat \ {0}  BY <1>1, <1>2, <1>4 DEF Siguiente
  <1>6. Len(lectura.archivo) \in Nat  BY <1>3
  <1> QED  BY <1>1, <1>2, <1>3, <1>5, <1>6

LEMMA CrearHiloInv ==
  ASSUME Inv, crearHilo  PROVE Inv'
  <1> USE DEF varsDN
  <1>1. lectura # Nulo /\ Siguiente <= Len(lectura.archivo)  BY DEF crearHilo
  <1>2. PICK b \in Bloque : b = lectura.archivo[Siguiente] /\ Guardado(b)  BY <1>1, LecturaEs
  <1>3. puntero \in 1..NN  BY DEF Inv, Tipos
  <1>4. PICK u : u = seleccionarNodoLectura(b)  OBVIOUS
  <1>5. /\ u # Nulo /\ Candado(u.nodo)
        /\ hilos' = Append(hilos, [nodo |-> u.nodo, num |-> u.num, pc |-> "pide", dato |-> Nulo])
        /\ puntero' = Vuelta(puntero, Turnos(b))
        /\ UNCHANGED <<fs, socket, lectura, resultados, pedido, canal, vivos, muertes>>
    BY <1>2, <1>4 DEF crearHilo
  <1>6. u \in Ubicacion /\ u.nodo \in socket /\ u.num # -1 /\ EsCopia(u, b) /\ puntero' \in 1..NN
    BY <1>3, <1>4, <1>5, LoQueElige
  <1>7. u.nodo \in Nodos /\ u.num \in Nat
    <2>1. PICK i \in DOMAIN Copias(b) : u = Copias(b)[i]  BY <1>6 DEF EsCopia, Range
    <2>2. u.num >= 0  BY <1>2, <1>6, <2>1 DEF Guardado
    <2>3. u.nodo \in Nodos /\ u.num \in Int  BY <1>6 DEF Ubicacion
    <2> QED  BY <2>2, <2>3
  <1>8. PICK e \in HiloT : e = [nodo |-> u.nodo, num |-> u.num, pc |-> "pide", dato |-> Nulo]
    BY <1>7 DEF HiloT
  <1>9. /\ hilos' = Append(hilos, e) /\ e.nodo = u.nodo /\ e.num = u.num /\ e.pc = "pide"
        /\ u = [nodo |-> e.nodo, num |-> e.num]
    BY <1>5, <1>6, <1>8 DEF Ubicacion
  <1>10. /\ hilos \in Seq(HiloT) /\ Len(hilos) \in Nat
         /\ hilos' \in Seq(HiloT) /\ Len(hilos') = Len(hilos) + 1
         /\ hilos'[Len(hilos) + 1] = e /\ \A h \in 1..Len(hilos) : hilos'[h] = hilos[h]
    BY <1>9, HilosSon, AppendProperties
  <1>11. /\ mutex \in [Nodos -> BOOLEAN] /\ mutex[u.nodo] = FALSE
         /\ mutex' = [mutex EXCEPT ![u.nodo] = TRUE]
    BY <1>5, <1>7 DEF Candado, Inv, Tipos
  <1>12. Perdida' = Perdida  BY <1>5 DEF Perdida
  <1>13. Tipos'
    <2>1. mutex' \in [Nodos -> BOOLEAN]  BY <1>11
    <2>2. lectura' # Nulo => lectura' \in LecturaT /\ lectura'.primero <= Len(hilos') + 1
      <3>1. lectura \in LecturaT /\ lectura.primero \in Nat /\ lectura.primero <= Len(hilos) + 1
        BY <1>1, LecturaEs DEF Inv, Tipos
      <3> QED  BY <1>5, <1>10, <3>1
    <2> QED  BY <1>5, <1>6, <1>10, <2>1, <2>2 DEF Inv, Tipos
  <1>14. ASSUME NEW n \in Nodos  PROVE Conexion(n)'
    <2>1. Atiende(n, mutex[n], hilos, pedido[n], canal[n])  BY PalabrasDe
    <2>2. PICK G : G = Append(hilos, e)  OBVIOUS
    <2>3. CASE n = u.nodo
      <3>1. mutex[n] = FALSE /\ mutex'[n] = TRUE  BY <1>7, <1>11, <2>3
      <3>2. Atiende(n, TRUE, G, pedido[n], canal[n])  BY <1>9, <1>10, <2>1, <2>2, <2>3, <3>1, AtiendeCrea
      <3> QED  BY <1>5, <1>9, <2>2, <3>1, <3>2 DEF Conexion
    <2>4. CASE n # u.nodo
      <3>1. mutex'[n] = mutex[n]  BY <1>11, <2>4
      <3>2. Atiende(n, mutex[n], G, pedido[n], canal[n])  BY <1>9, <1>10, <2>1, <2>2, <2>4, AtiendeCrea
      <3> QED  BY <1>5, <1>9, <2>2, <3>1, <3>2 DEF Conexion
    <2> QED  BY <2>3, <2>4
  <1>15. \A h \in 1..Len(hilos') : h \in 1..Len(hilos) \/ h = Len(hilos) + 1  BY <1>10
  <1>16. Cortes'  BY <1>5, <1>12 DEF Inv, Cortes
  <1>17. Fieles'
    <2>1. ASSUME NEW h \in 1..Len(hilos'), hilos'[h].pc = "bien"
          PROVE  \/ hilos'[h].dato = [nodo |-> hilos'[h].nodo, num |-> hilos'[h].num]
                 \/ hilos'[h].dato = Basura /\ Perdida
      <3>1. h \in 1..Len(hilos) /\ hilos'[h] = hilos[h]  BY <1>9, <1>10, <1>15, <2>1
      <3> QED  BY <2>1, <3>1 DEF Inv, Fieles
    <2> QED  BY <1>12, <2>1 DEF Fieles
  <1>18. SinMuertes'
    <2>1. ASSUME muertes = 0, NEW h \in 1..Len(hilos')  PROVE hilos'[h].nodo \in socket /\ hilos'[h].pc # "mal"
      <3>1. CASE h \in 1..Len(hilos)  BY <1>10, <2>1, <3>1 DEF Inv, SinMuertes
      <3>2. CASE h = Len(hilos) + 1  BY <1>6, <1>9, <1>10, <3>2
      <3> QED  BY <1>15, <3>1, <3>2
    <2> QED  BY <1>5, <2>1 DEF Inv, SinMuertes
  <1>19. SinRestos'
    <2>1. ASSUME ~Perdida, NEW h \in 1..Len(hilos'), h < lectura.primero  PROVE hilos'[h].pc = "bien"
      <3>1. h \in 1..Len(hilos)  BY <1>1, <1>10, <2>1, LecturaEs
      <3> QED  BY <1>10, <2>1, <3>1 DEF Inv, SinRestos
    <2> QED  BY <1>1, <1>5, <1>12, <2>1 DEF SinRestos
  <1>20. EnOrden'
    <2> DEFINE a == lectura.archivo
               t == lectura.primero
    <2>1. t \in Nat \ {0} /\ t <= Len(hilos) + 1 /\ Len(a) \in Nat /\ Siguiente = Len(hilos) - t + 2
      BY <1>1, LecturaEs DEF Siguiente
    <2>2. Len(hilos') - t + 1 <= Len(a)  BY <1>1, <1>10, <2>1
    <2>3. ASSUME NEW h \in t..Len(hilos')
          PROVE  EsCopia([nodo |-> hilos'[h].nodo, num |-> hilos'[h].num], a[h - t + 1])
      <3>1. CASE h = Len(hilos) + 1
        <4>1. h - t + 1 = Siguiente  BY <1>10, <2>1, <3>1
        <4>2. [nodo |-> hilos'[h].nodo, num |-> hilos'[h].num] = u  BY <1>9, <1>10, <3>1
        <4> QED  BY <1>2, <1>6, <4>1, <4>2
      <3>2. CASE h # Len(hilos) + 1
        <4>1. h \in t..Len(hilos) /\ h \in 1..Len(hilos)  BY <1>10, <2>1, <3>2
        <4> QED  BY <1>1, <1>10, <4>1 DEF Inv, EnOrden
      <3> QED  BY <3>1, <3>2
    <2> QED  BY <1>5, <2>2, <2>3 DEF EnOrden
  <1>21. Escritos' /\ SoloSinCopias'  BY <1>5, <1>12 DEF Inv, Escritos, SoloSinCopias
  <1> QED  BY <1>13, <1>14, <1>16, <1>17, <1>18, <1>19, <1>20, <1>21 DEF Inv

LEMMA Agrega ==
  ASSUME NEW S, NEW s \in Seq(S), NEW r
  PROVE  Range(Append(s, r)) = Range(s) \cup {r} /\ \E T : Append(s, r) \in Seq(T)
  <1> DEFINE T == S \cup {r}
             t == Append(s, r)
  <1>1. s \in Seq(T) /\ r \in T
    <2>1. s \in [1..Len(s) -> S] /\ Len(s) \in Nat  OBVIOUS
    <2>2. s \in [1..Len(s) -> T]  BY <2>1
    <2> HIDE DEF T
    <2>3. s \in Seq(T)  BY <2>1, <2>2
    <2> QED  BY <2>3 DEF T
  <1> HIDE DEF T
  <1>2. /\ t \in Seq(T) /\ Len(t) = Len(s) + 1 /\ t[Len(s) + 1] = r /\ Len(s) \in Nat
        /\ \A i \in 1..Len(s) : t[i] = s[i]
    BY <1>1, AppendProperties
  <1> HIDE DEF t
  <1>3. DOMAIN t = 1..(Len(s) + 1) /\ DOMAIN s = 1..Len(s)  BY <1>1, <1>2
  <1>4. 1..(Len(s) + 1) = (1..Len(s)) \cup {Len(s) + 1}  BY <1>2
  <1>5. Range(t) = Range(s) \cup {r}
    <2>1. ASSUME NEW y \in Range(t)  PROVE y \in Range(s) \cup {r}
      <3>1. PICK i \in DOMAIN t : y = t[i]  BY <2>1 DEF Range
      <3>2. i \in DOMAIN s \/ i = Len(s) + 1  BY <1>3, <1>4, <3>1
      <3> QED  BY <1>2, <1>3, <3>1, <3>2 DEF Range
    <2>2. ASSUME NEW y \in Range(s)  PROVE y \in Range(t)
      <3>1. PICK i \in DOMAIN s : y = s[i]  BY <2>2 DEF Range
      <3>2. i \in DOMAIN t /\ y = t[i]  BY <1>2, <1>3, <1>4, <3>1
      <3> QED  BY <3>2 DEF Range
    <2>3. r \in Range(t)
      <3>1. Len(s) + 1 \in DOMAIN t  BY <1>3, <1>4
      <3> QED  BY <1>2, <3>1 DEF Range
    <2> QED  BY <2>1, <2>2, <2>3
  <1> QED  BY <1>2, <1>5 DEF t

\* A copy that is there of a connected node, when no node serves, is behind copy 0.
LEMMA SinQuienSirva ==
  ASSUME NEW b \in Bloque, Guardado(b), \A n \in Nodos : ~Sirve(b, n), NEW u \in Range(Copias(b))
  PROVE  u.nodo \notin socket \/ u.num = -1 \/ Tapada(u, b)
  <1> SUFFICES ASSUME u.nodo \in socket, u.num # -1  PROVE Tapada(u, b)
    OBVIOUS
  <1>1. /\ Copias(b) \in Seq(Ubicacion) /\ Len(Copias(b)) = Intentos(b)
        /\ Intentos(b) = 2 + Len(b.otras) /\ Copias(b)[1] = b.c0 /\ Copias(b)[2] = b.c1
    BY CopiasEs
  <1>2. DOMAIN Copias(b) = 1..Intentos(b)  BY <1>1
  <1>3. PICK i \in 1..Intentos(b) : u = Copias(b)[i]  BY <1>2 DEF Range
  <1>4. u \in Ubicacion  BY <1>1, <1>2, <1>3
  <1>5. PICK n \in Nodos : n = u.nodo  BY <1>4 DEF Ubicacion
  <1>6. CopiaEn(b, n) # Nulo  BY <1>3, <1>5, CopiaDe
  <1>7. CopiaEn(b, n).num = -1  BY <1>5, <1>6 DEF Sirve
  <1>8. PICK j \in 1..Intentos(b) : CopiaEn(b, n) = Copias(b)[j]  BY <1>6, CopiaDe
  <1>9. b.otras = <<>>
    <2>1. \A l \in 1..Intentos(b) :
            Copias(b)[l].num >= 0 \/ (Copias(b)[l].num = -1 /\ l <= 2 /\ b.otras = <<>>)
      BY <1>2 DEF Guardado
    <2>2. ~(Copias(b)[j].num >= 0)  BY <1>7, <1>8
    <2> QED  BY <2>1, <2>2
  <1>10. i \in {1, 2}
    <2>1. Len(b.otras) = 0  BY <1>9
    <2> QED  BY <1>1, <2>1
  <1>11. CASE b.c0.nodo = n
    <2>1. CopiaEn(b, n) = b.c0  BY <1>11 DEF CopiaEn
    <2> QED  BY <1>5, <1>7, <1>11, <2>1 DEF Tapada
  <1>12. CASE b.c0.nodo # n
    <2>1. u = b.c1 /\ b.c1.nodo = n  BY <1>1, <1>3, <1>5, <1>10, <1>12
    <2>2. CopiaEn(b, n) = b.c1  BY <1>12, <2>1 DEF CopiaEn
    <2> QED  BY <1>7, <2>1, <2>2
  <1> QED  BY <1>11, <1>12

LEMMA SinCopiasInv ==
  ASSUME Inv, sinCopias  PROVE Inv'
  <1> USE DEF varsDN
  <1>1. lectura # Nulo /\ Siguiente <= Len(lectura.archivo)  BY DEF sinCopias
  <1>2. PICK b \in Bloque : b = lectura.archivo[Siguiente] /\ Guardado(b)  BY <1>1, LecturaEs
  <1>3. puntero \in 1..NN /\ \E S : resultados \in Seq(S)  BY DEF Inv, Tipos
  <1>4. PICK r : r = [estado |-> -1, falta |-> b, con |-> socket, datos |-> <<>>, archivo |-> lectura.archivo]
    OBVIOUS
  <1>5. /\ seleccionarNodoLectura(b) = Nulo /\ puntero' = Vuelta(puntero, Turnos(b))
        /\ resultados' = Append(resultados, r) /\ lectura' = Nulo
        /\ UNCHANGED <<fs, socket, hilos, mutex, pedido, canal, vivos, muertes>>
    BY <1>2, <1>4 DEF sinCopias
  <1>6. Range(resultados') = Range(resultados) \cup {r} /\ \E T : resultados' \in Seq(T)
    BY <1>3, <1>5, Agrega
  <1>7. Perdida'  BY <1>4, <1>6 DEF Perdida
  <1>8. puntero' \in 1..NN  BY <1>3, <1>5, LoQueElige
  <1>9. Tipos'  BY <1>5, <1>6, <1>8 DEF Inv, Tipos
  <1>10. \A n \in Nodos : Conexion(n)'  BY <1>5 DEF Inv, Conexion
  <1>11. Cortes' /\ SinRestos' /\ Escritos'  BY <1>7 DEF Cortes, SinRestos, Escritos
  <1>12. Fieles' /\ SinMuertes' /\ EnOrden'  BY <1>5, <1>7 DEF Inv, Fieles, SinMuertes, EnOrden
  <1>13. SoloSinCopias'
    <2>1. ASSUME NEW u \in Range(Copias(b))  PROVE u.nodo \notin socket \/ u.num = -1 \/ Tapada(u, b)
      BY <1>2, <1>3, <1>5, SiNoElige, SinQuienSirva
    <2>2. ASSUME NEW t \in Range(resultados'), t.estado = -1
          PROVE  \A u \in Range(Copias(t.falta)) : u.nodo \notin t.con \/ u.num = -1 \/ Tapada(u, t.falta)
      <3>1. CASE t = r  BY <1>4, <2>1, <3>1
      <3>2. CASE t \in Range(resultados)  BY <2>2, <3>2 DEF Inv, SoloSinCopias
      <3> QED  BY <1>6, <2>2, <3>1, <3>2
    <2> QED  BY <2>2 DEF SoloSinCopias
  <1> QED  BY <1>9, <1>10, <1>11, <1>12, <1>13 DEF Inv

LEMMA IesimoDe ==
  ASSUME NEW a \in Nat, NEW b \in Nat, NEW i \in 1..(b - a + 1)
  PROVE  Iesimo(a..b, i) = a + i - 1
  <1> DEFINE C(h) == Cardinality({k \in a..b : k <= h})
  <1>1. ASSUME NEW h \in a..b  PROVE C(h) = h - a + 1
    <2>1. {k \in a..b : k <= h} = a..h  OBVIOUS
    <2>2. Cardinality(a..h) = h - a + 1  BY FS_Interval
    <2> QED  BY <2>1, <2>2
  <1>2. a + i - 1 \in a..b /\ (a + i - 1) - a + 1 = i  OBVIOUS
  <1>3. C(a + i - 1) = i  BY <1>1, <1>2
  <1>4. ASSUME NEW h \in a..b, C(h) = i  PROVE h = a + i - 1
    <2>1. h - a + 1 = i  BY <1>1, <1>4
    <2> QED  BY <2>1
  <1>5. Iesimo(a..b, i) = CHOOSE h \in a..b : C(h) = i  BY DEF Iesimo
  <1> HIDE DEF C
  <1> QED  BY <1>2, <1>3, <1>4, <1>5

LEMMA TramoEs ==
  ASSUME NEW a \in Nat, NEW b \in Nat, a <= b + 1, 1 <= a
  PROVE  /\ Cardinality(a..b) = b - a + 1
         /\ \A i \in 1..(b - a + 1) : \E h \in a..b :
              h = a + i - 1 /\ h - a + 1 = i /\ h \in 1..b /\ Iesimo(a..b, i) = h
  <1>1. Cardinality(a..b) = b - a + 1
    <2>1. a \in Int /\ b \in Int  OBVIOUS
    <2>2. Cardinality(a..b) = IF a > b THEN 0 ELSE b - a + 1  BY <2>1, FS_Interval
    <2> QED  BY <2>2
  <1>2. ASSUME NEW i \in 1..(b - a + 1)
        PROVE  \E h \in a..b : h = a + i - 1 /\ h - a + 1 = i /\ h \in 1..b /\ Iesimo(a..b, i) = h
    <2>1. Iesimo(a..b, i) = a + i - 1  BY IesimoDe
    <2>2. a + i - 1 \in a..b /\ a + i - 1 \in 1..b /\ (a + i - 1) - a + 1 = i  OBVIOUS
    <2> QED  BY <2>1, <2>2
  <1> QED  BY <1>1, <1>2

LEMMA TerminarLecturaInv ==
  ASSUME Inv, terminarLectura  PROVE Inv'
  <1> USE DEF varsDN
  <1>a. PICK a, t, z : a = lectura.archivo /\ t = lectura.primero /\ z = Len(hilos)  OBVIOUS
  <1> DEFINE bien == {h \in DeEstaLectura : hilos[h].pc = "bien"}
  <1>1. /\ lectura # Nulo /\ Siguiente > Len(a)
        /\ \A h \in DeEstaLectura : hilos[h].pc \in {"bien", "mal"}
    BY <1>a DEF terminarLectura
  <1>2. PICK r : r = [estado |-> 0, falta |-> Nulo, con |-> socket,
                      datos |-> [i \in 1..Cardinality(bien) |-> hilos[Iesimo(bien, i)].dato],
                      archivo |-> a]
    OBVIOUS
  <1>3. /\ resultados' = Append(resultados, r) /\ lectura' = Nulo
        /\ UNCHANGED <<fs, socket, hilos, puntero, mutex, pedido, canal, vivos, muertes>>
    BY <1>a, <1>2 DEF terminarLectura
  <1>4. \E S : resultados \in Seq(S)  BY DEF Inv, Tipos
  <1>5. Range(resultados') = Range(resultados) \cup {r} /\ \E T : resultados' \in Seq(T)
    BY <1>3, <1>4, Agrega
  <1>6. Perdida' = Perdida
    <2>1. r.estado = 0  BY <1>2
    <2>2. (\E s \in Range(resultados') : s.estado = -1) <=> (\E s \in Range(resultados) : s.estado = -1)
      BY <1>5, <2>1
    <2> QED  BY <1>3, <2>2 DEF Perdida
  <1>7. /\ t \in Nat /\ 1 <= t /\ z \in Nat /\ Len(a) \in Nat /\ t <= z + 1 /\ Len(a) = z - t + 1
        /\ DeEstaLectura = t..z
    <2>1. t \in Nat \ {0} /\ z \in Nat /\ Len(a) \in Nat /\ t <= z + 1
      BY <1>a, <1>1, LecturaEs, HilosSon
    <2>2. z - t + 1 <= Len(a)  BY <1>a, <1>1 DEF Inv, EnOrden
    <2>3. z - t + 2 > Len(a)  BY <1>a, <1>1 DEF Siguiente
    <2>4. DeEstaLectura = t..z  BY <1>a DEF DeEstaLectura
    <2> QED  BY <2>1, <2>2, <2>3, <2>4
  <1>8. ASSUME ~Perdida, NEW h \in t..z  PROVE hilos[h].pc = "bien"
    <2>1. muertes = 0
      <3>1. Muertes \in Nat  BY SupuestoLectura
      <3> QED  BY <1>8, <3>1 DEF Inv, Tipos, Perdida
    <2>2. h \in 1..Len(hilos)  BY <1>a, <1>7
    <2>3. hilos[h].pc # "mal"  BY <2>1, <2>2 DEF Inv, SinMuertes
    <2> QED  BY <1>1, <1>7, <2>3
  <1>9. ASSUME ~Perdida
        PROVE  Len(r.datos) = Len(a) /\ \A i \in DOMAIN r.datos : EsCopia(r.datos[i], a[i])
    <2>1. bien = t..z  BY <1>7, <1>8, <1>9
    <2> HIDE DEF bien
    <2>2. /\ Cardinality(bien) = Len(a)
          /\ \A i \in 1..Len(a) : \E h \in t..z :
               h = t + i - 1 /\ h - t + 1 = i /\ h \in 1..z /\ Iesimo(bien, i) = h
      BY <1>7, <2>1, TramoEs
    <2>3. r.datos = [i \in 1..Len(a) |-> hilos[Iesimo(bien, i)].dato]  BY <1>2, <2>2
    <2>4. Len(r.datos) = Len(a) /\ DOMAIN r.datos = 1..Len(a)  BY <1>7, <2>3
    <2>5. ASSUME NEW i \in 1..Len(a)  PROVE EsCopia(r.datos[i], a[i])
      <3>1. PICK h \in t..z : h - t + 1 = i /\ h \in 1..z /\ Iesimo(bien, i) = h  BY <2>2
      <3>2. r.datos[i] = hilos[h].dato  BY <2>3, <3>1
      <3>3. hilos[h].pc = "bien"  BY <1>8, <1>9
      <3>4. hilos[h].dato = [nodo |-> hilos[h].nodo, num |-> hilos[h].num]
        BY <1>a, <1>9, <3>1, <3>3 DEF Inv, Fieles
      <3>5. EsCopia([nodo |-> hilos[h].nodo, num |-> hilos[h].num], a[h - t + 1])
        BY <1>a, <1>1 DEF Inv, EnOrden
      <3> QED  BY <3>1, <3>2, <3>4, <3>5
    <2> QED  BY <2>4, <2>5
  <1>b. r.estado = 0 /\ r.archivo = a  BY <1>2
  <1> HIDE DEF bien
  <1>10. Tipos'  BY <1>3, <1>5 DEF Inv, Tipos
  <1>11. \A n \in Nodos : Conexion(n)'  BY <1>3 DEF Inv, Conexion
  <1>12. Cortes' /\ Fieles' /\ SinMuertes' /\ EnOrden'
    BY <1>3, <1>6 DEF Inv, Cortes, Fieles, SinMuertes, EnOrden
  <1>13. SinRestos'
    <2>1. ASSUME ~Perdida, NEW h \in 1..Len(hilos)  PROVE hilos[h].pc = "bien"
      <3>1. CASE h < t  BY <1>a, <2>1, <3>1 DEF Inv, SinRestos
      <3>2. CASE h \in t..z  BY <1>8, <2>1, <3>2
      <3> QED  BY <1>a, <1>7, <3>1, <3>2
    <2> QED  BY <1>3, <1>6, <2>1 DEF SinRestos
  <1>14. Escritos'
    <2>1. ASSUME NEW s \in Range(resultados'), s.estado = 0, ~Perdida
          PROVE  /\ Len(s.datos) = Len(s.archivo)
                 /\ \A i \in DOMAIN s.datos : EsCopia(s.datos[i], s.archivo[i])
      <3>1. CASE s = r  BY <1>b, <1>9, <2>1, <3>1
      <3>2. CASE s \in Range(resultados)  BY <2>1, <3>2 DEF Inv, Escritos
      <3> QED  BY <1>5, <2>1, <3>1, <3>2
    <2> QED  BY <1>6, <2>1 DEF Escritos
  <1>15. SoloSinCopias'
    <2>1. r.estado # -1  BY <1>b
    <2> QED  BY <1>5, <2>1 DEF Inv, SoloSinCopias
  <1> QED  BY <1>10, <1>11, <1>12, <1>13, <1>14, <1>15 DEF Inv

-----------------------------------------------------------------------------
(* The theorems                                                            *)

LEMMA InvPaso == Inv /\ [Next]_vars => Inv'
  <1> SUFFICES ASSUME Inv, [Next]_vars  PROVE Inv'
    OBVIOUS
  <1>1. DOMAIN hilos = 1..Len(hilos)  BY HilosSon
  <1>2. ASSUME NEW f \in Archivos, obtenerArchivo(f)  PROVE Inv'  BY <1>2, ObtenerArchivoInv
  <1>3. CASE Lector
    BY <1>3, CrearHiloInv, SinCopiasInv, TerminarLecturaInv DEF Lector
  <1>4. ASSUME NEW h \in DOMAIN hilos, Hilo(h)  PROVE Inv'
    BY <1>1, <1>4, PedirBloqueInv, RecibirBloqueInv DEF Hilo
  <1>5. ASSUME NEW n \in Nodos,
               \/ getBloque(n) \/ DataNodeMuere(n) \/ manejarCliente(n)
               \/ marcarNodoDesconectado(n) \/ asociarNodo(n)
        PROVE  Inv'
    BY <1>5, GetBloqueInv, DataNodeMuereInv, ManejarClienteInv, MarcarNodoDesconectadoInv, AsociarNodoInv
  <1>6. CASE UNCHANGED vars
    <2> USE <1>6 DEF vars, varsFS, varsDN
    <2>1. Perdida' = Perdida  BY DEF Perdida
    <2>2. Tipos'  BY DEF Inv, Tipos
    <2>3. \A n \in Nodos : Conexion(n)'  BY DEF Inv, Conexion
    <2>4. Cortes' /\ Fieles' /\ SinMuertes' /\ SinRestos'
      BY <2>1 DEF Inv, Cortes, Fieles, SinMuertes, SinRestos
    <2>5. EnOrden' /\ Escritos' /\ SoloSinCopias'
      BY <2>1 DEF Inv, EnOrden, Escritos, SoloSinCopias
    <2> QED  BY <2>2, <2>3, <2>4, <2>5 DEF Inv
  <1> QED  BY <1>2, <1>3, <1>4, <1>5, <1>6 DEF Next

LEMMA InvSiempre == Spec => []Inv
  <1>1. Init => Inv  BY InvInicial
  <1>2. Inv /\ [Next]_vars => Inv'  BY InvPaso
  <1> QED  BY <1>1, <1>2, PTL DEF Spec

\* An answer is read by the thread it is for: for every set of nodes, every file and any number
\* of reads and deaths, a connection carries one answer at most and one thread at most is at it,
\* the one that _guardarBloque left with the mutex of the node (recepcionBloques.c).
THEOREM LecturaUnaRespuesta == Spec => []UnaRespuesta
  <1>1. Inv => UnaRespuesta
    <2> SUFFICES ASSUME Inv  PROVE UnaRespuesta
      OBVIOUS
    <2>1. TypeOKLectura
      <3>1. /\ fs \in {"vivo", "caido"} /\ puntero \in 1..Cardinality(Nodos)
            /\ socket \subseteq Nodos /\ vivos \subseteq socket /\ mutex \in [Nodos -> BOOLEAN]
            /\ muertes \in 0..Muertes
        BY DEF Inv, Tipos, NN
      <3>2. lectura = Nulo \/ lectura.primero \in 1..(Len(hilos) + 1)
        <4>1. Len(hilos) \in Nat  BY HilosSon
        <4> QED  BY <4>1, LecturaEs
      <3>3. \A h \in DOMAIN hilos : /\ hilos[h].nodo \in Nodos /\ hilos[h].num >= 0
                                   /\ hilos[h].pc \in {"pide", "espera", "bien", "mal"}
        BY HilosSon
      <3> QED  BY <3>1, <3>2, <3>3 DEF TypeOKLectura
    <2>2. ASSUME NEW n \in Nodos
          PROVE  /\ Len(pedido[n]) + Len(canal[n]) <= 1
                 /\ Cardinality({h \in DOMAIN hilos : hilos[h].nodo = n /\ hilos[h].pc # "bien"}) <= 1
      <3>1. Atiende(n, mutex[n], hilos, pedido[n], canal[n])  BY PalabrasDe
      <3>2. {h \in DOMAIN hilos : hilos[h].nodo = n /\ hilos[h].pc # "bien"} = Ocupa(hilos, n)
        BY HilosSon DEF Ocupa
      <3>3. PICK H : H = Ocupa(hilos, n)  OBVIOUS
      <3>4. H = {} \/ \E h : H = {h}
        <4>1. \A h, k \in H : h = k  BY <3>1, <3>3 DEF Atiende
        <4> QED  BY <4>1
      <3>5. Cardinality(H) <= 1
        <4>1. Cardinality({}) = 0 /\ \A h : Cardinality({h}) = 1  BY FS_EmptySet, FS_Singleton
        <4>2. CASE H = {}  BY <4>1, <4>2
        <4>3. ASSUME NEW h, H = {h}  PROVE Cardinality(H) <= 1
          <5>1. Cardinality(H) = 1  BY <4>1, <4>3
          <5> QED  BY <5>1
        <4> QED  BY <3>4, <4>2, <4>3
      <3>6. Len(pedido[n]) + Len(canal[n]) <= 1  BY <3>1 DEF Atiende
      <3> QED  BY <3>2, <3>3, <3>5, <3>6
    <2> QED  BY <2>1, <2>2 DEF UnaRespuesta
  <1> QED  BY <1>1, InvSiempre, PTL

\* What obtenerArchivo writes is the file, block by block and in order, while every node is
\* there; and no thread ever takes for its block another one, unless a node was lost or a read
\* was given up.
THEOREM LecturaFiel == Spec => []ArchivoFiel
  <1>1. Inv => ArchivoFiel
    <2> SUFFICES ASSUME Inv  PROVE ArchivoFiel
      OBVIOUS
    <2>1. DOMAIN hilos = 1..Len(hilos)  BY HilosSon
    <2> QED  BY <2>1 DEF Inv, Escritos, Fieles, ArchivoFiel
  <1> QED  BY <1>1, InvSiempre, PTL

\* obtenerArchivo gives up with -1 only for a block none of whose copies can be read, or whose
\* one copy is behind a removed copy 0 of the same node: wherever punteroNodo was and however
\* many copies the block has, _seleccionarNodoLectura looks at every node before it stops.
THEOREM LecturaSoloSinCopias == Spec => []SoloSinCopias
  <1>1. Inv => SoloSinCopias  BY DEF Inv
  <1> QED  BY <1>1, InvSiempre, PTL
=============================================================================
