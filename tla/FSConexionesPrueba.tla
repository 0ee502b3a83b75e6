------------------------- MODULE FSConexionesPrueba -------------------------
(***************************************************************************)
(* The connections of the FileSystem and what it keeps between one run and *)
(* the next, for any DataNodes, sizes, files and number of starts: proofs  *)
(* of the safety properties of FSConexiones.                               *)
(***************************************************************************)
EXTENDS FSConexiones, FiniteSetTheorems, SequenceTheorems, TLAPS

-----------------------------------------------------------------------------
(* The placement of a block                                                *)

LEMMA Menor ==
  ASSUME NEW S \in SUBSET Nat, S # {}
  PROVE  \E x \in S : \A y \in S : x <= y
  <1>1. \E x \in S : \A y \in S : ~ (<<y, x>> \in OpToRel(<, Nat))
    BY WFMin, NatLessThanWellFounded
  <1>2. PICK x \in S : \A y \in S : ~ (<<y, x>> \in OpToRel(<, Nat))  BY <1>1
  <1>3. \A y \in S : ~ (y < x)  BY <1>2 DEF OpToRel
  <1> QED  BY <1>3

\* Induction over a set of naturals.
LEMMA Induccion ==
  ASSUME NEW A, 0 \in A, \A k \in Nat : k \in A => k + 1 \in A
  PROVE  Nat \subseteq A
  <1> DEFINE S == Nat \ A
  <1> SUFFICES ASSUME S # {} PROVE FALSE  OBVIOUS
  <1>1. PICK x \in S : \A y \in S : x <= y  BY Menor
  <1>2. x \in Nat \ {0} /\ x \notin A  OBVIOUS
  <1>3. x - 1 \in Nat /\ x - 1 \notin S  BY <1>1, <1>2
  <1>4. x - 1 \in A /\ (x - 1) + 1 = x  BY <1>2, <1>3
  <1> QED  BY <1>2, <1>3, <1>4

\* The first bit that is clear is not set, and no further than the bits that are.
LEMMA BitLibreEs ==
  ASSUME NEW B \in SUBSET Nat, IsFiniteSet(B)
  PROVE  BitLibre(B) \in Nat /\ BitLibre(B) \notin B /\ BitLibre(B) <= Cardinality(B)
  <1> DEFINE K == Cardinality(B)
             S == (0..K) \ B
             Es(k) == k \notin B /\ \A i \in 0..(k - 1) : i \in B
  <1>1. K \in Nat  BY FS_CardinalityType
  <1>2. IsFiniteSet(0..K) /\ Cardinality(0..K) = K + 1  BY <1>1, FS_Interval
  <1>3. S # {}
    <2> SUFFICES ASSUME 0..K \subseteq B PROVE FALSE  OBVIOUS
    <2>1. Cardinality(0..K) <= K  BY FS_Subset
    <2> QED  BY <1>1, <1>2, <2>1
  <1>4. PICK k \in S : \A y \in S : k <= y
    <2>1. S \in SUBSET Nat  BY <1>1
    <2> HIDE DEF S
    <2> QED  BY <1>3, <2>1, Menor
  <1>5. \A i \in 0..(k - 1) : i \in B
    <2> TAKE i \in 0..(k - 1)
    <2>1. i \in 0..K /\ ~ (k <= i)  BY <1>1
    <2> QED  BY <1>4, <2>1
  <1>6. k \in 0..K /\ Es(k)  BY <1>5
  <1>7. BitLibre(B) \in 0..K /\ Es(BitLibre(B))
    <2>1. BitLibre(B) = CHOOSE x \in 0..K : Es(x)  BY DEF BitLibre
    <2> HIDE DEF Es
    <2> QED  BY <1>6, <2>1
  <1> HIDE DEF K
  <1>8. BitLibre(B) \in Nat /\ BitLibre(B) <= K  BY <1>1, <1>7
  <1> QED  BY <1>7, <1>8 DEF K

\* The bits of every node are bits it has.
EsBits(m) == m \in [Nodos -> SUBSET Nat] /\ \A n \in Nodos : m[n] \subseteq 0..(Capacidad[n] - 1)

\* The bit that a node with room gives is one it has, and was clear.
LEMMA LibreEs ==
  ASSUME NEW m, EsBits(m), conectados \subseteq Nodos, NEW n \in ConLugar(m)
  PROVE  /\ n \in conectados /\ n \in Nodos
         /\ Ubi(n, BitLibre(m[n])) \in Lugar
         /\ BitLibre(m[n]) \in 0..(Capacidad[n] - 1) /\ BitLibre(m[n]) \notin m[n]
  <1> DEFINE B == m[n]
             c == Capacidad[n]
             k == BitLibre(m[n])
  <1>1. n \in conectados /\ n \in Nodos /\ Cardinality(B) < c  BY DEF ConLugar
  <1>2. c \in Nat \ {0}  BY <1>1, SupuestoPersistencia
  <1>3. B \in SUBSET Nat /\ B \subseteq 0..(c - 1)  BY <1>1 DEF EsBits
  <1>4. IsFiniteSet(B)
    <2>1. IsFiniteSet(0..(c - 1))  BY <1>2, FS_Interval
    <2> QED  BY <1>3, <2>1, FS_Subset
  <1>5. Cardinality(B) \in Nat  BY <1>4, FS_CardinalityType
  <1>6. k \in Nat /\ k \notin B /\ k <= Cardinality(B)  BY <1>3, <1>4, BitLibreEs
  <1> HIDE DEF B, c, k
  <1>7. k \in 0..(c - 1)  BY <1>1, <1>2, <1>5, <1>6
  <1>8. Ubi(n, k) \in Lugar  BY <1>1, <1>6 DEF Ubi, Lugar
  <1> QED  BY <1>1, <1>6, <1>7, <1>8 DEF B, c, k

\* Bits that are in order stay so when bits that nodes have are set.
LEMMA MarcaEs ==
  ASSUME NEW m, EsBits(m), NEW U \in SUBSET Lugar,
         \A u \in U : u.num \in 0..(Capacidad[u.nodo] - 1)
  PROVE  /\ EsBits(Marca(m, U))
         /\ \A n \in Nodos : \A k : k \in Marca(m, U)[n] <=> k \in m[n] \/ Ubi(n, k) \in U
  <1> DEFINE M == Marca(m, U)
  <1>1. \A n \in Nodos : M[n] = m[n] \cup {u.num : u \in {v \in U : v.nodo = n}}  BY DEF Marca
  <1>2. \A u \in U : u \in Lugar /\ u.nodo \in Nodos /\ u.num \in Nat /\ u = Ubi(u.nodo, u.num)
    BY DEF Lugar, Ubi
  <1>3. \A n, k : Ubi(n, k).nodo = n /\ Ubi(n, k).num = k  BY DEF Ubi
  <1>4. ASSUME NEW n \in Nodos, NEW k PROVE k \in M[n] <=> k \in m[n] \/ Ubi(n, k) \in U
    <2>1. k \in M[n] <=> k \in m[n] \/ \E u \in U : u.nodo = n /\ u.num = k  BY <1>1
    <2>2. (\E u \in U : u.nodo = n /\ u.num = k) <=> Ubi(n, k) \in U  BY <1>2, <1>3
    <2> QED  BY <2>1, <2>2
  <1>5. ASSUME NEW n \in Nodos PROVE M[n] \subseteq 0..(Capacidad[n] - 1) /\ M[n] \subseteq Nat
    <2>1. \A u \in U : u.nodo = n => u.num \in 0..(Capacidad[n] - 1)  OBVIOUS
    <2>2. m[n] \subseteq 0..(Capacidad[n] - 1) /\ m[n] \subseteq Nat  BY DEF EsBits
    <2> QED  BY <1>1, <1>2, <2>1, <2>2
  <1>6. M = [n \in Nodos |-> M[n]]  BY DEF Marca
  <1>7. EsBits(M)
    <2> HIDE DEF M
    <2> QED  BY <1>5, <1>6 DEF EsBits
  <1> QED  BY <1>4, <1>7

-----------------------------------------------------------------------------
(* The blocks and their copies                                             *)

LEMMA OtrasEs ==
  ASSUME NEW b \in Bloque
  PROVE  /\ Otras(b) \in Seq(Lugar) /\ (b.otras = Otras(b) \/ (Otras(b) = <<>> /\ b.otras \in {Nulo, Basura}))
         /\ b.c0 \in Ubicacion /\ b.c1 \in Ubicacion
  BY DEF Bloque, Otras

\* A list is not a pointer that is NULL or that nobody wrote.
LEMMA ListaEs ==
  ASSUME NEW b, b.otras \in Seq(Lugar)
  PROVE  Otras(b) = b.otras /\ b.otras \notin {Nulo, Basura}
  <1>1. {Nulo, Basura} \cap Seq(Lugar) = {}  BY SupuestoPersistencia DEF Lugar
  <1> QED  BY <1>1 DEF Otras

LEMMA RealesSon ==
  ASSUME NEW b \in Bloque
  PROVE  /\ Reales(b) \subseteq Lugar
         /\ \A u : u \in Reales(b) <=>
              \/ u = b.c0 /\ b.c0.num >= 0
              \/ u = b.c1 /\ b.c1.num >= 0
              \/ \E i \in DOMAIN Otras(b) : u = Otras(b)[i]
         /\ \A i \in DOMAIN Otras(b) : Otras(b)[i] \in Lugar
  <1>1. Otras(b) \in Seq(Lugar) /\ b.c0 \in Ubicacion /\ b.c1 \in Ubicacion  BY OtrasEs
  <1>2. \A i \in DOMAIN Otras(b) : Otras(b)[i] \in Lugar  BY <1>1
  <1>3. ToSet(Otras(b)) = {Otras(b)[i] : i \in DOMAIN Otras(b)}  BY DEF ToSet
  <1>4. \A u \in Ubicacion : u.num >= 0 => u \in Lugar  BY DEF Ubicacion, Lugar
  <1>5. \A u \in Lugar : u.num >= 0  BY DEF Lugar
  <1>6. \A u : u \in Reales(b) <=> u.num >= 0 /\ (u = b.c0 \/ u = b.c1 \/ \E i \in DOMAIN Otras(b) : u = Otras(b)[i])
    BY <1>3 DEF Reales, Copias
  <1>7. \A u : u \in Reales(b) <=>
              \/ u = b.c0 /\ b.c0.num >= 0
              \/ u = b.c1 /\ b.c1.num >= 0
              \/ \E i \in DOMAIN Otras(b) : u = Otras(b)[i]
    BY <1>2, <1>5, <1>6
  <1> QED  BY <1>1, <1>2, <1>4, <1>7

\* The first of a list and the rest of it.
LEMMA ColaEs ==
  ASSUME NEW S, NEW s \in Seq(S), s # <<>>
  PROVE  /\ 1 \in DOMAIN s /\ Head(s) = s[1] /\ s[1] \in S /\ Tail(s) \in Seq(S)
         /\ \A i \in DOMAIN Tail(s) : i + 1 \in DOMAIN s /\ i + 1 # 1 /\ Tail(s)[i] = s[i + 1] /\ i \in Int
         /\ \A k \in DOMAIN s : k = 1 \/ \E i \in DOMAIN Tail(s) : k = i + 1
  <1>1. /\ Len(s) \in Nat \ {0} /\ DOMAIN s = 1..Len(s) /\ Head(s) = s[1] /\ s[1] \in S
        /\ Tail(s) \in Seq(S) /\ Len(Tail(s)) = Len(s) - 1 /\ DOMAIN Tail(s) = 1..(Len(s) - 1)
        /\ \A i \in 1..(Len(s) - 1) : Tail(s)[i] = s[i + 1]
    OBVIOUS
  <1>2. ASSUME NEW k \in DOMAIN s, k # 1 PROVE \E i \in DOMAIN Tail(s) : k = i + 1
    <2>1. k - 1 \in 1..(Len(s) - 1) /\ k = (k - 1) + 1  BY <1>1, <1>2
    <2> QED  BY <1>1, <2>1
  <1> QED  BY <1>1, <1>2

\* A block with one of its first two copies changed, and perhaps the list of the others.
Con0(b, v, p) == [b EXCEPT !.c0 = v, !.otras = p]
Con1(b, v, p) == [b EXCEPT !.c1 = v, !.otras = p]
Solo0(b, v)   == [b EXCEPT !.c0 = v]
Solo1(b, v)   == [b EXCEPT !.c1 = v]

LEMMA CambiaCopia ==
  ASSUME NEW b \in Bloque, NEW v \in Ubicacion, NEW p \in Seq(Lugar) \cup {Nulo, Basura}
  PROVE  /\ Con0(b, v, p) \in Bloque
         /\ Con0(b, v, p).c0 = v /\ Con0(b, v, p).c1 = b.c1 /\ Con0(b, v, p).otras = p
         /\ Con1(b, v, p) \in Bloque
         /\ Con1(b, v, p).c0 = b.c0 /\ Con1(b, v, p).c1 = v /\ Con1(b, v, p).otras = p
  BY DEF Bloque, Con0, Con1

LEMMA CambiaOtras ==
  ASSUME NEW b \in Bloque, NEW p \in Seq(Lugar) \cup {Nulo, Basura}
  PROVE  LET s == [b EXCEPT !.otras = p]
         IN  s \in Bloque /\ s.c0 = b.c0 /\ s.c1 = b.c1 /\ s.otras = p
  BY DEF Bloque

LEMMA CambiaUna ==
  ASSUME NEW b \in Bloque, NEW v \in Ubicacion
  PROVE  /\ Solo0(b, v) \in Bloque
         /\ Solo0(b, v).c0 = v /\ Solo0(b, v).c1 = b.c1 /\ Solo0(b, v).otras = b.otras
         /\ Solo1(b, v) \in Bloque
         /\ Solo1(b, v).c0 = b.c0 /\ Solo1(b, v).c1 = v /\ Solo1(b, v).otras = b.otras
  BY DEF Bloque, Solo0, Solo1

\* What rm -b takes away.
LEMMA CopiaEs ==
  ASSUME NEW b \in Bloque, NEW c \in {"c0", "c1", "otra"}, Sobra(b, c)
  PROVE  Copia(b, c) \in Ubicacion
  <1>1. Otras(b) \in Seq(Lugar) /\ b.c0 \in Ubicacion /\ b.c1 \in Ubicacion  BY OtrasEs
  <1>2. CASE c = "otra"
    <2>1. Otras(b) # <<>>  BY <1>2 DEF Sobra
    <2>2. b.otras = Otras(b)  BY <2>1, OtrasEs
    <2>3. Copia(b, c) = Head(Otras(b))  BY <1>2, <2>2 DEF Copia
    <2>4. Head(Otras(b)) \in Lugar  BY <1>1, <2>1, ColaEs
    <2>5. Lugar \subseteq Ubicacion  BY DEF Lugar, Ubicacion
    <2> QED  BY <2>3, <2>4, <2>5
  <1>3. CASE c \in {"c0", "c1"}  BY <1>1, <1>3 DEF Copia
  <1> QED  BY <1>2, <1>3

\* What is left: a block, without that place if no two copies shared it.
LEMMA SinCopiaEs ==
  ASSUME NEW b \in Bloque, NEW c \in {"c0", "c1", "otra"}, Sobra(b, c)
  PROVE  /\ SinCopia(b, c) \in Bloque
         /\ Distintas(b) => /\ Distintas(SinCopia(b, c))
                            /\ Reales(SinCopia(b, c)) \subseteq Reales(b) \ {Copia(b, c)}
  <1> DEFINE o == Otras(b)
             s == SinCopia(b, c)
             q == Copia(b, c)
  <1>1. o \in Seq(Lugar) /\ b.c0 \in Ubicacion /\ b.c1 \in Ubicacion  BY OtrasEs
  <1>2. Lugar \subseteq Ubicacion /\ \A u \in Lugar : u.num >= 0  BY DEF Lugar, Ubicacion
  <1>3. b = [c0 |-> b.c0, c1 |-> b.c1, otras |-> b.otras] /\ b.otras \in Seq(Lugar) \cup {Nulo, Basura}
    BY DEF Bloque
  <1>4. CASE o = <<>>
    <2> DEFINE v(u) == Ubi(u.nodo, -1)
    <2>1. \A u \in Ubicacion : v(u) \in Ubicacion /\ v(u).num = -1  BY DEF Ubicacion, Ubi
    <2>2. c \in {"c0", "c1"}  BY <1>4 DEF Sobra
    <2>3. s = IF c = "c0" THEN Con0(b, v(b.c0), b.otras) ELSE Con1(b, v(b.c1), b.otras)
      BY <1>4, <2>2 DEF SinCopia, Con0, Con1
    <2>4. q = IF c = "c0" THEN b.c0 ELSE b.c1  BY <2>2 DEF Copia
    <2> HIDE DEF v, s, q, o
    <2>5. /\ s \in Bloque /\ s.otras = b.otras
          /\ s.c0 = (IF c = "c0" THEN v(b.c0) ELSE b.c0) /\ s.c1 = (IF c = "c0" THEN b.c1 ELSE v(b.c1))
      <3>1. v(b.c0) \in Ubicacion /\ v(b.c1) \in Ubicacion  BY <1>1, <2>1
      <3>2. CASE c = "c0"  BY <1>3, <2>3, <3>1, <3>2, CambiaCopia
      <3>3. CASE c # "c0"  BY <1>3, <2>3, <3>1, <3>3, CambiaCopia
      <3> QED  BY <3>2, <3>3
    <2>6. Otras(s) = <<>> /\ Otras(b) = <<>>  BY <1>4, <2>5 DEF Otras, o
    <2>7. DOMAIN <<>> = {}  OBVIOUS
    <2>8. ASSUME Distintas(b) PROVE Distintas(s)
      <3>1. s.c0.num >= 0 => s.c0 # s.c1
        <4>1. CASE c = "c0"  BY <1>1, <2>1, <2>5, <4>1
        <4>2. CASE c # "c0"
          <5>1. s.c1.num = -1  BY <1>1, <2>1, <2>5, <4>2
          <5> QED  BY <5>1
        <4> QED  BY <4>1, <4>2
      <3> QED  BY <2>6, <2>7, <3>1 DEF Distintas
    <2>9. ASSUME Distintas(b), NEW u \in Reales(s) PROVE u \in Reales(b) /\ u # q
      <3>1. u.num >= 0 /\ (u = s.c0 \/ u = s.c1)  BY <2>5, <2>6, <2>7, <2>9, RealesSon
      <3>2. b.c0.num >= 0 => b.c0 # b.c1  BY <2>9 DEF Distintas
      <3>3. CASE c = "c0"
        <4>1. u = b.c1  BY <1>1, <2>1, <2>5, <3>1, <3>3
        <4>2. u # b.c0  BY <3>1, <3>2, <4>1
        <4> QED  BY <2>4, <3>1, <3>3, <4>1, <4>2, RealesSon
      <3>4. CASE c # "c0"
        <4>1. u = b.c0  BY <1>1, <2>1, <2>5, <3>1, <3>4
        <4> QED  BY <2>4, <3>1, <3>2, <3>4, <4>1, RealesSon
      <3> QED  BY <3>3, <3>4
    <2> QED  BY <2>5, <2>8, <2>9 DEF s, q
  <1>5. CASE o # <<>>
    <2> DEFINE h == Head(o)
               t == Tail(o)
    <2>1. b.otras = o  BY <1>5, OtrasEs
    <2>2. s = CASE c = "c0" -> Con0(b, h, t) [] c = "c1" -> Con1(b, h, t)
                [] OTHER -> [b EXCEPT !.otras = t]
      BY <1>5, <2>1 DEF SinCopia, Con0, Con1
    <2>3. q = CASE c = "c0" -> b.c0 [] c = "c1" -> b.c1 [] OTHER -> h
      BY <2>1 DEF Copia
    <2>4. /\ 1 \in DOMAIN o /\ h = o[1] /\ h \in Lugar /\ t \in Seq(Lugar)
          /\ \A i \in DOMAIN t : i + 1 \in DOMAIN o /\ i + 1 # 1 /\ t[i] = o[i + 1] /\ i \in Int
      BY <1>1, <1>5, ColaEs
    <2>5. \A i \in DOMAIN t : t[i] \in Lugar  BY <2>4
    <2> HIDE DEF h, t, s, q
    <2>6. h \in Ubicacion  BY <1>2, <2>4
    <2>7. /\ s \in Bloque /\ s.otras = t
          /\ s.c0 = (IF c = "c0" THEN h ELSE b.c0) /\ s.c1 = (IF c = "c1" THEN h ELSE b.c1)
      <3>1. CASE c = "c0"  BY <2>2, <2>4, <2>6, <3>1, CambiaCopia
      <3>2. CASE c = "c1"  BY <2>2, <2>4, <2>6, <3>2, CambiaCopia
      <3>3. CASE c = "otra"  BY <2>2, <2>4, <3>3, CambiaOtras
      <3> QED  BY <3>1, <3>2, <3>3
    <2>8. Otras(s) = t  BY <2>4, <2>7, ListaEs
    <2>9. ASSUME Distintas(b)
          PROVE  /\ b.c0.num >= 0 => b.c0 # b.c1
                 /\ h # b.c0 /\ h # b.c1
                 /\ \A i \in DOMAIN t : t[i] # b.c0 /\ t[i] # b.c1 /\ t[i] # h
                 /\ \A i, k \in DOMAIN t : t[i] = t[k] => i = k
      <3>1. \A i, k \in DOMAIN o : o[i] \notin {b.c0, b.c1} /\ (o[i] = o[k] => i = k)
        BY <2>9 DEF Distintas
      <3>2. \A i, k \in DOMAIN t : t[i] = t[k] => i = k
        <4> TAKE i, k \in DOMAIN t
        <4> HAVE t[i] = t[k]
        <4>1. i + 1 = k + 1 /\ i \in Int /\ k \in Int  BY <2>4, <3>1
        <4> QED  BY <4>1
      <3>3. \A i \in DOMAIN t : t[i] # h  BY <2>4, <3>1
      <3>4. \A i \in DOMAIN o : o[i] \notin {b.c0, b.c1}  BY <3>1
      <3> QED  BY <2>4, <2>9, <3>2, <3>3, <3>4 DEF Distintas
    <2>10. ASSUME Distintas(b) PROVE Distintas(s)
      <3>1. s.c0.num >= 0 => s.c0 # s.c1
        <4>1. CASE c = "c0"  BY <2>7, <2>9, <2>10, <4>1
        <4>2. CASE c = "c1"  BY <2>7, <2>9, <2>10, <4>2
        <4>3. CASE c = "otra"  BY <2>7, <2>9, <2>10, <4>3
        <4> QED  BY <4>1, <4>2, <4>3
      <3>2. \A i \in DOMAIN t : t[i] \notin {s.c0, s.c1}  BY <2>7, <2>9, <2>10
      <3> QED  BY <2>8, <2>9, <2>10, <3>1, <3>2 DEF Distintas
    <2>11. ASSUME Distintas(b), NEW u \in Reales(s) PROVE u \in Reales(b) /\ u # q
      <3>1. \/ u = s.c0 /\ s.c0.num >= 0
            \/ u = s.c1 /\ s.c1.num >= 0
            \/ \E i \in DOMAIN t : u = t[i]
        BY <2>7, <2>8, <2>11, RealesSon
      <3>2. \A v : (\/ v = b.c0 /\ b.c0.num >= 0
                    \/ v = b.c1 /\ b.c1.num >= 0
                    \/ \E i \in DOMAIN o : v = o[i]) => v \in Reales(b)
        BY RealesSon
      <3>3. ASSUME NEW i \in DOMAIN t, u = t[i] PROVE u \in Reales(b) /\ u # q
        <4>1. u \in Reales(b)  BY <2>4, <3>2, <3>3
        <4> QED  BY <2>3, <2>9, <2>11, <3>3, <4>1
      <3>4. ASSUME u = h PROVE u \in Reales(b) /\ (c # "otra" => u # q)
        <4>1. u \in Reales(b)  BY <2>4, <3>2, <3>4
        <4> QED  BY <2>3, <2>9, <2>11, <3>4, <4>1
      <3>5. CASE c = "c0"  BY <2>3, <2>7, <2>9, <2>11, <3>1, <3>2, <3>3, <3>4, <3>5
      <3>6. CASE c = "c1"  BY <2>3, <2>7, <2>9, <2>11, <3>1, <3>2, <3>3, <3>4, <3>6
      <3>7. CASE c = "otra"  BY <2>3, <2>7, <2>9, <2>11, <3>1, <3>2, <3>3, <3>7
      <3> QED  BY <3>5, <3>6, <3>7
    <2> QED  BY <2>7, <2>10, <2>11 DEF s, q
  <1> QED  BY <1>4, <1>5

\* With one more: a block, with that place.
LEMMA ConCopiaEs ==
  ASSUME NEW b \in Bloque, NEW u \in Lugar
  PROVE  /\ ConCopia(b, u) \in Bloque
         /\ Distintas(b) /\ u \notin Reales(b) => Distintas(ConCopia(b, u))
         /\ Reales(b) \subseteq Reales(ConCopia(b, u)) /\ Reales(ConCopia(b, u)) \subseteq Reales(b) \cup {u}
  <1> DEFINE o == Otras(b)
             s == ConCopia(b, u)
  <1>1. o \in Seq(Lugar) /\ b.c0 \in Ubicacion /\ b.c1 \in Ubicacion  BY OtrasEs
  <1>2. Lugar \subseteq Ubicacion /\ \A v \in Lugar : v.num >= 0 /\ v.num # -1  BY DEF Lugar, Ubicacion
  <1>3. b = [c0 |-> b.c0, c1 |-> b.c1, otras |-> b.otras] /\ b.otras \in Seq(Lugar) \cup {Nulo, Basura}
    BY DEF Bloque
  <1>4. \A v \in Ubicacion : v.num = -1 \/ v.num >= 0  BY DEF Ubicacion
  <1>5. ~(-1 >= 0)  OBVIOUS
  <1>6. CASE b.c0.num = -1 \/ b.c1.num = -1
    <2>1. s = IF b.c0.num = -1 THEN Solo0(b, u) ELSE Solo1(b, u)
      BY <1>6 DEF ConCopia, Solo0, Solo1
    <2> HIDE DEF s
    <2>2. /\ s \in Bloque /\ s.otras = b.otras
          /\ s.c0 = (IF b.c0.num = -1 THEN u ELSE b.c0) /\ s.c1 = (IF b.c0.num = -1 THEN b.c1 ELSE u)
      <3>1. CASE b.c0.num = -1  BY <1>2, <2>1, <3>1, CambiaUna
      <3>2. CASE b.c0.num # -1  BY <1>2, <2>1, <3>2, CambiaUna
      <3> QED  BY <3>1, <3>2
    <2>3. Otras(s) = o  BY <2>2 DEF Otras
    <2>4. \A v : v \in Reales(b) <=>
              \/ v = b.c0 /\ b.c0.num >= 0
              \/ v = b.c1 /\ b.c1.num >= 0
              \/ \E i \in DOMAIN o : v = o[i]
      BY RealesSon
    <2>5. \A v : v \in Reales(s) <=>
              \/ v = s.c0 /\ s.c0.num >= 0
              \/ v = s.c1 /\ s.c1.num >= 0
              \/ \E i \in DOMAIN o : v = o[i]
      BY <2>2, <2>3, RealesSon
    <2> HIDE DEF o
    <2>6. u.num >= 0  BY <1>2
    <2>7. \A v : v \in Reales(s) <=> v \in Reales(b) \/ v = u
      <3>1. CASE b.c0.num = -1
        <4>1. \A v : v \in Reales(b) <=> (v = b.c1 /\ b.c1.num >= 0) \/ \E i \in DOMAIN o : v = o[i]
          BY <1>5, <2>4, <3>1
        <4> QED  BY <2>2, <2>5, <2>6, <3>1, <4>1
      <3>2. CASE b.c0.num # -1
        <4>1. \A v : v \in Reales(b) <=> (v = b.c0 /\ b.c0.num >= 0) \/ \E i \in DOMAIN o : v = o[i]
          BY <1>5, <1>6, <2>4, <3>2
        <4> QED  BY <2>2, <2>5, <2>6, <3>2, <4>1
      <3> QED  BY <3>1, <3>2
    <2>8. ASSUME Distintas(b), u \notin Reales(b) PROVE Distintas(s)
      <3>1. \A i, k \in DOMAIN o : o[i] \notin {b.c0, b.c1} /\ (o[i] = o[k] => i = k)
        BY <2>8 DEF Distintas, o
      <3>2. \A i \in DOMAIN o : o[i] # u  BY <2>4, <2>8
      <3>3. u # b.c0 /\ u # b.c1
        <4>1. u # b.c0  BY <1>2, <1>4, <1>1, <2>4, <2>8
        <4>2. u # b.c1  BY <1>2, <1>4, <1>1, <2>4, <2>8
        <4> QED  BY <4>1, <4>2
      <3> QED  BY <2>2, <2>3, <3>1, <3>2, <3>3 DEF Distintas
    <2> QED  BY <2>2, <2>7, <2>8 DEF s
  <1>7. CASE b.c0.num # -1 /\ b.c1.num # -1
    <2> DEFINE t == Append(o, u)
               L == Len(o)
    <2>1. s = [b EXCEPT !.otras = t]  BY <1>7 DEF ConCopia
    <2>2. /\ t \in Seq(Lugar) /\ DOMAIN o = 1..L /\ DOMAIN t = 1..(L + 1) /\ L \in Nat
          /\ t[L + 1] = u /\ \A i \in 1..L : t[i] = o[i]
      BY <1>1
    <2> HIDE DEF s, t, L
    <2>3. s \in Bloque /\ s.otras = t /\ s.c0 = b.c0 /\ s.c1 = b.c1  BY <2>1, <2>2, CambiaOtras
    <2>4. Otras(s) = t  BY <2>2, <2>3, ListaEs
    <2>5. \A i : i \in 1..(L + 1) <=> i \in 1..L \/ i = L + 1  BY <2>2
    <2>6. \A v : (\E i \in DOMAIN t : v = t[i]) <=> v = u \/ \E i \in DOMAIN o : v = o[i]
      BY <2>2, <2>5
    <2>7. \A v : v \in Reales(s) <=> v \in Reales(b) \/ v = u
      <3>1. \A v : v \in Reales(b) <=>
              \/ v = b.c0 /\ b.c0.num >= 0
              \/ v = b.c1 /\ b.c1.num >= 0
              \/ \E i \in DOMAIN o : v = o[i]
        BY RealesSon
      <3>2. \A v : v \in Reales(s) <=>
              \/ v = s.c0 /\ s.c0.num >= 0
              \/ v = s.c1 /\ s.c1.num >= 0
              \/ \E i \in DOMAIN t : v = t[i]
        BY <2>3, <2>4, RealesSon
      <3> QED  BY <2>3, <2>6, <3>1, <3>2
    <2>8. ASSUME Distintas(b), u \notin Reales(b) PROVE Distintas(s)
      <3>0. /\ b.c0.num >= 0 => b.c0 # b.c1
            /\ \A i, k \in DOMAIN o : o[i] \notin {b.c0, b.c1} /\ (o[i] = o[k] => i = k)
        BY <2>8 DEF Distintas, o
      <3>1. \A i \in DOMAIN o : o[i] # u  BY <2>8, RealesSon
      <3>2. u # b.c0 /\ u # b.c1  BY <1>1, <1>2, <1>4, <1>7, <2>8, RealesSon
      <3> HIDE DEF o
      <3>3. \A i \in DOMAIN t : t[i] \notin {b.c0, b.c1}  BY <2>2, <2>5, <3>0, <3>2
      <3>4. \A i, k \in DOMAIN t : t[i] = t[k] => i = k
        <4> TAKE i, k \in DOMAIN t
        <4> HAVE t[i] = t[k]
        <4>1. CASE i \in 1..L /\ k \in 1..L  BY <2>2, <3>0, <4>1
        <4>2. CASE i = L + 1 /\ k = L + 1  BY <4>2
        <4>3. CASE i \in 1..L /\ k = L + 1  BY <2>2, <3>1, <4>3
        <4>4. CASE i = L + 1 /\ k \in 1..L  BY <2>2, <3>1, <4>4
        <4> QED  BY <2>2, <2>5, <4>1, <4>2, <4>3, <4>4
      <3> QED  BY <2>3, <2>4, <3>0, <3>3, <3>4 DEF Distintas
    <2> QED  BY <2>3, <2>7, <2>8 DEF s
  <1> QED  BY <1>6, <1>7

-----------------------------------------------------------------------------
(* The files: where their blocks are                                       *)

\* Block i of file r of A has a copy at u.
Pone(A, r, i, u) == r \in DOMAIN A /\ i \in DOMAIN A[r] /\ u \in Reales(A[r][i])

\* What the files A have, the files B have at the same place.
Dentro(A, B) == \A r, i, u : Pone(A, r, i, u) => Pone(B, r, i, u)

SinLugares(A) == \A b \in BloquesDe(A) : Reales(b) = {}
Sanas(A)      == \A b \in BloquesDe(A) : Distintas(b)
EsArchivos(A) == DOMAIN A \subseteq Rutas /\ A \in [DOMAIN A -> Seq(Bloque)]

LEMMA BloquesSon ==
  ASSUME NEW A
  PROVE  \A b : b \in BloquesDe(A) <=> \E r \in DOMAIN A : \E i \in DOMAIN A[r] : b = A[r][i]
  <1>1. ASSUME NEW s, NEW b PROVE b \in ToSet(s) <=> \E i \in DOMAIN s : b = s[i]  BY DEF ToSet
  <1> SUFFICES ASSUME NEW b
               PROVE  b \in BloquesDe(A) <=> \E r \in DOMAIN A : \E i \in DOMAIN A[r] : b = A[r][i]
    OBVIOUS
  <1>2. b \in BloquesDe(A) <=> \E r \in DOMAIN A : b \in ToSet(A[r])  BY DEF BloquesDe
  <1>3. \A r \in DOMAIN A : b \in ToSet(A[r]) <=> \E i \in DOMAIN A[r] : b = A[r][i]  BY <1>1
  <1> QED  BY <1>2, <1>3

LEMMA MarcadosEs ==
  ASSUME NEW A, NEW m, NEW N
  PROVE  Marcados(A, m, N) <=> \A r, i, u : Pone(A, r, i, u) => u.nodo \in N /\ u.num \in m[u.nodo]
  BY BloquesSon DEF Marcados, Pone

LEMMA AparteEs ==
  ASSUME NEW A
  PROVE  Aparte(A) <=> \A r, i, q, k, u : Pone(A, r, i, u) /\ Pone(A, q, k, u) => r = q /\ i = k
  <1>1. ASSUME Aparte(A), NEW r, NEW i, NEW q, NEW k, NEW u, Pone(A, r, i, u), Pone(A, q, k, u)
        PROVE  r = q /\ i = k
    <2>1. /\ r \in DOMAIN A /\ q \in DOMAIN A /\ i \in DOMAIN A[r] /\ k \in DOMAIN A[q]
          /\ u \in Reales(A[r][i]) \cap Reales(A[q][k])
      BY <1>1 DEF Pone
    <2>2. <<r, i>> = <<q, k>>  BY <1>1, <2>1 DEF Aparte
    <2> QED  BY <2>2
  <1>2. ASSUME \A r, i, q, k, u : Pone(A, r, i, u) /\ Pone(A, q, k, u) => r = q /\ i = k
        PROVE  Aparte(A)
    <2> SUFFICES ASSUME NEW r \in DOMAIN A, NEW q \in DOMAIN A,
                        NEW i \in DOMAIN A[r], NEW k \in DOMAIN A[q], <<r, i>> # <<q, k>>,
                        NEW u \in Reales(A[r][i]) \cap Reales(A[q][k])
                 PROVE  FALSE
      BY DEF Aparte
    <2>1. Pone(A, r, i, u) /\ Pone(A, q, k, u)  BY DEF Pone
    <2> QED  BY <1>2, <2>1
  <1> QED  BY <1>1, <1>2

LEMMA SinLugaresEs ==
  ASSUME NEW A
  PROVE  SinLugares(A) <=> \A r, i, u : ~ Pone(A, r, i, u)
  <1>1. SinLugares(A) <=> \A r \in DOMAIN A : \A i \in DOMAIN A[r] : Reales(A[r][i]) = {}
    BY BloquesSon DEF SinLugares
  <1>2. ASSUME NEW r, NEW i PROVE Reales(A[r][i]) = {} <=> \A u : u \notin Reales(A[r][i])  OBVIOUS
  <1> QED  BY <1>1, <1>2 DEF Pone

LEMMA SanasEs ==
  ASSUME NEW A
  PROVE  Sanas(A) <=> \A r \in DOMAIN A : \A i \in DOMAIN A[r] : Distintas(A[r][i])
  BY BloquesSon DEF Sanas

LEMMA PoneEs ==
  ASSUME NEW A, EsArchivos(A), NEW r, NEW i, NEW u, Pone(A, r, i, u)
  PROVE  /\ r \in Rutas /\ r \in DOMAIN A /\ i \in DOMAIN A[r] /\ i \in Nat
         /\ A[r][i] \in Bloque /\ u \in Reales(A[r][i]) /\ u \in Lugar
  <1>1. r \in DOMAIN A /\ i \in DOMAIN A[r] /\ u \in Reales(A[r][i]) /\ A[r] \in Seq(Bloque) /\ r \in Rutas
    BY DEF Pone, EsArchivos
  <1>2. DOMAIN A[r] = 1..Len(A[r]) /\ A[r][i] \in Bloque  BY <1>1
  <1> QED  BY <1>1, <1>2, RealesSon

\* Fewer places are still marked and apart.
LEMMA DentroEs ==
  ASSUME NEW A, NEW B, Dentro(A, B), NEW m, NEW N
  PROVE  (Marcados(B, m, N) => Marcados(A, m, N)) /\ (Aparte(B) => Aparte(A))
  <1>1. Marcados(B, m, N) => Marcados(A, m, N)  BY MarcadosEs DEF Dentro
  <1>2. Aparte(B) => Aparte(A)
    <2> SUFFICES ASSUME Aparte(B), NEW r, NEW i, NEW q, NEW k, NEW u, Pone(A, r, i, u), Pone(A, q, k, u)
                 PROVE  r = q /\ i = k
      BY AparteEs
    <2>1. Pone(B, r, i, u) /\ Pone(B, q, k, u)  BY DEF Dentro
    <2> QED  BY <2>1, AparteEs
  <1> QED  BY <1>1, <1>2

\* A dictionary with one entry more, or less.
LEMMA PonArchivo ==
  ASSUME NEW A, EsArchivos(A), NEW r \in Rutas \ DOMAIN A, NEW s \in Seq(Bloque)
  PROVE  /\ EsArchivos(Pon(A, r, s))
         /\ \A q, k, u : Pone(Pon(A, r, s), q, k, u) <=>
              Pone(A, q, k, u) \/ (q = r /\ k \in DOMAIN s /\ u \in Reales(s[k]))
         /\ Sanas(Pon(A, r, s)) <=> Sanas(A) /\ \A k \in DOMAIN s : Distintas(s[k])
  <1> DEFINE B == Pon(A, r, s)
  <1>1. /\ DOMAIN B = DOMAIN A \cup {r} /\ B[r] = s /\ \A q \in DOMAIN A : B[q] = A[q] /\ q # r
        /\ B = [q \in DOMAIN B |-> B[q]]
    BY DEF Pon
  <1> HIDE DEF B
  <1>2. \A q \in DOMAIN A : A[q] \in Seq(Bloque) /\ q \in Rutas  BY DEF EsArchivos
  <1>3. EsArchivos(B)  BY <1>1, <1>2 DEF EsArchivos
  <1>4. \A q, k, u : Pone(B, q, k, u) <=>
              Pone(A, q, k, u) \/ (q = r /\ k \in DOMAIN s /\ u \in Reales(s[k]))
    BY <1>1 DEF Pone
  <1>5. Sanas(B) <=> Sanas(A) /\ \A k \in DOMAIN s : Distintas(s[k])
    <2>1. Sanas(B) <=> \A q \in DOMAIN B : \A i \in DOMAIN B[q] : Distintas(B[q][i])  BY SanasEs
    <2>2. Sanas(A) <=> \A q \in DOMAIN A : \A i \in DOMAIN A[q] : Distintas(A[q][i])  BY SanasEs
    <2> QED  BY <1>1, <2>1, <2>2
  <1> QED  BY <1>3, <1>4, <1>5 DEF B

LEMMA QuitaArchivo ==
  ASSUME NEW A, EsArchivos(A), NEW r
  PROVE  /\ EsArchivos(Quita(A, r))
         /\ \A q, k, u : Pone(Quita(A, r), q, k, u) <=> Pone(A, q, k, u) /\ q # r
         /\ Sanas(A) => Sanas(Quita(A, r))
  <1> DEFINE B == Quita(A, r)
  <1>1. DOMAIN B = DOMAIN A \ {r} /\ (\A q \in DOMAIN A : q # r => B[q] = A[q]) /\ B = [q \in DOMAIN B |-> B[q]]
    BY DEF Quita
  <1> HIDE DEF B
  <1>2. \A q \in DOMAIN A : A[q] \in Seq(Bloque) /\ q \in Rutas  BY DEF EsArchivos
  <1>3. EsArchivos(B)  BY <1>1, <1>2 DEF EsArchivos
  <1>4. \A q, k, u : Pone(B, q, k, u) <=> Pone(A, q, k, u) /\ q # r  BY <1>1 DEF Pone
  <1>5. Sanas(A) => Sanas(B)
    <2>1. Sanas(B) <=> \A q \in DOMAIN B : \A i \in DOMAIN B[q] : Distintas(B[q][i])  BY SanasEs
    <2>2. Sanas(A) <=> \A q \in DOMAIN A : \A i \in DOMAIN A[q] : Distintas(A[q][i])  BY SanasEs
    <2> QED  BY <1>1, <2>1, <2>2
  <1> QED  BY <1>3, <1>4, <1>5 DEF B

\* A dictionary with one block changed.
CambiaBloque(A, r, i, b) == [A EXCEPT ![r][i] = b]

LEMMA CambiaBloqueEs ==
  ASSUME NEW A, EsArchivos(A), NEW r \in DOMAIN A, NEW i \in DOMAIN A[r], NEW b \in Bloque
  PROVE  /\ EsArchivos(CambiaBloque(A, r, i, b)) /\ DOMAIN CambiaBloque(A, r, i, b) = DOMAIN A
         /\ \A q, k, u : Pone(CambiaBloque(A, r, i, b), q, k, u) <=>
              IF q = r /\ k = i THEN u \in Reales(b) ELSE Pone(A, q, k, u)
         /\ Sanas(A) /\ Distintas(b) => Sanas(CambiaBloque(A, r, i, b))
  <1> DEFINE B == CambiaBloque(A, r, i, b)
  <1>0. \A q \in DOMAIN A : A[q] \in Seq(Bloque) /\ q \in Rutas  BY DEF EsArchivos
  <1>1. /\ DOMAIN B = DOMAIN A /\ B = [q \in DOMAIN B |-> B[q]]
        /\ B[r] = [A[r] EXCEPT ![i] = b]
        /\ \A q \in DOMAIN A : q # r => B[q] = A[q]
    BY DEF CambiaBloque, EsArchivos
  <1>2. B[r] \in Seq(Bloque) /\ DOMAIN B[r] = DOMAIN A[r] /\ B[r][i] = b /\ \A k \in DOMAIN A[r] : k # i => B[r][k] = A[r][k]
    <2>1. A[r] \in Seq(Bloque)  BY <1>0
    <2> HIDE DEF B
    <2> QED  BY <1>1, <2>1
  <1> HIDE DEF B
  <1>3. EsArchivos(B)  BY <1>0, <1>1, <1>2 DEF EsArchivos
  <1>4. \A q, k, u : Pone(B, q, k, u) <=> IF q = r /\ k = i THEN u \in Reales(b) ELSE Pone(A, q, k, u)
    BY <1>1, <1>2 DEF Pone
  <1>5. Sanas(A) /\ Distintas(b) => Sanas(B)
    <2>1. Sanas(B) <=> \A q \in DOMAIN B : \A k \in DOMAIN B[q] : Distintas(B[q][k])  BY SanasEs
    <2>2. Sanas(A) <=> \A q \in DOMAIN A : \A k \in DOMAIN A[q] : Distintas(A[q][k])  BY SanasEs
    <2>3. ASSUME Sanas(A), Distintas(b), NEW q \in DOMAIN B, NEW k \in DOMAIN B[q] PROVE Distintas(B[q][k])
      <3>1. CASE q # r  BY <1>1, <2>2, <2>3, <3>1
      <3>2. CASE q = r /\ k # i  BY <1>1, <1>2, <2>2, <2>3, <3>2
      <3>3. CASE q = r /\ k = i  BY <1>2, <2>3, <3>3
      <3> QED  BY <3>1, <3>2, <3>3
    <2> QED  BY <2>1, <2>3
  <1> QED  BY <1>1, <1>3, <1>4, <1>5 DEF B

-----------------------------------------------------------------------------
(* The places of a new file                                                *)

\* Both copies of a block are on connected nodes, on two bits that were clear.
LEMMA LugaresEs ==
  ASSUME NEW m, EsBits(m), conectados \subseteq Nodos, NEW b \in Lugares(m)
  PROVE  /\ b \in Bloque /\ Distintas(b)
         /\ \A u \in Reales(b) : /\ u \in Lugar /\ u.nodo \in conectados
                                 /\ u.num \in 0..(Capacidad[u.nodo] - 1) /\ u.num \notin m[u.nodo]
  <1>1. PICK n \in ConLugar(m) :
          b \in LET u  == Ubi(n, BitLibre(m[n]))
                    m1 == Marca(m, {u})
                    Q  == IF ConLugar(m1) = {n} THEN {n} ELSE ConLugar(m1) \ {n}
                IN  {[c0 |-> u, c1 |-> Ubi(q, BitLibre(m1[q])), otras |-> Nulo] : q \in Q}
    BY DEF Lugares
  <1> DEFINE u  == Ubi(n, BitLibre(m[n]))
             m1 == Marca(m, {u})
  <1>2. PICK q \in ConLugar(m1) : b = [c0 |-> u, c1 |-> Ubi(q, BitLibre(m1[q])), otras |-> Nulo]
    BY <1>1
  <1> DEFINE v == Ubi(q, BitLibre(m1[q]))
  <1>3. /\ u \in Lugar /\ u.nodo = n /\ n \in Nodos /\ n \in conectados
        /\ u.num \in 0..(Capacidad[n] - 1) /\ u.num \notin m[n]
    BY LibreEs DEF Ubi
  <1>4. /\ EsBits(m1)
        /\ \A x \in Nodos : \A k : k \in m1[x] <=> k \in m[x] \/ Ubi(x, k) \in {u}
    <2>1. {u} \in SUBSET Lugar /\ \A x \in {u} : x.num \in 0..(Capacidad[x.nodo] - 1)  BY <1>3
    <2> HIDE DEF u
    <2> QED  BY <2>1, MarcaEs
  <1> HIDE DEF m1
  <1>5. /\ v \in Lugar /\ v.nodo = q /\ q \in Nodos /\ q \in conectados
        /\ v.num \in 0..(Capacidad[q] - 1) /\ v.num \notin m1[q] /\ v = Ubi(q, v.num)
    BY <1>4, LibreEs DEF Ubi
  <1>6. v # u /\ v.num \notin m[q]
    <2> HIDE DEF u, v
    <2> QED  BY <1>4, <1>5
  <1>7. b.c0 = u /\ b.c1 = v /\ b.otras = Nulo  BY <1>2
  <1>8. b \in Bloque
    <2>1. Lugar \subseteq Ubicacion  BY DEF Lugar, Ubicacion
    <2>2. b = [c0 |-> u, c1 |-> v, otras |-> Nulo]  BY <1>2
    <2> HIDE DEF u, v
    <2> QED  BY <1>3, <1>5, <2>1, <2>2 DEF Bloque
  <1> HIDE DEF u, v
  <1>9. Otras(b) = <<>>  BY <1>7 DEF Otras
  <1>10. DOMAIN <<>> = {}  OBVIOUS
  <1>11. Distintas(b)  BY <1>6, <1>7, <1>9, <1>10 DEF Distintas
  <1>12. \A x \in Reales(b) : x = u \/ x = v  BY <1>7, <1>8, <1>9, <1>10, RealesSon
  <1> QED  BY <1>3, <1>5, <1>6, <1>8, <1>11, <1>12

\* The places of the blocks of s.
SitiosDe(s) == UNION {Reales(b) : b \in ToSet(s)}

\* Each way to place some blocks, with each way to place one more.
Siguiente(X) == UNION {{Append(s, b) : b \in Lugares(Marca(bitmap, SitiosDe(s)))} : s \in X}

LEMMA UbicadosSon ==
  \A k \in 0..MaxBloques : Ubicados[k] = IF k = 0 THEN {<<>>} ELSE Siguiente(Ubicados[k - 1])
  <1> DEFINE Es(g, M) == g = [k \in 0..M |-> IF k = 0 THEN {<<>>} ELSE Siguiente(g[k - 1])]
             A == {M \in Nat : \E g : Es(g, M)}
  <1>1. 0 \in A
    <2> DEFINE g == [k \in 0..0 |-> {<<>>}]
    <2>1. \A k \in 0..0 : k = 0  OBVIOUS
    <2>2. Es(g, 0)  BY <2>1
    <2> QED  BY <2>2
  <1>2. \A M \in Nat : M \in A => M + 1 \in A
    <2> SUFFICES ASSUME NEW M \in Nat, NEW g, Es(g, M) PROVE M + 1 \in A  OBVIOUS
    <2> DEFINE h == [k \in 0..(M + 1) |-> IF k = 0 THEN {<<>>} ELSE Siguiente(g[k - 1])]
    <2>1. \A k \in 0..M : k \in 0..(M + 1)  OBVIOUS
    <2>2. \A k \in 0..M : g[k] = IF k = 0 THEN {<<>>} ELSE Siguiente(g[k - 1])  OBVIOUS
    <2>3. \A k \in 0..M : h[k] = g[k]  BY <2>1, <2>2
    <2>4. \A k \in 0..(M + 1) : k # 0 => h[k - 1] = g[k - 1]
      <3>1. \A k \in 0..(M + 1) : k # 0 => k - 1 \in 0..M  OBVIOUS
      <3> HIDE DEF h
      <3> QED  BY <2>3, <3>1
    <2>5. Es(h, M + 1)  BY <2>4
    <2> HIDE DEF Es, h
    <2> QED  BY <2>5
  <1>3. MaxBloques \in A
    <2>1. MaxBloques \in Nat  BY SupuestoPersistencia
    <2> HIDE DEF A
    <2> QED  BY <1>1, <1>2, <2>1, Induccion
  <1>4. \E g : Es(g, MaxBloques)  BY <1>3
  <1>5. Ubicados = CHOOSE g : Es(g, MaxBloques)  BY DEF Ubicados, Siguiente, SitiosDe
  <1>6. Es(Ubicados, MaxBloques)
    <2> HIDE DEF Es
    <2> QED  BY <1>4, <1>5
  <1> QED  BY <1>6

\* The blocks s are placed on connected nodes, on bits that were clear, and apart.
Colocados(s) ==
  /\ s \in Seq(Bloque)
  /\ \A i \in DOMAIN s : Distintas(s[i])
  /\ \A i \in DOMAIN s : \A u \in Reales(s[i]) :
       u.nodo \in conectados /\ u.num \in 0..(Capacidad[u.nodo] - 1) /\ u.num \notin bitmap[u.nodo]
  /\ \A i, k \in DOMAIN s : \A u : u \in Reales(s[i]) /\ u \in Reales(s[k]) => i = k

LEMMA SitiosEs ==
  ASSUME NEW s \in Seq(Bloque)
  PROVE  /\ SitiosDe(s) \in SUBSET Lugar
         /\ \A u : u \in SitiosDe(s) <=> \E i \in DOMAIN s : u \in Reales(s[i])
  <1>1. \A b : b \in ToSet(s) <=> \E i \in DOMAIN s : b = s[i]  BY DEF ToSet
  <1>2. \A u : u \in SitiosDe(s) <=> \E b \in ToSet(s) : u \in Reales(b)  BY DEF SitiosDe
  <1>3. \A u : u \in SitiosDe(s) <=> \E i \in DOMAIN s : u \in Reales(s[i])  BY <1>1, <1>2
  <1>4. \A i \in DOMAIN s : s[i] \in Bloque  OBVIOUS
  <1>5. \A i \in DOMAIN s : Reales(s[i]) \subseteq Lugar  BY <1>4, RealesSon
  <1> QED  BY <1>3, <1>5

LEMMA ColocaOtro ==
  ASSUME EsBits(bitmap), conectados \subseteq Nodos, NEW s, Colocados(s),
         NEW b \in Lugares(Marca(bitmap, SitiosDe(s)))
  PROVE  Colocados(Append(s, b))
  <1> DEFINE m == Marca(bitmap, SitiosDe(s))
             t == Append(s, b)
             L == Len(s)
  <1>1. s \in Seq(Bloque)  BY DEF Colocados
  <1>2. SitiosDe(s) \in SUBSET Lugar /\ \A u : u \in SitiosDe(s) <=> \E i \in DOMAIN s : u \in Reales(s[i])
    BY <1>1, SitiosEs
  <1>3. \A u \in SitiosDe(s) : u.num \in 0..(Capacidad[u.nodo] - 1)  BY <1>2 DEF Colocados
  <1>4. EsBits(m) /\ \A n \in Nodos : \A k : k \in m[n] <=> k \in bitmap[n] \/ Ubi(n, k) \in SitiosDe(s)
    BY <1>2, <1>3, MarcaEs
  <1> HIDE DEF m
  <1>5. /\ b \in Bloque /\ Distintas(b)
        /\ \A u \in Reales(b) : /\ u \in Lugar /\ u.nodo \in conectados
                                /\ u.num \in 0..(Capacidad[u.nodo] - 1) /\ u.num \notin m[u.nodo]
    <2>1. b \in Lugares(m)  BY DEF m
    <2> QED  BY <1>4, <2>1, LugaresEs
  <1>6. \A u \in Reales(b) : u.num \notin bitmap[u.nodo] /\ \A i \in DOMAIN s : u \notin Reales(s[i])
    <2> TAKE u \in Reales(b)
    <2>1. u \in Lugar /\ u.nodo \in Nodos /\ u.num \notin m[u.nodo]  BY <1>5
    <2>2. u = Ubi(u.nodo, u.num)  BY <2>1 DEF Lugar, Ubi
    <2> QED  BY <1>2, <1>4, <2>1, <2>2
  <1>7. /\ L \in Nat /\ DOMAIN s = 1..L /\ t \in Seq(Bloque) /\ DOMAIN t = 1..(L + 1)
        /\ t[L + 1] = b /\ \A i \in 1..L : t[i] = s[i]
    BY <1>1, <1>5
  <1> HIDE DEF t, L
  <1>8. \A i : i \in 1..(L + 1) <=> i \in 1..L \/ i = L + 1  BY <1>7
  <1>9. \A i \in DOMAIN t : Distintas(t[i])  BY <1>5, <1>7, <1>8 DEF Colocados
  <1>10. \A i \in DOMAIN t : \A u \in Reales(t[i]) :
           u.nodo \in conectados /\ u.num \in 0..(Capacidad[u.nodo] - 1) /\ u.num \notin bitmap[u.nodo]
    <2> TAKE i \in DOMAIN t
    <2>1. CASE i \in 1..L  BY <1>7, <2>1 DEF Colocados
    <2>2. CASE i = L + 1  BY <1>5, <1>6, <1>7, <2>2
    <2> QED  BY <1>7, <1>8, <2>1, <2>2
  <1>11. \A i, k \in DOMAIN t : \A u : u \in Reales(t[i]) /\ u \in Reales(t[k]) => i = k
    <2> TAKE i, k \in DOMAIN t
    <2> TAKE u
    <2> HAVE u \in Reales(t[i]) /\ u \in Reales(t[k])
    <2>1. CASE i \in 1..L /\ k \in 1..L  BY <1>7, <2>1 DEF Colocados
    <2>2. CASE i \in 1..L /\ k = L + 1  BY <1>6, <1>7, <2>2
    <2>3. CASE i = L + 1 /\ k \in 1..L  BY <1>6, <1>7, <2>3
    <2>4. CASE i = L + 1 /\ k = L + 1  BY <2>4
    <2> QED  BY <1>7, <1>8, <2>1, <2>2, <2>3, <2>4
  <1>12. Colocados(t)  BY <1>7, <1>9, <1>10, <1>11 DEF Colocados
  <1> QED  BY <1>12 DEF t

LEMMA UbicadosEs ==
  ASSUME EsBits(bitmap), conectados \subseteq Nodos, NEW k \in 1..MaxBloques, NEW s \in Ubicados[k]
  PROVE  Colocados(s)
  <1> DEFINE A == {j \in Nat : j <= MaxBloques => \A t \in Ubicados[j] : Colocados(t)}
  <1>0. MaxBloques \in Nat \ {0}  BY SupuestoPersistencia
  <1>1. 0 \in A
    <2>1. 0 \in 0..MaxBloques  BY <1>0
    <2>2. Ubicados[0] = {<<>>}  BY <2>1, UbicadosSon
    <2>3. <<>> \in Seq(Bloque) /\ DOMAIN <<>> = {}  OBVIOUS
    <2>4. Colocados(<<>>)  BY <2>3 DEF Colocados
    <2> QED  BY <2>2, <2>4
  <1>2. \A j \in Nat : j \in A => j + 1 \in A
    <2> SUFFICES ASSUME NEW j \in Nat, j \in A, j + 1 <= MaxBloques, NEW t \in Ubicados[j + 1]
                 PROVE  Colocados(t)
      OBVIOUS
    <2>1. j + 1 \in 0..MaxBloques /\ j + 1 # 0 /\ (j + 1) - 1 = j /\ j <= MaxBloques  BY <1>0
    <2>2. Ubicados[j + 1] = Siguiente(Ubicados[j])  BY <2>1, UbicadosSon
    <2>3. PICK r \in Ubicados[j] : t \in {Append(r, b) : b \in Lugares(Marca(bitmap, SitiosDe(r)))}
      BY <2>2 DEF Siguiente
    <2>4. PICK b \in Lugares(Marca(bitmap, SitiosDe(r))) : t = Append(r, b)  BY <2>3
    <2>5. Colocados(r)  BY <2>1
    <2> QED  BY <2>4, <2>5, ColocaOtro
  <1>3. k \in Nat /\ k <= MaxBloques  BY <1>0
  <1>4. k \in A
    <2> HIDE DEF A
    <2> QED  BY <1>1, <1>2, <1>3, Induccion
  <1> QED  BY <1>3, <1>4

-----------------------------------------------------------------------------
(* What is on disk                                                         *)

Mapas  == UNION {[N -> SUBSET Nat] : N \in SUBSET Nodos}
Listas == UNION {[R -> Seq(Bloque) \cup {Cortado}] : R \in SUBSET Rutas}
Disco  == [tabla : {Nulo, Cortado} \cup SUBSET Nodos, bitmaps : Mapas,
           dirs : {Nulo, "bien", Cortado}, archivos : Listas]

EsDisco(d) == d \in Disco /\ \A n \in DOMAIN d.bitmaps : d.bitmaps[n] \subseteq 0..(Capacidad[n] - 1)

\* The files that the next start reads, without the old ones v.
Vigentes(d, v) == [r \in {x \in DOMAIN d.archivos : d.archivos[x] # Cortado} \ v |-> d.archivos[r]]

\* What the next start takes from d.
Metadata(d, v) ==
  /\ Sanas(Vigentes(d, v))
  /\ d.dirs = "bien" /\ d.tabla \notin {Nulo, Cortado} =>
       /\ Aparte(Vigentes(d, v))
       /\ Marcados(Vigentes(d, v), d.bitmaps, d.tabla \cap DOMAIN d.bitmaps)
  /\ d.dirs = Nulo \/ d.tabla = Nulo => SinLugares(Vigentes(d, v))

\* The table and the bitmaps of d have the places of the files A.
Cubiertos(A, d) ==
  \A r, i, u : Pone(A, r, i, u) =>
    /\ d.tabla \in SUBSET Nodos /\ u.nodo \in d.tabla /\ u.nodo \in DOMAIN d.bitmaps
    /\ u.num \in d.bitmaps[u.nodo]

LEMMA DiscoEs ==
  ASSUME NEW d, EsDisco(d)
  PROVE  /\ DOMAIN d.bitmaps \subseteq Nodos /\ d.bitmaps \in [DOMAIN d.bitmaps -> SUBSET Nat]
         /\ DOMAIN d.archivos \subseteq Rutas
         /\ d.archivos \in [DOMAIN d.archivos -> Seq(Bloque) \cup {Cortado}]
         /\ d.tabla \in {Nulo, Cortado} \cup SUBSET Nodos /\ d.dirs \in {Nulo, "bien", Cortado}
  BY DEF EsDisco, Disco, Mapas, Listas

LEMMA VigentesEs ==
  ASSUME NEW d, EsDisco(d), NEW v
  PROVE  /\ EsArchivos(Vigentes(d, v))
         /\ \A r : r \in DOMAIN Vigentes(d, v) <=>
              r \in DOMAIN d.archivos /\ d.archivos[r] # Cortado /\ r \notin v
         /\ \A r \in DOMAIN Vigentes(d, v) : Vigentes(d, v)[r] = d.archivos[r]
  BY DiscoEs DEF EsArchivos, Vigentes

LEMMA VigentesMenos ==
  ASSUME NEW d, EsDisco(d), NEW v, NEW w, v \subseteq w
  PROVE  Dentro(Vigentes(d, w), Vigentes(d, v)) /\ (Sanas(Vigentes(d, v)) => Sanas(Vigentes(d, w)))
  <1>1. \A r \in DOMAIN Vigentes(d, w) : r \in DOMAIN Vigentes(d, v) /\ Vigentes(d, w)[r] = Vigentes(d, v)[r]
    BY VigentesEs
  <1>2. Dentro(Vigentes(d, w), Vigentes(d, v))  BY <1>1 DEF Dentro, Pone
  <1>3. Sanas(Vigentes(d, v)) => Sanas(Vigentes(d, w))  BY <1>1, SanasEs
  <1> QED  BY <1>2, <1>3

LEMMA SinLugaresDentro ==
  ASSUME NEW A, NEW B, Dentro(A, B), SinLugares(B)
  PROVE  SinLugares(A)
  BY SinLugaresEs DEF Dentro

\* More files get old: less is read.
LEMMA MetadataMenos ==
  ASSUME NEW d, EsDisco(d), NEW v, NEW w, v \subseteq w, Metadata(d, v)
  PROVE  Metadata(d, w)
  BY VigentesMenos, DentroEs, SinLugaresDentro DEF Metadata

\* After the blocks of the files R changed, and these got old.
LEMMA DentroTras ==
  ASSUME NEW d, EsDisco(d), NEW v, NEW R, NEW A, NEW B, Dentro(Vigentes(d, v), A),
         \A q, k, u : Pone(A, q, k, u) /\ q \notin R => Pone(B, q, k, u)
  PROVE  Dentro(Vigentes(d, v \cup (R \cap DOMAIN d.archivos)), B)
  <1> DEFINE w == v \cup (R \cap DOMAIN d.archivos)
  <1> SUFFICES ASSUME NEW q, NEW k, NEW u, Pone(Vigentes(d, w), q, k, u)
               PROVE  Pone(B, q, k, u)
    BY DEF Dentro
  <1>1. v \subseteq w  OBVIOUS
  <1>2. q \notin R
    <2>1. q \in DOMAIN Vigentes(d, w)  BY DEF Pone
    <2>2. q \in DOMAIN d.archivos /\ q \notin w  BY <2>1, VigentesEs
    <2> QED  BY <2>2
  <1> HIDE DEF w
  <1>3. Pone(A, q, k, u)  BY <1>1, VigentesMenos DEF Dentro
  <1> QED  BY <1>2, <1>3

\* What is saved of files that are in order is in order.
LEMMA MetadataDe ==
  ASSUME NEW d, EsDisco(d), NEW v, NEW A, Dentro(Vigentes(d, v), A), Cubiertos(A, d), Aparte(A),
         Sanas(Vigentes(d, v)), d.dirs = Nulo => SinLugares(Vigentes(d, v))
  PROVE  Metadata(d, v)
  <1> DEFINE V == Vigentes(d, v)
  <1>1. Aparte(V)  BY DentroEs
  <1>2. Marcados(V, d.bitmaps, d.tabla \cap DOMAIN d.bitmaps)
    <2>1. \A r, i, u : Pone(V, r, i, u) => u.nodo \in d.tabla \cap DOMAIN d.bitmaps /\ u.num \in d.bitmaps[u.nodo]
      BY DEF Dentro, Cubiertos
    <2> HIDE DEF V
    <2> QED  BY <2>1, MarcadosEs
  <1>3. d.tabla = Nulo => SinLugares(V)
    <2>1. \A N \in SUBSET Nodos : N # Nulo  BY SupuestoPersistencia
    <2>2. d.tabla = Nulo => \A r, i, u : ~ Pone(V, r, i, u)  BY <2>1 DEF Dentro, Cubiertos
    <2> HIDE DEF V
    <2> QED  BY <2>2, SinLugaresEs
  <1> QED  BY <1>1, <1>2, <1>3 DEF Metadata

\* The writes of exit, and of a kill.
ConTabla(d, x)      == [d EXCEPT !.tabla = x]
ConBitmap(d, n, B)  == [d EXCEPT !.bitmaps = Pon(@, n, B)]
ConDirs(d, x)       == [d EXCEPT !.dirs = x]
ConArchivo(d, r, s) == [d EXCEPT !.archivos = Pon(@, r, s)]

LEMMA ConTablaEs ==
  ASSUME NEW d, EsDisco(d), NEW x \in {Nulo, Cortado} \cup SUBSET Nodos
  PROVE  LET e == ConTabla(d, x)
         IN  EsDisco(e) /\ e.tabla = x /\ e.bitmaps = d.bitmaps /\ e.dirs = d.dirs /\ e.archivos = d.archivos
  BY DEF EsDisco, Disco, ConTabla

LEMMA ConDirsEs ==
  ASSUME NEW d, EsDisco(d), NEW x \in {Nulo, "bien", Cortado}
  PROVE  LET e == ConDirs(d, x)
         IN  EsDisco(e) /\ e.tabla = d.tabla /\ e.bitmaps = d.bitmaps /\ e.dirs = x /\ e.archivos = d.archivos
  BY DEF EsDisco, Disco, ConDirs

LEMMA ConBitmapEs ==
  ASSUME NEW d, EsDisco(d), NEW n \in Nodos, NEW B \in SUBSET Nat, B \subseteq 0..(Capacidad[n] - 1)
  PROVE  LET e == ConBitmap(d, n, B)
         IN  /\ EsDisco(e) /\ e.tabla = d.tabla /\ e.dirs = d.dirs /\ e.archivos = d.archivos
             /\ DOMAIN e.bitmaps = DOMAIN d.bitmaps \cup {n} /\ e.bitmaps[n] = B
             /\ \A x \in DOMAIN d.bitmaps : x # n => e.bitmaps[x] = d.bitmaps[x]
  <1> DEFINE f == d.bitmaps
             g == Pon(f, n, B)
             e == ConBitmap(d, n, B)
  <1>1. DOMAIN f \subseteq Nodos /\ f \in [DOMAIN f -> SUBSET Nat]  BY DiscoEs
  <1>2. /\ DOMAIN g = DOMAIN f \cup {n} /\ g[n] = B /\ (\A x \in DOMAIN f : x # n => g[x] = f[x])
        /\ g = [x \in DOMAIN g |-> g[x]]
    BY DEF Pon
  <1>3. d \in Disco /\ \A x \in DOMAIN f : f[x] \subseteq 0..(Capacidad[x] - 1)  BY DEF EsDisco
  <1>4. e = [d EXCEPT !.bitmaps = g]  BY DEF ConBitmap
  <1> HIDE DEF f, g, e
  <1>5. g \in Mapas
    <2>1. DOMAIN g \in SUBSET Nodos  BY <1>1, <1>2
    <2>2. g \in [DOMAIN g -> SUBSET Nat]  BY <1>1, <1>2
    <2> QED  BY <2>1, <2>2 DEF Mapas
  <1>6. e \in Disco /\ e.bitmaps = g /\ e.tabla = d.tabla /\ e.dirs = d.dirs /\ e.archivos = d.archivos
    BY <1>3, <1>4, <1>5 DEF Disco
  <1>7. \A x \in DOMAIN g : g[x] \subseteq 0..(Capacidad[x] - 1)  BY <1>2, <1>3
  <1> QED  BY <1>2, <1>6, <1>7 DEF EsDisco, e, f

LEMMA ConArchivoEs ==
  ASSUME NEW d, EsDisco(d), NEW r \in Rutas, NEW s \in Seq(Bloque) \cup {Cortado}, NEW v
  PROVE  LET e == ConArchivo(d, r, s)
         IN  /\ EsDisco(e) /\ e.tabla = d.tabla /\ e.bitmaps = d.bitmaps /\ e.dirs = d.dirs
             /\ \A q \in DOMAIN Vigentes(e, v \ {r}) :
                  \/ q \in DOMAIN Vigentes(d, v) /\ Vigentes(e, v \ {r})[q] = Vigentes(d, v)[q]
                  \/ q = r /\ Vigentes(e, v \ {r})[q] = s /\ s # Cortado
  <1> DEFINE f == d.archivos
             g == Pon(f, r, s)
             e == ConArchivo(d, r, s)
  <1>1. DOMAIN f \subseteq Rutas /\ f \in [DOMAIN f -> Seq(Bloque) \cup {Cortado}]  BY DiscoEs
  <1>2. /\ DOMAIN g = DOMAIN f \cup {r} /\ g[r] = s /\ (\A x \in DOMAIN f : x # r => g[x] = f[x])
        /\ g = [x \in DOMAIN g |-> g[x]]
    BY DEF Pon
  <1>3. d \in Disco /\ \A x \in DOMAIN d.bitmaps : d.bitmaps[x] \subseteq 0..(Capacidad[x] - 1)  BY DEF EsDisco
  <1>4. e = [d EXCEPT !.archivos = g]  BY DEF ConArchivo
  <1> HIDE DEF g, e
  <1>5. g \in Listas
    <2>1. DOMAIN g \in SUBSET Rutas  BY <1>1, <1>2
    <2>2. g \in [DOMAIN g -> Seq(Bloque) \cup {Cortado}]  BY <1>1, <1>2
    <2> QED  BY <2>1, <2>2 DEF Listas
  <1>6. e \in Disco /\ e.archivos = g /\ e.tabla = d.tabla /\ e.dirs = d.dirs /\ e.bitmaps = d.bitmaps
    BY <1>3, <1>4, <1>5 DEF Disco
  <1>7. EsDisco(e)  BY <1>3, <1>6 DEF EsDisco
  <1> DEFINE E == Vigentes(e, v \ {r})
             D == Vigentes(d, v)
  <1>8. ASSUME NEW q \in DOMAIN E
        PROVE  \/ q \in DOMAIN D /\ E[q] = D[q]
               \/ q = r /\ E[q] = s /\ s # Cortado
    <2>1. q \in DOMAIN g /\ g[q] # Cortado /\ q \notin v \ {r} /\ E[q] = g[q]  BY <1>6, <1>7, VigentesEs
    <2>2. q # r => q \in DOMAIN D /\ D[q] = f[q]  BY <1>2, <2>1, VigentesEs
    <2> QED  BY <1>2, <2>1, <2>2
  <1> QED  BY <1>6, <1>7, <1>8 DEF e

-----------------------------------------------------------------------------
(* The invariant                                                           *)

Pasos == [paso : {"bitmaps", "directorios", "archivos"}, faltan : SUBSET (Nodos \cup Rutas),
          nodos : SUBSET Nodos]

EsPaso(g, N, R) ==
  /\ g \in Pasos
  /\ g.paso = "bitmaps" => g.faltan \subseteq g.nodos /\ g.nodos \subseteq N
  /\ g.paso = "archivos" => g.faltan \subseteq R

SinMemoria ==
  /\ hayData = FALSE /\ estable = FALSE /\ conocidos = {} /\ conectados = {}
  /\ bitmap = [n \in Nodos |-> {}] /\ archivos = <<>> /\ guardando = Nulo

TiposFS ==
  /\ sesion \in Sesiones /\ arranques \in 0..sesion.arranques
  /\ fs \in {"apagado", "vivo", "roto", "indefinido"}
  /\ hayData \in BOOLEAN /\ estable \in BOOLEAN
  /\ conectados \subseteq conocidos /\ conocidos \subseteq Nodos
  /\ EsBits(bitmap) /\ EsArchivos(archivos) /\ EsDisco(disco)
  /\ guardando # Nulo => EsPaso(guardando, conocidos, DOMAIN archivos)
  /\ fs \in {"apagado", "roto"} => SinMemoria

TiposYama ==
  /\ yama \in {"apagada", "conectando", "espera", "lista", "pide", "trabada", "indefinida"}
  /\ sockFS \in {"fs", "perdido", "cerrado", "master"}
  /\ pedido \in Rutas \cup {Nulo}
  /\ canal # Nulo => yama \in {"espera", "pide"}
  /\ semaforo \in {"libre", "servidor", "consola"}

\* The files A are stored on bits of m of the nodes N, each block apart.
Guardadas(A, m, N) == Marcados(A, m, N) /\ Aparte(A) /\ Sanas(A)

\* How far exit has come, and what there is to the places of the files A on d by then.
Salvado(g, d, A, m) ==
  /\ g.paso = "bitmaps" =>
       /\ d.tabla = Cortado
       /\ \A r, i, u : Pone(A, r, i, u) => u.nodo \in g.nodos
       /\ \A n \in g.nodos \ g.faltan : n \in DOMAIN d.bitmaps /\ d.bitmaps[n] = m[n]
  /\ g.paso \in {"directorios", "archivos"} => Cubiertos(A, d)
  /\ g.paso = "archivos" => d.dirs = "bien"

\* As long as there is no doubt: what the next start takes is in order; and while the
\* FileSystem runs, what it has in memory, of which what is on disk is a part.
Fieles ==
  dudas = {} =>
    /\ Metadata(disco, viejos)
    /\ fs = "vivo" => /\ Guardadas(archivos, bitmap, conocidos)
                      /\ Dentro(Vigentes(disco, viejos), archivos)
                      /\ guardando # Nulo => Salvado(guardando, disco, archivos, bitmap)

Invariante == TiposFS /\ TiposYama /\ Fieles

LEMMA SinBits == EsBits([n \in Nodos |-> {}])
  BY DEF EsBits

LEMMA SinArchivos == EsArchivos(<<>>) /\ DOMAIN <<>> = {} /\ Sanas(<<>>) /\ SinLugares(<<>>)
  <1>1. <<>> \in Seq(Bloque) /\ DOMAIN <<>> = {}  OBVIOUS
  <1>2. <<>> \in [{} -> Seq(Bloque)]  OBVIOUS
  <1>3. BloquesDe(<<>>) = {}  BY <1>1 DEF BloquesDe
  <1> QED  BY <1>1, <1>2, <1>3 DEF EsArchivos, Sanas, SinLugares

LEMMA SinMemoriaEs ==
  ASSUME SinMemoria
  PROVE  /\ hayData \in BOOLEAN /\ estable \in BOOLEAN
         /\ conectados \subseteq conocidos /\ conocidos \subseteq Nodos
         /\ EsBits(bitmap) /\ EsArchivos(archivos) /\ guardando = Nulo
  BY SinBits, SinArchivos DEF SinMemoria

LEMMA SinMemoriaDespues ==
  ASSUME SinMemoria'
  PROVE  /\ hayData' \in BOOLEAN /\ estable' \in BOOLEAN
         /\ conectados' \subseteq conocidos' /\ conocidos' \subseteq Nodos
         /\ EsBits(bitmap') /\ EsArchivos(archivos') /\ guardando' = Nulo
  BY SinBits, SinArchivos DEF SinMemoria

\* Without a place, the files are in order whatever the bits and the nodes.
LEMMA SinLugaresGuardadas ==
  ASSUME NEW A, SinLugares(A), Sanas(A), NEW m, NEW N
  PROVE  Guardadas(A, m, N)
  <1>1. \A r, i, u : ~ Pone(A, r, i, u)  BY SinLugaresEs
  <1>2. Marcados(A, m, N)  BY <1>1, MarcadosEs
  <1>3. Aparte(A)  BY <1>1, AparteEs
  <1> QED  BY <1>2, <1>3 DEF Guardadas

LEMMA SinDatosEs == EsDisco(SinDatos) /\ \A v : Metadata(SinDatos, v) /\ SinLugares(Vigentes(SinDatos, v))
  <1>1. SinDatos.tabla = Nulo /\ SinDatos.bitmaps = <<>> /\ SinDatos.dirs = Nulo /\ SinDatos.archivos = <<>>
    BY DEF SinDatos
  <1>2. DOMAIN <<>> = {}  OBVIOUS
  <1>3. <<>> \in Mapas
    <2>1. <<>> \in [{} -> SUBSET Nat]  OBVIOUS
    <2>2. {} \in SUBSET Nodos  OBVIOUS
    <2> QED  BY <2>1, <2>2 DEF Mapas
  <1>4. <<>> \in Listas
    <2>1. <<>> \in [{} -> Seq(Bloque) \cup {Cortado}]  OBVIOUS
    <2>2. {} \in SUBSET Rutas  OBVIOUS
    <2> QED  BY <2>1, <2>2 DEF Listas
  <1>5. SinDatos \in Disco  BY <1>3, <1>4 DEF SinDatos, Disco
  <1>6. EsDisco(SinDatos)  BY <1>1, <1>2, <1>5 DEF EsDisco
  <1>7. ASSUME NEW v PROVE Metadata(SinDatos, v) /\ SinLugares(Vigentes(SinDatos, v))
    <2> DEFINE V == Vigentes(SinDatos, v)
    <2>1. \A r : r \notin DOMAIN V  BY <1>1, <1>2, <1>6, VigentesEs
    <2> HIDE DEF V
    <2>2. BloquesDe(V) = {}  BY <2>1 DEF BloquesDe
    <2>3. Sanas(V) /\ SinLugares(V)  BY <2>2 DEF Sanas, SinLugares
    <2>4. "bien" # Nulo  BY SupuestoPersistencia
    <2> QED  BY <1>1, <2>3, <2>4 DEF Metadata, V
  <1> QED  BY <1>6, <1>7

\* What a session finds on disk.
LEMMA GuardableEs ==
  ASSUME NEW d, Guardable(d)
  PROVE  EsDisco(d) /\ Metadata(d, {})
  <1> DEFINE A == d.archivos
             V == Vigentes(d, {})
  <1>1. /\ d = [tabla |-> d.tabla, bitmaps |-> d.bitmaps, dirs |-> d.dirs, archivos |-> d.archivos]
        /\ d.bitmaps = [n \in DOMAIN d.bitmaps |-> d.bitmaps[n]] /\ DOMAIN d.bitmaps \subseteq Nodos
        /\ \A n \in DOMAIN d.bitmaps : d.bitmaps[n] \subseteq 0..(Capacidad[n] - 1)
        /\ A = [r \in DOMAIN A |-> A[r]] /\ DOMAIN A \subseteq Rutas
        /\ \A r \in DOMAIN A : A[r] \in Seq(Bloque)
        /\ Aparte(A) /\ Sanas(A)
    BY DEF Guardable, Sanas
  <1>2. \/ d.tabla = Nulo /\ d.dirs \in {Nulo, "bien"} /\ SinLugares(A)
        \/ d.tabla \in SUBSET Nodos /\ d.dirs = "bien" /\ Marcados(A, d.bitmaps, d.tabla \cap DOMAIN d.bitmaps)
    BY DEF Guardable, SinLugares
  <1>3. EsDisco(d)
    <2>1. \A n \in DOMAIN d.bitmaps : d.bitmaps[n] \in SUBSET Nat
      <3>1. \A n \in Nodos : 0..(Capacidad[n] - 1) \subseteq Nat  OBVIOUS
      <3> QED  BY <1>1, <3>1
    <2>2. d.bitmaps \in Mapas
      <3>1. d.bitmaps \in [DOMAIN d.bitmaps -> SUBSET Nat]  BY <1>1, <2>1
      <3>2. DOMAIN d.bitmaps \in SUBSET Nodos  BY <1>1
      <3> QED  BY <3>1, <3>2 DEF Mapas
    <2>3. A \in Listas
      <3>1. A \in [DOMAIN A -> Seq(Bloque) \cup {Cortado}]  BY <1>1
      <3>2. DOMAIN A \in SUBSET Rutas  BY <1>1
      <3> QED  BY <3>1, <3>2 DEF Listas
    <2>4. d.tabla \in {Nulo, Cortado} \cup SUBSET Nodos /\ d.dirs \in {Nulo, "bien", Cortado}  BY <1>2
    <2>5. d \in Disco  BY <1>1, <2>2, <2>3, <2>4 DEF Disco
    <2> QED  BY <1>1, <2>5 DEF EsDisco
  <1>4. \A r \in DOMAIN V : r \in DOMAIN A /\ V[r] = A[r]  BY <1>3, VigentesEs
  <1>5. Dentro(V, A)  BY <1>4 DEF Dentro, Pone
  <1>6. Sanas(V)  BY <1>1, <1>4, SanasEs
  <1>7. \A N \in SUBSET Nodos : N # Nulo  BY SupuestoPersistencia
  <1>8. "bien" # Nulo  BY SupuestoPersistencia
  <1> HIDE DEF A
  <1>9. Aparte(V)  BY <1>1, <1>5, DentroEs
  <1>10. CASE d.tabla = Nulo /\ d.dirs \in {Nulo, "bien"} /\ SinLugares(A)
    <2>1. SinLugares(V)  BY <1>5, <1>10, SinLugaresDentro
    <2> QED  BY <1>3, <1>6, <1>10, <2>1 DEF Metadata
  <1>11. CASE /\ d.tabla \in SUBSET Nodos /\ d.dirs = "bien"
              /\ Marcados(A, d.bitmaps, d.tabla \cap DOMAIN d.bitmaps)
    <2>1. Marcados(V, d.bitmaps, d.tabla \cap DOMAIN d.bitmaps)  BY <1>5, <1>11, DentroEs
    <2> QED  BY <1>3, <1>6, <1>7, <1>8, <1>9, <1>11, <2>1 DEF Metadata
  <1> QED  BY <1>2, <1>10, <1>11

LEMMA InicioBien == InitC => Invariante
  <1> SUFFICES ASSUME InitC PROVE Invariante  OBVIOUS
  <1> USE DEF InitC, Init
  <1>1. sesion \in Sesiones /\ sesion.arranques \in Nat /\ Guardable(sesion.disco)  BY SupuestoSesiones
  <1>2. EsDisco(disco) /\ Metadata(disco, {})  BY <1>1, GuardableEs
  <1>3. SinMemoria  BY DEF SinMemoria
  <1>4. TiposFS
    <2>1. arranques \in 0..sesion.arranques  BY <1>1
    <2> QED  BY <1>1, <1>2, <1>3, <2>1, SinMemoriaEs DEF TiposFS
  <1>5. TiposYama  BY DEF TiposYama
  <1>6. Fieles  BY <1>2 DEF Fieles
  <1> QED  BY <1>4, <1>5, <1>6 DEF Invariante

-----------------------------------------------------------------------------
(* The commands                                                            *)

\* With nothing but the types to show about what a command leaves alone.
LEMMA TiposDespues ==
  ASSUME TiposFS, fs' \in {"vivo", "indefinido"}, fs = "vivo",
         UNCHANGED <<sesion, arranques, hayData, estable>>,
         conectados' \subseteq conocidos', conocidos' \subseteq Nodos,
         EsBits(bitmap'), EsArchivos(archivos'), EsDisco(disco'),
         guardando' # Nulo => EsPaso(guardando', conocidos', DOMAIN archivos')
  PROVE  TiposFS'
  BY DEF TiposFS

LEMMA GuardarBien ==
  ASSUME TiposFS, Fieles, NEW r \in Rutas, guardar(r)
  PROVE  TiposFS' /\ Fieles'
  <1> USE DEF guardar
  <1>0. /\ fs = "vivo" /\ r \notin DOMAIN archivos /\ EsBits(bitmap) /\ EsArchivos(archivos) /\ EsDisco(disco)
        /\ conectados \subseteq conocidos /\ conocidos \subseteq Nodos
        /\ guardando # Nulo => EsPaso(guardando, conocidos, DOMAIN archivos)
    BY DEF TiposFS
  <1>1. PICK s \in UNION {Ubicados[k] : k \in 1..MaxBloques} :
          /\ archivos' = Pon(archivos, r, s)
          /\ bitmap' = Marca(bitmap, UNION {Reales(b) : b \in ToSet(s)})
    OBVIOUS
  <1>2. Colocados(s)
    <2>1. PICK k \in 1..MaxBloques : s \in Ubicados[k]  BY <1>1
    <2> QED  BY <1>0, <2>1, UbicadosEs
  <1>3. /\ SitiosDe(s) \in SUBSET Lugar
        /\ \A u : u \in SitiosDe(s) <=> \E i \in DOMAIN s : u \in Reales(s[i])
    BY <1>2, SitiosEs DEF Colocados
  <1>4. bitmap' = Marca(bitmap, SitiosDe(s))  BY <1>1 DEF SitiosDe
  <1>5. /\ EsBits(bitmap')
        /\ \A n \in Nodos : \A k : k \in bitmap'[n] <=> k \in bitmap[n] \/ Ubi(n, k) \in SitiosDe(s)
    <2>1. \A u \in SitiosDe(s) : u.num \in 0..(Capacidad[u.nodo] - 1)  BY <1>2, <1>3 DEF Colocados
    <2> QED  BY <1>0, <1>3, <1>4, <2>1, MarcaEs
  <1>6. /\ EsArchivos(archivos') /\ DOMAIN archivos' = DOMAIN archivos \cup {r}
        /\ \A q, k, u : Pone(archivos', q, k, u) <=>
             Pone(archivos, q, k, u) \/ (q = r /\ k \in DOMAIN s /\ u \in Reales(s[k]))
        /\ Sanas(archivos) => Sanas(archivos')
    <2>1. s \in Seq(Bloque) /\ \A k \in DOMAIN s : Distintas(s[k])  BY <1>2 DEF Colocados
    <2>2. DOMAIN archivos' = DOMAIN archivos \cup {r}  BY <1>1 DEF Pon
    <2> QED  BY <1>0, <1>1, <2>1, <2>2, PonArchivo
  <1>7. UNCHANGED <<sesion, fs, arranques, hayData, estable, conocidos, conectados, disco, viejos>>
    OBVIOUS
  <1>8. guardando' # Nulo => EsPaso(guardando', conocidos', DOMAIN archivos')
    <2>1. CASE guardando' = guardando  BY <1>0, <1>6, <1>7, <2>1 DEF EsPaso
    <2>2. CASE /\ guardando # Nulo /\ guardando.paso = "archivos"
               /\ guardando' = [guardando EXCEPT !.faltan = @ \cup {r}]
      <3>1. guardando \in Pasos /\ guardando.faltan \subseteq DOMAIN archivos  BY <1>0, <2>2 DEF EsPaso
      <3>2. guardando' \in Pasos /\ guardando'.paso = "archivos" /\ guardando'.faltan = guardando.faltan \cup {r}
        BY <2>2, <3>1 DEF Pasos
      <3> QED  BY <1>6, <3>1, <3>2 DEF EsPaso
    <2> QED  BY <2>1, <2>2
  <1>9. TiposFS'  BY <1>0, <1>5, <1>6, <1>7, <1>8, TiposDespues
  <1>10. Fieles'
    <2> SUFFICES ASSUME dudas' = {}
                 PROVE  /\ Metadata(disco', viejos')
                        /\ Guardadas(archivos', bitmap', conocidos')
                        /\ Dentro(Vigentes(disco', viejos'), archivos')
                        /\ guardando' = Nulo
      BY DEF Fieles
    <2>1. dudas = {} /\ guardando = Nulo /\ guardando' = Nulo  OBVIOUS
    <2>2. /\ Metadata(disco, viejos) /\ Dentro(Vigentes(disco, viejos), archivos)
          /\ Marcados(archivos, bitmap, conocidos) /\ Aparte(archivos) /\ Sanas(archivos)
      BY <1>0, <2>1 DEF Fieles, Guardadas
    <2>3. \A q, k, u : Pone(archivos, q, k, u) => u \in Lugar /\ u.nodo \in conocidos /\ u.num \in bitmap[u.nodo]
      BY <1>0, <2>2, PoneEs, MarcadosEs
    <2>4. \A k \in DOMAIN s : \A u \in Reales(s[k]) : /\ u \in SitiosDe(s) /\ u \in Lugar /\ u.nodo \in conectados
                                                      /\ u.num \notin bitmap[u.nodo]
      BY <1>2, <1>3 DEF Colocados
    <2>5. \A u \in Lugar : u.nodo \in Nodos /\ u = Ubi(u.nodo, u.num)  BY DEF Lugar, Ubi
    <2>6. Marcados(archivos', bitmap', conocidos')
      <3> SUFFICES ASSUME NEW q, NEW k, NEW u, Pone(archivos', q, k, u)
                   PROVE  u.nodo \in conocidos' /\ u.num \in bitmap'[u.nodo]
        BY MarcadosEs
      <3>1. CASE Pone(archivos, q, k, u)  BY <1>5, <1>7, <2>3, <2>5, <3>1
      <3>2. CASE q = r /\ k \in DOMAIN s /\ u \in Reales(s[k])  BY <1>0, <1>5, <1>7, <2>4, <2>5, <3>2
      <3> QED  BY <1>6, <3>1, <3>2
    <2>7. Aparte(archivos')
      <3> SUFFICES ASSUME NEW q, NEW k, NEW p, NEW i, NEW u, Pone(archivos', q, k, u), Pone(archivos', p, i, u)
                   PROVE  q = p /\ k = i
        BY AparteEs
      <3>1. CASE Pone(archivos, q, k, u) /\ Pone(archivos, p, i, u)  BY <2>2, <3>1, AparteEs
      <3>2. CASE ~Pone(archivos, q, k, u) /\ ~Pone(archivos, p, i, u)
        <4>1. q = r /\ p = r /\ k \in DOMAIN s /\ i \in DOMAIN s /\ u \in Reales(s[k]) /\ u \in Reales(s[i])
          BY <1>6, <3>2
        <4> QED  BY <1>2, <4>1 DEF Colocados
      <3>3. ~(Pone(archivos, q, k, u) /\ ~Pone(archivos, p, i, u))  BY <1>6, <2>3, <2>4
      <3>4. ~(~Pone(archivos, q, k, u) /\ Pone(archivos, p, i, u))  BY <1>6, <2>3, <2>4
      <3> QED  BY <3>1, <3>2, <3>3, <3>4
    <2>8. Dentro(Vigentes(disco', viejos'), archivos')  BY <1>6, <1>7, <2>2 DEF Dentro
    <2> QED  BY <1>6, <1>7, <2>1, <2>2, <2>6, <2>7, <2>8 DEF Guardadas
  <1> QED  BY <1>9, <1>10

\* An undefined step leaves everything as it was.
LEMMA IndefinidoBien ==
  ASSUME TiposFS, Fieles, fs = "vivo", Indefinido
  PROVE  TiposFS' /\ Fieles'
  <1>1. /\ fs' = "indefinido"
        /\ UNCHANGED <<sesion, arranques, hayData, estable, conocidos, conectados, bitmap, archivos, guardando,
                       disco, viejos, dudas>>
    BY DEF Indefinido, memoria
  <1>2. TiposFS'  BY <1>1 DEF TiposFS
  <1>3. Fieles'  BY <1>1 DEF Fieles
  <1> QED  BY <1>2, <1>3

\* Fewer places, whose bits are still set.
LEMMA GuardadasMenos ==
  ASSUME NEW A, NEW m, NEW N, Guardadas(A, m, N), NEW B, Dentro(B, A), Sanas(B), NEW p,
         \A r, i, u : Pone(B, r, i, u) => u.num \in p[u.nodo]
  PROVE  Guardadas(B, p, N)
  <1>1. Aparte(B)  BY DentroEs DEF Guardadas
  <1>2. Marcados(B, p, N)
    <2>1. \A r, i, u : Pone(A, r, i, u) => u.nodo \in N  BY MarcadosEs DEF Guardadas
    <2>2. \A r, i, u : Pone(B, r, i, u) => u.nodo \in N /\ u.num \in p[u.nodo]  BY <2>1 DEF Dentro
    <2> QED  BY <2>2, MarcadosEs
  <1> QED  BY <1>1, <1>2 DEF Guardadas

\* A command that takes blocks of the files R away.
LEMMA QuitaBien ==
  ASSUME TiposFS, Fieles, fs = "vivo", guardando = Nulo, NEW R, Envejecen(R),
         UNCHANGED <<sesion, fs, arranques, hayData, estable, conocidos, conectados, guardando, disco, dudas>>,
         EsBits(bitmap'), EsArchivos(archivos'),
         Sanas(archivos) => Sanas(archivos'),
         dudas = {} => Dentro(archivos', archivos),
         dudas = {} => \A q, k, u : Pone(archivos, q, k, u) /\ q \notin R => Pone(archivos', q, k, u),
         dudas = {} => \A q, k, u : Pone(archivos', q, k, u) => u.num \in bitmap'[u.nodo]
  PROVE  TiposFS' /\ Fieles'
  <1>1. EsDisco(disco) /\ conectados \subseteq conocidos /\ conocidos \subseteq Nodos  BY DEF TiposFS
  <1>2. TiposFS'  BY <1>1, TiposDespues
  <1>3. Fieles'
    <2> SUFFICES ASSUME dudas = {}
                 PROVE  /\ Metadata(disco, viejos')
                        /\ Guardadas(archivos', bitmap', conocidos)
                        /\ Dentro(Vigentes(disco, viejos'), archivos')
      BY DEF Fieles
    <2>1. viejos' = viejos \cup (R \cap DOMAIN disco.archivos)  BY DEF Envejecen
    <2>2. /\ Metadata(disco, viejos) /\ Guardadas(archivos, bitmap, conocidos)
          /\ Dentro(Vigentes(disco, viejos), archivos)
      BY DEF Fieles
    <2>3. Metadata(disco, viejos')  BY <1>1, <2>1, <2>2, MetadataMenos
    <2>4. Dentro(Vigentes(disco, viejos'), archivos')  BY <1>1, <2>1, <2>2, DentroTras
    <2>5. Guardadas(archivos', bitmap', conocidos)  BY <2>2, GuardadasMenos DEF Guardadas
    <2> QED  BY <2>3, <2>4, <2>5
  <1> QED  BY <1>2, <1>3

LEMMA LiberaEs ==
  ASSUME NEW m, EsBits(m), NEW s \in Seq(Bloque)
  PROVE  /\ EsBits(Libera(m, ToSet(s)))
         /\ \A n \in Nodos : \A k : k \in Libera(m, ToSet(s))[n] <=> k \in m[n] /\ Ubi(n, k) \notin SitiosDe(s)
  <1> DEFINE U == SitiosDe(s)
             M == Libera(m, ToSet(s))
  <1>1. \A n \in Nodos : M[n] = m[n] \ {u.num : u \in {v \in U : v.nodo = n}}  BY DEF Libera, SitiosDe
  <1>2. M = [n \in Nodos |-> M[n]]  BY DEF Libera
  <1>3. \A u \in U : u = Ubi(u.nodo, u.num)  BY SitiosEs DEF Lugar, Ubi
  <1>4. \A n, k : Ubi(n, k).nodo = n /\ Ubi(n, k).num = k  BY DEF Ubi
  <1> HIDE DEF M, U
  <1>5. ASSUME NEW n \in Nodos, NEW k PROVE k \in M[n] <=> k \in m[n] /\ Ubi(n, k) \notin U
    <2>1. k \in M[n] <=> k \in m[n] /\ ~ \E u \in U : u.nodo = n /\ u.num = k  BY <1>1
    <2>2. (\E u \in U : u.nodo = n /\ u.num = k) <=> Ubi(n, k) \in U  BY <1>3, <1>4
    <2> QED  BY <2>1, <2>2
  <1>6. \A n \in Nodos : M[n] \subseteq m[n]  BY <1>5
  <1>7. EsBits(M)  BY <1>2, <1>6 DEF EsBits
  <1> QED  BY <1>5, <1>7 DEF M, U

\* Each place belongs to a node, and the bit is its number.
LEMMA LugarEs == \A u \in Lugar : u.nodo \in Nodos /\ u = Ubi(u.nodo, u.num) /\ u.num >= 0
  BY DEF Lugar, Ubi

\* What the files in memory are known to be, without a doubt.
LEMMA MemoriaEs ==
  ASSUME TiposFS, Fieles, fs = "vivo", dudas = {}
  PROVE  /\ \A q, k, u : Pone(archivos, q, k, u) =>
              u \in Lugar /\ u.nodo \in conocidos /\ u.num \in bitmap[u.nodo] /\ q \in DOMAIN archivos
         /\ \A q, k, p, i, u : Pone(archivos, q, k, u) /\ Pone(archivos, p, i, u) => q = p /\ k = i
         /\ \A q \in DOMAIN archivos : \A k \in DOMAIN archivos[q] : Distintas(archivos[q][k])
  <1>1. EsArchivos(archivos) /\ Guardadas(archivos, bitmap, conocidos)  BY DEF TiposFS, Fieles
  <1>2. \A q, k, u : Pone(archivos, q, k, u) => u \in Lugar /\ q \in DOMAIN archivos  BY <1>1, PoneEs
  <1>3. \A q, k, u : Pone(archivos, q, k, u) => u.nodo \in conocidos /\ u.num \in bitmap[u.nodo]
    BY <1>1, MarcadosEs DEF Guardadas
  <1>4. \A q, k, p, i, u : Pone(archivos, q, k, u) /\ Pone(archivos, p, i, u) => q = p /\ k = i
    BY <1>1, AparteEs DEF Guardadas
  <1>5. \A q \in DOMAIN archivos : \A k \in DOMAIN archivos[q] : Distintas(archivos[q][k])
    BY <1>1, SanasEs DEF Guardadas
  <1> QED  BY <1>2, <1>3, <1>4, <1>5

LEMMA RmBien ==
  ASSUME TiposFS, Fieles, NEW r \in Rutas, rm(r)
  PROVE  TiposFS' /\ Fieles'
  <1>1. fs = "vivo" /\ guardando = Nulo /\ r \in DOMAIN archivos  BY DEF rm, EnConsola
  <1>2. CASE Indefinido  BY <1>1, <1>2, IndefinidoBien
  <1>3. CASE /\ archivos' = Quita(archivos, r) /\ bitmap' = Libera(bitmap, ToSet(archivos[r]))
             /\ Envejecen({r})
             /\ UNCHANGED <<sesion, fs, arranques, hayData, estable, conocidos, conectados, guardando,
                            disco, dudas>>
    <2> DEFINE s == archivos[r]
    <2>1. EsBits(bitmap) /\ EsArchivos(archivos) /\ s \in Seq(Bloque)  BY <1>1 DEF TiposFS, EsArchivos
    <2>2. /\ EsArchivos(archivos')
          /\ \A q, k, u : Pone(archivos', q, k, u) <=> Pone(archivos, q, k, u) /\ q # r
          /\ Sanas(archivos) => Sanas(archivos')
      BY <1>3, <2>1, QuitaArchivo
    <2>3. /\ EsBits(bitmap')
          /\ \A n \in Nodos : \A k : k \in bitmap'[n] <=> k \in bitmap[n] /\ Ubi(n, k) \notin SitiosDe(s)
      BY <1>3, <2>1, LiberaEs
    <2>4. \A u : u \in SitiosDe(s) <=> \E i \in DOMAIN s : u \in Reales(s[i])  BY <2>1, SitiosEs
    <2>5. ASSUME dudas = {}, NEW q, NEW k, NEW u, Pone(archivos', q, k, u) PROVE u.num \in bitmap'[u.nodo]
      <3>1. Pone(archivos, q, k, u) /\ q # r  BY <2>2, <2>5
      <3>2. u \in Lugar /\ u.num \in bitmap[u.nodo]  BY <1>1, <2>5, <3>1, MemoriaEs
      <3>3. u \notin SitiosDe(s)
        <4> SUFFICES ASSUME u \in SitiosDe(s) PROVE FALSE  OBVIOUS
        <4>1. PICK i \in DOMAIN s : u \in Reales(s[i])  BY <2>4
        <4>2. Pone(archivos, r, i, u)  BY <1>1, <4>1 DEF Pone
        <4> QED  BY <1>1, <2>5, <3>1, <4>2, MemoriaEs
      <3> QED  BY <2>3, <3>2, <3>3, LugarEs
    <2>6. Dentro(archivos', archivos)  BY <2>2 DEF Dentro
    <2>7. \A q, k, u : Pone(archivos, q, k, u) /\ q \notin {r} => Pone(archivos', q, k, u)  BY <2>2
    <2> QED  BY <1>1, <1>3, <2>2, <2>3, <2>5, <2>6, <2>7, QuitaBien
  <1> QED  BY <1>2, <1>3 DEF rm

LEMMA FormatBien ==
  ASSUME TiposFS, Fieles, formatFileSystem
  PROVE  TiposFS' /\ Fieles'
  <1> USE DEF formatFileSystem
  <1>1. fs = "vivo" /\ guardando = Nulo  BY DEF EnConsola
  <1>2. /\ EsBits(bitmap') /\ EsArchivos(archivos') /\ Sanas(archivos') /\ SinLugares(archivos')
    BY SinBits, SinArchivos
  <1>3. \A q, k, u : ~ Pone(archivos', q, k, u)  BY <1>2, SinLugaresEs
  <1>4. \A q, k, u : Pone(archivos, q, k, u) /\ q \notin DOMAIN archivos => Pone(archivos', q, k, u)
    BY DEF Pone
  <1>5. Dentro(archivos', archivos)  BY <1>3 DEF Dentro
  <1> QED  BY <1>1, <1>2, <1>3, <1>4, <1>5, QuitaBien

\* A copy that rm -b takes away, if it had a number, is one of the block.
LEMMA CopiaReal ==
  ASSUME NEW b \in Bloque, NEW c \in {"c0", "c1", "otra"}, Sobra(b, c), Copia(b, c).num >= 0
  PROVE  Copia(b, c) \in Reales(b)
  <1>1. CASE c = "otra"
    <2>1. Otras(b) # <<>>  BY <1>1 DEF Sobra
    <2>2. b.otras = Otras(b) /\ Otras(b) \in Seq(Lugar)  BY <2>1, OtrasEs
    <2>3. Copia(b, c) = Head(Otras(b))  BY <1>1, <2>2 DEF Copia
    <2>4. 1 \in DOMAIN Otras(b) /\ Head(Otras(b)) = Otras(b)[1]  BY <2>1, <2>2, ColaEs
    <2> QED  BY <2>3, <2>4, RealesSon
  <1>2. CASE c = "c0"
    <2>1. Copia(b, c) = b.c0  BY <1>2 DEF Copia
    <2> QED  BY <2>1, RealesSon
  <1>3. CASE c = "c1"
    <2>1. Copia(b, c) = b.c1  BY <1>3 DEF Copia
    <2> QED  BY <2>1, RealesSon
  <1> QED  BY <1>1, <1>2, <1>3

LEMMA RmBloqueBien ==
  ASSUME TiposFS, Fieles, NEW r \in Rutas, NEW i, NEW c \in {"c0", "c1", "otra"}, rmBloque(r, i, c)
  PROVE  TiposFS' /\ Fieles'
  <1> DEFINE b == archivos[r][i]
             u == Copia(b, c)
             s == SinCopia(b, c)
  <1>1. fs = "vivo" /\ guardando = Nulo /\ r \in DOMAIN archivos /\ i \in DOMAIN archivos[r]
    BY DEF rmBloque, EnConsola
  <1>2. CASE Indefinido  BY <1>1, <1>2, IndefinidoBien
  <1>3. CASE /\ Sobra(b, c)
             /\ archivos' = [archivos EXCEPT ![r][i] = s]
             /\ bitmap' = [bitmap EXCEPT ![u.nodo] = @ \ {u.num}]
             /\ Envejecen({r})
             /\ UNCHANGED <<sesion, fs, arranques, hayData, estable, conocidos, conectados,
                            guardando, disco, dudas>>
    <2>1. EsBits(bitmap) /\ EsArchivos(archivos) /\ archivos[r] \in Seq(Bloque) /\ b \in Bloque
      <3>1. EsBits(bitmap) /\ EsArchivos(archivos) /\ archivos[r] \in Seq(Bloque)
        BY <1>1 DEF TiposFS, EsArchivos
      <3> QED  BY <1>1, <3>1
    <2> HIDE DEF b
    <2>2. u \in Ubicacion /\ (u.num >= 0 => u \in Reales(b))  BY <1>3, <2>1, CopiaEs, CopiaReal
    <2>3. /\ s \in Bloque
          /\ Distintas(b) => Distintas(s) /\ Reales(s) \subseteq Reales(b) \ {u}
      BY <1>3, <2>1, SinCopiaEs
    <2> HIDE DEF u, s
    <2>4. archivos' = CambiaBloque(archivos, r, i, s)  BY <1>3 DEF CambiaBloque
    <2>5. /\ EsArchivos(archivos')
          /\ \A q, k, v : Pone(archivos', q, k, v) <=>
               IF q = r /\ k = i THEN v \in Reales(s) ELSE Pone(archivos, q, k, v)
          /\ Sanas(archivos) /\ Distintas(s) => Sanas(archivos')
      BY <1>1, <2>1, <2>3, <2>4, CambiaBloqueEs
    <2>6. u.nodo \in Nodos /\ u.num \in Int  BY <2>2 DEF Ubicacion
    <2>7. /\ EsBits(bitmap')
          /\ \A n \in Nodos : \A k : k \in bitmap'[n] <=> k \in bitmap[n] /\ ~(n = u.nodo /\ k = u.num)
      BY <1>3, <2>1, <2>6 DEF EsBits
    <2>8. Sanas(archivos) => Distintas(b)  BY <1>1, SanasEs DEF b
    <2>9. \A v : Pone(archivos, r, i, v) <=> v \in Reales(b)  BY <1>1 DEF Pone, b
    <2>10. dudas = {} => Sanas(archivos)  BY <1>1 DEF Fieles, Guardadas
    <2>11. dudas = {} => Dentro(archivos', archivos)
      BY <2>3, <2>5, <2>8, <2>9, <2>10 DEF Dentro
    <2>12. ASSUME dudas = {}, NEW q, NEW k, NEW v, Pone(archivos', q, k, v) PROVE v.num \in bitmap'[v.nodo]
      <3>1. Pone(archivos, q, k, v)  BY <2>11, <2>12 DEF Dentro
      <3>2. v \in Lugar /\ v.num \in bitmap[v.nodo]  BY <1>1, <2>12, <3>1, MemoriaEs
      <3>3. v.nodo \in Nodos /\ v = Ubi(v.nodo, v.num) /\ v.num >= 0  BY <3>2, LugarEs
      <3>4. v # u
        <4>1. CASE q = r /\ k = i  BY <2>3, <2>5, <2>8, <2>10, <2>12, <4>1
        <4>2. CASE ~(q = r /\ k = i)
          <5> SUFFICES ASSUME v = u PROVE FALSE  OBVIOUS
          <5>1. Pone(archivos, r, i, v)  BY <2>2, <2>9, <3>3
          <5> QED  BY <1>1, <2>12, <3>1, <4>2, <5>1, MemoriaEs
        <4> QED  BY <4>1, <4>2
      <3>5. u = Ubi(u.nodo, u.num)  BY <2>2 DEF Ubicacion, Ubi
      <3> QED  BY <2>7, <3>2, <3>3, <3>4, <3>5
    <2>13. \A q, k, v : Pone(archivos, q, k, v) /\ q \notin {r} => Pone(archivos', q, k, v)  BY <2>5
    <2>14. Sanas(archivos) => Sanas(archivos')  BY <2>3, <2>5, <2>8
    <2> QED  BY <1>1, <1>3, <2>5, <2>7, <2>11, <2>12, <2>13, <2>14, QuitaBien
  <1> QED  BY <1>2, <1>3 DEF rmBloque

LEMMA CpblockBien ==
  ASSUME TiposFS, Fieles, NEW r \in Rutas, NEW i, NEW n \in Nodos, cpblock(r, i, n)
  PROVE  TiposFS' /\ Fieles'
  <1> DEFINE b == archivos[r][i]
             u == Ubi(n, BitLibre(bitmap[n]))
             s == ConCopia(b, u)
  <1>1. /\ fs = "vivo" /\ guardando = Nulo /\ r \in DOMAIN archivos /\ i \in DOMAIN archivos[r]
        /\ n \in ConLugar(bitmap)
    BY DEF cpblock, EnConsola
  <1>2. CASE Indefinido  BY <1>1, <1>2, IndefinidoBien
  <1>3. CASE /\ archivos' = [archivos EXCEPT ![r][i] = s]
             /\ bitmap' = [bitmap EXCEPT ![n] = @ \cup {u.num}]
             /\ UNCHANGED <<sesion, fs, arranques, hayData, estable, conocidos, conectados,
                            guardando, disco, viejos, dudas>>
    <2>0. /\ EsBits(bitmap) /\ EsArchivos(archivos) /\ EsDisco(disco)
          /\ conectados \subseteq conocidos /\ conocidos \subseteq Nodos
      BY DEF TiposFS
    <2>1. b \in Bloque
      <3>1. archivos[r] \in Seq(Bloque)  BY <1>1, <2>0 DEF EsArchivos
      <3> QED  BY <1>1, <3>1
    <2> HIDE DEF b
    <2>2. /\ u \in Lugar /\ u.nodo = n /\ n \in conectados /\ u.num \in 0..(Capacidad[n] - 1)
          /\ u.num \notin bitmap[n]
      BY <1>1, <2>0, LibreEs DEF Ubi
    <2> HIDE DEF u
    <2>3. /\ s \in Bloque
          /\ Distintas(b) /\ u \notin Reales(b) => Distintas(s)
          /\ Reales(b) \subseteq Reales(s) /\ Reales(s) \subseteq Reales(b) \cup {u}
      BY <2>1, <2>2, ConCopiaEs
    <2> HIDE DEF s
    <2>4. archivos' = CambiaBloque(archivos, r, i, s)  BY <1>3 DEF CambiaBloque
    <2>5. /\ EsArchivos(archivos') /\ DOMAIN archivos' = DOMAIN archivos
          /\ \A q, k, v : Pone(archivos', q, k, v) <=>
               IF q = r /\ k = i THEN v \in Reales(s) ELSE Pone(archivos, q, k, v)
          /\ Sanas(archivos) /\ Distintas(s) => Sanas(archivos')
      BY <1>1, <2>0, <2>3, <2>4, CambiaBloqueEs
    <2>6. /\ EsBits(bitmap')
          /\ \A x \in Nodos : \A k : k \in bitmap'[x] <=> k \in bitmap[x] \/ (x = n /\ k = u.num)
      <3>1. u.num \in Nat  BY <2>2 DEF Lugar
      <3> QED  BY <1>3, <2>0, <2>2, <3>1 DEF EsBits
    <2>7. TiposFS'  BY <1>1, <1>3, <2>0, <2>5, <2>6, TiposDespues
    <2>8. Fieles'
      <3> SUFFICES ASSUME dudas = {}
                   PROVE  /\ Metadata(disco, viejos)
                          /\ Guardadas(archivos', bitmap', conocidos)
                          /\ Dentro(Vigentes(disco, viejos), archivos')
        BY <1>1, <1>3 DEF Fieles
      <3>1. /\ Metadata(disco, viejos) /\ Dentro(Vigentes(disco, viejos), archivos)
            /\ Sanas(archivos)
        BY <1>1 DEF Fieles, Guardadas
      <3>2. \A v : Pone(archivos, r, i, v) <=> v \in Reales(b)  BY <1>1 DEF Pone, b
      <3>3. \A q, k, v : Pone(archivos, q, k, v) => v # u  BY <1>1, <2>2, MemoriaEs
      <3>4. \A q, k, v : Pone(archivos', q, k, v) => Pone(archivos, q, k, v) \/ (q = r /\ k = i /\ v = u)
        BY <2>3, <2>5, <3>2
      <3>5. \A q, k, v : Pone(archivos, q, k, v) => Pone(archivos', q, k, v)  BY <2>3, <2>5, <3>2
      <3>6. Sanas(archivos')
        <4>1. Distintas(b)  BY <1>1, <3>1, SanasEs DEF b
        <4>2. u \notin Reales(b)  BY <3>2, <3>3
        <4> QED  BY <2>3, <2>5, <3>1, <4>1, <4>2
      <3>7. Aparte(archivos')
        <4> SUFFICES ASSUME NEW q, NEW k, NEW p, NEW j, NEW v, Pone(archivos', q, k, v), Pone(archivos', p, j, v)
                     PROVE  q = p /\ k = j
          BY AparteEs
        <4>1. CASE v = u  BY <3>3, <3>4, <4>1
        <4>2. CASE v # u
          <5>1. Pone(archivos, q, k, v) /\ Pone(archivos, p, j, v)  BY <3>4, <4>2
          <5> QED  BY <1>1, <5>1, MemoriaEs
        <4> QED  BY <4>1, <4>2
      <3>8. Marcados(archivos', bitmap', conocidos)
        <4> SUFFICES ASSUME NEW q, NEW k, NEW v, Pone(archivos', q, k, v)
                     PROVE  v.nodo \in conocidos /\ v.num \in bitmap'[v.nodo]
          BY MarcadosEs
        <4>1. CASE Pone(archivos, q, k, v)
          <5>1. v.nodo \in conocidos /\ v.num \in bitmap[v.nodo]  BY <1>1, <4>1, MemoriaEs
          <5> QED  BY <2>0, <2>6, <5>1
        <4>2. CASE v = u  BY <2>0, <2>2, <2>6, <4>2
        <4> QED  BY <3>4, <4>1, <4>2
      <3>9. Dentro(Vigentes(disco, viejos), archivos')  BY <3>1, <3>5 DEF Dentro
      <3> QED  BY <3>1, <3>6, <3>7, <3>8, <3>9 DEF Guardadas
    <2> QED  BY <2>7, <2>8
  <1> QED  BY <1>2, <1>3 DEF cpblock

-----------------------------------------------------------------------------
(* exit                                                                    *)

\* A step of exit, which changes what is on disk and how far it has come.
LEMMA PasoDeExit ==
  ASSUME TiposFS, fs = "vivo",
         UNCHANGED <<sesion, fs, arranques, hayData, estable, conocidos, conectados, bitmap, archivos, dudas>>,
         Fieles, EsDisco(disco'), EsPaso(guardando', conocidos, DOMAIN archivos),
         dudas = {} => /\ Metadata(disco', viejos') /\ Dentro(Vigentes(disco', viejos'), archivos)
                       /\ Salvado(guardando', disco', archivos, bitmap)
  PROVE  TiposFS' /\ Fieles'
  <1>1. /\ conectados \subseteq conocidos /\ conocidos \subseteq Nodos /\ EsBits(bitmap) /\ EsArchivos(archivos)
    BY DEF TiposFS
  <1>2. TiposFS'  BY <1>1, TiposDespues
  <1>3. Fieles'  BY DEF Fieles
  <1> QED  BY <1>2, <1>3

\* What is known in the middle of exit.
LEMMA EnExit ==
  ASSUME TiposFS, Fieles, NEW p, Guardando(p)
  PROVE  /\ fs = "vivo" /\ EsDisco(disco) /\ guardando \in Pasos /\ guardando.paso = p
         /\ EsArchivos(archivos) /\ EsBits(bitmap) /\ conocidos \subseteq Nodos
         /\ EsPaso(guardando, conocidos, DOMAIN archivos)
         /\ dudas = {} => /\ Metadata(disco, viejos) /\ Dentro(Vigentes(disco, viejos), archivos)
                          /\ Salvado(guardando, disco, archivos, bitmap)
                          /\ Aparte(archivos) /\ Sanas(archivos)
  BY DEF TiposFS, Fieles, Guardando, EsPaso, Guardadas

LEMMA PasoEs ==
  ASSUME NEW p \in {"bitmaps", "directorios", "archivos"}, NEW F \in SUBSET (Nodos \cup Rutas), NEW N \in SUBSET Nodos
  PROVE  Paso(p, F, N) \in Pasos /\ Paso(p, F, N).paso = p /\ Paso(p, F, N).faltan = F /\ Paso(p, F, N).nodos = N
  BY DEF Paso, Pasos

\* Without a whole table nothing that was saved is read.
LEMMA MetadataCortada ==
  ASSUME NEW d, NEW e, NEW v, Metadata(d, v), e.archivos = d.archivos, e.tabla = Cortado, e.dirs = d.dirs
  PROVE  Metadata(e, v) /\ Vigentes(e, v) = Vigentes(d, v)
  <1>1. Vigentes(e, v) = Vigentes(d, v)  BY DEF Vigentes
  <1>2. Cortado # Nulo  BY SupuestoPersistencia
  <1> QED  BY <1>1, <1>2 DEF Metadata

LEMMA ExitBien ==
  ASSUME TiposFS, Fieles, exit
  PROVE  TiposFS' /\ Fieles'
  <1>1. /\ fs = "vivo" /\ guardando = Nulo
        /\ UNCHANGED <<sesion, fs, arranques, hayData, estable, conocidos, conectados, bitmap, archivos, viejos, dudas>>
    BY DEF exit, EnConsola, memoria
  <1>2. EsDisco(disco) /\ conocidos \subseteq Nodos  BY DEF TiposFS
  <1>3. dudas = {} => /\ Metadata(disco, viejos) /\ Dentro(Vigentes(disco, viejos), archivos)
                      /\ \A q, k, u : Pone(archivos, q, k, u) => u.nodo \in conocidos
    BY <1>1, MemoriaEs DEF Fieles
  <1>4. CASE conocidos = {}
    <2>1. guardando' = Paso("directorios", {}, {}) /\ disco' = disco  BY <1>4 DEF exit
    <2>2. guardando' \in Pasos /\ guardando'.paso = "directorios"  BY <2>1, PasoEs
    <2>3. EsPaso(guardando', conocidos, DOMAIN archivos)  BY <2>2 DEF EsPaso
    <2>4. dudas = {} => Salvado(guardando', disco, archivos, bitmap)
      <3>1. dudas = {} => Cubiertos(archivos, disco)  BY <1>3, <1>4 DEF Cubiertos
      <3> QED  BY <2>2, <3>1 DEF Salvado
    <2> QED  BY <1>1, <1>2, <1>3, <2>1, <2>3, <2>4, PasoDeExit
  <1>5. CASE conocidos # {}
    <2>1. guardando' = Paso("bitmaps", conocidos, conocidos) /\ disco' = ConTabla(disco, Cortado)
      BY <1>5 DEF exit, ConTabla
    <2>2. /\ guardando' \in Pasos /\ guardando'.paso = "bitmaps" /\ guardando'.faltan = conocidos
          /\ guardando'.nodos = conocidos
      BY <1>2, <2>1, PasoEs
    <2>3. EsPaso(guardando', conocidos, DOMAIN archivos)  BY <2>2 DEF EsPaso
    <2>4. EsDisco(disco') /\ disco'.tabla = Cortado /\ disco'.dirs = disco.dirs /\ disco'.archivos = disco.archivos
      BY <1>2, <2>1, ConTablaEs
    <2>5. dudas = {} => Metadata(disco', viejos) /\ Vigentes(disco', viejos) = Vigentes(disco, viejos)
      BY <1>3, <2>4, MetadataCortada
    <2>6. dudas = {} => Salvado(guardando', disco', archivos, bitmap)  BY <1>3, <2>2, <2>4 DEF Salvado
    <2> QED  BY <1>1, <1>3, <2>3, <2>4, <2>5, <2>6, PasoDeExit
  <1> QED  BY <1>4, <1>5

LEMMA PersistirNodoBien ==
  ASSUME TiposFS, Fieles, NEW n \in Nodos, persistirNodo(n)
  PROVE  TiposFS' /\ Fieles'
  <1>1. /\ Guardando("bitmaps") /\ n \in guardando.faltan
        /\ disco' = ConBitmap(disco, n, bitmap[n])
        /\ guardando' = [guardando EXCEPT !.faltan = @ \ {n}]
        /\ UNCHANGED <<sesion, fs, arranques, hayData, estable, conocidos, conectados, bitmap, archivos, viejos, dudas>>
    BY DEF persistirNodo, Sigue, memoria, ConBitmap
  <1>2. /\ fs = "vivo" /\ EsDisco(disco) /\ guardando \in Pasos /\ guardando.paso = "bitmaps" /\ EsBits(bitmap)
        /\ EsPaso(guardando, conocidos, DOMAIN archivos)
        /\ dudas = {} => /\ Metadata(disco, viejos) /\ Dentro(Vigentes(disco, viejos), archivos)
                         /\ Salvado(guardando, disco, archivos, bitmap)
    BY <1>1, EnExit
  <1>3. /\ guardando' \in Pasos /\ guardando'.paso = "bitmaps" /\ guardando'.nodos = guardando.nodos
        /\ guardando'.faltan = guardando.faltan \ {n}
    BY <1>1, <1>2 DEF Pasos
  <1>4. EsPaso(guardando', conocidos, DOMAIN archivos)  BY <1>2, <1>3 DEF EsPaso
  <1>5. /\ EsDisco(disco') /\ disco'.tabla = disco.tabla /\ disco'.dirs = disco.dirs
        /\ disco'.archivos = disco.archivos
        /\ DOMAIN disco'.bitmaps = DOMAIN disco.bitmaps \cup {n} /\ disco'.bitmaps[n] = bitmap[n]
        /\ \A x \in DOMAIN disco.bitmaps : x # n => disco'.bitmaps[x] = disco.bitmaps[x]
    <2>1. bitmap[n] \in SUBSET Nat /\ bitmap[n] \subseteq 0..(Capacidad[n] - 1)  BY <1>2 DEF EsBits
    <2> QED  BY <1>1, <1>2, <2>1, ConBitmapEs
  <1>6. ASSUME dudas = {}
        PROVE  /\ Metadata(disco', viejos') /\ Dentro(Vigentes(disco', viejos'), archivos)
               /\ Salvado(guardando', disco', archivos, bitmap)
    <2>1. disco.tabla = Cortado  BY <1>2, <1>6 DEF Salvado
    <2>2. Metadata(disco', viejos) /\ Vigentes(disco', viejos) = Vigentes(disco, viejos)
      BY <1>2, <1>5, <1>6, <2>1, MetadataCortada
    <2>3. \A x \in guardando'.nodos \ guardando'.faltan : x \in DOMAIN disco'.bitmaps /\ disco'.bitmaps[x] = bitmap[x]
      BY <1>2, <1>3, <1>5, <1>6 DEF Salvado
    <2>4. Salvado(guardando', disco', archivos, bitmap)  BY <1>2, <1>3, <1>5, <1>6, <2>1, <2>3 DEF Salvado
    <2> QED  BY <1>1, <1>2, <1>6, <2>2, <2>4
  <1> QED  BY <1>1, <1>2, <1>4, <1>5, <1>6, PasoDeExit

LEMMA GuardarTablaNodosBien ==
  ASSUME TiposFS, Fieles, guardarTablaNodos
  PROVE  TiposFS' /\ Fieles'
  <1>1. /\ Guardando("bitmaps") /\ guardando.faltan = {}
        /\ disco' = ConTabla(disco, guardando.nodos) /\ guardando' = Paso("directorios", {}, {})
        /\ UNCHANGED <<sesion, fs, arranques, hayData, estable, conocidos, conectados, bitmap, archivos, viejos, dudas>>
    BY DEF guardarTablaNodos, Sigue, memoria, ConTabla
  <1>2. /\ fs = "vivo" /\ EsDisco(disco) /\ guardando \in Pasos /\ guardando.paso = "bitmaps"
        /\ EsArchivos(archivos) /\ conocidos \subseteq Nodos
        /\ dudas = {} => /\ Metadata(disco, viejos) /\ Dentro(Vigentes(disco, viejos), archivos)
                         /\ Salvado(guardando, disco, archivos, bitmap) /\ Aparte(archivos)
    BY <1>1, EnExit
  <1>3. guardando.nodos \in SUBSET Nodos  BY <1>2 DEF Pasos
  <1>4. guardando' \in Pasos /\ guardando'.paso = "directorios"  BY <1>1, PasoEs
  <1>5. EsPaso(guardando', conocidos, DOMAIN archivos)  BY <1>4 DEF EsPaso
  <1>6. /\ EsDisco(disco') /\ disco'.tabla = guardando.nodos /\ disco'.dirs = disco.dirs
        /\ disco'.archivos = disco.archivos /\ disco'.bitmaps = disco.bitmaps
    BY <1>1, <1>2, <1>3, ConTablaEs
  <1>7. ASSUME dudas = {}
        PROVE  /\ Metadata(disco', viejos') /\ Dentro(Vigentes(disco', viejos'), archivos)
               /\ Salvado(guardando', disco', archivos, bitmap)
    <2>1. Vigentes(disco', viejos) = Vigentes(disco, viejos)  BY <1>6 DEF Vigentes
    <2>2. \A q, k, u : Pone(archivos, q, k, u) => u.num \in bitmap[u.nodo]  BY <1>2, <1>7, MemoriaEs
    <2>3. Cubiertos(archivos, disco')
      BY <1>1, <1>2, <1>3, <1>6, <1>7, <2>2 DEF Cubiertos, Salvado
    <2>4. Sanas(Vigentes(disco, viejos)) /\ (disco.dirs = Nulo => SinLugares(Vigentes(disco, viejos)))
      BY <1>2, <1>7 DEF Metadata
    <2>5. Metadata(disco', viejos)  BY <1>2, <1>6, <1>7, <2>1, <2>3, <2>4, MetadataDe
    <2>6. Salvado(guardando', disco', archivos, bitmap)  BY <1>4, <2>3 DEF Salvado
    <2> QED  BY <1>1, <1>2, <1>7, <2>1, <2>5, <2>6
  <1> QED  BY <1>1, <1>2, <1>5, <1>6, <1>7, PasoDeExit

LEMMA GuardarTablaDirectorioBien ==
  ASSUME TiposFS, Fieles, guardarTablaDirectorio
  PROVE  TiposFS' /\ Fieles'
  <1>1. /\ Guardando("directorios")
        /\ disco' = ConDirs(disco, "bien") /\ guardando' = Paso("archivos", DOMAIN archivos, {})
        /\ UNCHANGED <<sesion, fs, arranques, hayData, estable, conocidos, conectados, bitmap, archivos, viejos, dudas>>
    BY DEF guardarTablaDirectorio, Sigue, memoria, ConDirs
  <1>2. /\ fs = "vivo" /\ EsDisco(disco) /\ guardando.paso = "directorios" /\ EsArchivos(archivos)
        /\ dudas = {} => /\ Metadata(disco, viejos) /\ Dentro(Vigentes(disco, viejos), archivos)
                         /\ Salvado(guardando, disco, archivos, bitmap) /\ Aparte(archivos)
    BY <1>1, EnExit
  <1>3. DOMAIN archivos \in SUBSET (Nodos \cup Rutas)  BY <1>2 DEF EsArchivos
  <1>4. guardando' \in Pasos /\ guardando'.paso = "archivos" /\ guardando'.faltan = DOMAIN archivos
    BY <1>1, <1>3, PasoEs
  <1>5. EsPaso(guardando', conocidos, DOMAIN archivos)  BY <1>4 DEF EsPaso
  <1>6. /\ EsDisco(disco') /\ disco'.tabla = disco.tabla /\ disco'.dirs = "bien"
        /\ disco'.archivos = disco.archivos /\ disco'.bitmaps = disco.bitmaps
    BY <1>1, <1>2, ConDirsEs
  <1>7. ASSUME dudas = {}
        PROVE  /\ Metadata(disco', viejos') /\ Dentro(Vigentes(disco', viejos'), archivos)
               /\ Salvado(guardando', disco', archivos, bitmap)
    <2>1. Vigentes(disco', viejos) = Vigentes(disco, viejos)  BY <1>6 DEF Vigentes
    <2>2. Cubiertos(archivos, disco')  BY <1>2, <1>6, <1>7 DEF Cubiertos, Salvado
    <2>3. Sanas(Vigentes(disco, viejos))  BY <1>2, <1>7 DEF Metadata
    <2>4. "bien" # Nulo  BY SupuestoPersistencia
    <2>5. Metadata(disco', viejos)  BY <1>2, <1>6, <1>7, <2>1, <2>2, <2>3, <2>4, MetadataDe
    <2>6. Salvado(guardando', disco', archivos, bitmap)  BY <1>4, <1>6, <2>2 DEF Salvado
    <2> QED  BY <1>1, <1>2, <1>7, <2>1, <2>5, <2>6
  <1> QED  BY <1>1, <1>2, <1>5, <1>6, <1>7, PasoDeExit

\* A file is saved, or its file is left empty, after the table and the directories.
LEMMA ArchivoSalvado ==
  ASSUME TiposFS, Fieles, Guardando("archivos"), NEW r \in guardando.faltan, NEW s \in {archivos[r], Cortado}
  PROVE  LET e == ConArchivo(disco, r, s)
         IN  /\ EsDisco(e)
             /\ dudas = {} => /\ Metadata(e, viejos \ {r}) /\ Dentro(Vigentes(e, viejos \ {r}), archivos)
                              /\ Cubiertos(archivos, e) /\ e.dirs = "bien"
  <1> DEFINE e == ConArchivo(disco, r, s)
             E == Vigentes(e, viejos \ {r})
             D == Vigentes(disco, viejos)
  <1>1. /\ fs = "vivo" /\ EsDisco(disco) /\ guardando.paso = "archivos" /\ EsArchivos(archivos)
        /\ EsPaso(guardando, conocidos, DOMAIN archivos)
        /\ dudas = {} => /\ Metadata(disco, viejos) /\ Dentro(D, archivos)
                         /\ Salvado(guardando, disco, archivos, bitmap) /\ Aparte(archivos) /\ Sanas(archivos)
    BY EnExit
  <1>2. r \in DOMAIN archivos /\ r \in Rutas /\ s \in Seq(Bloque) \cup {Cortado}
    BY <1>1 DEF EsPaso, EsArchivos
  <1>3. /\ EsDisco(e) /\ e.tabla = disco.tabla /\ e.bitmaps = disco.bitmaps /\ e.dirs = disco.dirs
        /\ \A q \in DOMAIN E : \/ q \in DOMAIN D /\ E[q] = D[q]
                               \/ q = r /\ E[q] = archivos[q]
    <2>1. EsDisco(disco) /\ r \in Rutas  BY <1>1, <1>2
    <2>2. /\ EsDisco(e) /\ e.tabla = disco.tabla /\ e.bitmaps = disco.bitmaps /\ e.dirs = disco.dirs
          /\ \A q \in DOMAIN E : \/ q \in DOMAIN D /\ E[q] = D[q]
                                 \/ q = r /\ E[q] = s /\ s # Cortado
      BY <1>2, <2>1, ConArchivoEs
    <2>3. s # Cortado => s = archivos[r]  OBVIOUS
    <2> HIDE DEF e, E, D
    <2> QED  BY <2>2, <2>3
  <1> HIDE DEF e, E, D
  <1>4. ASSUME dudas = {}
        PROVE  Metadata(e, viejos \ {r}) /\ Dentro(E, archivos) /\ Cubiertos(archivos, e) /\ e.dirs = "bien"
    <2>1. Dentro(E, archivos)  BY <1>1, <1>2, <1>3, <1>4 DEF Dentro, Pone
    <2>2. Cubiertos(archivos, e) /\ e.dirs = "bien"  BY <1>1, <1>3, <1>4 DEF Cubiertos, Salvado
    <2>3. Sanas(E)
      <3>1. Sanas(D)  BY <1>1, <1>4 DEF Metadata, D
      <3>2. \A q \in DOMAIN D : \A k \in DOMAIN D[q] : Distintas(D[q][k])  BY <3>1, SanasEs
      <3>3. \A q \in DOMAIN archivos : \A k \in DOMAIN archivos[q] : Distintas(archivos[q][k])
        BY <1>1, <1>4, SanasEs
      <3>4. \A q \in DOMAIN E : \A k \in DOMAIN E[q] : Distintas(E[q][k])  BY <1>2, <1>3, <3>2, <3>3
      <3> QED  BY <3>4, SanasEs
    <2>4. "bien" # Nulo  BY SupuestoPersistencia
    <2>5. Metadata(e, viejos \ {r})
      <3>1. EsDisco(e) /\ Aparte(archivos)  BY <1>1, <1>3, <1>4
      <3> QED  BY <2>1, <2>2, <2>3, <2>4, <3>1, MetadataDe DEF E
    <2> QED  BY <2>1, <2>2, <2>5
  <1> QED  BY <1>3, <1>4 DEF e, E

LEMMA PersistirArchivoBien ==
  ASSUME TiposFS, Fieles, NEW r \in Rutas, persistirArchivo(r)
  PROVE  TiposFS' /\ Fieles'
  <1>1. /\ Guardando("archivos") /\ r \in guardando.faltan
        /\ UNCHANGED <<sesion, arranques, hayData, estable, conocidos, conectados, bitmap, archivos, dudas>>
    BY DEF persistirArchivo, Sigue, memoria
  <1>2. /\ fs = "vivo" /\ guardando \in Pasos /\ guardando.paso = "archivos"
        /\ EsPaso(guardando, conocidos, DOMAIN archivos)
    BY <1>1, EnExit
  <1>3. CASE fs' = "indefinido" /\ UNCHANGED <<disco, guardando, viejos>>
    <2>1. Indefinido  BY <1>1, <1>3 DEF Indefinido, memoria
    <2> QED  BY <1>2, <2>1, IndefinidoBien
  <1>4. CASE /\ disco' = ConArchivo(disco, r, archivos[r])
             /\ guardando' = [guardando EXCEPT !.faltan = @ \ {r}]
             /\ viejos' = viejos \ {r} /\ UNCHANGED fs
    <2>1. /\ EsDisco(disco')
          /\ dudas = {} => /\ Metadata(disco', viejos') /\ Dentro(Vigentes(disco', viejos'), archivos)
                           /\ Cubiertos(archivos, disco') /\ disco'.dirs = "bien"
      BY <1>1, <1>4, ArchivoSalvado
    <2>2. /\ guardando' \in Pasos /\ guardando'.paso = "archivos" /\ guardando'.faltan = guardando.faltan \ {r}
      BY <1>2, <1>4 DEF Pasos
    <2>3. EsPaso(guardando', conocidos, DOMAIN archivos)  BY <1>2, <2>2 DEF EsPaso
    <2>4. dudas = {} => Salvado(guardando', disco', archivos, bitmap)  BY <2>1, <2>2 DEF Salvado
    <2> QED  BY <1>1, <1>2, <1>4, <2>1, <2>3, <2>4, PasoDeExit
  <1> QED  BY <1>3, <1>4 DEF persistirArchivo, ConArchivo

\* The process ends: only what is on disk is left.
LEMMA ApagaBien ==
  ASSUME TiposFS, Apaga, EsDisco(disco'), dudas = {} => Metadata(disco', viejos')
  PROVE  TiposFS' /\ Fieles'
  <1>1. fs' = "apagado" /\ UNCHANGED <<sesion, arranques, dudas>> /\ SinMemoria'  BY DEF Apaga, SinMemoria
  <1>2. TiposFS'
    <2>1. sesion' \in Sesiones /\ arranques' \in 0..sesion'.arranques  BY <1>1 DEF TiposFS
    <2> QED  BY <1>1, <2>1, SinMemoriaDespues DEF TiposFS
  <1>3. Fieles'  BY <1>1 DEF Fieles
  <1> QED  BY <1>2, <1>3

LEMMA FinExitBien ==
  ASSUME TiposFS, Fieles, Apaga, UNCHANGED <<disco, viejos>>
  PROVE  TiposFS' /\ Fieles'
  BY ApagaBien DEF TiposFS, Fieles

LEMMA MatarBien ==
  ASSUME TiposFS, Fieles, matar
  PROVE  TiposFS' /\ Fieles'
  <1>1. Apaga  BY DEF matar
  <1>2. CASE UNCHANGED <<disco, viejos>>  BY <1>1, <1>2, FinExitBien
  <1>3. CASE Guardando("directorios") /\ disco' = ConDirs(disco, Cortado) /\ viejos' = viejos
    <2>1. EsDisco(disco) /\ (dudas = {} => Metadata(disco, viejos))  BY <1>3, EnExit
    <2>2. /\ EsDisco(disco') /\ disco'.tabla = disco.tabla /\ disco'.dirs = Cortado
          /\ disco'.archivos = disco.archivos
      BY <1>3, <2>1, ConDirsEs
    <2>3. Vigentes(disco', viejos) = Vigentes(disco, viejos)  BY <2>2 DEF Vigentes
    <2>4. Cortado # Nulo /\ Cortado # "bien"  BY SupuestoPersistencia
    <2>5. dudas = {} => Metadata(disco', viejos')  BY <1>3, <2>1, <2>2, <2>3, <2>4 DEF Metadata
    <2> QED  BY <1>1, <2>2, <2>5, ApagaBien
  <1>4. ASSUME Guardando("archivos"), NEW r \in guardando.faltan, disco' = ConArchivo(disco, r, Cortado),
               viejos' = viejos \ {r}
        PROVE  TiposFS' /\ Fieles'
    <2>1. EsDisco(disco') /\ (dudas = {} => Metadata(disco', viejos'))  BY <1>4, ArchivoSalvado
    <2> QED  BY <1>1, <2>1, ApagaBien
  <1> QED  BY <1>2, <1>3, <1>4 DEF matar, ConDirs, ConArchivo

-----------------------------------------------------------------------------
(* The start, and the nodes                                                *)

\* Where there are no places, nothing is missing.
LEMMA DentroVacio ==
  ASSUME NEW A, SinLugares(A), NEW B
  PROVE  Dentro(A, B)
  BY SinLugaresEs DEF Dentro

\* A block whose list is empty is read with the list that malloc left, or none.
LEMMA ListaVacia ==
  ASSUME NEW b \in Bloque, Otras(b) = <<>>, NEW p \in {Nulo, Basura}
  PROVE  LET s == [b EXCEPT !.otras = p]
         IN  s \in Bloque /\ Otras(s) = <<>> /\ Reales(s) = Reales(b) /\ (Distintas(b) => Distintas(s))
  <1> DEFINE s == [b EXCEPT !.otras = p]
  <1>1. s \in Bloque /\ s.c0 = b.c0 /\ s.c1 = b.c1 /\ s.otras = p  BY CambiaOtras
  <1> HIDE DEF s
  <1>2. Otras(s) = <<>>  BY <1>1 DEF Otras
  <1>3. Reales(s) = Reales(b)  BY <1>1, <1>2 DEF Reales, Copias
  <1>4. Distintas(b) => Distintas(s)  BY <1>1, <1>2 DEF Distintas
  <1> QED  BY <1>1, <1>2, <1>3, <1>4 DEF s

\* What the start reads of a file has the blocks that were saved, with their places.
LEMMA CargasEs ==
  ASSUME NEW s \in Seq(Bloque), NEW t \in Cargas(SinVacias(s))
  PROVE  /\ t \in Seq(Bloque) /\ DOMAIN t = DOMAIN s
         /\ \A i \in DOMAIN s : Reales(t[i]) = Reales(s[i]) /\ (Distintas(s[i]) => Distintas(t[i]))
  <1> DEFINE v == SinVacias(s)
  <1>1. v = [i \in DOMAIN s |-> IF s[i].otras = <<>> THEN [s[i] EXCEPT !.otras = Nulo] ELSE s[i]]
    BY DEF SinVacias
  <1>2. DOMAIN v = DOMAIN s  BY <1>1
  <1>3. /\ t \in [DOMAIN v -> UNION {{b, [b EXCEPT !.otras = Basura]} : b \in ToSet(v)}]
        /\ \A i \in DOMAIN v : t[i] = v[i] \/ (Otras(v[i]) = <<>> /\ t[i] = [v[i] EXCEPT !.otras = Basura])
    BY DEF Cargas
  <1> HIDE DEF v
  <1>4. ASSUME NEW i \in DOMAIN s
        PROVE  t[i] \in Bloque /\ Reales(t[i]) = Reales(s[i]) /\ (Distintas(s[i]) => Distintas(t[i]))
    <2>1. s[i] \in Bloque  OBVIOUS
    <2>2. v[i] \in Bloque /\ Reales(v[i]) = Reales(s[i]) /\ (Distintas(s[i]) => Distintas(v[i]))
      <3>1. CASE s[i].otras = <<>>
        <4>1. Otras(s[i]) = <<>>  BY <3>1 DEF Otras
        <4>2. v[i] = [s[i] EXCEPT !.otras = Nulo]  BY <1>1, <3>1
        <4> QED  BY <2>1, <4>1, <4>2, ListaVacia
      <3>2. CASE s[i].otras # <<>>  BY <1>1, <2>1, <3>2
      <3> QED  BY <3>1, <3>2
    <2>3. CASE t[i] = v[i]  BY <2>2, <2>3
    <2>4. CASE Otras(v[i]) = <<>> /\ t[i] = [v[i] EXCEPT !.otras = Basura]  BY <2>2, <2>4, ListaVacia
    <2> QED  BY <1>2, <1>3, <2>3, <2>4
  <1>5. DOMAIN t = DOMAIN s  BY <1>2, <1>3
  <1>6. t \in Seq(Bloque)
    <2>1. DOMAIN s = 1..Len(s) /\ Len(s) \in Nat  OBVIOUS
    <2>2. t = [i \in DOMAIN t |-> t[i]]  BY <1>3
    <2>3. t \in [1..Len(s) -> Bloque]  BY <1>4, <1>5, <2>1, <2>2
    <2> QED  BY <2>1, <2>3, SeqDef
  <1> QED  BY <1>4, <1>5, <1>6

LEMMA SinMemoriaSiempre ==
  ASSUME SinMemoria, NEW d, NEW v, Metadata(d, v), SinLugares(Vigentes(d, v))
  PROVE  Guardadas(archivos, bitmap, conocidos) /\ Dentro(Vigentes(d, v), archivos) /\ guardando = Nulo
  BY SinArchivos, SinLugaresGuardadas, DentroVacio DEF SinMemoria

LEMMA ArrancarBien ==
  ASSUME TiposFS, Fieles, arrancar
  PROVE  TiposFS' /\ Fieles'
  <1>1. /\ fs = "apagado" /\ arranques < sesion.arranques /\ arranques' = arranques + 1
        /\ UNCHANGED <<sesion, estable, conectados, guardando, disco, viejos>>
    BY DEF arrancar
  <1>2. /\ EsDisco(disco) /\ SinMemoria /\ sesion \in Sesiones /\ arranques \in 0..sesion.arranques
        /\ EsBits(bitmap) /\ EsArchivos(archivos) /\ guardando = Nulo /\ conectados = {}
        /\ hayData \in BOOLEAN /\ estable \in BOOLEAN /\ conocidos \subseteq Nodos
    BY <1>1, SinMemoriaEs DEF TiposFS, SinMemoria
  <1>3. arranques' \in 0..sesion'.arranques
    <2>1. sesion.arranques \in Nat  BY <1>2, SupuestoSesiones
    <2> QED  BY <1>1, <1>2, <2>1
  <1>4. CASE /\ disco.dirs = Nulo \/ (disco.dirs = "bien" /\ disco.tabla = Nulo)
             /\ fs' = "vivo"
             /\ UNCHANGED <<hayData, conocidos, bitmap, archivos, dudas>>
    <2>1. TiposFS'  BY <1>1, <1>2, <1>3, <1>4 DEF TiposFS
    <2>2. ASSUME dudas = {}
          PROVE  /\ Metadata(disco, viejos) /\ Guardadas(archivos, bitmap, conocidos)
                 /\ Dentro(Vigentes(disco, viejos), archivos)
      <3>1. Metadata(disco, viejos)  BY <2>2 DEF Fieles
      <3>2. SinLugares(Vigentes(disco, viejos))  BY <1>4, <3>1 DEF Metadata
      <3> QED  BY <1>2, <3>1, <3>2, SinMemoriaSiempre
    <2>3. Fieles'  BY <1>1, <1>2, <1>4, <2>2 DEF Fieles
    <2> QED  BY <2>1, <2>3
  <1>5. CASE fs' \in {"roto", "indefinido"} /\ UNCHANGED <<hayData, conocidos, bitmap, archivos, dudas>>
    <2>1. TiposFS'  BY <1>1, <1>2, <1>3, <1>5 DEF TiposFS, SinMemoria
    <2>2. Fieles'  BY <1>1, <1>5 DEF Fieles
    <2> QED  BY <2>1, <2>2
  <1>6. CASE /\ disco.dirs = "bien" /\ disco.tabla \notin {Nulo, Cortado}
             /\ fs' = "vivo" /\ hayData' = TRUE
             /\ conocidos' = disco.tabla \cap DOMAIN disco.bitmaps
             /\ bitmap' = Bitmaps(conocidos')
             /\ archivos' \in {a \in [EnDisco -> UNION {Cargas(SinVacias(disco.archivos[r])) : r \in EnDisco}] :
                                 \A r \in EnDisco : a[r] \in Cargas(SinVacias(disco.archivos[r]))}
             /\ dudas' = IF viejos # {} THEN dudas \cup {"viejos"} ELSE dudas
    <2> DEFINE V == Vigentes(disco, {})
    <2>1. /\ DOMAIN disco.bitmaps \subseteq Nodos /\ disco.bitmaps \in [DOMAIN disco.bitmaps -> SUBSET Nat]
          /\ \A n \in DOMAIN disco.bitmaps : disco.bitmaps[n] \subseteq 0..(Capacidad[n] - 1)
      BY <1>2, DiscoEs DEF EsDisco
    <2>2. /\ conocidos' \subseteq Nodos /\ conocidos' \subseteq DOMAIN disco.bitmaps
          /\ \A n \in conocidos' : bitmap'[n] = disco.bitmaps[n]
          /\ bitmap' = [n \in Nodos |-> IF n \in conocidos' THEN disco.bitmaps[n] ELSE {}]
      BY <1>6, <2>1 DEF Bitmaps
    <2>3. EsBits(bitmap')
      <3>1. \A n \in Nodos : bitmap'[n] \in SUBSET Nat /\ bitmap'[n] \subseteq 0..(Capacidad[n] - 1)
        BY <2>1, <2>2
      <3> QED  BY <2>2, <3>1 DEF EsBits
    <2>4. /\ EsArchivos(V) /\ DOMAIN V = EnDisco /\ \A r \in EnDisco : V[r] = disco.archivos[r]
      <3>1. \A r : r \in DOMAIN V <=> r \in EnDisco  BY <1>2, VigentesEs DEF EnDisco
      <3>2. EsArchivos(V) /\ \A r \in DOMAIN V : V[r] = disco.archivos[r]  BY <1>2, VigentesEs
      <3> HIDE DEF V
      <3> QED  BY <3>1, <3>2
    <2> HIDE DEF V
    <2>5. DOMAIN archivos' = EnDisco /\ archivos' = [r \in EnDisco |-> archivos'[r]]  BY <1>6
    <2>6. \A r \in EnDisco : archivos'[r] \in Cargas(SinVacias(V[r])) /\ V[r] \in Seq(Bloque) /\ r \in Rutas
      BY <1>6, <2>4 DEF EsArchivos
    <2>7. \A r \in EnDisco :
            /\ archivos'[r] \in Seq(Bloque) /\ DOMAIN archivos'[r] = DOMAIN V[r]
            /\ \A i \in DOMAIN V[r] :
                 Reales(archivos'[r][i]) = Reales(V[r][i]) /\ (Distintas(V[r][i]) => Distintas(archivos'[r][i]))
      BY <2>6, CargasEs
    <2>8. EsArchivos(archivos')  BY <2>5, <2>6, <2>7 DEF EsArchivos
    <2>9. \A r, i, u : Pone(archivos', r, i, u) <=> Pone(V, r, i, u)  BY <2>4, <2>5, <2>7 DEF Pone
    <2>10. TiposFS'  BY <1>1, <1>2, <1>3, <1>6, <2>2, <2>3, <2>8 DEF TiposFS
    <2>11. ASSUME dudas' = {}
           PROVE  /\ Metadata(disco, viejos) /\ Guardadas(archivos', bitmap', conocidos')
                  /\ Dentro(Vigentes(disco, viejos), archivos')
      <3>1. viejos = {} /\ dudas = {}  BY <1>6, <2>11
      <3>2. Metadata(disco, viejos) /\ Vigentes(disco, viejos) = V  BY <3>1 DEF Fieles, V
      <3>3. Sanas(V) /\ Aparte(V) /\ Marcados(V, disco.bitmaps, conocidos')  BY <1>6, <3>2 DEF Metadata
      <3>4. Sanas(archivos')
        <4>1. \A r \in EnDisco : \A i \in DOMAIN V[r] : Distintas(V[r][i])  BY <2>4, <3>3, SanasEs
        <4> QED  BY <2>5, <2>7, <4>1, SanasEs
      <3>5. Dentro(V, archivos') /\ Dentro(archivos', V)  BY <2>9 DEF Dentro
      <3>6. Aparte(archivos') /\ Marcados(archivos', disco.bitmaps, conocidos')  BY <3>3, <3>5, DentroEs
      <3>7. Marcados(archivos', bitmap', conocidos')  BY <2>2, <3>6 DEF Marcados
      <3> QED  BY <3>2, <3>4, <3>5, <3>6, <3>7 DEF Guardadas
    <2>12. Fieles'  BY <1>1, <1>2, <2>11 DEF Fieles
    <2> QED  BY <2>10, <2>12
  <1> QED  BY <1>4, <1>5, <1>6 DEF arrancar

LEMMA ArrancarLimpioBien ==
  ASSUME TiposFS, Fieles, arrancarLimpio
  PROVE  TiposFS' /\ Fieles'
  <1>1. /\ fs \in {"apagado", "roto"} /\ arranques < sesion.arranques /\ arranques' = arranques + 1
        /\ fs' = "vivo" /\ disco' = SinDatos /\ viejos' = {}
        /\ UNCHANGED <<sesion, hayData, estable, conocidos, conectados, bitmap, archivos, guardando>>
    BY DEF arrancarLimpio, memoria
  <1>2. SinMemoria /\ sesion \in Sesiones /\ arranques \in 0..sesion.arranques  BY <1>1 DEF TiposFS
  <1>3. arranques' \in 0..sesion'.arranques
    <2>1. sesion.arranques \in Nat  BY <1>2, SupuestoSesiones
    <2> QED  BY <1>1, <1>2, <2>1
  <1>4. TiposFS'  BY <1>1, <1>2, <1>3, SinMemoriaEs, SinDatosEs DEF TiposFS
  <1>5. Metadata(SinDatos, {}) /\ SinLugares(Vigentes(SinDatos, {}))  BY SinDatosEs
  <1>6. /\ Guardadas(archivos, bitmap, conocidos) /\ Dentro(Vigentes(SinDatos, {}), archivos)
        /\ guardando = Nulo
    BY <1>2, <1>5, SinMemoriaSiempre
  <1>7. Fieles'  BY <1>1, <1>5, <1>6 DEF Fieles
  <1> QED  BY <1>4, <1>7

LEMMA AsociarNodoBien ==
  ASSUME TiposFS, Fieles, NEW n \in Nodos, asociarNodo(n)
  PROVE  TiposFS' /\ Fieles'
  <1>1. /\ fs = "vivo" /\ conocidos' = conocidos \cup {n} /\ conectados' = conectados \cup {n}
        /\ UNCHANGED <<sesion, arranques, hayData, bitmap, archivos, guardando, disco, viejos, dudas>>
        /\ fs' \in {"vivo", "indefinido"} /\ estable' \in BOOLEAN
    BY DEF asociarNodo, TiposFS
  <1>2. guardando # Nulo => EsPaso(guardando, conocidos', DOMAIN archivos)
    BY <1>1 DEF TiposFS, EsPaso
  <1>3. TiposFS'  BY <1>1, <1>2 DEF TiposFS
  <1>4. Fieles'
    <2> SUFFICES ASSUME dudas = {}
                 PROVE  /\ Metadata(disco, viejos) /\ Guardadas(archivos, bitmap, conocidos')
                        /\ Dentro(Vigentes(disco, viejos), archivos)
                        /\ guardando # Nulo => Salvado(guardando, disco, archivos, bitmap)
      BY <1>1 DEF Fieles
    <2>1. Guardadas(archivos, bitmap, conocidos)  BY <1>1 DEF Fieles
    <2>2. Guardadas(archivos, bitmap, conocidos')  BY <1>1, <2>1 DEF Guardadas, Marcados
    <2> QED  BY <1>1, <2>2 DEF Fieles
  <1> QED  BY <1>3, <1>4

LEMMA MarcarNodoDesconectadoBien ==
  ASSUME TiposFS, Fieles, NEW n \in Nodos, marcarNodoDesconectado(n)
  PROVE  TiposFS' /\ Fieles'
  <1>1. /\ fs = "vivo" /\ conectados' = conectados \ {n}
        /\ UNCHANGED <<sesion, fs, arranques, hayData, estable, conocidos, bitmap, archivos, guardando,
                       disco, viejos, dudas>>
    BY DEF marcarNodoDesconectado
  <1>2. TiposFS'  BY <1>1 DEF TiposFS
  <1>3. Fieles'  BY <1>1 DEF Fieles
  <1> QED  BY <1>2, <1>3

-----------------------------------------------------------------------------
(* YAMA                                                                    *)

\* What YAMA does on its own side changes nothing in the FileSystem.
LEMMA NadaBien ==
  ASSUME TiposFS, Fieles, UNCHANGED varsP
  PROVE  TiposFS' /\ Fieles'
  <1>1. UNCHANGED <<sesion, fs, arranques, hayData, estable, conocidos, conectados, bitmap, archivos, guardando,
                    disco, viejos, dudas>>
    BY DEF varsP, memoria
  <1>2. TiposFS'  BY <1>1 DEF TiposFS, SinMemoria
  <1>3. Fieles'  BY <1>1 DEF Fieles
  <1> QED  BY <1>2, <1>3

LEMMA CortaBien ==
  ASSUME TiposYama, Corta
  PROVE  TiposYama'
  <1>1. CASE UNCHANGED varsY  BY <1>1 DEF TiposYama, varsY
  <1>2. CASE /\ sockFS' = IF sockFS = "fs" THEN "perdido" ELSE sockFS
             /\ pedido' = Nulo /\ semaforo' = "libre" /\ UNCHANGED <<yama, canal>>
    BY <1>2 DEF TiposYama
  <1> QED  BY <1>1, <1>2 DEF Corta

LEMMA DeYamaBien ==
  ASSUME TiposYama, DeYama
  PROVE  TiposYama' /\ UNCHANGED varsP /\ (canal' = canal \/ canal' = Nulo)
  <1>1. CASE yamaArranca  BY <1>1 DEF yamaArranca, TiposYama
  <1>2. CASE doConnect  BY <1>2 DEF doConnect, TiposYama
  <1>3. CASE iniciarConexionAFS  BY <1>3 DEF iniciarConexionAFS, TiposYama
  <1>4. CASE aceptarMaster  BY <1>4 DEF aceptarMaster, TiposYama
  <1>5. CASE planificar  BY <1>5 DEF planificar, TiposYama
  <1>6. CASE respuestaSinLeer  BY <1>6 DEF respuestaSinLeer, TiposYama
  <1>7. CASE yamaMuere  BY <1>7 DEF yamaMuere, TiposYama
  <1>8. ASSUME NEW r \in Rutas, pedir(r) PROVE TiposYama' /\ UNCHANGED varsP /\ (canal' = canal \/ canal' = Nulo)
    BY <1>8 DEF pedir, TiposYama
  <1> QED  BY <1>1, <1>2, <1>3, <1>4, <1>5, <1>6, <1>7, <1>8 DEF DeYama

LEMMA AtenderYamaBien ==
  ASSUME TiposYama, atenderYama
  PROVE  TiposYama' /\ UNCHANGED varsP
  BY DEF atenderYama, TiposYama

LEMMA TrabaSemaforoBien ==
  ASSUME TiposYama, trabaSemaforo
  PROVE  TiposYama' /\ UNCHANGED varsP /\ canal' = canal
  BY DEF trabaSemaforo, TiposYama

LEMMA ResponderYamaBien ==
  ASSUME TiposFS, TiposYama, Fieles, responderYAMA
  PROVE  TiposFS' /\ TiposYama' /\ Fieles'
  <1>1. fs = "vivo" /\ pedido' = Nulo /\ UNCHANGED <<yama, sockFS, semaforo>>  BY DEF responderYAMA
  <1>2. canal' = canal \/ (yama = "pide")  BY DEF responderYAMA, NoEsta
  <1>3. TiposYama'  BY <1>1, <1>2 DEF TiposYama
  <1>4. UNCHANGED varsP \/ (Apaga /\ UNCHANGED <<disco, viejos>>) \/ Indefinido  BY DEF responderYAMA
  <1>5. TiposFS' /\ Fieles'  BY <1>1, <1>4, NadaBien, FinExitBien, IndefinidoBien
  <1> QED  BY <1>3, <1>5

-----------------------------------------------------------------------------
(* The theorems                                                            *)

LEMMA ConsolaBien ==
  ASSUME TiposFS, Fieles, ConMutex \/ SinMutex
  PROVE  TiposFS' /\ Fieles'
  <1>1. CASE \E r \in Rutas : guardar(r)  BY <1>1, GuardarBien
  <1>2. CASE \E r \in Rutas, i \in 1..MaxBloques, n \in Nodos : cpblock(r, i, n)  BY <1>2, CpblockBien
  <1>3. CASE \E r \in Rutas : rm(r) \/ persistirArchivo(r)  BY <1>3, RmBien, PersistirArchivoBien
  <1>4. CASE \E r \in Rutas, i \in 1..MaxBloques, c \in {"c0", "c1", "otra"} : rmBloque(r, i, c)
    BY <1>4, RmBloqueBien
  <1>5. CASE \E n \in Nodos : persistirNodo(n)  BY <1>5, PersistirNodoBien
  <1>6. CASE formatFileSystem  BY <1>6, FormatBien
  <1>7. CASE exit  BY <1>7, ExitBien
  <1>8. CASE guardarTablaNodos  BY <1>8, GuardarTablaNodosBien
  <1>9. CASE guardarTablaDirectorio  BY <1>9, GuardarTablaDirectorioBien
  <1>10. CASE finExit  BY <1>10, FinExitBien DEF finExit
  <1> QED  BY <1>1, <1>2, <1>3, <1>4, <1>5, <1>6, <1>7, <1>8, <1>9, <1>10 DEF ConMutex, SinMutex

LEMMA VidaBien ==
  ASSUME TiposFS, Fieles, Vida
  PROVE  TiposFS' /\ Fieles'
  BY ArrancarBien, ArrancarLimpioBien, MatarBien DEF Vida

LEMMA PasoBien ==
  ASSUME Invariante, [Next]_vars
  PROVE  Invariante'
  <1> USE DEF Invariante
  <1>1. CASE UNCHANGED vars
    <2>1. UNCHANGED varsP /\ UNCHANGED varsY  BY <1>1 DEF vars
    <2>2. TiposYama'  BY <2>1 DEF TiposYama, varsY
    <2> QED  BY <2>1, <2>2, NadaBien
  <1>2. CASE (ConMutex \/ SinMutex \/ Vida \/ \E n \in Nodos : asociarNodo(n)) /\ Corta
    BY <1>2, ConsolaBien, VidaBien, AsociarNodoBien, CortaBien
  <1>3. CASE \E n \in Nodos : marcarNodoDesconectado(n)
    <2>1. UNCHANGED varsY  BY <1>3 DEF marcarNodoDesconectado, varsY
    <2>2. TiposYama'  BY <2>1 DEF TiposYama, varsY
    <2> QED  BY <1>3, <2>2, MarcarNodoDesconectadoBien
  <1>4. CASE DeYama  BY <1>4, DeYamaBien, NadaBien
  <1>5. CASE atenderYama  BY <1>5, AtenderYamaBien, NadaBien
  <1>6. CASE responderYAMA  BY <1>6, ResponderYamaBien
  <1>7. CASE trabaSemaforo  BY <1>7, TrabaSemaforoBien, NadaBien
  <1> QED  BY <1>1, <1>2, <1>3, <1>4, <1>5, <1>6, <1>7 DEF Next

LEMMA SiempreBien == Spec => []Invariante
  <1>1. Invariante /\ [Next]_vars => Invariante'  BY PasoBien
  <1> QED  BY <1>1, InicioBien, PTL DEF Spec

LEMMA TypeOKSigue == Invariante => TypeOKConexiones
  <1> SUFFICES ASSUME Invariante PROVE TypeOKConexiones  OBVIOUS
  <1>1. TiposFS /\ TiposYama  BY DEF Invariante
  <1>2. \A n \in Nodos : bitmap[n] \subseteq 0..(Capacidad[n] - 1)  BY <1>1 DEF TiposFS, EsBits
  <1>3. \A b \in BloquesDe(archivos) : b \in Bloque
    <2> TAKE b \in BloquesDe(archivos)
    <2>1. PICK r \in DOMAIN archivos : \E i \in DOMAIN archivos[r] : b = archivos[r][i]  BY BloquesSon
    <2>2. archivos[r] \in Seq(Bloque)  BY <1>1 DEF TiposFS, EsArchivos
    <2> QED  BY <2>1, <2>2
  <1> QED  BY <1>1, <1>2, <1>3 DEF TypeOKConexiones, TiposFS, TiposYama

\* Every copy is of a node and has a bit it has, or none; nodes are connected only if known;
\* and YAMA has an answer only to what it asked.
THEOREM TypeOKSiempre == Spec => []TypeOKConexiones
  BY SiempreBien, TypeOKSigue, PTL

\* Commands, saving, kills and starts in any order never leave a file with a block whose bit
\* is clear or whose node is unknown, nor two files with a block in common.
THEOREM MarcadosSiempre == Spec => []BloquesMarcados
  <1>1. Invariante => BloquesMarcados  BY DEF Invariante, Fieles, Guardadas, BloquesMarcados
  <1> QED  BY <1>1, SiempreBien, PTL

\* The first of the other copies that is on a third node that is connected.
LEMMA PrimeraEs ==
  ASSUME NEW b \in Bloque, NEW con, Terceras(b, con) # {}
  PROVE  (CHOOSE i \in Terceras(b, con) : \A k \in Terceras(b, con) : i <= k) \in Terceras(b, con)
  <1> DEFINE T == Terceras(b, con)
  <1>1. Otras(b) \in Seq(Lugar)  BY OtrasEs
  <1>2. T \in SUBSET Nat  BY <1>1 DEF Terceras
  <1> HIDE DEF T
  <1>3. T # {}  BY DEF T
  <1>4. \E i \in T : \A k \in T : i <= k  BY <1>2, <1>3, Menor
  <1>5. (CHOOSE i \in T : \A k \in T : i <= k) \in T  BY <1>4
  <1> QED  BY <1>5 DEF T

\* What is in a list of one or two.
LEMMA DosEs ==
  ASSUME NEW x, NEW y
  PROVE  x \in ToSet(<<x>> \o <<>>) /\ {x, y} \subseteq ToSet(<<x>> \o <<y>>) /\ x \in ToSet(<<x, y>>)
  <1> DEFINE S == {x, y}
  <1>1. /\ <<x>> \in Seq(S) /\ <<y>> \in Seq(S) /\ <<>> \in Seq(S)
        /\ Len(<<x>>) = 1 /\ Len(<<y>>) = 1 /\ Len(<<>>) = 0 /\ <<x>>[1] = x /\ <<y>>[1] = y
    OBVIOUS
  <1>2. (<<x>> \o <<>>)[1] = x /\ DOMAIN (<<x>> \o <<>>) = 1..1  BY <1>1
  <1>3. (<<x>> \o <<y>>)[1] = x /\ (<<x>> \o <<y>>)[2] = y /\ DOMAIN (<<x>> \o <<y>>) = 1..2  BY <1>1
  <1>4. <<x, y>>[1] = x /\ DOMAIN <<x, y>> = 1..2  OBVIOUS
  <1>5. 1 \in 1..1 /\ 1 \in 1..2 /\ 2 \in 1..2  OBVIOUS
  <1>6. \A s : \A i \in DOMAIN s : s[i] \in ToSet(s)  BY DEF ToSet
  <1>7. x \in ToSet(<<x>> \o <<>>)  BY <1>2, <1>5, <1>6
  <1>8. x \in ToSet(<<x>> \o <<y>>) /\ y \in ToSet(<<x>> \o <<y>>)  BY <1>3, <1>5, <1>6
  <1>9. x \in ToSet(<<x, y>>)  BY <1>4, <1>5, <1>6
  <1> QED  BY <1>7, <1>8, <1>9

\* Of a block that is available, with both of its first copies, one that can be read is offered.
LEMMA OfreceEs ==
  ASSUME NEW b \in Bloque, b.c0.num >= 0, b.c1.num >= 0, NEW con,
         {u.nodo : u \in Copias(b)} \cap con # {}
  PROVE  \E u \in ToSet(Ofrece(b, con)) : u \in Reales(b) /\ u.nodo \in con
  <1> DEFINE T == Terceras(b, con)
             p == CHOOSE i \in T : \A k \in T : i <= k
             otra == IF {b.c0.nodo, b.c1.nodo} \subseteq con \/ T = {} THEN <<>> ELSE <<Otras(b)[p]>>
             o == Ofrece(b, con)
  <1>1. ~(b.c0.num = -1) /\ ~(b.c1.num = -1)  OBVIOUS
  <1>2. o = IF b.c0.nodo \notin con THEN <<b.c1>> \o otra
            ELSE IF b.c1.nodo \notin con THEN <<b.c0>> \o otra ELSE <<b.c0, b.c1>>
    BY <1>1 DEF Ofrece
  <1>3. b.c0 \in Reales(b) /\ b.c1 \in Reales(b)  BY RealesSon
  <1>4. T # {} => p \in T  BY PrimeraEs
  <1>5. T # {} => /\ p \in DOMAIN Otras(b) /\ Otras(b)[p].nodo \in con
                  /\ Otras(b)[p] \in Reales(b)
    BY <1>4, RealesSon DEF Terceras
  <1>6. \A x, y : /\ x \in ToSet(<<x>> \o <<>>) /\ x \in ToSet(<<x, y>>)
                  /\ {x, y} \subseteq ToSet(<<x>> \o <<y>>)
    BY DosEs
  <1>7. otra = <<>> \/ \E y : otra = <<y>>  OBVIOUS
  <1> HIDE DEF p, T
  <1>8. \A x : x \in ToSet(<<x>> \o otra)
    <2> HIDE DEF otra
    <2> QED  BY <1>6, <1>7
  <1>9. CASE b.c0.nodo \in con
    <2>1. b.c0 \in ToSet(o)
      <3> HIDE DEF otra, o
      <3> QED  BY <1>2, <1>6, <1>8, <1>9
    <2> QED  BY <1>3, <1>9, <2>1
  <1>10. CASE b.c0.nodo \notin con /\ b.c1.nodo \in con
    <2>1. b.c1 \in ToSet(o)
      <3> HIDE DEF otra, o
      <3> QED  BY <1>2, <1>8, <1>10
    <2> QED  BY <1>3, <1>10, <2>1
  <1>11. CASE b.c0.nodo \notin con /\ b.c1.nodo \notin con
    <2>1. PICK u \in Copias(b) : u.nodo \in con  OBVIOUS
    <2>2. u \in ToSet(Otras(b))  BY <1>11, <2>1 DEF Copias
    <2>3. PICK i \in DOMAIN Otras(b) : u = Otras(b)[i]  BY <2>2 DEF ToSet
    <2>4. i \in T  BY <1>11, <2>1, <2>3 DEF Terceras, T
    <2>5. otra = <<Otras(b)[p]>>  BY <1>11, <2>4
    <2>6. o = <<b.c1>> \o <<Otras(b)[p]>>  BY <1>2, <1>11, <2>5
    <2>7. Otras(b)[p] \in ToSet(o)
      <3> HIDE DEF otra, o
      <3> QED  BY <1>6, <2>6
    <2> QED  BY <1>5, <2>4, <2>7
  <1> QED  BY <1>9, <1>10, <1>11

\* No block is offered to YAMA without a copy on a node that was connected then.
THEOREM RespuestaSiempre == Spec => RespuestaUtil
  <1> DEFINE Util == canal' # canal /\ canal' # Nulo =>
       \A i \in DOMAIN canal'.bloques :
         LET b == archivos[pedido][i]
         IN  b.c0.num >= 0 /\ b.c1.num >= 0 =>
               \E u \in ToSet(canal'.bloques[i]) : u \in Reales(b) /\ u.nodo \in conectados
  <1>1. ASSUME Invariante, [Next]_vars PROVE Util
    <2>1. TiposFS /\ TiposYama  BY <1>1 DEF Invariante
    <2>2. DOMAIN <<>> = {}  OBVIOUS
    <2>3. ASSUME canal' = canal \/ canal' = Nulo \/ canal'.bloques = <<>> PROVE Util  BY <2>2, <2>3
    <2>4. CASE UNCHANGED vars
      <3>1. canal' = canal  BY <2>4 DEF vars, varsY
      <3> QED  BY <2>3, <3>1
    <2>5. CASE (ConMutex \/ SinMutex \/ Vida \/ \E n \in Nodos : asociarNodo(n)) /\ Corta
      <3>1. canal' = canal  BY <2>5 DEF Corta, varsY
      <3> QED  BY <2>3, <3>1
    <2>6. CASE \E n \in Nodos : marcarNodoDesconectado(n)
      <3>1. canal' = canal  BY <2>6 DEF marcarNodoDesconectado, varsY
      <3> QED  BY <2>3, <3>1
    <2>7. CASE DeYama
      <3>1. canal' = canal \/ canal' = Nulo  BY <2>1, <2>7, DeYamaBien
      <3> QED  BY <2>3, <3>1
    <2>8. CASE atenderYama
      <3>1. canal'.bloques = <<>>  BY <2>8 DEF atenderYama, Dice
      <3> QED  BY <2>3, <3>1
    <2>9. CASE responderYAMA
      <3> DEFINE s == archivos[pedido]
      <3>1. CASE canal' = canal \/ canal' = Dice(-2, <<>>)
        <4>1. Dice(-2, <<>>).bloques = <<>>  BY DEF Dice
        <4> QED  BY <2>3, <3>1, <4>1
      <3>2. CASE /\ pedido \in DOMAIN archivos /\ archivoDisponible(s, conectados)
                 /\ canal' = Dice(0, [i \in DOMAIN s |-> Ofrece(s[i], conectados)])
        <4>1. canal'.bloques = [i \in DOMAIN s |-> Ofrece(s[i], conectados)]  BY <3>2 DEF Dice
        <4>2. s \in Seq(Bloque)  BY <2>1, <3>2 DEF TiposFS, EsArchivos
        <4> HIDE DEF s
        <4>3. ASSUME NEW i \in DOMAIN s, s[i].c0.num >= 0, s[i].c1.num >= 0
              PROVE  \E u \in ToSet(Ofrece(s[i], conectados)) : u \in Reales(s[i]) /\ u.nodo \in conectados
          <5>1. s[i] \in Bloque  BY <4>2
          <5>2. {u.nodo : u \in Copias(s[i])} \cap conectados # {}  BY <3>2 DEF archivoDisponible
          <5> QED  BY <4>3, <5>1, <5>2, OfreceEs
        <4> QED  BY <4>1, <4>3 DEF s
      <3> QED  BY <2>9, <3>1, <3>2 DEF responderYAMA, NoEsta
    <2>10. CASE trabaSemaforo
      <3>1. canal' = canal  BY <2>10 DEF trabaSemaforo
      <3> QED  BY <2>3, <3>1
    <2> QED  BY <1>1, <2>4, <2>5, <2>6, <2>7, <2>8, <2>9, <2>10 DEF Next
  <1>2. Invariante /\ [Next]_vars => [Util]_vars  BY <1>1
  <1> QED  BY <1>2, SiempreBien, PTL DEF Spec, RespuestaUtil

=============================================================================
