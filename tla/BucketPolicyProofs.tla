------------------------- MODULE BucketPolicyProofs -------------------------
(***************************************************************************)
(* Theorems about BucketPolicy, for every set of objects, requests and     *)
(* policies and every value of the bounds. They rest on the algebra of the *)
(* documents that the controllers compute, which is proved first, by       *)
(* induction on policies.                                                  *)
(***************************************************************************)
EXTENDS BucketPolicy, SequenceTheorems, WellFoundedInduction, TLAPS

-----------------------------------------------------------------------------
(* Induction, over a set instead of a predicate                              *)

LEMMA LeastNumber ==
    ASSUME NEW T, T \subseteq Nat, T # {}
    PROVE  \E x \in T : \A y \in T : x <= y
<1>1. PICK x \in T : \A y \in T : ~(<<y, x>> \in OpToRel(<, Nat))
  BY NatLessThanWellFounded, WFMin
<1>2. ASSUME NEW y \in T PROVE x <= y
  <2>1. x \in Nat /\ y \in Nat
    OBVIOUS
  <2>2. ~(y < x)
    BY <1>1 DEF OpToRel
  <2> QED BY <2>1, <2>2
<1> QED BY <1>2

LEMMA CountingUp ==
    ASSUME NEW m \in Nat, NEW T, 0 \in T,
           \A n \in 0..m : n # m /\ n \in T => n + 1 \in T
    PROVE  0..m \subseteq T
<1> SUFFICES ASSUME (0..m) \ T # {} PROVE FALSE
  OBVIOUS
<1> DEFINE U == (0..m) \ T
<1>1. PICK n \in U : \A k \in U : n <= k
  <2>1. U \subseteq Nat /\ U # {}
    OBVIOUS
  <2> HIDE DEF U
  <2> QED BY <2>1, LeastNumber
<1>2. n - 1 \in 0..m /\ n - 1 # m /\ (n - 1) + 1 = n
  OBVIOUS
<1>3. n - 1 \in T
  BY <1>1, <1>2
<1> QED BY <1>2, <1>3

(* A set of policies is all of them if it holds the empty one and, with each *)
(* policy, all that have one more statement.                                 *)
LEMMA PolicyInduction ==
    ASSUME NEW A, NEW T, << >> \in T,
           \A p \in Seq(A) : \A s \in A : p \in T => Append(p, s) \in T
    PROVE  Seq(A) \subseteq T
<1> SUFFICES ASSUME NEW q \in Seq(A) PROVE q \in T
  OBVIOUS
<1> DEFINE L == {n \in Nat : \A p \in Seq(A) : Len(p) = n => p \in T}
<1>1. 0 \in L
  BY EmptySeq
<1>2. ASSUME NEW n \in Nat, n \in L PROVE n + 1 \in L
  <2> SUFFICES ASSUME NEW p \in Seq(A), Len(p) = n + 1 PROVE p \in T
    OBVIOUS
  <2>1. p # << >>
    OBVIOUS
  <2>2. PICK r \in Seq(A), s \in A : p = Append(r, s)
    BY <2>1, SequenceEmptyOrAppend
  <2>3. Len(r) = n
    BY <2>2, AppendProperties, LenProperties
  <2> QED BY <1>2, <2>2, <2>3
<1> HIDE DEF L
<1>3. Len(q) \in Nat
  BY LenProperties
<1>4. 0..Len(q) \subseteq L
  BY <1>1, <1>2, <1>3, CountingUp
<1> QED BY <1>3, <1>4 DEF L

-----------------------------------------------------------------------------
(* Only                                                                      *)

(* The function that Only takes its value from.                              *)
IsOnly(f, p, sids, m) ==
    f = [n \in 0..m |->
            IF n = 0 THEN << >>
            ELSE IF p[n].sid \in sids THEN Append(f[n - 1], p[n])
            ELSE f[n - 1]]

LEMMA OnlyExists ==
    ASSUME NEW A, NEW p \in Seq(A), NEW sids, NEW m \in 0..Len(p)
    PROVE  \E f \in [0..m -> Seq(A)] : IsOnly(f, p, sids, m)
<1> DEFINE T == {n \in Nat : \E f \in [0..n -> Seq(A)] : IsOnly(f, p, sids, n)}
<1>1. 0 \in T
  <2> DEFINE g == [n \in 0..0 |-> << >>]
  <2>1. g \in [0..0 -> Seq(A)] /\ IsOnly(g, p, sids, 0)
    BY DEF IsOnly
  <2> QED BY <2>1
<1>2. ASSUME NEW n \in 0..m, n # m, n \in T PROVE n + 1 \in T
  <2>1. PICK f \in [0..n -> Seq(A)] : IsOnly(f, p, sids, n)
    BY <1>2
  <2> DEFINE g == [i \in 0..n+1 |->
                     IF i <= n THEN f[i]
                     ELSE IF p[n+1].sid \in sids THEN Append(f[n], p[n+1])
                     ELSE f[n]]
  <2>2. p[n+1] \in A
    BY <1>2
  <2>3. g \in [0..n+1 -> Seq(A)]
    BY <2>2
  <2>4. ASSUME NEW i \in 0..n+1
        PROVE  g[i] = IF i = 0 THEN << >>
                      ELSE IF p[i].sid \in sids THEN Append(g[i - 1], p[i])
                      ELSE g[i - 1]
    <3>1. CASE i = n + 1
      BY <3>1
    <3>2. CASE i \in 0..n
      <4>1. f[i] = IF i = 0 THEN << >>
                   ELSE IF p[i].sid \in sids THEN Append(f[i - 1], p[i])
                   ELSE f[i - 1]
        BY <2>1, <3>2 DEF IsOnly
      <4> QED BY <3>2, <4>1
    <3> QED BY <3>1, <3>2
  <2>5. IsOnly(g, p, sids, n + 1)
    BY <2>4 DEF IsOnly
  <2>6. n + 1 \in Nat
    BY LenProperties
  <2> HIDE DEF g
  <2> QED BY <2>3, <2>5, <2>6
<1> HIDE DEF T
<1>3. m \in Nat
  BY LenProperties
<1>4. 0..m \subseteq T
  BY <1>1, <1>2, <1>3, CountingUp
<1>5. m \in T
  BY <1>3, <1>4
<1> QED BY <1>5 DEF T

LEMMA OnlyUnfolds ==
    ASSUME NEW A, NEW p \in Seq(A), NEW sids
    PROVE  \E f : /\ Only(p, sids) = f[Len(p)]
                  /\ f[0] = << >>
                  /\ \A n \in 1..Len(p) :
                        f[n] = IF p[n].sid \in sids
                               THEN Append(f[n - 1], p[n]) ELSE f[n - 1]
<1> DEFINE f == CHOOSE g : IsOnly(g, p, sids, Len(p))
<1>1. Only(p, sids) = f[Len(p)]
  BY DEF Only, IsOnly
<1>2. \E g : IsOnly(g, p, sids, Len(p))
  <2>1. Len(p) \in 0..Len(p)
    BY LenProperties
  <2> QED BY <2>1, OnlyExists
<1>3. IsOnly(f, p, sids, Len(p))
  BY <1>2
<1>4. Len(p) \in Nat
  BY LenProperties
<1> HIDE DEF f
<1>5. \A n \in 0..Len(p) : f[n] = IF n = 0 THEN << >>
                                  ELSE IF p[n].sid \in sids
                                  THEN Append(f[n - 1], p[n]) ELSE f[n - 1]
  BY <1>3 DEF IsOnly
<1>6. f[0] = << >>
  BY <1>4, <1>5
<1>7. ASSUME NEW n \in 1..Len(p)
      PROVE  f[n] = IF p[n].sid \in sids
                    THEN Append(f[n - 1], p[n]) ELSE f[n - 1]
  <2>1. n \in 0..Len(p) /\ n # 0
    BY <1>4
  <2> QED BY <1>5, <2>1
<1> QED BY <1>1, <1>6, <1>7

LEMMA OnlyOfEmpty ==
    ASSUME NEW sids PROVE Only(<< >>, sids) = << >>
<1>1. ASSUME NEW q \in Seq({}), Len(q) = 0 PROVE Only(q, sids) = << >>
  <2>1. \E f : Only(q, sids) = f[Len(q)] /\ f[0] = << >>
    BY OnlyUnfolds
  <2> QED BY <1>1, <2>1
<1> QED BY <1>1, EmptySeq

(* One more statement: it stays if its Sid is one of those.                  *)
LEMMA OnlyOfAppend ==
    ASSUME NEW A, NEW p \in Seq(A), NEW s \in A, NEW sids
    PROVE  Only(Append(p, s), sids)
              = IF s.sid \in sids THEN Append(Only(p, sids), s)
                ELSE Only(p, sids)
<1> DEFINE q == Append(p, s)
           m == Len(p)
<1>1. /\ m \in Nat /\ q \in Seq(A) /\ Len(q) = m + 1
      /\ q[m + 1] = s /\ \A i \in 1..m : q[i] = p[i]
  BY AppendProperties, LenProperties
<1> HIDE DEF q
<1>2. PICK f : /\ Only(p, sids) = f[m] /\ f[0] = << >>
               /\ \A n \in 1..m : f[n] = IF p[n].sid \in sids
                                         THEN Append(f[n - 1], p[n])
                                         ELSE f[n - 1]
  BY OnlyUnfolds
<1>3. PICK g : /\ Only(q, sids) = g[m + 1] /\ g[0] = << >>
               /\ \A n \in 1..m+1 : g[n] = IF q[n].sid \in sids
                                           THEN Append(g[n - 1], q[n])
                                           ELSE g[n - 1]
  <2>1. PICK g : /\ Only(q, sids) = g[Len(q)] /\ g[0] = << >>
                 /\ \A n \in 1..Len(q) : g[n] = IF q[n].sid \in sids
                                                THEN Append(g[n - 1], q[n])
                                                ELSE g[n - 1]
    BY <1>1, OnlyUnfolds
  <2> QED BY <1>1, <2>1
<1> DEFINE T == {n \in 0..m : f[n] = g[n]}
<1>4. 0 \in T
  BY <1>1, <1>2, <1>3
<1>5. ASSUME NEW n \in 0..m, n # m, n \in T PROVE n + 1 \in T
  <2>1. n + 1 \in 1..m /\ n + 1 \in 1..m+1 /\ (n + 1) - 1 = n
    BY <1>1, <1>5
  <2>2. f[n] = g[n]
    BY <1>5
  <2>3. q[n + 1] = p[n + 1]
    BY <1>1, <2>1
  <2>4. f[n + 1] = g[n + 1]
    BY <1>2, <1>3, <2>1, <2>2, <2>3
  <2>5. n + 1 \in 0..m
    BY <2>1
  <2> QED BY <2>4, <2>5
<1> HIDE DEF T
<1>6. 0..m \subseteq T
  BY <1>1, <1>4, <1>5, CountingUp
<1>7. f[m] = g[m]
  BY <1>1, <1>6 DEF T
<1>8. g[m + 1] = IF s.sid \in sids THEN Append(g[m], s) ELSE g[m]
  <2>1. m + 1 \in 1..m+1 /\ (m + 1) - 1 = m
    BY <1>1
  <2> QED BY <1>1, <1>3, <2>1
<1> QED BY <1>2, <1>3, <1>7, <1>8 DEF q

-----------------------------------------------------------------------------
(* Sids, and how Only acts on policies                                       *)

LEMMA SidsOfAppend ==
    ASSUME NEW A, NEW p \in Seq(A), NEW s \in A
    PROVE  SidsOf(Append(p, s)) = SidsOf(p) \cup {s.sid}
<1> DEFINE q == Append(p, s)
<1>1. /\ q \in Seq(A) /\ Len(q) = Len(p) + 1 /\ q[Len(p) + 1] = s
      /\ \A i \in 1..Len(p) : q[i] = p[i]
  BY AppendProperties
<1>2. /\ Len(p) \in Nat
      /\ DOMAIN p = 1..Len(p) /\ DOMAIN q = 1..(Len(p) + 1)
  BY <1>1, LenProperties
<1> HIDE DEF q
<1>3. SidsOf(q) \subseteq SidsOf(p) \cup {s.sid}
  BY <1>1, <1>2 DEF SidsOf
<1>4. SidsOf(p) \cup {s.sid} \subseteq SidsOf(q)
  <2>1. Len(p) + 1 \in DOMAIN q /\ DOMAIN p \subseteq DOMAIN q
    BY <1>2
  <2> QED BY <1>1, <1>2, <2>1 DEF SidsOf
<1> QED BY <1>3, <1>4 DEF q

LEMMA SidsOfEmpty == SidsOf(<< >>) = {}
BY EmptySeq, LenProperties DEF SidsOf

LEMMA SidsOfConcat ==
    ASSUME NEW A, NEW p \in Seq(A), NEW q \in Seq(A)
    PROVE  SidsOf(p \o q) = SidsOf(p) \cup SidsOf(q)
<1> DEFINE r == p \o q
           m == Len(p)
           n == Len(q)
<1>1. /\ r \in Seq(A) /\ Len(r) = m + n
      /\ \A i \in 1..(m + n) : r[i] = IF i <= m THEN p[i] ELSE q[i - m]
  BY ConcatProperties
<1>2. /\ m \in Nat /\ n \in Nat
      /\ DOMAIN p = 1..m /\ DOMAIN q = 1..n /\ DOMAIN r = 1..(m + n)
  BY <1>1, LenProperties
<1> HIDE DEF r, m, n
<1>3. ASSUME NEW i \in DOMAIN r PROVE r[i].sid \in SidsOf(p) \cup SidsOf(q)
  <2>1. CASE i <= m
    BY <1>1, <1>2, <2>1 DEF SidsOf
  <2>2. CASE ~(i <= m)
    <3>1. i - m \in DOMAIN q
      BY <1>2, <2>2
    <3> QED BY <1>1, <1>2, <2>2, <3>1 DEF SidsOf
  <2> QED BY <2>1, <2>2
<1>4. ASSUME NEW i \in DOMAIN p PROVE p[i].sid \in SidsOf(r)
  <2>1. i \in DOMAIN r /\ i <= m
    BY <1>2
  <2>2. r[i] = p[i]
    BY <1>1, <1>2, <2>1
  <2> QED BY <2>1, <2>2 DEF SidsOf
<1>5. ASSUME NEW i \in DOMAIN q PROVE q[i].sid \in SidsOf(r)
  <2>1. i + m \in DOMAIN r /\ ~(i + m <= m) /\ (i + m) - m = i
    BY <1>2
  <2>2. r[i + m] = q[i]
    BY <1>1, <1>2, <2>1
  <2> QED BY <2>1, <2>2 DEF SidsOf
<1>6. SidsOf(r) = SidsOf(p) \cup SidsOf(q)
  BY <1>3, <1>4, <1>5 DEF SidsOf
<1> QED BY <1>6 DEF r

LEMMA OnlyType ==
    ASSUME NEW A, NEW sids
    PROVE  \A p \in Seq(A) : /\ Only(p, sids) \in Seq(A)
                             /\ SidsOf(Only(p, sids)) = SidsOf(p) \cap sids
<1> DEFINE T == {p \in Seq(A) : /\ Only(p, sids) \in Seq(A)
                                /\ SidsOf(Only(p, sids)) = SidsOf(p) \cap sids}
<1>1. << >> \in T
  BY EmptySeq, OnlyOfEmpty, SidsOfEmpty
<1>2. ASSUME NEW p \in Seq(A), NEW s \in A, p \in T PROVE Append(p, s) \in T
  <2> DEFINE q == Only(p, sids)
  <2>1. q \in Seq(A) /\ SidsOf(q) = SidsOf(p) \cap sids
    BY <1>2
  <2>2. Only(Append(p, s), sids) = IF s.sid \in sids THEN Append(q, s) ELSE q
    BY OnlyOfAppend
  <2> HIDE DEF q
  <2>3. /\ Append(p, s) \in Seq(A) /\ Append(q, s) \in Seq(A)
        /\ SidsOf(Append(p, s)) = SidsOf(p) \cup {s.sid}
        /\ SidsOf(Append(q, s)) = SidsOf(q) \cup {s.sid}
    BY <2>1, AppendProperties, SidsOfAppend
  <2>4. CASE s.sid \in sids
    BY <2>1, <2>2, <2>3, <2>4
  <2>5. CASE s.sid \notin sids
    BY <2>1, <2>2, <2>3, <2>5
  <2> QED BY <2>4, <2>5
<1> HIDE DEF T
<1>3. Seq(A) \subseteq T
  BY <1>1, <1>2, PolicyInduction
<1> QED BY <1>3 DEF T

LEMMA OnlyAll ==
    ASSUME NEW A, NEW sids
    PROVE  \A p \in Seq(A) : SidsOf(p) \subseteq sids => Only(p, sids) = p
<1> DEFINE T == {p \in Seq(A) : SidsOf(p) \subseteq sids => Only(p, sids) = p}
<1>1. << >> \in T
  BY EmptySeq, OnlyOfEmpty
<1>2. ASSUME NEW p \in Seq(A), NEW s \in A, p \in T PROVE Append(p, s) \in T
  BY <1>2, OnlyOfAppend, AppendProperties, SidsOfAppend
<1> HIDE DEF T
<1>3. Seq(A) \subseteq T
  BY <1>1, <1>2, PolicyInduction
<1> QED BY <1>3 DEF T

LEMMA OnlyNone ==
    ASSUME NEW A, NEW sids
    PROVE  \A p \in Seq(A) : SidsOf(p) \cap sids = {} => Only(p, sids) = << >>
<1> DEFINE T == {p \in Seq(A) : SidsOf(p) \cap sids = {}
                                => Only(p, sids) = << >>}
<1>1. << >> \in T
  BY EmptySeq, OnlyOfEmpty
<1>2. ASSUME NEW p \in Seq(A), NEW s \in A, p \in T PROVE Append(p, s) \in T
  BY <1>2, OnlyOfAppend, AppendProperties, SidsOfAppend
<1> HIDE DEF T
<1>3. Seq(A) \subseteq T
  BY <1>1, <1>2, PolicyInduction
<1> QED BY <1>3 DEF T

LEMMA OnlyTwice ==
    ASSUME NEW A, NEW X, NEW Y
    PROVE  \A p \in Seq(A) : Only(Only(p, X), Y) = Only(p, X \cap Y)
<1> DEFINE T == {p \in Seq(A) : Only(Only(p, X), Y) = Only(p, X \cap Y)}
<1>1. << >> \in T
  BY EmptySeq, OnlyOfEmpty
<1>2. ASSUME NEW p \in Seq(A), NEW s \in A, p \in T PROVE Append(p, s) \in T
  <2>1. Append(p, s) \in Seq(A) /\ Only(p, X) \in Seq(A)
    BY AppendProperties, OnlyType
  <2>2. \A Z : /\ Only(Append(p, s), Z) = IF s.sid \in Z
                                          THEN Append(Only(p, Z), s)
                                          ELSE Only(p, Z)
               /\ Only(Append(Only(p, X), s), Z)
                     = IF s.sid \in Z THEN Append(Only(Only(p, X), Z), s)
                       ELSE Only(Only(p, X), Z)
    BY <2>1, OnlyOfAppend
  <2>3. Only(Only(p, X), Y) = Only(p, X \cap Y)
    BY <1>2
  <2>4. CASE s.sid \in X
    BY <2>1, <2>2, <2>3, <2>4
  <2>5. CASE s.sid \notin X
    BY <2>1, <2>2, <2>3, <2>5
  <2> QED BY <2>4, <2>5
<1> HIDE DEF T
<1>3. Seq(A) \subseteq T
  BY <1>1, <1>2, PolicyInduction
<1> QED BY <1>3 DEF T

LEMMA OnlyOfConcat ==
    ASSUME NEW A, NEW sids, NEW p \in Seq(A)
    PROVE  \A q \in Seq(A) :
              Only(p \o q, sids) = Only(p, sids) \o Only(q, sids)
<1> DEFINE T == {q \in Seq(A) :
                    Only(p \o q, sids) = Only(p, sids) \o Only(q, sids)}
<1>1. << >> \in T
  BY EmptySeq, OnlyOfEmpty, OnlyType, ConcatEmptySeq
<1>2. ASSUME NEW q \in Seq(A), NEW s \in A, q \in T PROVE Append(q, s) \in T
  <2>1. \A u, v \in Seq(A) : u \o Append(v, s) = Append(u \o v, s)
    <3> TAKE u, v \in Seq(A)
    <3>1. <<s>> \in Seq(A) /\ u \o v \in Seq(A)
      BY ConcatProperties
    <3>2. /\ Append(v, s) = v \o <<s>>
          /\ Append(u \o v, s) = (u \o v) \o <<s>>
      BY <3>1, AppendIsConcat
    <3> QED BY <3>1, <3>2, ConcatAssociative
  <2>2. /\ p \o q \in Seq(A) /\ Append(q, s) \in Seq(A)
        /\ Only(p, sids) \in Seq(A) /\ Only(q, sids) \in Seq(A)
    BY ConcatProperties, AppendProperties, OnlyType
  <2>3. \A v \in Seq(A) :
           Only(Append(v, s), sids) = IF s.sid \in sids
                                      THEN Append(Only(v, sids), s)
                                      ELSE Only(v, sids)
    BY OnlyOfAppend
  <2>4. p \o Append(q, s) = Append(p \o q, s)
    BY <2>1
  <2>5. Only(p, sids) \o Append(Only(q, sids), s)
           = Append(Only(p, sids) \o Only(q, sids), s)
    BY <2>1, <2>2
  <2>6. Only(p \o q, sids) = Only(p, sids) \o Only(q, sids)
    BY <1>2
  <2>7. Only(p \o Append(q, s), sids)
           = Only(p, sids) \o Only(Append(q, s), sids)
    BY <2>2, <2>3, <2>4, <2>5, <2>6
  <2> QED BY <2>2, <2>7
<1> HIDE DEF T
<1>3. Seq(A) \subseteq T
  BY <1>1, <1>2, PolicyInduction
<1> QED BY <1>3 DEF T

-----------------------------------------------------------------------------
(* One statement for a Sid                                                   *)

LEMMA UniqueIfAbsent ==
    ASSUME NEW p, NEW sid, sid \notin SidsOf(p)
    PROVE  Unique(p, sid)
BY DEF Unique, SidsOf

LEMMA UniqueAppend ==
    ASSUME NEW A, NEW p \in Seq(A), NEW s \in A, NEW sid
    PROVE  Unique(Append(p, s), sid)
              <=> Unique(p, sid) /\ (s.sid = sid => sid \notin SidsOf(p))
<1> DEFINE q == Append(p, s)
           m == Len(p)
<1>1. /\ m \in Nat /\ DOMAIN p = 1..m /\ DOMAIN q = 1..(m + 1)
      /\ q[m + 1] = s /\ \A i \in 1..m : q[i] = p[i]
  BY AppendProperties, LenProperties
<1> HIDE DEF q, m
<1>2. ASSUME Unique(q, sid)
      PROVE  Unique(p, sid) /\ (s.sid = sid => sid \notin SidsOf(p))
  <2>1. m + 1 \in DOMAIN q /\ \A i \in 1..m : i \in DOMAIN q /\ i # m + 1
    BY <1>1
  <2> QED BY <1>1, <1>2, <2>1 DEF Unique, SidsOf
<1>3. ASSUME Unique(p, sid), s.sid = sid => sid \notin SidsOf(p)
      PROVE  Unique(q, sid)
  <2> SUFFICES ASSUME NEW i \in DOMAIN q, NEW j \in DOMAIN q,
                      q[i].sid = sid, q[j].sid = sid
               PROVE  i = j
    BY DEF Unique
  <2>1. \A k \in DOMAIN q : k = m + 1 \/ (k \in DOMAIN p /\ q[k] = p[k])
    BY <1>1
  <2>2. CASE i \in DOMAIN p /\ j \in DOMAIN p
    BY <1>1, <1>3, <2>2 DEF Unique
  <2>3. CASE i \notin DOMAIN p /\ j \notin DOMAIN p
    BY <2>1, <2>3
  <2>4. CASE (i \in DOMAIN p) # (j \in DOMAIN p)
    <3>1. s.sid = sid
      BY <1>1, <2>1, <2>4
    <3>2. sid \in SidsOf(p)
      BY <1>1, <2>4 DEF SidsOf
    <3> QED BY <1>3, <3>1, <3>2
  <2> QED BY <2>2, <2>3, <2>4
<1> QED BY <1>2, <1>3 DEF q

LEMMA UniqueOnly ==
    ASSUME NEW A, NEW sids, NEW sid
    PROVE  \A p \in Seq(A) : Unique(p, sid) => Unique(Only(p, sids), sid)
<1> DEFINE T == {p \in Seq(A) : Unique(p, sid) => Unique(Only(p, sids), sid)}
<1>1. << >> \in T
  BY EmptySeq, OnlyOfEmpty
<1>2. ASSUME NEW p \in Seq(A), NEW s \in A, p \in T PROVE Append(p, s) \in T
  <2> DEFINE q == Only(p, sids)
  <2>1. q \in Seq(A) /\ SidsOf(q) = SidsOf(p) \cap sids
    BY OnlyType
  <2>2. Only(Append(p, s), sids) = IF s.sid \in sids THEN Append(q, s) ELSE q
    BY OnlyOfAppend
  <2>3. Unique(p, sid) => Unique(q, sid)
    BY <1>2
  <2> HIDE DEF q
  <2>4. \A r \in Seq(A) : Unique(Append(r, s), sid)
                          <=> /\ Unique(r, sid)
                              /\ s.sid = sid => sid \notin SidsOf(r)
    BY UniqueAppend
  <2>5. Unique(Append(p, s), sid) => Unique(Only(Append(p, s), sids), sid)
    BY <2>1, <2>2, <2>3, <2>4
  <2> QED BY <2>5, AppendProperties
<1> HIDE DEF T
<1>3. Seq(A) \subseteq T
  BY <1>1, <1>2, PolicyInduction
<1> QED BY <1>3 DEF T

LEMMA UniqueConcat ==
    ASSUME NEW A, NEW sid, NEW p \in Seq(A),
           Unique(p, sid), sid \notin SidsOf(p)
    PROVE  \A q \in Seq(A) : Unique(q, sid) => Unique(p \o q, sid)
<1> DEFINE T == {q \in Seq(A) : Unique(q, sid) => Unique(p \o q, sid)}
<1>1. << >> \in T
  BY EmptySeq, ConcatEmptySeq
<1>2. ASSUME NEW q \in Seq(A), NEW s \in A, q \in T PROVE Append(q, s) \in T
  <2>1. <<s>> \in Seq(A) /\ p \o q \in Seq(A)
    BY ConcatProperties
  <2>2. /\ Append(q, s) = q \o <<s>>
        /\ Append(p \o q, s) = (p \o q) \o <<s>>
    BY <2>1, AppendIsConcat
  <2>3. p \o Append(q, s) = Append(p \o q, s)
    BY <2>1, <2>2, ConcatAssociative
  <2>4. \A r \in Seq(A) : Unique(Append(r, s), sid)
                          <=> /\ Unique(r, sid)
                              /\ s.sid = sid => sid \notin SidsOf(r)
    BY UniqueAppend
  <2>5. SidsOf(p \o q) = SidsOf(p) \cup SidsOf(q)
    BY SidsOfConcat
  <2>6. Unique(q, sid) => Unique(p \o q, sid)
    BY <1>2
  <2>7. ASSUME Unique(Append(q, s), sid)
        PROVE  Unique(p \o Append(q, s), sid)
    <3>1. Unique(q, sid) /\ (s.sid = sid => sid \notin SidsOf(q))
      BY <2>4, <2>7
    <3>2. s.sid = sid => sid \notin SidsOf(p \o q)
      BY <2>5, <3>1
    <3>3. Unique(Append(p \o q, s), sid)
      BY <2>1, <2>4, <2>6, <3>1, <3>2
    <3> QED BY <2>3, <3>3
  <2> QED BY <2>7, AppendProperties
<1> HIDE DEF T
<1>3. Seq(A) \subseteq T
  BY <1>1, <1>2, PolicyInduction
<1> QED BY <1>3 DEF T

-----------------------------------------------------------------------------
(* The documents that the controllers write                                  *)

(* A grant puts its statement in place or at the end: the other Sids stay.   *)
LEMMA UpsertedType ==
    ASSUME NEW A, NEW p \in Seq(A), NEW s \in A
    PROVE  /\ Upserted(p, s) \in Seq(A)
           /\ SidsOf(Upserted(p, s)) = SidsOf(p) \cup {s.sid}
           /\ \A sid : Unique(p, sid) => Unique(Upserted(p, s), sid)
<1>1. CASE s.sid \in SidsOf(p)
  <2> DEFINE q == [i \in DOMAIN p |-> IF p[i].sid = s.sid THEN s ELSE p[i]]
  <2>1. Upserted(p, s) = q
    BY <1>1 DEF Upserted, Defines
  <2>2. DOMAIN p = 1..Len(p) /\ Len(p) \in Nat /\ \A i \in DOMAIN p : p[i] \in A
    BY LenProperties, ElementOfSeq
  <2>3. q \in Seq(A)
    BY <2>2
  <2>4. DOMAIN q = DOMAIN p /\ \A i \in DOMAIN p : q[i].sid = p[i].sid
    OBVIOUS
  <2> HIDE DEF q
  <2>5. SidsOf(q) = SidsOf(p) /\ \A sid : Unique(p, sid) => Unique(q, sid)
    BY <2>4 DEF SidsOf, Unique
  <2> QED BY <1>1, <2>1, <2>3, <2>5
<1>2. CASE s.sid \notin SidsOf(p)
  <2>1. Upserted(p, s) = Append(p, s)
    BY <1>2 DEF Upserted, Defines
  <2>2. \A sid : Unique(p, sid) => Unique(Append(p, s), sid)
    BY <1>2, UniqueAppend
  <2> QED BY <2>1, <2>2, AppendProperties, SidsOfAppend
<1> QED BY <1>1, <1>2

LEMMA RemovedType ==
    ASSUME NEW A, NEW p \in Seq(A), NEW sid
    PROVE  /\ Removed(p, sid) \in Seq(A)
           /\ SidsOf(Removed(p, sid)) = SidsOf(p) \ {sid}
           /\ \A x : Unique(p, x) => Unique(Removed(p, sid), x)
<1>1. SidsOf(p) \cap (SidsOf(p) \ {sid}) = SidsOf(p) \ {sid}
  OBVIOUS
<1> QED BY <1>1, OnlyType, UniqueOnly DEF Removed

LEMMA MergedType ==
    ASSUME NEW A, NEW d \in Seq(A), NEW c \in Seq(A)
    PROVE  /\ Merged(d, c) \in Seq(A)
           /\ SidsOf(Merged(d, c)) = SidsOf(d) \cup ManagedSids(c)
           /\ \A sid : sid \notin SidsOf(d) /\ Unique(c, sid)
                       => Unique(Merged(d, c), sid)
<1> DEFINE K == ManagedSids(c) \ SidsOf(d)
           r == Only(c, K)
<1>1. r \in Seq(A) /\ SidsOf(r) = SidsOf(c) \cap K
  BY OnlyType
<1>2. SidsOf(c) \cap K = K /\ SidsOf(d) \cup K = SidsOf(d) \cup ManagedSids(c)
  BY DEF ManagedSids
<1>3. Merged(d, c) = d \o r
  BY DEF Merged
<1>4. ASSUME NEW sid, sid \notin SidsOf(d), Unique(c, sid)
      PROVE  Unique(Merged(d, c), sid)
  <2>1. Unique(r, sid) /\ Unique(d, sid)
    BY <1>4, UniqueOnly, UniqueIfAbsent
  <2> HIDE DEF r
  <2> QED BY <1>1, <1>3, <1>4, <2>1, UniqueConcat
<1> HIDE DEF r
<1>5. Merged(d, c) \in Seq(A) /\ SidsOf(Merged(d, c)) = SidsOf(d) \cup SidsOf(r)
  BY <1>1, <1>3, ConcatProperties, SidsOfConcat
<1> QED BY <1>1, <1>2, <1>4, <1>5

(* What a grant or a removal leaves of the statements with other Sids.       *)
LEMMA OnlyOfReplaced ==
    ASSUME NEW A, NEW s \in A, NEW sids, s.sid \notin sids
    PROVE  \A p \in Seq(A) :
              Only([i \in DOMAIN p |-> IF p[i].sid = s.sid THEN s ELSE p[i]],
                   sids) = Only(p, sids)
<1> DEFINE R(p) == [i \in DOMAIN p |-> IF p[i].sid = s.sid THEN s ELSE p[i]]
           T == {p \in Seq(A) : Only(R(p), sids) = Only(p, sids)}
<1>1. << >> \in T
  <2>1. << >> \in Seq(A) /\ DOMAIN << >> = {}
    BY EmptySeq, LenProperties
  <2>2. R(<< >>) = << >>
    BY <2>1
  <2> QED BY <2>1, <2>2
<1>2. ASSUME NEW p \in Seq(A), NEW x \in A, p \in T PROVE Append(p, x) \in T
  <2> DEFINE q == Append(p, x)
             y == IF x.sid = s.sid THEN s ELSE x
  <2>1. /\ q \in Seq(A) /\ DOMAIN p = 1..Len(p) /\ Len(p) \in Nat
        /\ Len(q) = Len(p) + 1 /\ DOMAIN q = 1..(Len(p) + 1)
        /\ q[Len(p) + 1] = x /\ \A i \in 1..Len(p) : q[i] = p[i] /\ p[i] \in A
    BY AppendProperties, LenProperties, ElementOfSeq
  <2>2. y \in A /\ (y.sid \in sids => y = x) /\ (x.sid \in sids => y = x)
    OBVIOUS
  <2> HIDE DEF q, y
  <2>3. R(p) \in Seq(A) /\ Len(R(p)) = Len(p)
    BY <2>1
  <2>4. R(q) = Append(R(p), y)
    <3> DEFINE a == R(q)
               b == Append(R(p), y)
               m == Len(p)
    <3>1. /\ b \in Seq(A) /\ Len(b) = m + 1 /\ b[m + 1] = y
          /\ \A i \in 1..m : b[i] = R(p)[i]
      BY <2>2, <2>3, AppendProperties
    <3>2. a \in Seq(A) /\ Len(a) = m + 1 /\ a[m + 1] = y
      BY <2>1 DEF y
    <3>3. \A i \in 1..m : a[i] = R(p)[i]
      BY <2>1
    <3>4. \A i \in 1..Len(a) : a[i] = b[i]
      BY <2>1, <3>1, <3>2, <3>3
    <3> HIDE DEF a, b
    <3>5. a = b
      BY <3>1, <3>2, <3>4, SeqEqual
    <3> QED BY <3>5 DEF a, b
  <2>5. Only(R(p), sids) = Only(p, sids)
    BY <1>2
  <2> HIDE DEF R
  <2>6. /\ Only(Append(R(p), y), sids)
              = IF y.sid \in sids THEN Append(Only(R(p), sids), y)
                ELSE Only(R(p), sids)
        /\ Only(q, sids) = IF x.sid \in sids THEN Append(Only(p, sids), x)
                           ELSE Only(p, sids)
    BY <2>2, <2>3, OnlyOfAppend DEF q
  <2>7. Only(R(q), sids) = Only(q, sids)
    BY <2>2, <2>4, <2>5, <2>6
  <2> QED BY <2>1, <2>7 DEF q
<1> HIDE DEF T
<1>3. Seq(A) \subseteq T
  BY <1>1, <1>2, PolicyInduction
<1> QED BY <1>3 DEF T

LEMMA RemovedOfUpserted ==
    ASSUME NEW A, NEW p \in Seq(A), NEW s \in A
    PROVE  Removed(Upserted(p, s), s.sid) = Removed(p, s.sid)
<1> DEFINE K == SidsOf(p) \ {s.sid}
<1>1. SidsOf(Upserted(p, s)) \ {s.sid} = K
  BY UpsertedType
<1>2. Only(Upserted(p, s), K) = Only(p, K)
  <2>1. CASE s.sid \in SidsOf(p)
    <3>1. Upserted(p, s)
             = [i \in DOMAIN p |-> IF p[i].sid = s.sid THEN s ELSE p[i]]
      BY <2>1 DEF Upserted, Defines
    <3>2. s.sid \notin K
      OBVIOUS
    <3> HIDE DEF K
    <3> QED BY <3>1, <3>2, OnlyOfReplaced
  <2>2. CASE s.sid \notin SidsOf(p)
    <3>1. Upserted(p, s) = Append(p, s)
      BY <2>2 DEF Upserted, Defines
    <3>2. s.sid \notin K
      OBVIOUS
    <3> HIDE DEF K
    <3> QED BY <3>1, <3>2, OnlyOfAppend
  <2> QED BY <2>1, <2>2
<1> QED BY <1>1, <1>2 DEF Removed

LEMMA RemovedTwice ==
    ASSUME NEW A, NEW p \in Seq(A), NEW sid
    PROVE  Removed(Removed(p, sid), sid) = Removed(p, sid)
<1> DEFINE q == Removed(p, sid)
<1>1. q \in Seq(A) /\ SidsOf(q) = SidsOf(p) \ {sid}
  BY RemovedType
<1> HIDE DEF q
<1>2. SidsOf(q) \subseteq SidsOf(q) \ {sid}
  BY <1>1
<1>3. Removed(q, sid) = q
  BY <1>1, <1>2, OnlyAll DEF Removed
<1> QED BY <1>3 DEF q

(* The merge keeps every managed statement, in order, if the user's policy   *)
(* has none of its own.                                                      *)
LEMMA ManagedPartOfMerged ==
    ASSUME NEW A, NEW d \in Seq(A), NEW c \in Seq(A), ManagedSids(d) = {}
    PROVE  ManagedPart(Merged(d, c)) = ManagedPart(c)
<1> DEFINE M == ManagedSids(c)
           r == Only(c, M \ SidsOf(d))
<1>1. r \in Seq(A)
  BY OnlyType
<1>2. M \ SidsOf(d) = M /\ SidsOf(d) \cap M = {}
  BY DEF ManagedSids
<1>3. Merged(d, c) = d \o r
  BY DEF Merged
<1>4. ManagedSids(Merged(d, c)) = M
  BY MergedType DEF ManagedSids
<1>5. Only(d, M) = << >>
  BY <1>2, OnlyNone
<1>6. Only(r, M) = Only(c, M)
  <2>1. M \cap M = M
    OBVIOUS
  <2> QED BY <1>2, <2>1, OnlyTwice
<1>7. Only(c, M) \in Seq(A)
  BY OnlyType
<1> HIDE DEF r, M
<1>8. Only(d \o r, M) = Only(d, M) \o Only(r, M)
  BY <1>1, OnlyOfConcat
<1>9. Only(d \o r, M) = Only(c, M)
  BY <1>5, <1>6, <1>7, <1>8, ConcatEmptySeq
<1> QED BY <1>3, <1>4, <1>9 DEF ManagedPart, M

(* The update of the Bucket controller satisfies the controller's own test:  *)
(* merging once more changes nothing, whatever the order of statements was,  *)
(* so bucketRequiresUpdate does not ask for updates without end.             *)
THEOREM MergeIsIdempotent ==
    ASSUME NEW A, NEW d \in Seq(A), NEW c \in Seq(A)
    PROVE  Merged(d, Merged(d, c)) = Merged(d, c)
<1> DEFINE K == ManagedSids(c) \ SidsOf(d)
           r == Only(c, K)
           m == Merged(d, c)
           L == ManagedSids(m) \ SidsOf(d)
<1>1. r \in Seq(A) /\ m = d \o r
  BY OnlyType DEF Merged
<1>2. SidsOf(m) = SidsOf(d) \cup ManagedSids(c)
  BY MergedType
<1>3. L = K /\ SidsOf(d) \cap K = {} /\ K \cap K = K
  BY <1>2 DEF ManagedSids
<1>4. Only(d, K) = << >>
  BY <1>3, OnlyNone
<1>5. Only(r, K) = r
  BY <1>3, OnlyTwice
<1>6. Merged(d, m) = d \o Only(m, L)
  BY DEF Merged
<1> HIDE DEF r, K, m, L
<1>7. Only(d \o r, K) = << >> \o r
  <2>1. Only(d \o r, K) = Only(d, K) \o Only(r, K)
    BY <1>1, OnlyOfConcat
  <2> QED BY <1>4, <1>5, <2>1
<1>8. Merged(d, m) = d \o r
  BY <1>1, <1>3, <1>6, <1>7, ConcatEmptySeq
<1> QED BY <1>1, <1>8 DEF m

-----------------------------------------------------------------------------
(* Managed Sids                                                              *)

LEMMA PrefixGrows ==
    ASSUME NEW A, NEW s \in Seq(A), NEW t \in Seq(A), NEW u \in Seq(A),
           s # << >>, IsPrefix(s, t)
    PROVE  IsPrefix(s, t \o u)
<1>1. /\ Len(s) \in Nat \ {0} /\ Len(t) \in Nat /\ Len(u) \in Nat
      /\ Len(t \o u) = Len(t) + Len(u)
  BY EmptySeq, LenProperties, ConcatProperties
<1>2. Len(s) <= Len(t) /\ SubSeq(s, 1, Len(s)) = SubSeq(t, 1, Len(s))
  BY DEF IsPrefix
<1>3. 1 \in 1..Len(t) /\ Len(s) \in 1..Len(t) /\ Len(s) <= Len(t \o u)
  BY <1>1, <1>2
<1>4. SubSeq(t \o u, 1, Len(s)) = SubSeq(t, 1, Len(s))
  BY <1>3, SubSeqOfConcat1
<1> QED BY <1>2, <1>3, <1>4 DEF IsPrefix

LEMMA SidsAreManaged ==
    \A a \in Accesses : Sid[a] \in Seq(Characters) /\ IsManagedSid(Sid[a])
<1> SUFFICES ASSUME NEW a \in Accesses
             PROVE  Sid[a] \in Seq(Characters) /\ IsManagedSid(Sid[a])
  OBVIOUS
<1>1. \A s \in Seq(Characters) : SanitizeSidPart(s) \in Seq(Characters)
  <2> TAKE s \in Seq(Characters)
  <2>1. /\ Len(s) \in Nat /\ DOMAIN s = 1..Len(s)
        /\ \A i \in DOMAIN s : s[i] \in Characters
    BY LenProperties, ElementOfSeq
  <2>2. {"-", "x"} \subseteq Characters
    BY PolicyAssumption
  <2>3. [i \in DOMAIN s |-> IF s[i] = "." THEN "-" ELSE s[i]]
           \in Seq(Characters)
    BY <2>1, <2>2
  <2>4. <<"x">> \in Seq(Characters)
    BY <2>2
  <2> QED BY <2>3, <2>4 DEF SanitizeSidPart
<1> DEFINE x == SanitizeSidPart(a.ns)
           y == SanitizeSidPart(a.name)
           h == <<"-">>
           p == Prefix \o h
<1>2. x \in Seq(Characters) /\ y \in Seq(Characters)
  BY <1>1, PolicyAssumption
<1>3. h \in Seq(Characters) /\ p \in Seq(Characters) /\ p # << >>
  <2>1. h \in Seq(Characters) /\ Prefix \in Seq(Characters)
    BY PolicyAssumption
  <2>2. p \in Seq(Characters) /\ Len(p) = Len(Prefix) + Len(h)
    BY <2>1, ConcatProperties
  <2>3. Len(Prefix) = 1 /\ Len(h) = 1
    BY DEF Prefix
  <2>4. Len(p) # 0
    BY <2>2, <2>3
  <2> QED BY <2>1, <2>2, <2>4, EmptySeq
<1>4. Sid[a] = ((p \o x) \o h) \o y
  BY DEF Sid, ManagedSid
<1> HIDE DEF x, y, h, p
<1>5. IsPrefix(p, p)
  BY <1>3, LenProperties DEF IsPrefix
<1>6. p \o x \in Seq(Characters) /\ IsPrefix(p, p \o x)
  BY <1>2, <1>3, <1>5, PrefixGrows, ConcatProperties
<1>7. (p \o x) \o h \in Seq(Characters) /\ IsPrefix(p, (p \o x) \o h)
  BY <1>3, <1>6, PrefixGrows, ConcatProperties
<1>8. Sid[a] \in Seq(Characters) /\ IsPrefix(p, Sid[a])
  BY <1>2, <1>3, <1>4, <1>7, PrefixGrows, ConcatProperties
<1> QED BY <1>8 DEF IsManagedSid, p, h

-----------------------------------------------------------------------------
(* Type correctness                                                          *)

LEMMA AcceptedActions ==
    ASSUME NEW a, Actions(a) # Refused
    PROVE  Actions(a) \subseteq AllowedActions
BY PermissionAssumption DEF Actions, ResolvePermissions

LEMMA GrantType ==
    ASSUME NEW a \in Accesses, NEW actions, actions \subseteq AllowedActions
    PROVE  [sid |-> Sid[a], actions |-> actions] \in Statements
BY SidsAreManaged, PermissionAssumption DEF Statements

LEMMA WrittenType ==
    ASSUME NEW w \in Specs, NEW f \in Documents, NEW c \in Documents
    PROVE  /\ WrittenPolicy(w, f, c) \in Seq(Statements)
           /\ \A a \in Accesses :
                 /\ Sid[a] \in SidsOf(WrittenPolicy(w, f, c))
                       => Sid[a] \in SidsOf(f.policy) \cup SidsOf(c.policy)
                 /\ /\ Unique(f.policy, Sid[a])
                    /\ Unique(c.policy, Sid[a])
                    => Unique(WrittenPolicy(w, f, c), Sid[a])
<1>1. f.policy \in Seq(Statements) /\ c.policy \in Seq(Statements)
  BY DEF Documents
<1>2. CASE w.policy = NoPolicy
  BY <1>1, <1>2 DEF WrittenPolicy
<1>3. CASE w.policy # NoPolicy
  <2>1. w.policy \in UserPolicies /\ w.policy \in Seq(Statements)
    BY <1>3, PolicyAssumption DEF Specs
  <2>2. \A a \in Accesses : Sid[a] \notin SidsOf(w.policy)
    BY <2>1, SidAssumption, SidsAreManaged
  <2>3. WrittenPolicy(w, f, c) = Merged(w.policy, f.policy)
    BY <1>3 DEF WrittenPolicy
  <2>4. ManagedSids(f.policy) \subseteq SidsOf(f.policy)
    BY DEF ManagedSids
  <2> QED BY <1>1, <2>1, <2>2, <2>3, <2>4, MergedType
<1> QED BY <1>2, <1>3

LEMMA InitInv == Init => TypeOK /\ WorkerInv /\ UniqueInv
<1> SUFFICES ASSUME Init PROVE TypeOK /\ WorkerInv /\ UniqueInv
  OBVIOUS
<1>1. spec \in Specs /\ remote \in Documents
  BY PolicyAssumption DEF Init, Specs, Documents
<1>2. access \in [Accesses -> Access]
  BY DEF Init, Access
<1>3. WorkerInv
  BY DEF Init, WorkerInv
<1>4. UniqueInv
  BY PolicyAssumption DEF Init, UniqueInv
<1> QED BY <1>1, <1>2, <1>3, <1>4, PolicyBounds DEF Init, TypeOK

LEMMA InvStep ==
    TypeOK /\ WorkerInv /\ UniqueInv /\ [Next]_vars
    => TypeOK' /\ WorkerInv' /\ UniqueInv'
<1> SUFFICES ASSUME TypeOK, WorkerInv, UniqueInv, [Next]_vars
             PROVE  TypeOK' /\ WorkerInv' /\ UniqueInv'
  OBVIOUS
<1>1. CASE UNCHANGED vars
  BY <1>1 DEF vars, TypeOK, WorkerInv, UniqueInv
<1>2. CASE BucketRead
  <2>1. /\ bw' = [pc |-> "write", want |-> spec, fetched |-> remote]
        /\ UNCHANGED <<remote, spec, access, aw, faults, edits>>
    BY <1>2 DEF BucketRead
  <2> QED BY <2>1 DEF TypeOK, WorkerInv, UniqueInv
<1>3. CASE BucketWrite
  <2>1. bw \in [pc : {"write"}, want : Specs, fetched : Documents]
    BY <1>3 DEF BucketWrite, TypeOK
  <2> DEFINE p == WrittenPolicy(bw.want, bw.fetched, remote)
  <2>2. /\ p \in Seq(Statements)
        /\ \A a \in Accesses : /\ Unique(bw.fetched.policy, Sid[a])
                               /\ Unique(remote.policy, Sid[a])
                               => Unique(p, Sid[a])
    BY <2>1, WrittenType DEF TypeOK
  <2> HIDE DEF p
  <2>3. /\ bw # Idle /\ bw' = Idle /\ UNCHANGED <<spec, access, aw, edits>>
        /\ \/ /\ remote' = [settings |-> bw.want.settings, policy |-> p]
              /\ UNCHANGED faults
           \/ Fail /\ UNCHANGED remote
    BY <1>3 DEF BucketWrite, p
  <2>4. remote' \in Documents /\ faults' \in 0..MaxFaults
    BY <2>1, <2>2, <2>3, PolicyBounds DEF TypeOK, Documents, Specs, Fail
  <2>5. \A a \in Accesses : Unique(remote'.policy, Sid[a])
    BY <2>2, <2>3 DEF UniqueInv
  <2> QED BY <2>3, <2>4, <2>5 DEF TypeOK, WorkerInv, UniqueInv
<1>4. CASE AccessRead
  <2>1. PICK a \in Accesses :
           /\ \/ access[a].phase = "live" /\ Actions(access[a]) # Refused
              \/ access[a].phase = "deleting"
           /\ aw' = [pc |-> "write", of |-> a, want |-> access[a],
                     fetched |-> remote]
    BY <1>4 DEF AccessRead
  <2>2. UNCHANGED <<remote, spec, access, bw, faults, edits>>
    BY <1>4 DEF AccessRead
  <2> QED BY <2>1, <2>2 DEF TypeOK, WorkerInv, UniqueInv
<1>5. CASE AccessWrite
  <2> DEFINE a == aw.of
             c == aw.fetched.policy
             s == [sid |-> Sid[a], actions |-> Actions(aw.want)]
             g == [aw.fetched EXCEPT !.policy = Upserted(@, s)]
             r == [aw.fetched EXCEPT !.policy = Removed(@, Sid[a])]
  <2>1. /\ aw \in [pc : {"write"}, of : Accesses, want : Access,
                   fetched : Documents]
        /\ aw # Idle /\ aw' = Idle /\ UNCHANGED <<spec, bw, edits>>
        /\ Grant(a) \/ Revoke(a)
    BY <1>5 DEF AccessWrite, TypeOK
  <2>2. /\ a \in Accesses /\ aw.fetched \in Documents
        /\ c \in Seq(Statements) /\ aw.want \in Access
    BY <2>1 DEF Documents
  <2>3. \A b \in Accesses : /\ Unique(remote.policy, Sid[b])
                            /\ Unique(c, Sid[b])
    BY <2>1 DEF UniqueInv
  <2>4. CASE Grant(a)
    <3>1. aw.want.phase = "live" /\ Actions(aw.want) # Refused
      BY <2>1, <2>4 DEF Grant, WorkerInv
    <3>2. s \in Statements /\ s.sid = Sid[a]
      BY <2>2, <3>1, AcceptedActions, GrantType
    <3> DEFINE u == Upserted(c, s)
    <3>3. g = [settings |-> aw.fetched.settings, policy |-> u]
      BY <2>2 DEF Documents
    <3>4. \/ /\ remote' = g /\ UNCHANGED faults
             /\ access' = [access EXCEPT ![a].granted = TRUE]
          \/ Fail /\ remote' \in {remote, g} /\ UNCHANGED access
      BY <2>4 DEF Grant
    <3> HIDE DEF s, a, g
    <3>5. /\ u \in Seq(Statements)
          /\ \A b \in Accesses : Unique(u, Sid[b])
      BY <2>2, <2>3, <3>2, UpsertedType
    <3> HIDE DEF u, c
    <3>6. remote' \in Documents /\ faults' \in 0..MaxFaults
      BY <2>2, <3>3, <3>4, <3>5, PolicyBounds DEF TypeOK, Documents, Fail
    <3>7. \A b \in Accesses : Unique(remote'.policy, Sid[b])
      BY <2>3, <3>3, <3>4, <3>5
    <3>8. access' \in [Accesses -> Access]
      <4>1. access \in [Accesses -> Access]
        BY DEF TypeOK
      <4>2. [access[a] EXCEPT !.granted = TRUE] \in Access
        BY <2>2, <4>1 DEF Access
      <4>3. CASE UNCHANGED access
        BY <4>1, <4>3
      <4>4. CASE access' = [access EXCEPT ![a].granted = TRUE]
        BY <2>2, <4>1, <4>2, <4>4
      <4> QED BY <3>4, <4>3, <4>4
    <3> QED BY <2>1, <3>6, <3>7, <3>8 DEF TypeOK, WorkerInv, UniqueInv
  <2>5. CASE Revoke(a)
    <3> DEFINE u == Removed(c, Sid[a])
    <3>1. r = [settings |-> aw.fetched.settings, policy |-> u]
      BY <2>2 DEF Documents
    <3>2. /\ \/ remote' = r /\ UNCHANGED faults
             \/ Fail /\ remote' \in {remote, r}
          /\ \/ access' = [access EXCEPT ![a].phase = "gone",
                                         ![a].granted = FALSE]
             \/ UNCHANGED access
      BY <2>5 DEF Revoke
    <3> HIDE DEF a, r
    <3>3. /\ u \in Seq(Statements)
          /\ \A b \in Accesses : Unique(u, Sid[b])
      BY <2>2, <2>3, RemovedType
    <3> HIDE DEF u, c
    <3>4. remote' \in Documents /\ faults' \in 0..MaxFaults
      BY <2>2, <3>1, <3>2, <3>3, PolicyBounds DEF TypeOK, Documents, Fail
    <3>5. \A b \in Accesses : Unique(remote'.policy, Sid[b])
      BY <2>3, <3>1, <3>2, <3>3
    <3>6. access' \in [Accesses -> Access]
      BY <2>2, <3>2 DEF TypeOK, Access
    <3> QED BY <2>1, <3>4, <3>5, <3>6 DEF TypeOK, WorkerInv, UniqueInv
  <2> QED BY <2>1, <2>4, <2>5
<1>6. CASE Users
  <2>1. /\ UNCHANGED <<remote, bw, aw, faults>> /\ edits' \in 0..MaxEdits
    BY <1>6, PolicyBounds DEF Users, TypeOK
  <2>2. /\ spec' \in Specs /\ access' \in [Accesses -> Access]
        /\ \A a \in Accesses : access[a].phase # "gone"
                               => access'[a].phase # "gone"
    <3>1. CASE /\ \E s \in Settings, p \in UserPolicies \cup {NoPolicy} :
                     spec' = [settings |-> s, policy |-> p]
               /\ UNCHANGED access
      BY <3>1 DEF TypeOK, Specs
    <3>2. CASE /\ \E a \in Accesses, r \in Requests :
                     \/ access' = [access EXCEPT ![a].phase = "live",
                                                 ![a].request = r]
                     \/ access' = [access EXCEPT ![a].phase = "deleting"]
               /\ UNCHANGED spec
      BY <3>2 DEF TypeOK, Access
    <3> QED BY <1>6, <3>1, <3>2 DEF Users
  <2>3. aw # Idle => aw.of \in Accesses
    BY DEF TypeOK
  <2> QED BY <2>1, <2>2, <2>3 DEF TypeOK, WorkerInv, UniqueInv
<1> QED BY <1>1, <1>2, <1>3, <1>4, <1>5, <1>6 DEF Next, Pass

(* Every variable keeps its type; in particular no statement under the Sid   *)
(* of an object, on the bucket or in the hands of a worker, carries an       *)
(* action that is not allowlisted, whatever objects and users ask for.       *)
THEOREM TypeCorrect == Spec => []TypeOK
<1> QED BY InitInv, InvStep, PTL DEF Spec

(* However often grants and removals are repeated, fail after they reached   *)
(* the service and overwrite each other, an object's Sid never names two     *)
(* statements of the bucket's policy.                                        *)
THEOREM OneGrantPerObject == Spec => []OneStatementPerAccess
<1>1. UniqueInv => OneStatementPerAccess
  BY DEF UniqueInv, OneStatementPerAccess
<1> QED BY <1>1, InitInv, InvStep, PTL DEF Spec

-----------------------------------------------------------------------------
(* What a step may do                                                        *)

LEMMA DistinctSids ==
    ASSUME NEW a \in Accesses, NEW b \in Accesses, Sid[a] = Sid[b]
    PROVE  a = b
BY SidAssumption DEF IsInjective, Sid

(* What is common to the writes of the BucketAccess worker.                  *)
LEMMA AccessWritten ==
    ASSUME TypeOK, WorkerInv, AccessWrite
    PROVE  \E a \in Accesses : \E c \in Documents : \E p \in Seq(Statements) :
              /\ a = aw.of /\ c = aw.fetched
              /\ access[a].phase # "gone"
              /\ remote' \in {remote, [settings |-> c.settings, policy |-> p]}
              /\ \/ /\ Grant(a)
                    /\ \E s \in Statements : s.sid = Sid[a]
                                             /\ p = Upserted(c.policy, s)
                 \/ /\ Revoke(a)
                    /\ p = Removed(c.policy, Sid[a])
<1> DEFINE a == aw.of
           c == aw.fetched
           s == [sid |-> Sid[a], actions |-> Actions(aw.want)]
           u == Upserted(c.policy, s)
           r == Removed(c.policy, Sid[a])
<1>1. /\ aw \in [pc : {"write"}, of : Accesses, want : Access,
                 fetched : Documents]
      /\ aw # Idle
      /\ Grant(a) \/ Revoke(a)
  BY DEF AccessWrite, TypeOK
<1>2. /\ a \in Accesses /\ c \in Documents /\ aw.want \in Access
      /\ c.policy \in Seq(Statements) /\ access[a].phase # "gone"
      /\ c = [settings |-> c.settings, policy |-> c.policy]
  BY <1>1 DEF Documents, WorkerInv
<1>3. CASE Grant(a)
  <2>1. s \in Statements /\ s.sid = Sid[a]
    BY <1>1, <1>2, <1>3, AcceptedActions, GrantType DEF Grant, WorkerInv
  <2>2. remote' \in {remote, [c EXCEPT !.policy = u]}
    BY <1>3 DEF Grant
  <2> HIDE DEF a, c, s
  <2>3. u \in Seq(Statements)
    BY <1>2, <2>1, UpsertedType
  <2>4. [c EXCEPT !.policy = u] = [settings |-> c.settings, policy |-> u]
    BY <1>2
  <2>5. /\ remote' \in {remote, [settings |-> c.settings, policy |-> u]}
        /\ \E t \in Statements : t.sid = Sid[a] /\ u = Upserted(c.policy, t)
    BY <2>1, <2>2, <2>4
  <2> HIDE DEF u
  <2> QED BY <1>2, <1>3, <2>3, <2>5 DEF a, c
<1>4. CASE Revoke(a)
  <2>1. remote' \in {remote, [c EXCEPT !.policy = r]}
    BY <1>4 DEF Revoke
  <2> HIDE DEF a, c
  <2>2. r \in Seq(Statements)
    BY <1>2, RemovedType
  <2>3. [c EXCEPT !.policy = r] = [settings |-> c.settings, policy |-> r]
    BY <1>2
  <2>4. remote' \in {remote, [settings |-> c.settings, policy |-> r]}
    BY <2>1, <2>3
  <2>5. r = Removed(c.policy, Sid[a])
    OBVIOUS
  <2> HIDE DEF r
  <2> QED BY <1>2, <1>4, <2>2, <2>4, <2>5 DEF a, c
<1> QED BY <1>1, <1>3, <1>4

(* A statement of a deleted object comes back, or outlives the object, in    *)
(* three ways only: a stale write of either controller, or a failed removal  *)
(* for a bucket that the object's status did not list.                       *)
THEOREM GhostsHaveReasons == Spec => GhostsExplained
<1> DEFINE Reason ==
              \/ BucketWrite /\ bw.fetched # remote
              \/ AccessWrite /\ aw.fetched # remote
              \/ AccessWrite /\ faults' # faults /\ ~aw.want.granted
<1>1. ASSUME TypeOK, WorkerInv, [Next]_vars, ~Reason
      PROVE  Ghosts' \subseteq Ghosts
  <2> SUFFICES ASSUME NEW b \in Accesses, access'[b].phase = "gone",
                      Sid[b] \in SidsOf(remote'.policy)
               PROVE  /\ access[b].phase = "gone"
                      /\ Sid[b] \in SidsOf(remote.policy)
    BY DEF Ghosts, Defines
  <2>1. CASE UNCHANGED vars
    BY <2>1 DEF vars
  <2>2. CASE BucketRead
    BY <2>2 DEF BucketRead
  <2>3. CASE BucketWrite
    <3>1. /\ bw \in [pc : {"write"}, want : Specs, fetched : Documents]
          /\ remote \in Documents /\ bw.fetched = remote
      BY <1>1, <2>3 DEF BucketWrite, TypeOK
    <3> DEFINE p == WrittenPolicy(bw.want, bw.fetched, remote)
    <3>2. Sid[b] \in SidsOf(p) => Sid[b] \in SidsOf(remote.policy)
      BY <3>1, WrittenType
    <3> HIDE DEF p
    <3>3. /\ UNCHANGED access
          /\ remote'.policy \in {remote.policy, p}
      BY <2>3 DEF BucketWrite, p
    <3> QED BY <3>2, <3>3
  <2>4. CASE AccessRead
    BY <2>4 DEF AccessRead
  <2>5. CASE AccessWrite
    <3>1. aw.fetched = remote /\ (faults' = faults \/ aw.want.granted)
      BY <1>1, <2>5
    <3>2. PICK a \in Accesses, c \in Documents, p \in Seq(Statements) :
             /\ a = aw.of /\ c = aw.fetched
             /\ access[a].phase # "gone"
             /\ remote' \in {remote, [settings |-> c.settings, policy |-> p]}
             /\ \/ /\ Grant(a)
                   /\ \E s \in Statements : s.sid = Sid[a]
                                            /\ p = Upserted(c.policy, s)
                \/ /\ Revoke(a)
                   /\ p = Removed(c.policy, Sid[a])
      BY <1>1, <2>5, AccessWritten
    <3>3. c.policy = remote.policy /\ remote.policy \in Seq(Statements)
      BY <3>1, <3>2 DEF Documents
    <3>4. remote'.policy \in {remote.policy, p}
      BY <3>2
    <3>5. CASE Grant(a) /\ \E s \in Statements : s.sid = Sid[a]
                                                 /\ p = Upserted(c.policy, s)
      <4>1. SidsOf(p) = SidsOf(remote.policy) \cup {Sid[a]}
        BY <3>3, <3>5, UpsertedType
      <4>2. access'[b].phase = access[b].phase
        BY <1>1, <3>5 DEF Grant, TypeOK, Access
      <4>3. Sid[b] # Sid[a]
        BY <3>2, <4>2, DistinctSids
      <4> QED BY <3>4, <4>1, <4>2, <4>3
    <3>6. CASE Revoke(a) /\ p = Removed(c.policy, Sid[a])
      <4>1. SidsOf(p) = SidsOf(remote.policy) \ {Sid[a]}
        BY <3>3, <3>6, RemovedType
      <4>2. CASE UNCHANGED access
        BY <3>4, <4>1, <4>2
      <4>3. CASE /\ access' = [access EXCEPT ![a].phase = "gone",
                                             ![a].granted = FALSE]
                 /\ remote'.policy = p
        BY <1>1, <4>1, <4>3 DEF TypeOK
      <4>4. \/ UNCHANGED access
            \/ /\ access' = [access EXCEPT ![a].phase = "gone",
                                           ![a].granted = FALSE]
               /\ remote'.policy = p
        <5>1. faults' = faults => ~Fail
          BY <1>1 DEF TypeOK, Fail
        <5>2. CASE Fail /\ IF Forgiven(aw.want) THEN FALSE ELSE UNCHANGED access
          BY <5>2
        <5>3. aw.fetched \in Documents
          BY <3>2
        <5>4. CASE /\ remote' = [aw.fetched EXCEPT !.policy = Removed(@, Sid[a])]
                   /\ access' = [access EXCEPT ![a].phase = "gone",
                                               ![a].granted = FALSE]
          BY <3>2, <3>6, <5>3, <5>4 DEF Documents
        <5> QED BY <3>1, <3>6, <5>1, <5>2, <5>4 DEF Revoke, Forgiven
      <4> QED BY <4>2, <4>3, <4>4
    <3> QED BY <3>2, <3>5, <3>6
  <2>6. CASE Users
    <3>1. UNCHANGED remote
      BY <2>6 DEF Users
    <3>2. \/ UNCHANGED access
          \/ \E a \in Accesses, r \in Requests :
                \/ access' = [access EXCEPT ![a].phase = "live",
                                            ![a].request = r]
                \/ access' = [access EXCEPT ![a].phase = "deleting"]
      BY <2>6 DEF Users
    <3>3. access \in [Accesses -> Access]
      BY <1>1 DEF TypeOK
    <3>4. ASSUME NEW a \in Accesses, NEW r \in Requests,
                 \/ access' = [access EXCEPT ![a].phase = "live",
                                             ![a].request = r]
                 \/ access' = [access EXCEPT ![a].phase = "deleting"]
          PROVE  access[b].phase = "gone"
      <4>1. CASE a = b
        BY <3>3, <3>4, <4>1 DEF Access
      <4>2. CASE a # b
        BY <3>3, <3>4, <4>2
      <4> QED BY <4>1, <4>2
    <3>5. access[b].phase = "gone"
      BY <3>2, <3>4
    <3> QED BY <3>1, <3>5
  <2> QED BY <1>1, <2>1, <2>2, <2>3, <2>4, <2>5, <2>6 DEF Next, Pass
<1>2. TypeOK /\ WorkerInv /\ [Next]_vars
      => [~(Ghosts' \subseteq Ghosts) => Reason]_vars
  BY <1>1
<1> HIDE DEF Reason
<1>3. Spec => [][~(Ghosts' \subseteq Ghosts) => Reason]_vars
  BY <1>2, InitInv, InvStep, PTL DEF Spec
<1> QED BY <1>3 DEF GhostsExplained, Reason

(* As long as nobody writes the bucket between a controller's read and its   *)
(* write, the Bucket controller gives every managed statement back as it     *)
(* was, in order, and the BucketAccess controller the settings and every     *)
(* statement but its own.                                                    *)
THEOREM NothingElseIsTouched == Spec => OthersKept
<1> DEFINE Kept ==
       /\ (BucketWrite /\ bw.fetched = remote)
             => ManagedPart(remote'.policy) = ManagedPart(remote.policy)
       /\ (AccessWrite /\ aw.fetched = remote)
             => /\ remote'.settings = remote.settings
                /\ Removed(remote'.policy, Sid[aw.of])
                      = Removed(remote.policy, Sid[aw.of])
<1>1. ASSUME TypeOK, BucketWrite, bw.fetched = remote
      PROVE  ManagedPart(remote'.policy) = ManagedPart(remote.policy)
  <2>1. /\ bw \in [pc : {"write"}, want : Specs, fetched : Documents]
        /\ remote \in Documents /\ bw.want \in Specs
        /\ remote.policy \in Seq(Statements)
    BY <1>1 DEF BucketWrite, TypeOK, Documents
  <2> DEFINE w == bw.want.policy
             p == WrittenPolicy(bw.want, bw.fetched, remote)
  <2>2. remote'.policy \in {remote.policy, p}
    BY <1>1 DEF BucketWrite
  <2>3. CASE w = NoPolicy
    BY <2>2, <2>3 DEF WrittenPolicy
  <2>4. CASE w # NoPolicy
    <3>1. w \in UserPolicies /\ w \in Seq(Statements)
      BY <2>1, <2>4, PolicyAssumption DEF Specs
    <3>2. ManagedSids(w) = {}
      BY <3>1, SidAssumption DEF ManagedSids
    <3>3. p = Merged(w, remote.policy)
      BY <1>1, <2>4 DEF WrittenPolicy
    <3> HIDE DEF w, p
    <3>4. ManagedPart(Merged(w, remote.policy)) = ManagedPart(remote.policy)
      BY <2>1, <3>1, <3>2, ManagedPartOfMerged
    <3> QED BY <2>2, <3>3, <3>4
  <2> QED BY <2>3, <2>4
<1>2. ASSUME TypeOK, WorkerInv, AccessWrite, aw.fetched = remote
      PROVE  /\ remote'.settings = remote.settings
             /\ Removed(remote'.policy, Sid[aw.of])
                   = Removed(remote.policy, Sid[aw.of])
  <2>1. PICK a \in Accesses, c \in Documents, p \in Seq(Statements) :
           /\ a = aw.of /\ c = aw.fetched
           /\ remote' \in {remote, [settings |-> c.settings, policy |-> p]}
           /\ \/ \E s \in Statements : s.sid = Sid[a]
                                       /\ p = Upserted(c.policy, s)
              \/ p = Removed(c.policy, Sid[a])
    BY <1>2, AccessWritten
  <2>2. c.policy \in Seq(Statements) /\ c = remote
    BY <1>2, <2>1 DEF Documents
  <2>3. Removed(p, Sid[a]) = Removed(c.policy, Sid[a])
    BY <2>1, <2>2, RemovedOfUpserted, RemovedTwice
  <2> QED BY <2>1, <2>2, <2>3
<1>3. TypeOK /\ WorkerInv => [Kept]_vars
  BY <1>1, <1>2
<1> HIDE DEF Kept
<1>4. Spec => [][Kept]_vars
  BY <1>3, InitInv, InvStep, PTL DEF Spec
<1> QED BY <1>4 DEF OthersKept, Kept
=============================================================================
