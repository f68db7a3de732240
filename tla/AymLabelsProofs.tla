--------------------------- MODULE AymLabelsProofs ---------------------------
(***************************************************************************)
(* The label table, for any labels, hash function, sizes and number of     *)
(* bindings: that it stays whole, which of several bindings of a name is   *)
(* found, that nothing it frees is used and nothing is missed, and that it *)
(* is the map LabelMap promises.                                           *)
(***************************************************************************)
EXTENDS AymLabels, SequenceTheorems, FiniteSetTheorems, WellFoundedInduction, TLAPS

-----------------------------------------------------------------------------
(* Sequences of entries                                                      *)

LEMMA LeastOne ==
  ASSUME NEW T, T \subseteq Nat, T # {}
  PROVE  \E x \in T : \A y \in T : x <= y
<1>1. PICK x \in T : \A y \in T : ~(<<y, x>> \in OpToRel(<, Nat))
  BY NatLessThanWellFounded, WFMin
<1>2. ASSUME NEW y \in T PROVE x <= y
  <2> DEFINE pair == <<y, x>>
  <2>1. pair \in Nat \X Nat /\ pair[1] = y /\ pair[2] = x
    OBVIOUS
  <2>2. pair \in OpToRel(<, Nat) <=> pair[1] < pair[2]
    BY <2>1, Zenon DEF OpToRel
  <2>3. ~(y < x)
    BY <1>1, <2>1, <2>2, Zenon
  <2> QED
    BY <2>3
<1> QED
  BY <1>2

LEMMA MinIs ==
  ASSUME NEW T, T \subseteq Nat, T # {}
  PROVE  Min(T) \in T /\ \A y \in T : Min(T) <= y
BY LeastOne, Zenon DEF Min

\* A linked list in which no entry is linked twice.
List(s) == s \in Seq(Nat) /\ IsInjective(s)

LEMMA ListHas ==
  ASSUME NEW s \in Seq(Nat)
  PROVE  /\ Len(s) \in Nat /\ DOMAIN s = 1 .. Len(s) /\ ToSet(s) \subseteq Nat
         /\ \A x : x \in ToSet(s) <=> \E k \in 1 .. Len(s) : s[k] = x
         /\ s = <<>> <=> Len(s) = 0
         /\ s = <<>> <=> ToSet(s) = {}
<1>1. Len(s) \in Nat /\ DOMAIN s = 1 .. Len(s)
  BY LenProperties
<1>2. \A x : x \in ToSet(s) <=> \E k \in 1 .. Len(s) : s[k] = x
  BY <1>1 DEF ToSet
<1>3. s = <<>> <=> Len(s) = 0
  BY EmptySeq
<1>4. s = <<>> <=> ToSet(s) = {}
  <2>1. Len(s) # 0 => s[1] \in ToSet(s)
    BY <1>1, <1>2
  <2>2. Len(s) = 0 => ToSet(s) = {}
    BY <1>1, <1>2
  <2> QED
    BY <1>3, <2>1, <2>2
<1>5. ToSet(s) \subseteq Nat
  BY <1>1, <1>2
<1> QED
  BY <1>1, <1>2, <1>3, <1>4, <1>5

LEMMA ListApart ==
  ASSUME NEW s, List(s)
  PROVE  \A i, j \in 1 .. Len(s) : s[i] = s[j] => i = j
<1>1. DOMAIN s = 1 .. Len(s)
  BY ListHas DEF List
<1> QED
  BY <1>1, Zenon DEF List, IsInjective

\* t is s with an entry in front, with one at its end.
InFront(t, s, e) == t[1] = e /\ \A i \in 1 .. Len(s) : t[i + 1] = s[i]
AtEnd(t, s, e) == t[Len(s) + 1] = e /\ \A i \in 1 .. Len(s) : t[i] = s[i]

LEMMA ConsIs ==
  ASSUME NEW s, List(s), NEW e \in Nat, e \notin ToSet(s), NEW t, t = <<e>> \o s
  PROVE  /\ List(t) /\ Len(t) = Len(s) + 1 /\ ToSet(t) = ToSet(s) \cup {e}
         /\ InFront(t, s, e)
<1>1. s \in Seq(Nat) /\ <<e>> \in Seq(Nat) /\ Len(<<e>>) = 1 /\ <<e>>[1] = e /\ Len(s) \in Nat
  BY DEF List
<1>2. /\ t \in Seq(Nat) /\ Len(t) = 1 + Len(s)
      /\ \A i \in 1 .. 1 + Len(s) : t[i] = IF i <= 1 THEN <<e>>[i] ELSE s[i - 1]
  BY <1>1, ConcatProperties
<1>3. t[1] = e
  BY <1>1, <1>2
<1>4. ASSUME NEW i \in 1 .. Len(s) PROVE t[i + 1] = s[i]
  <2>1. i + 1 \in 1 .. 1 + Len(s) /\ ~(i + 1 <= 1) /\ (i + 1) - 1 = i
    BY <1>1
  <2> QED
    BY <1>2, <2>1
<1>5. ASSUME NEW k \in 1 .. Len(t) PROVE k = 1 \/ \E i \in 1 .. Len(s) : k = i + 1
  <2>1. k = 1 \/ (k - 1 \in 1 .. Len(s) /\ k = (k - 1) + 1)
    BY <1>1, <1>2
  <2> QED
    BY <2>1
<1>6. ToSet(t) = ToSet(s) \cup {e}
  <2>1. ASSUME NEW x \in ToSet(t) PROVE x \in ToSet(s) \cup {e}
    <3>1. PICK k \in 1 .. Len(t) : t[k] = x
      BY <1>2, ListHas
    <3> QED
      BY <1>1, <1>3, <1>4, <1>5, <3>1, ListHas
  <2>2. ASSUME NEW x \in ToSet(s) \cup {e} PROVE x \in ToSet(t)
    <3>1. CASE x = e
      <4>1. 1 \in 1 .. Len(t)
        BY <1>1, <1>2
      <4> QED
        BY <1>2, <1>3, <3>1, <4>1, ListHas
    <3>2. CASE x \in ToSet(s)
      <4>1. PICK i \in 1 .. Len(s) : s[i] = x
        BY <1>1, <3>2, ListHas
      <4>2. i + 1 \in 1 .. Len(t) /\ t[i + 1] = x
        BY <1>1, <1>2, <1>4, <4>1
      <4> QED
        BY <1>2, <4>2, ListHas
    <3> QED
      BY <3>1, <3>2
  <2> QED
    BY <2>1, <2>2
<1>7. ASSUME NEW a \in 1 .. Len(t), NEW b \in 1 .. Len(t), t[a] = t[b] PROVE a = b
  <2>1. ASSUME NEW i \in 1 .. Len(s) PROVE s[i] # e
    BY <1>1, ListHas
  <2>2. ASSUME NEW i \in 1 .. Len(s), NEW j \in 1 .. Len(s), s[i] = s[j] PROVE i = j
    BY <2>2, ListApart
  <2>3. CASE a = 1
    BY <1>3, <1>4, <1>5, <1>7, <2>1, <2>3
  <2>4. CASE b = 1
    BY <1>3, <1>4, <1>5, <1>7, <2>1, <2>4
  <2>5. CASE a # 1 /\ b # 1
    <3>1. PICK i \in 1 .. Len(s) : a = i + 1
      BY <1>5, <2>5
    <3>2. PICK j \in 1 .. Len(s) : b = j + 1
      BY <1>5, <2>5
    <3>3. s[i] = s[j]
      BY <1>4, <1>7, <3>1, <3>2
    <3> QED
      BY <2>2, <3>1, <3>2, <3>3
  <2> QED
    BY <2>3, <2>4, <2>5
<1>8. List(t)
  BY <1>2, <1>7, ListHas DEF List, IsInjective
<1> QED
  BY <1>1, <1>2, <1>3, <1>4, <1>6, <1>8 DEF InFront

LEMMA AppendIs ==
  ASSUME NEW s, List(s), NEW e \in Nat, e \notin ToSet(s), NEW t, t = Append(s, e)
  PROVE  /\ List(t) /\ Len(t) = Len(s) + 1 /\ ToSet(t) = ToSet(s) \cup {e}
         /\ AtEnd(t, s, e)
<1>1. s \in Seq(Nat) /\ Len(s) \in Nat
  BY DEF List
<1>2. /\ t \in Seq(Nat) /\ Len(t) = Len(s) + 1
      /\ t[Len(s) + 1] = e /\ \A i \in 1 .. Len(s) : t[i] = s[i]
  BY <1>1, AppendProperties
<1>3. ASSUME NEW k \in 1 .. Len(t) PROVE k = Len(s) + 1 \/ k \in 1 .. Len(s)
  BY <1>1, <1>2
<1>4. ToSet(t) = ToSet(s) \cup {e}
  <2>1. ASSUME NEW x \in ToSet(t) PROVE x \in ToSet(s) \cup {e}
    <3>1. PICK k \in 1 .. Len(t) : t[k] = x
      BY <1>2, ListHas
    <3> QED
      BY <1>1, <1>2, <1>3, <3>1, ListHas
  <2>2. ASSUME NEW x \in ToSet(s) \cup {e} PROVE x \in ToSet(t)
    <3>1. CASE x = e
      <4>1. Len(s) + 1 \in 1 .. Len(t)
        BY <1>1, <1>2
      <4> QED
        BY <1>2, <3>1, <4>1, ListHas
    <3>2. CASE x \in ToSet(s)
      <4>1. PICK i \in 1 .. Len(s) : s[i] = x
        BY <1>1, <3>2, ListHas
      <4>2. i \in 1 .. Len(t) /\ t[i] = x
        BY <1>1, <1>2, <4>1
      <4> QED
        BY <1>2, <4>2, ListHas
    <3> QED
      BY <3>1, <3>2
  <2> QED
    BY <2>1, <2>2
<1>5. ASSUME NEW a \in 1 .. Len(t), NEW b \in 1 .. Len(t), t[a] = t[b] PROVE a = b
  <2>1. ASSUME NEW i \in 1 .. Len(s) PROVE s[i] # e
    BY <1>1, ListHas
  <2>2. ASSUME NEW i \in 1 .. Len(s), NEW j \in 1 .. Len(s), s[i] = s[j] PROVE i = j
    BY <2>2, ListApart
  <2> QED
    BY <1>2, <1>3, <1>5, <2>1, <2>2
<1>6. List(t)
  BY <1>2, <1>5, ListHas DEF List, IsInjective
<1> QED
  BY <1>2, <1>4, <1>6 DEF AtEnd

LEMMA PlaceIs ==
  ASSUME NEW s, List(s)
  PROVE  /\ \A k \in 1 .. Len(s) : Place(s, s[k]) = k
         /\ \A e : e \notin ToSet(s) => Place(s, e) = 0
<1>1. s \in Seq(Nat) /\ Len(s) \in Nat
  BY DEF List
<1>2. ASSUME NEW k \in 1 .. Len(s) PROVE Place(s, s[k]) = k
  <2> DEFINE I == {i \in 1 .. Len(s) : s[i] = s[k]}
  <2>1. I = {k}
    BY <1>1, ListHas DEF List, IsInjective
  <2>2. I \subseteq Nat /\ I # {}
    BY <2>1
  <2>3. Min(I) = k
    BY <2>1, <2>2, MinIs
  <2>4. Place(s, s[k]) = IF I # {} THEN Min(I) ELSE 0
    BY DEF Place, SelectInSeq
  <2> QED
    BY <2>2, <2>3, <2>4
<1>3. ASSUME NEW e, e \notin ToSet(s) PROVE Place(s, e) = 0
  <2> DEFINE I == {i \in 1 .. Len(s) : s[i] = e}
  <2>1. I = {}
    BY <1>1, <1>3, ListHas
  <2>2. Place(s, e) = IF I # {} THEN Min(I) ELSE 0
    BY DEF Place, SelectInSeq
  <2> QED
    BY <2>1, <2>2
<1> QED
  BY <1>2, <1>3

\* t is s without its k-th.
Skips(t, s, k) == \A i \in 1 .. Len(s) - 1 : t[i] = IF i < k THEN s[i] ELSE s[i + 1]

\* Unlinking the entry at k.
LEMMA UnlinkIs ==
  ASSUME NEW s, List(s), NEW k \in 1 .. Len(s), NEW t, t = Unlink(s, s[k])
  PROVE  /\ List(t) /\ Len(t) = Len(s) - 1 /\ ToSet(t) = ToSet(s) \ {s[k]}
         /\ Skips(t, s, k)
<1>1. s \in Seq(Nat) /\ Len(s) \in Nat
  BY DEF List
<1>2. PICK n \in Nat : n = Len(s)
  BY <1>1
<1>3. t = SubSeq(s, 1, k - 1) \o SubSeq(s, k + 1, n)
  BY <1>2, PlaceIs DEF Unlink, RemoveAt
<1>4. \A i \in 1 .. n : s[i] \in Nat
  BY <1>1, <1>2
<1>5. PICK u \in Seq(Nat) : /\ u = SubSeq(s, 1, k - 1) /\ Len(u) = k - 1
                            /\ \A i \in 1 .. k - 1 : u[i] = s[i]
  <2>1. PICK j \in Int : j = k - 1 /\ 0 <= j /\ j < n
    BY <1>2
  <2>2. \A i \in 1 .. j : s[i] \in Nat
    BY <1>4, <2>1
  <2>3. /\ SubSeq(s, 1, j) \in Seq(Nat)
        /\ Len(SubSeq(s, 1, j)) = IF 1 <= j THEN j - 1 + 1 ELSE 0
        /\ \A i \in 1 .. j - 1 + 1 : SubSeq(s, 1, j)[i] = s[1 + i - 1]
    BY <2>2, SubSeqProperties
  <2>4. PICK u \in Seq(Nat) : u = SubSeq(s, 1, j)
    BY <2>3
  <2>5. Len(u) = j /\ \A i \in 1 .. j : u[i] = s[i]
    BY <2>1, <2>3, <2>4
  <2> QED
    BY <2>1, <2>4, <2>5
<1>6. PICK v \in Seq(Nat) : /\ v = SubSeq(s, k + 1, n) /\ Len(v) = n - k
                            /\ \A i \in 1 .. n - k : v[i] = s[k + i]
  <2>1. PICK j \in Int : j = k + 1 /\ j <= n + 1 /\ 1 < j
    BY <1>2
  <2>2. \A i \in j .. n : s[i] \in Nat
    BY <1>4, <2>1
  <2>3. /\ SubSeq(s, j, n) \in Seq(Nat)
        /\ Len(SubSeq(s, j, n)) = IF j <= n THEN n - j + 1 ELSE 0
        /\ \A i \in 1 .. n - j + 1 : SubSeq(s, j, n)[i] = s[j + i - 1]
    BY <2>2, SubSeqProperties
  <2>4. PICK v \in Seq(Nat) : v = SubSeq(s, j, n)
    BY <2>3
  <2>5. Len(v) = n - k
    BY <1>2, <2>1, <2>3, <2>4
  <2>6. ASSUME NEW i \in 1 .. n - k PROVE v[i] = s[k + i]
    <3>1. i \in 1 .. n - j + 1 /\ j + i - 1 = k + i
      BY <2>1
    <3> QED
      BY <2>3, <2>4, <3>1
  <2> QED
    BY <2>1, <2>4, <2>5, <2>6
<1>7. /\ t \in Seq(Nat) /\ Len(t) = n - 1
      /\ \A i \in 1 .. n - 1 : t[i] = IF i < k THEN s[i] ELSE s[i + 1]
  <2>1. /\ t \in Seq(Nat) /\ Len(t) = Len(u) + Len(v)
        /\ \A i \in 1 .. Len(u) + Len(v) : t[i] = IF i <= Len(u) THEN u[i] ELSE v[i - Len(u)]
    BY <1>3, <1>5, <1>6, ConcatProperties
  <2>2. Len(t) = n - 1
    BY <1>2, <1>5, <1>6, <2>1
  <2>3. ASSUME NEW i \in 1 .. n - 1 PROVE t[i] = IF i < k THEN s[i] ELSE s[i + 1]
    <3>1. t[i] = IF i <= k - 1 THEN u[i] ELSE v[i - (k - 1)]
      BY <1>5, <2>1, <2>2, <2>3
    <3>2. CASE i < k
      BY <1>5, <3>1, <3>2
    <3>3. CASE ~(i < k)
      <4>1. i - (k - 1) \in 1 .. n - k /\ k + (i - (k - 1)) = i + 1
        BY <1>2, <3>3
      <4> QED
        BY <1>6, <3>1, <3>3, <4>1
    <3> QED
      BY <3>2, <3>3
  <2> QED
    BY <2>1, <2>2, <2>3
<1>8. ASSUME NEW i \in 1 .. n, NEW j \in 1 .. n, s[i] = s[j] PROVE i = j
  BY <1>2, <1>8, ListApart
<1>9. ASSUME NEW i \in 1 .. n - 1
      PROVE  \E j \in 1 .. n : j # k /\ t[i] = s[j] /\ j = IF i < k THEN i ELSE i + 1
  BY <1>2, <1>7
<1>10. List(t)
  <2>1. ASSUME NEW a \in 1 .. n - 1, NEW b \in 1 .. n - 1, t[a] = t[b] PROVE a = b
    <3>1. PICK i \in 1 .. n : t[a] = s[i] /\ i = IF a < k THEN a ELSE a + 1
      BY <1>9
    <3>2. PICK j \in 1 .. n : t[b] = s[j] /\ j = IF b < k THEN b ELSE b + 1
      BY <1>9
    <3>3. i = j
      BY <1>8, <2>1, <3>1, <3>2
    <3> QED
      BY <1>2, <3>1, <3>2, <3>3
  <2> QED
    BY <1>7, <2>1, ListHas DEF List, IsInjective
<1>11. ToSet(t) = ToSet(s) \ {s[k]}
  <2>1. ASSUME NEW x \in ToSet(t) PROVE x \in ToSet(s) \ {s[k]}
    <3>1. PICK i \in 1 .. n - 1 : t[i] = x
      BY <1>7, ListHas
    <3>2. PICK j \in 1 .. n : j # k /\ x = s[j]
      BY <1>9, <3>1
    <3>3. s[j] # s[k]
      BY <1>2, <1>8, <3>2
    <3> QED
      BY <1>1, <1>2, <3>2, <3>3, ListHas
  <2>2. ASSUME NEW x \in ToSet(s) \ {s[k]} PROVE x \in ToSet(t)
    <3>1. PICK j \in 1 .. n : j # k /\ s[j] = x
      BY <1>1, <1>2, <2>2, ListHas
    <3>2. PICK i \in 1 .. n - 1 : j = IF i < k THEN i ELSE i + 1
      <4>1. CASE j < k
        <5>1. j \in 1 .. n - 1
          BY <1>2, <4>1
        <5> QED
          BY <4>1, <5>1
      <4>2. CASE ~(j < k)
        <5>1. j - 1 \in 1 .. n - 1 /\ ~(j - 1 < k) /\ j = (j - 1) + 1
          BY <1>2, <3>1, <4>2
        <5> QED
          BY <5>1
      <4> QED
        BY <4>1, <4>2
    <3>3. t[i] = x
      BY <1>7, <3>1, <3>2
    <3> QED
      BY <1>7, <3>3, ListHas
  <2> QED
    BY <2>1, <2>2
<1> QED
  BY <1>2, <1>7, <1>10, <1>11 DEF Skips

LEMMA TailIs ==
  ASSUME NEW s, List(s), s # <<>>, NEW t, t = Tail(s)
  PROVE  /\ Head(s) = s[1] /\ s[1] \in ToSet(s) /\ s[1] \in Nat
         /\ List(t) /\ ToSet(t) = ToSet(s) \ {s[1]}
<1>1. s \in Seq(Nat) /\ Len(s) \in Nat \ {0}
  BY EmptySeq DEF List
<1>2. Head(s) = s[1] /\ s[1] \in ToSet(s) /\ s[1] \in Nat
  BY <1>1, ListHas
<1>3. PICK n \in Nat : n = Len(s) /\ n # 0
  BY <1>1
<1>4. t \in Seq(Nat) /\ Len(t) = n - 1 /\ \A i \in 1 .. n - 1 : t[i] = s[i + 1]
  BY <1>1, <1>3, HeadTailProperties
<1>5. ASSUME NEW a \in 1 .. n - 1, NEW b \in 1 .. n - 1, t[a] = t[b] PROVE a = b
  <2>1. a + 1 \in 1 .. n /\ b + 1 \in 1 .. n /\ s[a + 1] = s[b + 1]
    BY <1>4, <1>5
  <2>2. a + 1 = b + 1
    BY <1>3, <2>1, ListApart
  <2> QED
    BY <2>2
<1>6. List(t)
  BY <1>4, <1>5, ListHas DEF List, IsInjective
<1>7. ToSet(t) = ToSet(s) \ {s[1]}
  <2>1. ASSUME NEW x \in ToSet(t) PROVE x \in ToSet(s) \ {s[1]}
    <3>1. PICK i \in 1 .. n - 1 : t[i] = x
      BY <1>4, ListHas
    <3>2. i + 1 \in 1 .. n /\ 1 \in 1 .. n /\ s[i + 1] = x /\ i + 1 # 1
      BY <1>4, <3>1
    <3>3. s[i + 1] # s[1]
      BY <1>3, <3>2, ListApart
    <3> QED
      BY <1>1, <1>3, <3>2, <3>3, ListHas
  <2>2. ASSUME NEW x \in ToSet(s) \ {s[1]} PROVE x \in ToSet(t)
    <3>1. PICK j \in 1 .. n : s[j] = x /\ j # 1
      BY <1>1, <1>3, <2>2, ListHas
    <3>2. j - 1 \in 1 .. n - 1 /\ (j - 1) + 1 = j
      BY <3>1
    <3>3. t[j - 1] = x
      BY <1>4, <3>1, <3>2
    <3> QED
      BY <1>4, <3>2, <3>3, ListHas
  <2> QED
    BY <2>1, <2>2
<1> QED
  BY <1>2, <1>6, <1>7

-----------------------------------------------------------------------------
(* Buckets                                                                   *)

Bkt == [chain : Seq(Nat), count : Nat, expand_mult : Nat]
Bkts(size) == [0 .. size - 1 -> Bkt]

\* Home and Links, for the entries of any state.
HomeOf(en, e, size) == Hash[en[e].name] % size

LinksIn(en, buckets, size, es) ==
  \A b \in 0 .. size - 1 :
    /\ buckets[b].count = Len(buckets[b].chain)
    /\ IsInjective(buckets[b].chain)
    /\ ToSet(buckets[b].chain) = {e \in es : HomeOf(en, e, size) = b}

LEMMA HomeIs ==
  ASSUME NEW size \in Nat \ {0}, NEW n \in Names
  PROVE  Bucket(n, size) \in 0 .. size - 1 /\ Bucket(n, size) = Hash[n] % size
<1>1. Hash[n] \in Nat
  BY LabelsAssumption
<1> QED
  BY <1>1 DEF Bucket

LEMMA NoneLinked ==
  ASSUME NEW size \in Nat, NEW en
  PROVE  /\ Buckets(size) \in Bkts(size) /\ LinksIn(en, Buckets(size), size, {})
         /\ \A b \in 0 .. size - 1 : Buckets(size)[b].chain = <<>>
<1>1. <<>> \in Seq(Nat) /\ Len(<<>>) = 0 /\ ToSet(<<>>) = {}
  BY EmptySeq, ListHas
<1>2. IsInjective(<<>>)
  <2>1. DOMAIN <<>> = {}
    OBVIOUS
  <2> QED
    BY <2>1, Zenon DEF IsInjective
<1>3. EmptyBucket \in Bkt /\ EmptyBucket.chain = <<>> /\ EmptyBucket.count = 0
  BY <1>1 DEF EmptyBucket, Bkt
<1>4. \A b \in 0 .. size - 1 : Buckets(size)[b] = EmptyBucket
  BY DEF Buckets
<1>5. Buckets(size) \in Bkts(size)
  BY <1>3 DEF Buckets, Bkts
<1>6. LinksIn(en, Buckets(size), size, {})
  BY <1>1, <1>2, <1>3, <1>4 DEF LinksIn
<1> QED
  BY <1>3, <1>4, <1>5, <1>6

LEMMA BucketHas ==
  ASSUME NEW size \in Nat, NEW bs \in Bkts(size), NEW b \in 0 .. size - 1
  PROVE  /\ bs[b] \in Bkt /\ bs[b].chain \in Seq(Nat) /\ Len(bs[b].chain) \in Nat
         /\ bs[b].count \in Nat /\ bs[b].expand_mult \in Nat
<1>1. bs[b] \in Bkt
  BY DEF Bkts
<1> QED
  BY <1>1 DEF Bkt

\* An entry is put in front in the bucket of its hash.
LEMMA AddLinks ==
  ASSUME NEW size \in Nat, NEW bs \in Bkts(size), NEW cs \in Bkts(size),
         NEW en, NEW fn, NEW es, NEW e \in Nat \ es, NEW h \in 0 .. size - 1,
         LinksIn(en, bs, size, es), HomeOf(fn, e, size) = h,
         \A x \in es : HomeOf(fn, x, size) = HomeOf(en, x, size),
         cs[h].chain = <<e>> \o bs[h].chain, cs[h].count = bs[h].count + 1,
         \A b \in 0 .. size - 1 : b # h => cs[b] = bs[b]
  PROVE  LinksIn(fn, cs, size, es \cup {e})
<1> SUFFICES ASSUME NEW b \in 0 .. size - 1
             PROVE  /\ cs[b].count = Len(cs[b].chain) /\ IsInjective(cs[b].chain)
                    /\ ToSet(cs[b].chain) = {x \in es \cup {e} : HomeOf(fn, x, size) = b}
  BY DEF LinksIn
<1>1. /\ bs[b].count = Len(bs[b].chain) /\ IsInjective(bs[b].chain)
      /\ ToSet(bs[b].chain) = {x \in es : HomeOf(en, x, size) = b}
      /\ bs[b].chain \in Seq(Nat) /\ Len(bs[b].chain) \in Nat
  BY BucketHas DEF LinksIn
<1>2. CASE b = h
  <2>1. PICK s, t : s = bs[b].chain /\ t = cs[b].chain /\ t = <<e>> \o s
    BY <1>2
  <2>2. List(s) /\ e \notin ToSet(s)
    BY <1>1, <2>1 DEF List
  <2>3. List(t) /\ Len(t) = Len(s) + 1 /\ ToSet(t) = ToSet(s) \cup {e}
    <3>1. e \in Nat /\ t = <<e>> \o s
      BY <2>1
    <3> QED
      BY ONLY <2>2, <3>1, ConsIs, Zenon
  <2>4. ToSet(t) = {x \in es \cup {e} : HomeOf(fn, x, size) = b}
    BY <1>1, <1>2, <2>1, <2>3
  <2>5. cs[b].count = Len(t)
    BY <1>1, <1>2, <2>1, <2>3
  <2> QED
    BY <2>1, <2>3, <2>4, <2>5, Zenon DEF List
<1>3. CASE b # h
  <2>1. cs[b] = bs[b]
    BY <1>3
  <2>2. {x \in es \cup {e} : HomeOf(fn, x, size) = b} = {x \in es : HomeOf(en, x, size) = b}
    BY <1>3
  <2> QED
    BY <1>1, <2>1, <2>2
<1> QED
  BY <1>2, <1>3

\* An entry is unlinked from it.
LEMMA DropLinks ==
  ASSUME NEW size \in Nat, NEW bs \in Bkts(size), NEW cs \in Bkts(size),
         NEW en, NEW fn, NEW es, NEW e \in es, NEW h \in 0 .. size - 1,
         LinksIn(en, bs, size, es), HomeOf(en, e, size) = h,
         \A x \in es \ {e} : HomeOf(fn, x, size) = HomeOf(en, x, size),
         cs[h].chain = Unlink(bs[h].chain, e), cs[h].count = bs[h].count - 1,
         \A b \in 0 .. size - 1 : b # h => cs[b] = bs[b]
  PROVE  LinksIn(fn, cs, size, es \ {e})
<1> SUFFICES ASSUME NEW b \in 0 .. size - 1
             PROVE  /\ cs[b].count = Len(cs[b].chain) /\ IsInjective(cs[b].chain)
                    /\ ToSet(cs[b].chain) = {x \in es \ {e} : HomeOf(fn, x, size) = b}
  BY DEF LinksIn
<1>1. /\ bs[b].count = Len(bs[b].chain) /\ IsInjective(bs[b].chain)
      /\ ToSet(bs[b].chain) = {x \in es : HomeOf(en, x, size) = b}
      /\ bs[b].chain \in Seq(Nat) /\ Len(bs[b].chain) \in Nat
  BY BucketHas DEF LinksIn
<1>2. CASE b = h
  <2>1. PICK s, t : s = bs[b].chain /\ t = cs[b].chain /\ t = Unlink(s, e)
    BY <1>2
  <2>2. List(s) /\ e \in ToSet(s)
    BY <1>1, <1>2, <2>1 DEF List
  <2>3. PICK k \in 1 .. Len(s) : s[k] = e
    BY <2>2, ListHas DEF List
  <2>4. List(t) /\ Len(t) = Len(s) - 1 /\ ToSet(t) = ToSet(s) \ {e}
    <3>1. t = Unlink(s, s[k])
      BY <2>1, <2>3
    <3>2. List(t) /\ Len(t) = Len(s) - 1 /\ ToSet(t) = ToSet(s) \ {s[k]}
      BY ONLY <2>2, <3>1, UnlinkIs, Zenon
    <3> QED
      BY <2>3, <3>2
  <2>5. ToSet(t) = {x \in es \ {e} : HomeOf(fn, x, size) = b}
    BY <1>1, <1>2, <2>1, <2>4
  <2>6. cs[b].count = Len(t)
    BY <1>1, <1>2, <2>1, <2>4
  <2> QED
    BY <2>1, <2>4, <2>5, <2>6, Zenon DEF List
<1>3. CASE b # h
  <2>1. cs[b] = bs[b]
    BY <1>3
  <2>2. {x \in es \ {e} : HomeOf(fn, x, size) = b} = {x \in es : HomeOf(en, x, size) = b}
    BY <1>3
  <2> QED
    BY <1>1, <2>1, <2>2
<1> QED
  BY <1>2, <1>3

LEMMA LinearHas ==
  ASSUME NEW size \in Nat, NEW bs \in Bkts(size)
  PROVE  \A x : x \in Linear(bs) <=> \E b \in 0 .. size - 1 : x \in ToSet(bs[b].chain)
<1>1. DOMAIN bs = 0 .. size - 1
  BY DEF Bkts
<1> QED
  BY <1>1, Zenon DEF Linear

\* What the buckets link is all that they should.
LEMMA LinearIs ==
  ASSUME NEW size \in Nat, NEW bs \in Bkts(size), NEW en, NEW es,
         LinksIn(en, bs, size, es), \A x \in es : HomeOf(en, x, size) \in 0 .. size - 1
  PROVE  Linear(bs) = es
<1>1. \A b \in 0 .. size - 1 : ToSet(bs[b].chain) = {e \in es : HomeOf(en, e, size) = b}
  BY DEF LinksIn
<1>2. \A x : x \in Linear(bs) <=> \E b \in 0 .. size - 1 : x \in es /\ HomeOf(en, x, size) = b
  BY <1>1, LinearHas
<1> QED
  BY <1>2

-----------------------------------------------------------------------------
(* The inductive invariant                                                   *)

Entries == [name : Names, index : Nat, era : Nat]

Tables(size) ==
  [num_buckets : {size}, log2_num_buckets : Nat, buckets : Bkts(size), num_items : Nat,
   ideal_chain_maxlen : Int, nonideal_items : Int, ineff_expands : Int, noexpand : BOOLEAN]

\* What is allocated is in the table or leaked, and is what was bound.
EntriesOK ==
  /\ Ids \subseteq 1 .. MaxEntries /\ entry \in [Ids -> Entries]
  /\ \A e \in Ids : entry[e].index = e
  /\ Ids = ToSet(order) \cup leaked /\ ToSet(order) \cap leaked = {}
  /\ List(order)

TableOK ==
  /\ tbl.num_buckets \in Nat \ {0} /\ tbl \in Tables(tbl.num_buckets)
  /\ tbl.num_items = Len(order)
  /\ order = <<>> => tbl = EmptyTable

\* While the table expands: what the old buckets link is still in its old place,
\* and the rest is in its new one.
Moving(en, nw, t, es) ==
  /\ nw \in Bkts(2 * t.num_buckets) /\ es # {} /\ Linear(t.buckets) \subseteq es
  /\ LinksIn(en, nw, 2 * t.num_buckets, es \ Linear(t.buckets))
  /\ \A b \in 0 .. t.num_buckets - 1 :
       /\ IsInjective(t.buckets[b].chain)
       /\ \A e \in ToSet(t.buckets[b].chain) : HomeOf(en, e, t.num_buckets) = b

Whole ==
  IF pc = "expanding" THEN Moving(entry, new, tbl, ToSet(order))
  ELSE LinksIn(entry, tbl.buckets, tbl.num_buckets, ToSet(order))

\* The pointers of free_label_table are to the first two entries.
Nth(s, k) == IF k <= Len(s) THEN s[k] ELSE NULL

Iterating ==
  IF pc = "freeing" THEN cur = Nth(order, 1) /\ tmp = Nth(order, 2)
  ELSE cur = NULL /\ tmp = NULL

Answers == {<<>>} \cup {<<i>> : i \in {NotFound} \cup 1 .. MaxEntries}

LInv ==
  /\ EntriesOK /\ TableOK /\ Whole /\ Iterating
  /\ answer \in Answers
  /\ pc \in {"idle", "expanding", "freeing", "CRASH", "EXIT"}

LEMMA NoEntries == List(<<>>) /\ ToSet(<<>>) = {} /\ Len(<<>>) = 0
<1>1. <<>> \in Seq(Nat) /\ Len(<<>>) = 0 /\ ToSet(<<>>) = {}
  BY EmptySeq, ListHas
<1>2. IsInjective(<<>>)
  <2>1. DOMAIN <<>> = {}
    OBVIOUS
  <2> QED
    BY <2>1, Zenon DEF IsInjective
<1> QED
  BY <1>1, <1>2 DEF List

LEMMA EmptyTableIs ==
  /\ EmptyTable \in Tables(InitialBuckets) /\ EmptyTable.num_buckets = InitialBuckets
  /\ EmptyTable.log2_num_buckets = InitialLog2
  /\ EmptyTable.num_items = 0 /\ EmptyTable.buckets = Buckets(InitialBuckets)
  /\ InitialBuckets \in Nat \ {0}
  /\ \A en : LinksIn(en, EmptyTable.buckets, InitialBuckets, {})
<1>1. InitialBuckets \in Nat \ {0}
  BY LabelsAssumption
<1>2. Buckets(InitialBuckets) \in Bkts(InitialBuckets)
  BY <1>1, NoneLinked
<1>3. /\ EmptyTable \in Tables(InitialBuckets) /\ EmptyTable.num_buckets = InitialBuckets
      /\ EmptyTable.log2_num_buckets = InitialLog2
      /\ EmptyTable.num_items = 0 /\ EmptyTable.buckets = Buckets(InitialBuckets)
  BY <1>2, LabelsAssumption DEF EmptyTable, Tables
<1>4. \A en : LinksIn(en, EmptyTable.buckets, InitialBuckets, {})
  BY <1>1, <1>3, NoneLinked
<1> QED
  BY <1>1, <1>3, <1>4

LEMMA InitLabels == Init => LInv
<1> SUFFICES ASSUME Init PROVE LInv
  OBVIOUS
<1>1. entry = <<>> /\ order = <<>> /\ tbl = EmptyTable /\ leaked = {} /\ pc = "idle"
  BY DEF Init
<1>2. Ids = {} /\ entry \in [Ids -> Entries]
  <2>1. DOMAIN <<>> = {}
    OBVIOUS
  <2>2. <<>> \in Seq(Entries) /\ Len(<<>>) = 0
    BY EmptySeq
  <2>3. <<>> \in [1 .. Len(<<>>) -> Entries] /\ DOMAIN <<>> = 1 .. Len(<<>>)
    BY <2>2, LenProperties
  <2> QED
    BY <1>1, <2>1, <2>3 DEF Ids
<1>3. EntriesOK
  BY <1>1, <1>2, NoEntries DEF EntriesOK
<1>4. TableOK
  BY <1>1, EmptyTableIs, NoEntries DEF TableOK
<1>5. Whole
  BY <1>1, EmptyTableIs, NoEntries DEF Whole
<1>6. Iterating /\ answer \in Answers
  BY DEF Init, Iterating, Answers
<1> QED
  BY <1>1, <1>3, <1>4, <1>5, <1>6 DEF LInv

LEMMA EntriesHave ==
  ASSUME EntriesOK, TableOK
  PROVE  /\ order \in Seq(Nat) /\ Len(order) \in Nat /\ ToSet(order) \subseteq Ids
         /\ \A e \in Ids : /\ entry[e] \in Entries /\ entry[e].name \in Names
                           /\ e \in Nat \ {0} /\ e \in 1 .. MaxEntries
         /\ \A e \in Ids, size \in Nat \ {0} : HomeOf(entry, e, size) \in 0 .. size - 1
<1>1. order \in Seq(Nat) /\ Len(order) \in Nat /\ ToSet(order) \subseteq Ids
  BY DEF EntriesOK, List
<1>2. ASSUME NEW e \in Ids
      PROVE  /\ entry[e] \in Entries /\ entry[e].name \in Names
             /\ e \in Nat \ {0} /\ e \in 1 .. MaxEntries
  <2>1. entry[e] \in Entries /\ e \in 1 .. MaxEntries
    BY DEF EntriesOK
  <2> QED
    BY <2>1, LabelsAssumption DEF Entries
<1>3. ASSUME NEW e \in Ids, NEW size \in Nat \ {0}
      PROVE  HomeOf(entry, e, size) \in 0 .. size - 1
  BY <1>2, HomeIs DEF HomeOf
<1> QED
  BY <1>1, <1>2, <1>3

LEMMA LookupKeeps == ASSUME LInv, NEW n \in Names, Lookup(n) PROVE LInv'
<1>1. UNCHANGED <<entry, order, tbl, new, cur, tmp, leaked, pc>> /\ answer' = <<Index(n)>>
      /\ pc = "idle"
  BY DEF Lookup
<1>2. Index(n) \in {NotFound} \cup 1 .. MaxEntries
  <2> DEFINE size == tbl.num_buckets
             chain == tbl.buckets[Bucket(n, size)].chain
             k == Found(chain, n)
  <2>1. Index(n) = NotFound \/ (k # 0 /\ Index(n) = entry[chain[k]].index)
    BY DEF Index
  <2>2. ASSUME k # 0 PROVE entry[chain[k]].index \in 1 .. MaxEntries
    <3>1. size \in Nat \ {0} /\ Bucket(n, size) \in 0 .. size - 1 /\ tbl.buckets \in Bkts(size)
      BY HomeIs DEF LInv, TableOK, Tables
    <3>2. chain \in Seq(Nat) /\ ToSet(chain) \subseteq ToSet(order)
      BY <1>1, <3>1, BucketHas DEF LInv, Whole, LinksIn
    <3> DEFINE I == {i \in 1 .. Len(chain) : entry[chain[i]].name = n}
    <3>3. k = IF I # {} THEN Min(I) ELSE 0
      BY DEF Found, SelectInSeq
    <3>4. I \subseteq Nat /\ I # {}
      <4>1. I \subseteq Nat
        OBVIOUS
      <4> HIDE DEF I, k
      <4> QED
        BY <2>2, <3>3, <4>1
    <3>5. k \in I
      BY <3>3, <3>4, MinIs
    <3>6. chain[k] \in ToSet(order)
      BY <3>2, <3>5, ListHas
    <3>7. chain[k] \in Ids /\ entry[chain[k]].index = chain[k]
      BY <3>6 DEF LInv, EntriesOK
    <3> QED
      BY <3>7 DEF LInv, EntriesOK
  <2> QED
    BY <2>1, <2>2
<1>3. answer' \in Answers
  BY <1>1, <1>2 DEF Answers
<1>4. Ids' = Ids
  BY <1>1 DEF Ids
<1> QED
  BY <1>1, <1>3, <1>4 DEF LInv, EntriesOK, TableOK, Whole, Iterating

LEMMA StopKeeps == ASSUME LInv, NoMemory \/ UNCHANGED vars PROVE LInv'
<1>1. UNCHANGED <<entry, order, tbl, new, cur, tmp, leaked, answer>>
      /\ (pc' = pc \/ (pc = "idle" /\ pc' \in {"CRASH", "EXIT"}))
  BY DEF NoMemory, vars
<1>2. Ids' = Ids
  BY <1>1 DEF Ids
<1> QED
  BY <1>1, <1>2 DEF LInv, EntriesOK, TableOK, Whole, Iterating

LEMMA FreeDoneKeeps == ASSUME LInv, FreeDone PROVE LInv'
<1>1. /\ UNCHANGED <<entry, order, tbl, new, cur, tmp, leaked, answer>>
      /\ pc = "freeing" /\ pc' = "idle" /\ cur = NULL
  BY DEF FreeDone
<1>2. Ids' = Ids
  BY <1>1 DEF Ids
<1>3. tmp = NULL
  <2>1. cur = Nth(order, 1) /\ tmp = Nth(order, 2)
    BY <1>1 DEF LInv, Iterating
  <2>2. ASSUME 1 <= Len(order) PROVE order[1] # NULL
    <3>1. order[1] \in ToSet(order)
      BY <2>2, EntriesHave, ListHas DEF LInv
    <3> QED
      BY <3>1, EntriesHave DEF LInv, NULL
  <2>3. ~(2 <= Len(order))
    BY <1>1, <2>1, <2>2, EntriesHave DEF Nth, LInv
  <2> QED
    BY <2>1, <2>3 DEF Nth
<1>4. Whole' /\ Iterating'
  BY <1>1, <1>3 DEF LInv, Whole, Iterating
<1> QED
  BY <1>1, <1>2, <1>4 DEF LInv, EntriesOK, TableOK

LEMMA AbandonKeeps == ASSUME LInv, Abandon PROVE LInv'
<1>1. /\ UNCHANGED <<entry, new, cur, tmp, pc>> /\ pc = "idle"
      /\ order' = <<>> /\ tbl' = EmptyTable /\ answer' = <<>>
      /\ leaked' = leaked \cup ToSet(order)
  BY DEF Abandon
<1>2. Ids' = Ids
  BY <1>1 DEF Ids
<1>3. EntriesOK'
  BY <1>1, <1>2, NoEntries DEF LInv, EntriesOK
<1>4. TableOK'
  BY <1>1, EmptyTableIs, NoEntries DEF TableOK
<1>5. Whole'
  BY <1>1, EmptyTableIs, NoEntries DEF Whole
<1>6. Iterating' /\ answer' \in Answers /\ pc' \in {"idle"}
  BY <1>1 DEF LInv, Iterating, Answers
<1> QED
  BY <1>3, <1>4, <1>5, <1>6 DEF LInv

LEMMA FreeStartKeeps == ASSUME LInv, FreeStart PROVE LInv'
<1>1. /\ UNCHANGED <<entry, order, tbl, new, leaked>> /\ pc = "idle" /\ pc' = "freeing"
      /\ answer' = <<>>
      /\ cur' = IF order = <<>> THEN NULL ELSE Head(order)
      /\ tmp' = IF order = <<>> THEN NULL ELSE Successor(order, Head(order))
  BY DEF FreeStart
<1>2. Ids' = Ids
  BY <1>1 DEF Ids
<1>3. List(order) /\ order \in Seq(Nat) /\ Len(order) \in Nat
  BY EntriesHave DEF LInv, EntriesOK
<1>4. cur' = Nth(order, 1) /\ tmp' = Nth(order, 2)
  <2>1. CASE order = <<>>
    BY <1>1, <2>1, NoEntries DEF Nth
  <2>2. CASE order # <<>>
    <3>1. Len(order) # 0 /\ 1 \in 1 .. Len(order) /\ Head(order) = order[1]
      BY <1>3, <2>2, ListHas
    <3>2. Place(order, order[1]) = 1
      BY <1>3, <3>1, PlaceIs
    <3>3. Successor(order, order[1]) = IF 1 = Len(order) THEN NULL ELSE order[2]
      BY <3>2 DEF Successor
    <3>4. cur' = order[1] /\ tmp' = IF 1 = Len(order) THEN NULL ELSE order[2]
      BY <1>1, <2>2, <3>1, <3>3, Zenon
    <3>5. Nth(order, 1) = order[1] /\ Nth(order, 2) = IF 1 = Len(order) THEN NULL ELSE order[2]
      <4>1. PICK n \in Nat : n = Len(order) /\ 1 <= n /\ (2 <= n <=> 1 # n)
        BY <1>3, <3>1
      <4> QED
        BY <4>1, Zenon DEF Nth
    <3> QED
      BY <3>4, <3>5
  <2> QED
    BY <2>1, <2>2
<1>5. Iterating' /\ answer' \in Answers /\ Whole'
  BY <1>1, <1>4 DEF LInv, Iterating, Answers, Whole
<1> QED
  BY <1>1, <1>2, <1>5 DEF LInv, EntriesOK, TableOK

LEMMA TableHas ==
  ASSUME TableOK
  PROVE  /\ tbl.num_buckets \in Nat \ {0} /\ tbl.buckets \in Bkts(tbl.num_buckets)
         /\ tbl.num_items \in Nat /\ tbl.ideal_chain_maxlen \in Int
         /\ tbl.nonideal_items \in Int /\ tbl \in Tables(tbl.num_buckets)
         /\ tbl.log2_num_buckets \in Nat
<1> PICK size \in Nat \ {0} : size = tbl.num_buckets
  BY DEF TableOK
<1>1. PICK t \in Tables(size) : t = tbl /\ size = tbl.num_buckets
  BY DEF TableOK
<1>2. /\ t.buckets \in Bkts(size) /\ t.num_items \in Nat /\ t.log2_num_buckets \in Nat
      /\ t.ideal_chain_maxlen \in Int /\ t.nonideal_items \in Int
  BY <1>1 DEF Tables
<1> QED
  BY <1>1, <1>2

\* What bind_label adds, before any expansion.
AddedTo(t, u, e, h, items) ==
  /\ u.buckets = [t.buckets EXCEPT ![h] = Added(t.buckets[h], e)]
  /\ u.num_items = items /\ u.log2_num_buckets = t.log2_num_buckets

LEMMA BindTable ==
  ASSUME TableOK, NEW n \in Names, Bind(n),
         NEW h, h = Bucket(n, tbl.num_buckets), NEW e, e = Min(Free), e \in Nat
  PROVE  /\ tbl' \in Tables(tbl.num_buckets) /\ tbl'.num_buckets = tbl.num_buckets
         /\ AddedTo(tbl, tbl', e, h, tbl.num_items + 1)
<1> PICK size \in Nat \ {0} : size = tbl.num_buckets
  BY DEF TableOK
<1>1. PICK t \in Tables(size) : t = tbl /\ size = tbl.num_buckets
  BY DEF TableOK
<1>2. /\ t.buckets \in Bkts(size) /\ t.num_items \in Nat /\ h \in 0 .. size - 1
      /\ t.log2_num_buckets \in Nat /\ t.ideal_chain_maxlen \in Int /\ t.nonideal_items \in Int
  BY <1>1, TableHas, HomeIs DEF TableOK
<1>3. PICK bkt : bkt = Added(t.buckets[h], e)
  OBVIOUS
<1>4. bkt \in Bkt
  <2>1. PICK old \in Bkt : old = t.buckets[h]
    BY <1>2, BucketHas
  <2>2. <<e>> \o old.chain \in Seq(Nat)
    <3>1. <<e>> \in Seq(Nat) /\ old.chain \in Seq(Nat)
      BY DEF Bkt
    <3> QED
      BY <3>1, ConcatProperties
  <2>3. PICK s \in Seq(Nat) : s = <<e>> \o old.chain
    BY <2>2
  <2>4. old.count \in Nat /\ old.expand_mult \in Nat
    BY DEF Bkt
  <2>5. PICK c \in Nat : c = old.count + 1
    BY <2>4
  <2>6. bkt = [old EXCEPT !.chain = s, !.count = c]
    BY <1>3, <2>1, <2>3, <2>5 DEF Added
  <2> QED
    BY ONLY <2>6, old \in Bkt, s \in Seq(Nat), c \in Nat DEF Bkt
<1>5. PICK bs : bs = [t.buckets EXCEPT ![h] = bkt]
  OBVIOUS
<1>6. bs \in Bkts(size)
  BY <1>2, <1>4, <1>5 DEF Bkts
<1>7. PICK items \in Nat : items = t.num_items + 1
  BY <1>2
<1>8. PICK added : added = [t EXCEPT !.num_items = t.num_items + 1, !.buckets[h] = bkt]
  OBVIOUS
<1>9. added = [t EXCEPT !.buckets = bs, !.num_items = items,
                        !.ideal_chain_maxlen = t.ideal_chain_maxlen,
                        !.nonideal_items = t.nonideal_items]
  BY <1>1, <1>5, <1>7, <1>8 DEF Tables
<1>10. added \in Tables(size) /\ added.buckets = bs /\ added.num_items = items
       /\ added.num_buckets = size /\ added.log2_num_buckets = t.log2_num_buckets
  <2>1. PICK maxlen \in Int : maxlen = t.ideal_chain_maxlen
    BY <1>2
  <2>2. PICK deep \in Int : deep = t.nonideal_items
    BY <1>2
  <2>3. added = [t EXCEPT !.buckets = bs, !.num_items = items,
                          !.ideal_chain_maxlen = maxlen, !.nonideal_items = deep]
    BY ONLY <1>9, <2>1, <2>2, Zenon
  <2> QED
    BY ONLY <1>6, <2>3, t \in Tables(size), items \in Nat, maxlen \in Int, deep \in Int
       DEF Tables
<1>11. \/ tbl' = added
       \/ tbl' = [added EXCEPT !.ideal_chain_maxlen = Ideal(added.num_items, size),
                               !.nonideal_items = 0]
  BY <1>1, <1>3, <1>8 DEF Bind
<1>12. Ideal(added.num_items, size) \in Int
  <2>1. 2 * size \in Nat \ {0} /\ items + 2 * size - 1 \in Int
    BY <1>1
  <2> QED
    BY <1>10, <2>1 DEF Ideal
<1>13. /\ tbl' \in Tables(size) /\ tbl'.num_buckets = size
       /\ tbl'.buckets = bs /\ tbl'.num_items = items
       /\ tbl'.log2_num_buckets = t.log2_num_buckets
  <2>1. PICK a \in Tables(size) : a = added /\ a.buckets = bs /\ a.num_items = items
                                   /\ a.num_buckets = size
                                   /\ a.log2_num_buckets = t.log2_num_buckets
    BY <1>10
  <2>2. PICK i \in Int : i = Ideal(added.num_items, size)
    BY <1>12
  <2>3. CASE tbl' = added
    BY <2>1, <2>3
  <2>4. CASE tbl' = [a EXCEPT !.ideal_chain_maxlen = i, !.nonideal_items = 0]
    <3>1. PICK u : u = tbl' /\ u = [a EXCEPT !.ideal_chain_maxlen = i, !.nonideal_items = 0]
      BY <2>4
    <3>2. /\ u \in Tables(size) /\ u.buckets = a.buckets /\ u.num_items = a.num_items
          /\ u.num_buckets = size /\ u.log2_num_buckets = a.log2_num_buckets
      BY ONLY <3>1, i \in Int, 0 \in Int, a \in Tables(size) DEF Tables
    <3> QED
      BY ONLY <2>1, <3>1, <3>2
  <2> QED
    BY <1>11, <2>1, <2>2, <2>3, <2>4
<1> QED
  BY <1>1, <1>3, <1>5, <1>7, <1>13 DEF AddedTo

LEMMA BindKeeps == ASSUME LInv, NEW n \in Names, Bind(n) PROVE LInv'
<1> PICK size \in Nat \ {0} : size = tbl.num_buckets
  BY TableHas DEF LInv
<1> PICK e : e = Min(Free)
  OBVIOUS
<1>1. PICK bs \in Bkts(size), era \in Nat :
        /\ e = Min(Free) /\ size = tbl.num_buckets /\ bs = tbl.buckets
        /\ era = tbl.log2_num_buckets
  BY TableHas DEF LInv
<1>2. /\ pc = "idle" /\ Free # {} /\ UNCHANGED <<cur, tmp, leaked>> /\ answer' = <<>>
      /\ order' = Append(order, e)
      /\ entry' = [x \in Ids \cup {e} |->
                     IF x = e THEN [name |-> n, index |-> e, era |-> era] ELSE entry[x]]
      /\ \/ pc' = "expanding" /\ new' = Buckets(2 * size)
         \/ pc' = "idle"
  BY <1>1 DEF Bind, Ids
<1>3. e \in Nat \ {0} /\ e \in 1 .. MaxEntries /\ e \notin Ids
  <2>1. Free \subseteq Nat
    BY LabelsAssumption DEF Free
  <2>2. e \in Free
    BY <1>1, <1>2, <2>1, MinIs
  <2> QED
    BY <2>2, LabelsAssumption DEF Free, Ids
<1>4. /\ List(order) /\ ToSet(order) \subseteq Ids /\ e \notin ToSet(order)
      /\ Len(order) \in Nat
  BY <1>3, EntriesHave DEF LInv, EntriesOK
<1>5. /\ List(order') /\ Len(order') = Len(order) + 1 /\ ToSet(order') = ToSet(order) \cup {e}
  BY <1>2, <1>3, <1>4, AppendIs
<1>6. /\ Ids' = Ids \cup {e} /\ entry'[e] = [name |-> n, index |-> e, era |-> era]
      /\ \A x \in Ids : entry'[x] = entry[x]
  BY <1>2, <1>3 DEF Ids
<1>7. EntriesOK'
  <2>1. entry' \in [Ids' -> Entries]
    <3>1. [name |-> n, index |-> e, era |-> era] \in Entries
      BY <1>1, <1>3 DEF Entries
    <3>2. \A x \in Ids : entry[x] \in Entries
      BY DEF LInv, EntriesOK
    <3> QED
      BY <1>2, <1>6, <3>1, <3>2
  <2>2. \A x \in Ids' : entry'[x].index = x
    BY <1>6 DEF LInv, EntriesOK
  <2>3. /\ Ids' \subseteq 1 .. MaxEntries /\ Ids' = ToSet(order') \cup leaked'
        /\ ToSet(order') \cap leaked' = {}
    BY <1>2, <1>3, <1>5, <1>6 DEF LInv, EntriesOK
  <2> QED
    BY <1>5, <2>1, <2>2, <2>3 DEF EntriesOK
<1>8. PICK h \in 0 .. size - 1 : h = Bucket(n, size)
  BY HomeIs
<1>9. PICK u : u = tbl'
  OBVIOUS
<1>10. /\ u \in Tables(size) /\ u.num_buckets = size /\ u.num_items = Len(order) + 1
       /\ u.buckets = [bs EXCEPT ![h] = Added(bs[h], e)]
  BY <1>1, <1>3, <1>8, <1>9, BindTable DEF LInv, TableOK, AddedTo
<1>11. TableOK'
  <2>1. order' # <<>>
    BY <1>4, <1>5, NoEntries
  <2> QED
    BY <1>1, <1>5, <1>9, <1>10, <2>1 DEF TableOK
<1>12. PICK cs \in Bkts(size) : cs = u.buckets
  BY <1>10 DEF Tables
<1>13. LinksIn(entry', cs, size, ToSet(order'))
  <2>1. LinksIn(entry, bs, size, ToSet(order))
    BY <1>1, <1>2 DEF LInv, Whole
  <2>2. HomeOf(entry', e, size) = h
    BY <1>6, <1>8 DEF HomeOf, Bucket
  <2>3. \A x \in ToSet(order) : HomeOf(entry', x, size) = HomeOf(entry, x, size)
    BY <1>4, <1>6 DEF HomeOf
  <2>4. cs[h] = Added(bs[h], e) /\ \A b \in 0 .. size - 1 : b # h => cs[b] = bs[b]
    BY <1>10, <1>12 DEF Bkts
  <2>5. cs[h].chain = <<e>> \o bs[h].chain /\ cs[h].count = bs[h].count + 1
    <3>1. PICK old \in Bkt : old = bs[h]
      BY BucketHas
    <3> QED
      BY <2>4, <3>1 DEF Added, Bkt
  <2>6. e \in Nat \ ToSet(order)
    BY <1>3, <1>4
  <2>7. LinksIn(entry', cs, size, ToSet(order) \cup {e})
    <3>1. size \in Nat /\ bs \in Bkts(size) /\ cs \in Bkts(size) /\ h \in 0 .. size - 1
      OBVIOUS
    <3> QED
      BY ONLY <2>1, <2>2, <2>3, <2>4, <2>5, <2>6, <3>1, AddLinks, Zenon
  <2> QED
    BY <1>5, <2>7
<1>14. Whole'
  <2>1. CASE pc' = "idle"
    BY <1>9, <1>10, <1>12, <1>13, <2>1 DEF Whole
  <2>2. CASE pc' = "expanding" /\ new' = Buckets(2 * size)
    <3>1. \A x \in ToSet(order') : HomeOf(entry', x, size) \in 0 .. size - 1
      <4>1. \A x \in ToSet(order') : entry'[x].name \in Names
        BY <1>5, <1>6, <1>7 DEF EntriesOK, Entries
      <4> QED
        BY <4>1, HomeIs DEF HomeOf
    <3>2. Linear(cs) = ToSet(order')
      BY <1>13, <3>1, LinearIs
    <3>3. /\ Buckets(2 * size) \in Bkts(2 * size)
          /\ LinksIn(entry', Buckets(2 * size), 2 * size, {})
      <4>1. 2 * size \in Nat
        OBVIOUS
      <4> QED
        BY ONLY <4>1, NoneLinked, Zenon
    <3>4. ToSet(order') \ Linear(cs) = {} /\ ToSet(order') # {}
      BY <1>5, <3>2
    <3>5. \A b \in 0 .. size - 1 :
            /\ IsInjective(cs[b].chain)
            /\ \A x \in ToSet(cs[b].chain) : HomeOf(entry', x, size) = b
      BY <1>13 DEF LinksIn
    <3>6. Moving(entry', new', u, ToSet(order'))
      BY <1>10, <1>12, <2>2, <3>2, <3>3, <3>4, <3>5 DEF Moving
    <3> QED
      BY <1>9, <2>2, <3>6 DEF Whole
  <2> QED
    BY <1>2, <2>1, <2>2
<1>15. Iterating' /\ answer' \in Answers
  BY <1>2 DEF LInv, Iterating, Answers
<1> QED
  BY <1>2, <1>7, <1>11, <1>14, <1>15 DEF LInv

LEMMA AddsIs ==
  ASSUME NEW bkt \in Bkt, NEW e \in Nat
  PROVE  /\ <<e>> \o bkt.chain \in Seq(Nat) /\ bkt.count \in Nat /\ bkt.expand_mult \in Nat
<1>1. <<e>> \in Seq(Nat) /\ bkt.chain \in Seq(Nat)
  BY DEF Bkt
<1> QED
  BY <1>1, ConcatProperties DEF Bkt

LEMMA MovedIs ==
  ASSUME NEW bkt \in Bkt, NEW e \in Nat, tbl.ideal_chain_maxlen \in Int
  PROVE  /\ Moved(bkt, e) \in Bkt /\ Moved(bkt, e).chain = <<e>> \o bkt.chain
         /\ Moved(bkt, e).count = bkt.count + 1
<1>1. PICK s \in Seq(Nat) : s = <<e>> \o bkt.chain
  BY AddsIs
<1>2. PICK c \in Nat : c = bkt.count + 1
  BY AddsIs
<1>3. PICK m \in Nat :
        Moved(bkt, e) = [chain |-> <<e>> \o bkt.chain, count |-> bkt.count + 1,
                         expand_mult |-> m]
  <2> DEFINE mult ==
        IF Nonideal(bkt) /\ bkt.count + 1 > bkt.expand_mult * tbl.ideal_chain_maxlen
        THEN bkt.expand_mult + 1 ELSE bkt.expand_mult
  <2>1. bkt.expand_mult \in Nat /\ bkt.expand_mult + 1 \in Nat
    BY AddsIs
  <2>2. mult \in Nat
    BY <2>1, Zenon
  <2>3. Moved(bkt, e) = [chain |-> <<e>> \o bkt.chain, count |-> bkt.count + 1,
                         expand_mult |-> mult]
    BY Zenon DEF Moved, Relinked
  <2> QED
    BY <2>2, <2>3, Zenon
<1>4. Moved(bkt, e) = [chain |-> s, count |-> c, expand_mult |-> m]
  BY <1>1, <1>2, <1>3
<1> QED
  BY <1>1, <1>2, <1>4 DEF Bkt

\* The table once the first entry of its bucket b is taken out.
TakeOut(t, b, more) ==
  [t EXCEPT !.buckets[b].chain = Tail(@), !.nonideal_items = @ + more]

\* What that changes of the table t.
OneLess(u, t, b, size) ==
  /\ u \in Tables(size) /\ u.num_items = t.num_items /\ u.num_buckets = size
  /\ u.log2_num_buckets = t.log2_num_buckets
  /\ u.buckets \in Bkts(size) /\ u.buckets[b].chain = Tail(t.buckets[b].chain)
  /\ \A a \in 0 .. size - 1 : a # b => u.buckets[a] = t.buckets[a]

LEMMA TakenOut ==
  ASSUME NEW size \in Nat, NEW t \in Tables(size), NEW b \in 0 .. size - 1,
         t.buckets[b].chain # <<>>, NEW more \in Int
  PROVE  OneLess(TakeOut(t, b, more), t, b, size)
<1> PICK u : u = TakeOut(t, b, more)
  OBVIOUS
<1>1. t.buckets \in Bkts(size) /\ t.num_items \in Nat /\ t.nonideal_items \in Int
  BY DEF Tables
<1>2. PICK old \in Bkt : old = t.buckets[b]
  BY <1>1, BucketHas
<1>3. PICK s \in Seq(Nat) : s = Tail(old.chain)
  <2>1. old.chain \in Seq(Nat) /\ old.chain # <<>>
    BY <1>2 DEF Bkt
  <2> QED
    BY <2>1, HeadTailProperties
<1>4. PICK bkt \in Bkt : bkt = [old EXCEPT !.chain = s] /\ bkt.chain = s
  <2>1. PICK bkt : bkt = [old EXCEPT !.chain = s]
    OBVIOUS
  <2>2. bkt \in Bkt /\ bkt.chain = s
    BY ONLY <2>1, old \in Bkt, s \in Seq(Nat) DEF Bkt
  <2> QED
    BY <2>1, <2>2
<1>5. PICK bs \in Bkts(size) : bs = [t.buckets EXCEPT ![b] = bkt]
  BY <1>1 DEF Bkts
<1>6. /\ bs[b].chain = Tail(t.buckets[b].chain)
      /\ \A a \in 0 .. size - 1 : a # b => bs[a] = t.buckets[a]
  BY <1>1, <1>2, <1>3, <1>4, <1>5 DEF Bkts
<1>7. PICK deep \in Int : deep = t.nonideal_items + more
  BY <1>1
<1>8. u = [t EXCEPT !.buckets = bs, !.nonideal_items = deep]
  <2>1. bs = [t.buckets EXCEPT ![b].chain = Tail(@)]
    BY <1>2, <1>3, <1>4, <1>5
  <2> QED
    BY <1>7, <2>1 DEF Tables, TakeOut
<1>9. /\ u \in Tables(size) /\ u.buckets = bs /\ u.num_items = t.num_items
      /\ u.num_buckets = size /\ u.log2_num_buckets = t.log2_num_buckets
  BY ONLY <1>8, t \in Tables(size), bs \in Bkts(size), deep \in Int DEF Tables
<1>10. OneLess(u, t, b, size)
  BY <1>6, <1>9 DEF OneLess
<1> QED
  BY <1>10

\* What a step of the expansion does: the first entry e of the old bucket b is put
\* in front in the new bucket to.
Moves(t, u, nw, nx, size, b, e, to) ==
  /\ List(t.buckets[b].chain) /\ t.buckets[b].chain # <<>> /\ e = Head(t.buckets[b].chain)
  /\ HomeOf(entry, e, size) = b /\ HomeOf(entry, e, 2 * size) = to
  /\ OneLess(u, t, b, size)
  /\ e \in Linear(t.buckets) /\ Linear(u.buckets) = Linear(t.buckets) \ {e}
  /\ nx \in Bkts(2 * size) /\ nx[to].chain = <<e>> \o nw[to].chain
  /\ nx[to].count = nw[to].count + 1
  /\ \A a \in 0 .. 2 * size - 1 : a # to => nx[a] = nw[a]

LEMMA ExpandMoveIs ==
  ASSUME LInv, ExpandMove
  PROVE  \E size \in Nat \ {0} : \E b \in 0 .. size - 1, to \in 0 .. 2 * size - 1, e \in Nat :
           size = tbl.num_buckets /\ Moves(tbl, tbl', new, new', size, b, e, to)
<1> PICK size \in Nat \ {0} : size = tbl.num_buckets
  BY TableHas DEF LInv
<1>1. PICK t \in Tables(size), bs \in Bkts(size) :
        t = tbl /\ size = tbl.num_buckets /\ bs = t.buckets
  BY TableHas DEF LInv
<1>2. /\ pc = "expanding" /\ UNCHANGED <<entry, order, cur, tmp, answer, leaked, pc>>
      /\ DOMAIN bs = 0 .. size - 1
  BY DEF ExpandMove, Bkts
<1>3. PICK nw \in Bkts(2 * size), es \in SUBSET ToSet(order) :
        /\ nw = new /\ es = ToSet(order) /\ Linear(bs) \subseteq es
        /\ \A b \in 0 .. size - 1 :
             /\ IsInjective(bs[b].chain)
             /\ \A x \in ToSet(bs[b].chain) : HomeOf(entry, x, size) = b
  BY <1>1, <1>2 DEF LInv, Whole, Moving
<1>4. PICK b \in 0 .. size - 1 :
        /\ bs[b].chain # <<>>
        /\ LET e == Head(bs[b].chain)
               to == Home(e, 2 * size)
           IN  /\ new' = [nw EXCEPT ![to] = Moved(@, e)]
               /\ tbl' = [t EXCEPT !.buckets[b].chain = Tail(@),
                            !.nonideal_items = @ + IF Nonideal(nw[to]) THEN 1 ELSE 0]
  BY <1>1, <1>2, <1>3 DEF ExpandMove
<1>5. PICK s : s = bs[b].chain /\ List(s) /\ s # <<>>
  BY <1>3, <1>4, BucketHas DEF List
<1>6. PICK e \in Nat : /\ e = Head(s) /\ e = s[1] /\ e \in ToSet(s)
                       /\ List(Tail(s)) /\ ToSet(Tail(s)) = ToSet(s) \ {e}
  BY <1>5, TailIs
<1>7. e \in Linear(bs) /\ e \in es /\ HomeOf(entry, e, size) = b
  BY <1>3, <1>5, <1>6, LinearHas
<1>8. PICK to \in 0 .. 2 * size - 1 : to = Home(e, 2 * size) /\ to = HomeOf(entry, e, 2 * size)
  <2>1. Home(e, 2 * size) = HomeOf(entry, e, 2 * size)
    BY DEF Home, HomeOf, Bucket
  <2>2. 2 * size \in Nat \ {0}
    OBVIOUS
  <2>3. e \in Ids
    <3>1. ToSet(order) \subseteq Ids
      BY EntriesHave DEF LInv
    <3> QED
      BY <1>3, <1>7, <3>1
  <2>4. HomeOf(entry, e, 2 * size) \in 0 .. 2 * size - 1
    BY <2>2, <2>3, EntriesHave DEF LInv
  <2> QED
    BY <2>1, <2>4
<1>9. PICK more \in Int : tbl' = TakeOut(t, b, more)
  <2>1. PICK more \in Int : more = IF Nonideal(nw[to]) THEN 1 ELSE 0
    OBVIOUS
  <2> QED
    BY <1>4, <1>5, <1>6, <1>8, <2>1 DEF TakeOut
<1>10. PICK u : u = tbl'
  OBVIOUS
<1>11. /\ OneLess(u, t, b, size)
       /\ u.buckets \in Bkts(size) /\ u.buckets[b].chain = Tail(s)
       /\ \A a \in 0 .. size - 1 : a # b => u.buckets[a] = bs[a]
  <2>1. /\ t.buckets[b].chain # <<>>
        /\ u = TakeOut(t, b, more)
    BY <1>1, <1>4, <1>9, <1>10
  <2>2. OneLess(TakeOut(t, b, more), t, b, size)
    BY ONLY <2>1, size \in Nat, t \in Tables(size), b \in 0 .. size - 1, more \in Int,
            TakenOut, Zenon
  <2>3. OneLess(u, t, b, size)
    BY <2>1, <2>2, Zenon
  <2> QED
    BY <1>1, <1>5, <2>3 DEF OneLess
<1>12. PICK cs \in Bkts(size) : cs = u.buckets
  BY <1>11
<1>13. Linear(cs) = Linear(bs) \ {e}
  <2>1. ASSUME NEW a \in 0 .. size - 1
        PROVE  ToSet(cs[a].chain) = ToSet(bs[a].chain) \ {e}
    <3>1. CASE a = b
      BY <1>5, <1>6, <1>11, <1>12, <3>1
    <3>2. CASE a # b
      <4>1. cs[a] = bs[a] /\ e \notin ToSet(bs[a].chain)
        BY <1>3, <1>7, <1>11, <1>12, <3>2
      <4> QED
        BY <4>1
    <3> QED
      BY <3>1, <3>2
  <2>2. \A x : x \in Linear(cs) <=> \E a \in 0 .. size - 1 : x \in ToSet(cs[a].chain)
    BY LinearHas
  <2>3. \A x : x \in Linear(bs) <=> \E a \in 0 .. size - 1 : x \in ToSet(bs[a].chain)
    BY LinearHas
  <2>4. \A x : x \in Linear(cs) <=> x \in Linear(bs) \ {e}
    <3>1. ASSUME NEW x \in Linear(cs) PROVE x \in Linear(bs) \ {e}
      <4>1. PICK a \in 0 .. size - 1 : x \in ToSet(cs[a].chain)
        BY <2>2
      <4>2. x \in ToSet(bs[a].chain) /\ x # e
        BY <2>1, <4>1
      <4> QED
        BY <2>3, <4>2
    <3>2. ASSUME NEW x \in Linear(bs) \ {e} PROVE x \in Linear(cs)
      <4>1. PICK a \in 0 .. size - 1 : x \in ToSet(bs[a].chain)
        BY <2>3
      <4>2. x \in ToSet(cs[a].chain)
        BY <2>1, <4>1
      <4> QED
        BY <2>2, <4>2
    <3> QED
      BY <3>1, <3>2
  <2> QED
    BY <2>4
<1>14. PICK old \in Bkt : old = nw[to]
  BY BucketHas
<1>15. PICK bkt \in Bkt : /\ bkt = Moved(old, e) /\ bkt.chain = <<e>> \o old.chain
                          /\ bkt.count = old.count + 1
  <2>1. tbl.ideal_chain_maxlen \in Int
    BY TableHas DEF LInv
  <2> QED
    BY <2>1, MovedIs
<1>16. PICK nx \in Bkts(2 * size) :
         /\ nx = new' /\ nx[to].chain = <<e>> \o nw[to].chain
         /\ nx[to].count = nw[to].count + 1
         /\ \A a \in 0 .. 2 * size - 1 : a # to => nx[a] = nw[a]
  <2>1. new' = [nw EXCEPT ![to] = bkt]
    BY <1>4, <1>5, <1>6, <1>8, <1>14, <1>15
  <2>2. PICK nx : nx = new' /\ nx = [nw EXCEPT ![to] = bkt]
    BY <2>1
  <2>3. nx \in Bkts(2 * size) /\ nx[to] = bkt
        /\ \A a \in 0 .. 2 * size - 1 : a # to => nx[a] = nw[a]
    BY ONLY <2>2, bkt \in Bkt, nw \in Bkts(2 * size), to \in 0 .. 2 * size - 1 DEF Bkts
  <2> QED
    BY <1>14, <1>15, <2>2, <2>3
<1>17. Moves(t, u, nw, nx, size, b, e, to)
  <2>1. /\ t.buckets[b].chain = s /\ List(s) /\ s # <<>> /\ e = Head(s)
        /\ t.buckets = bs /\ u.buckets = cs
    BY <1>1, <1>5, <1>6, <1>12
  <2> QED
    BY <1>7, <1>8, <1>11, <1>13, <1>16, <2>1, Zenon DEF Moves
<1> QED
  BY <1>1, <1>3, <1>10, <1>16, <1>17

LEMMA ExpandMoveKeeps == ASSUME LInv, ExpandMove PROVE LInv'
<1> PICK size \in Nat \ {0} : \E b \in 0 .. size - 1, to \in 0 .. 2 * size - 1, e \in Nat :
        size = tbl.num_buckets /\ Moves(tbl, tbl', new, new', size, b, e, to)
  BY ExpandMoveIs
<1>1. PICK t \in Tables(size), bs \in Bkts(size) :
        t = tbl /\ size = tbl.num_buckets /\ bs = t.buckets
  BY TableHas DEF LInv
<1>2. /\ pc = "expanding" /\ UNCHANGED <<entry, order, cur, tmp, answer, leaked, pc>>
  BY DEF ExpandMove
<1>3. PICK nw \in Bkts(2 * size), es \in SUBSET ToSet(order) :
        /\ nw = new /\ es = ToSet(order) /\ es # {} /\ Linear(bs) \subseteq es
        /\ LinksIn(entry, nw, 2 * size, es \ Linear(bs))
        /\ \A b \in 0 .. size - 1 :
             /\ IsInjective(bs[b].chain)
             /\ \A x \in ToSet(bs[b].chain) : HomeOf(entry, x, size) = b
  BY <1>1, <1>2 DEF LInv, Whole, Moving
<1>4. PICK b \in 0 .. size - 1, to \in 0 .. 2 * size - 1, e \in Nat :
        Moves(tbl, tbl', new, new', size, b, e, to)
  BY Zenon
<1>5. PICK s : s = bs[b].chain /\ List(s) /\ s # <<>>
  BY <1>1, <1>4 DEF Moves
<1>6. List(Tail(s)) /\ ToSet(Tail(s)) = ToSet(s) \ {e}
  <2>1. PICK r : r = Tail(s)
    OBVIOUS
  <2>2. Head(s) = s[1] /\ List(r) /\ ToSet(r) = ToSet(s) \ {s[1]}
    BY ONLY <1>5, <2>1, TailIs, Zenon
  <2>3. e = Head(s)
    BY <1>1, <1>4, <1>5 DEF Moves
  <2> QED
    BY <2>1, <2>2, <2>3
<1>7. PICK u : /\ u = tbl' /\ u \in Tables(size) /\ u.num_items = t.num_items
               /\ u.num_buckets = size /\ u.buckets \in Bkts(size)
               /\ u.buckets[b].chain = Tail(s)
               /\ \A a \in 0 .. size - 1 : a # b => u.buckets[a] = bs[a]
  BY <1>1, <1>4, <1>5 DEF Moves, OneLess
<1>8. PICK cs \in Bkts(size) : cs = u.buckets
  BY <1>7
<1>9. e \in Linear(bs) /\ e \in es /\ Linear(cs) = Linear(bs) \ {e}
  <2>1. e \in Linear(tbl.buckets) /\ Linear(tbl'.buckets) = Linear(tbl.buckets) \ {e}
    BY <1>4 DEF Moves
  <2>2. bs = tbl.buckets /\ cs = tbl'.buckets
    BY <1>1, <1>7, <1>8
  <2> QED
    BY <1>3, <2>1, <2>2
<1>10. PICK nx \in Bkts(2 * size) :
         /\ nx = new' /\ nx[to].chain = <<e>> \o nw[to].chain
         /\ nx[to].count = nw[to].count + 1
         /\ \A a \in 0 .. 2 * size - 1 : a # to => nx[a] = nw[a]
  <2>1. PICK nx : nx = new'
    OBVIOUS
  <2>2. /\ nx \in Bkts(2 * size) /\ nx[to].chain = <<e>> \o nw[to].chain
        /\ nx[to].count = nw[to].count + 1
        /\ \A a \in 0 .. 2 * size - 1 : a # to => nx[a] = nw[a]
    BY <1>3, <1>4, <2>1 DEF Moves
  <2> QED
    BY <2>1, <2>2
<1>11. LinksIn(entry, nx, 2 * size, (es \ Linear(bs)) \cup {e})
  <2>1. e \in Nat \ (es \ Linear(bs))
    BY <1>9
  <2>2. LinksIn(entry, nw, 2 * size, es \ Linear(bs)) /\ HomeOf(entry, e, 2 * size) = to
    BY <1>3, <1>4 DEF Moves
  <2>3. /\ 2 * size \in Nat /\ nw \in Bkts(2 * size) /\ nx \in Bkts(2 * size)
        /\ to \in 0 .. 2 * size - 1
    OBVIOUS
  <2>4. \A x \in es \ Linear(bs) : HomeOf(entry, x, 2 * size) = HomeOf(entry, x, 2 * size)
    OBVIOUS
  <2> QED
    BY ONLY <1>10, <2>1, <2>2, <2>3, <2>4, AddLinks, Zenon
<1>12. Moving(entry, nx, u, es)
  <2>1. (es \ Linear(bs)) \cup {e} = es \ Linear(cs)
    BY <1>3, <1>9
  <2>2. Linear(cs) \subseteq es
    BY <1>3, <1>9
  <2>3. ASSUME NEW a \in 0 .. size - 1
        PROVE  /\ IsInjective(cs[a].chain)
               /\ \A x \in ToSet(cs[a].chain) : HomeOf(entry, x, size) = a
    <3>1. CASE a = b
      <4>1. cs[a].chain = Tail(s) /\ IsInjective(Tail(s))
        BY <1>6, <1>7, <1>8, <3>1 DEF List
      <4> QED
        BY <1>3, <1>5, <1>6, <3>1, <4>1
    <3>2. CASE a # b
      BY <1>3, <1>7, <1>8, <3>2
    <3> QED
      BY <3>1, <3>2
  <2>4. LinksIn(entry, nx, 2 * size, es \ Linear(cs))
    BY <1>11, <2>1
  <2> QED
    BY <1>3, <1>7, <1>8, <2>2, <2>3, <2>4 DEF Moving
<1>13. TableOK'
  <2>1. order' # <<>>
    BY <1>2, <1>3, EntriesHave, ListHas DEF LInv
  <2> QED
    BY <1>1, <1>2, <1>7, <2>1 DEF LInv, TableOK
<1>14. Whole'
  BY <1>2, <1>3, <1>7, <1>10, <1>12 DEF Whole
<1>15. Ids' = Ids
  BY <1>2 DEF Ids
<1> QED
  BY <1>2, <1>13, <1>14, <1>15 DEF LInv, EntriesOK, Iterating

LEMMA ExpandDoneKeeps == ASSUME LInv, ExpandDone PROVE LInv'
<1> PICK size \in Nat \ {0} : size = tbl.num_buckets
  BY TableHas DEF LInv
<1>1. PICK t \in Tables(size), bs \in Bkts(size) :
        t = tbl /\ size = tbl.num_buckets /\ bs = t.buckets
  BY TableHas DEF LInv
<1>2. PICK ineff \in Int, no \in BOOLEAN :
        /\ pc = "expanding" /\ Emptied(bs) /\ new' = <<>> /\ pc' = "idle"
        /\ UNCHANGED <<entry, order, cur, tmp, answer, leaked>>
        /\ tbl' = [t EXCEPT !.num_buckets = 2 * @, !.log2_num_buckets = @ + 1,
                            !.buckets = new,
                            !.ineff_expands = ineff, !.noexpand = no]
  <2>1. t.ineff_expands \in Int /\ t.noexpand \in BOOLEAN
    BY DEF Tables
  <2>2. PICK ineff \in Int :
          ineff = IF t.nonideal_items > t.num_items \div 2 THEN t.ineff_expands + 1 ELSE 0
    BY <2>1
  <2>3. PICK no \in BOOLEAN : no = (t.noexpand \/ ineff > 1)
    OBVIOUS
  <2>4. t.noexpand \/ ineff > 1 <=> no
    BY <2>3
  <2> QED
    BY <1>1, <2>2, <2>3 DEF ExpandDone
<1>3. PICK nw \in Bkts(2 * size), es \in SUBSET ToSet(order) :
        /\ nw = new /\ es = ToSet(order) /\ es # {}
        /\ LinksIn(entry, nw, 2 * size, es \ Linear(bs))
  BY <1>1, <1>2 DEF LInv, Whole, Moving
<1>4. Linear(bs) = {}
  <2>1. ASSUME NEW b \in 0 .. size - 1 PROVE ToSet(bs[b].chain) = {}
    <3>1. b \in DOMAIN bs
      BY DEF Bkts
    <3> QED
      BY <1>2, <3>1, NoEntries DEF Emptied
  <2> QED
    BY <2>1, LinearHas
<1>5. PICK twice \in Nat \ {0} : twice = 2 * size
  OBVIOUS
<1>6. PICK u : /\ u = tbl' /\ u \in Tables(twice) /\ u.num_buckets = twice /\ u.buckets = nw
               /\ u.num_items = t.num_items
  <2>1. PICK u : u = tbl'
    OBVIOUS
  <2>0. PICK log2 \in Nat : log2 = t.log2_num_buckets + 1
    BY DEF Tables
  <2>2. u = [t EXCEPT !.num_buckets = twice, !.log2_num_buckets = log2, !.buckets = nw,
                      !.ineff_expands = ineff, !.noexpand = no]
    BY <1>1, <1>2, <1>3, <1>5, <2>0, <2>1 DEF Tables
  <2>3. nw \in Bkts(twice)
    BY <1>5
  <2>4. /\ u \in Tables(twice) /\ u.num_buckets = twice /\ u.buckets = nw
        /\ u.num_items = t.num_items
    BY ONLY <2>2, <2>3, t \in Tables(size), log2 \in Nat, ineff \in Int, no \in BOOLEAN DEF Tables
  <2> QED
    BY <2>1, <2>4
<1>7. LinksIn(entry, nw, twice, es)
  <2>1. es \ Linear(bs) = es
    BY <1>4
  <2> QED
    BY <1>3, <1>5, <2>1
<1>8. TableOK'
  <2>1. order' # <<>>
    BY <1>2, <1>3, EntriesHave, ListHas DEF LInv
  <2> QED
    BY <1>1, <1>2, <1>6, <2>1 DEF LInv, TableOK
<1>9. Whole'
  BY <1>2, <1>3, <1>6, <1>7 DEF Whole
<1>10. Ids' = Ids
  BY <1>2 DEF Ids
<1> QED
  BY <1>2, <1>8, <1>9, <1>10 DEF LInv, EntriesOK, Iterating

\* What HASH_DELETE leaves of a table of several entries.
WithoutIn(t, u, size, h, e) ==
  /\ u \in Tables(size) /\ u.num_items = t.num_items - 1 /\ u.num_buckets = size
  /\ u.buckets \in Bkts(size)
  /\ u.buckets[h].chain = Unlink(t.buckets[h].chain, e)
  /\ u.buckets[h].count = t.buckets[h].count - 1
  /\ \A a \in 0 .. size - 1 : a # h => u.buckets[a] = t.buckets[a]

LEMMA DeletedIs ==
  ASSUME NEW size \in Nat \ {0}, NEW t \in Tables(size), t = tbl,
         NEW e, NEW h \in 0 .. size - 1, h = Home(e, size),
         List(t.buckets[h].chain), e \in ToSet(t.buckets[h].chain),
         t.buckets[h].count = Len(t.buckets[h].chain), t.num_items \in Nat \ {0},
         NEW u, u = Deleted(e)
  PROVE  WithoutIn(t, u, size, h, e)
<1>1. t.buckets \in Bkts(size) /\ t.num_buckets = size
  BY DEF Tables
<1>2. PICK old \in Bkt : old = t.buckets[h]
  BY <1>1, BucketHas
<1>3. PICK s : s = old.chain /\ List(s) /\ e \in ToSet(s) /\ old.count = Len(s)
  BY <1>2
<1>4. PICK k \in 1 .. Len(s) : s[k] = e
  <2>1. s \in Seq(Nat)
    BY <1>3 DEF List
  <2>2. \A x : x \in ToSet(s) <=> \E k \in 1 .. Len(s) : s[k] = x
    BY <2>1, ListHas
  <2> QED
    BY ONLY <1>3, <2>2
<1>5. PICK r : r = Unlink(s, e) /\ List(r) /\ Len(r) = Len(s) - 1
  <2>1. PICK r : r = Unlink(s, s[k])
    OBVIOUS
  <2>2. List(r) /\ Len(r) = Len(s) - 1
    BY ONLY <1>3, <2>1, UnlinkIs, k \in 1 .. Len(s), Zenon
  <2> QED
    BY <1>4, <2>1, <2>2
<1>6. PICK c \in Nat : c = old.count - 1
  <2>1. Len(r) \in Nat
    BY <1>5 DEF List
  <2> QED
    BY <1>3, <1>5, <2>1
<1>7. PICK bkt \in Bkt : bkt = [old EXCEPT !.chain = r, !.count = c]
                         /\ bkt.chain = r /\ bkt.count = c
  <2>1. PICK bkt : bkt = [old EXCEPT !.chain = r, !.count = c]
    OBVIOUS
  <2>2. r \in Seq(Nat)
    BY <1>5 DEF List
  <2>3. bkt \in Bkt /\ bkt.chain = r /\ bkt.count = c
    BY ONLY <2>1, <2>2, old \in Bkt, c \in Nat DEF Bkt
  <2> QED
    BY <2>1, <2>3
<1>8. PICK bs \in Bkts(size) : bs = [t.buckets EXCEPT ![h] = bkt]
  BY <1>1 DEF Bkts
<1>9. /\ bs[h].chain = Unlink(t.buckets[h].chain, e)
      /\ bs[h].count = t.buckets[h].count - 1
      /\ \A a \in 0 .. size - 1 : a # h => bs[a] = t.buckets[a]
  BY <1>1, <1>2, <1>3, <1>5, <1>6, <1>7, <1>8 DEF Bkts
<1>10. PICK items \in Nat : items = t.num_items - 1
  OBVIOUS
<1>11. u = [t EXCEPT !.buckets = bs, !.num_items = items]
  <2>1. bkt = Unlinked(t.buckets[h], e)
    BY <1>2, <1>3, <1>5, <1>6, <1>7 DEF Unlinked
  <2>2. u = [t EXCEPT !.buckets[h] = bkt, !.num_items = items]
    BY <1>1, <1>10, <2>1 DEF Deleted
  <2> QED
    BY <1>8, <2>2 DEF Tables
<1>12. /\ u \in Tables(size) /\ u.buckets = bs /\ u.num_items = items /\ u.num_buckets = size
  BY ONLY <1>11, t \in Tables(size), bs \in Bkts(size), items \in Nat DEF Tables
<1> QED
  BY <1>9, <1>10, <1>12 DEF WithoutIn

LEMMA FreeEntryKeeps == ASSUME LInv, FreeEntry PROVE LInv'
<1> PICK size \in Nat \ {0} : size = tbl.num_buckets
  BY TableHas DEF LInv
<1>1. PICK t \in Tables(size), bs \in Bkts(size) :
        t = tbl /\ size = tbl.num_buckets /\ bs = t.buckets
  BY TableHas DEF LInv
<1>2. /\ pc = "freeing" /\ cur # NULL /\ UNCHANGED <<new, answer, leaked, pc>>
      /\ order' = Unlink(order, cur) /\ entry' = Released(cur)
      /\ tbl' = IF order = <<cur>> THEN EmptyTable ELSE Deleted(cur)
      /\ cur' = tmp /\ tmp' = Successor(order', tmp)
  BY DEF FreeEntry
<1> PICK s : s = order
  OBVIOUS
<1>3. PICK len \in Nat : /\ s = order /\ List(s) /\ len = Len(s) /\ ToSet(s) \subseteq Ids
                         /\ cur = Nth(s, 1) /\ tmp = Nth(s, 2)
  BY <1>2, EntriesHave DEF LInv, EntriesOK, Iterating
<1>4. 1 <= len /\ 1 \in 1 .. Len(s) /\ cur = s[1] /\ cur \in ToSet(s) /\ cur \in Ids
  <2>1. 1 <= len /\ cur = s[1]
    BY <1>2, <1>3 DEF Nth
  <2>2. 1 \in 1 .. Len(s)
    BY <1>3, <2>1
  <2> QED
    BY <1>3, <2>1, <2>2, ListHas DEF List
<1>5. PICK r : /\ r = order' /\ List(r) /\ Len(r) = len - 1 /\ ToSet(r) = ToSet(s) \ {cur}
               /\ \A i \in 1 .. len - 1 : r[i] = s[i + 1]
  <2>1. PICK r : r = Unlink(s, s[1]) /\ r = order'
    BY <1>2, <1>3, <1>4
  <2>2. /\ List(r) /\ Len(r) = Len(s) - 1 /\ ToSet(r) = ToSet(s) \ {s[1]}
        /\ \A i \in 1 .. Len(s) - 1 : r[i] = IF i < 1 THEN s[i] ELSE s[i + 1]
    <3>1. PICK k \in 1 .. Len(s) : k = 1 /\ List(s) /\ r = Unlink(s, s[k])
      BY <1>3, <1>4, <2>1
    <3>2. /\ List(r) /\ Len(r) = Len(s) - 1 /\ ToSet(r) = ToSet(s) \ {s[k]}
          /\ Skips(r, s, k)
      BY ONLY <3>1, UnlinkIs, k \in 1 .. Len(s), Zenon
    <3> QED
      BY <3>1, <3>2 DEF Skips
  <2>3. ASSUME NEW i \in 1 .. len - 1 PROVE r[i] = s[i + 1]
    BY <1>3, <2>2
  <2> QED
    BY <1>3, <1>4, <2>1, <2>2, <2>3
<1>6. Ids' = Ids \ {cur} /\ \A x \in Ids \ {cur} : entry'[x] = entry[x]
  BY <1>2 DEF Released, Restrict, Ids
<1>7. EntriesOK'
  <2>1. entry' \in [Ids' -> Entries]
    <3>1. \A x \in Ids : entry[x] \in Entries
      BY EntriesHave DEF LInv
    <3> QED
      BY <1>2, <1>6, <3>1 DEF Released, Restrict, Ids
  <2>2. \A x \in Ids' : entry'[x].index = x
    BY <1>6 DEF LInv, EntriesOK
  <2>3. /\ Ids' \subseteq 1 .. MaxEntries /\ Ids' = ToSet(order') \cup leaked'
        /\ ToSet(order') \cap leaked' = {}
    BY <1>2, <1>3, <1>4, <1>5, <1>6 DEF LInv, EntriesOK
  <2> QED
    BY <1>5, <2>1, <2>2, <2>3 DEF EntriesOK
<1>8. order = <<cur>> <=> len = 1
  <2>1. ASSUME order = <<cur>> PROVE len = 1
    BY <1>3, <2>1
  <2>2. ASSUME len = 1 PROVE order = <<cur>>
    <3>1. s \in Seq(Nat) /\ <<cur>> \in Seq(Nat) /\ Len(<<cur>>) = 1 /\ <<cur>>[1] = cur
      BY <1>3, <1>4, EntriesHave DEF LInv, List
    <3>2. Len(s) = 1 /\ s[1] = cur
      BY <1>3, <1>4, <2>2
    <3>3. \A i \in 1 .. Len(s) : s[i] = <<cur>>[i]
      BY <3>1, <3>2
    <3>4. s = <<cur>>
      BY ONLY <3>1, <3>2, <3>3, SeqEqual
    <3> QED
      BY <3>4
  <2> QED
    BY <2>1, <2>2
<1>9. Iterating'
  <2>1. CASE len = 1
    <3>1. tmp = NULL /\ r = <<>>
      BY <1>3, <1>5, <2>1, ListHas DEF Nth, List
    <3>2. 0 \notin ToSet(r)
      BY <3>1, NoEntries
    <3>3. Place(r, 0) = 0
      BY <1>5, <3>2, PlaceIs
    <3>4. tmp' = NULL
      BY <1>2, <1>5, <3>1, <3>3 DEF Successor, NULL
    <3>5. Nth(r, 1) = NULL /\ Nth(r, 2) = NULL
      BY <1>5, <2>1 DEF Nth
    <3> QED
      BY <1>2, <1>5, <3>1, <3>4, <3>5 DEF Iterating
  <2>2. CASE len # 1
    <3>1. PICK m \in Nat : m = Len(r) /\ m = len - 1 /\ 1 <= m
      BY <1>4, <1>5, <2>2
    <3>2. tmp = r[1]
      BY <1>3, <1>5, <3>1 DEF Nth
    <3>3. Place(r, r[1]) = 1
      BY <1>5, <3>1, PlaceIs
    <3>4. Successor(r, tmp) = IF 1 = m THEN NULL ELSE r[2]
      BY <3>1, <3>2, <3>3 DEF Successor
    <3>5. Nth(r, 2) = IF 1 = m THEN NULL ELSE r[2]
      BY <3>1 DEF Nth
    <3>6. Nth(r, 1) = r[1]
      BY <3>1 DEF Nth
    <3>7. cur' = Nth(r, 1) /\ tmp' = Nth(r, 2)
      BY <1>2, <1>5, <3>2, <3>4, <3>5, <3>6, Zenon
    <3> QED
      BY <1>2, <1>5, <3>7 DEF Iterating
  <2> QED
    BY <2>1, <2>2
<1>10. LinksIn(entry, bs, size, ToSet(s))
  BY <1>1, <1>2, <1>3 DEF LInv, Whole
<1>11. TableOK' /\ Whole'
  <2>1. CASE len = 1
    <3>1. r = <<>> /\ ToSet(r) = {}
      <4>1. r \in Seq(Nat) /\ Len(r) = 0
        BY <1>5, <2>1 DEF List
      <4> QED
        BY ONLY <4>1, ListHas
    <3>2. tbl' = EmptyTable
      BY <1>2, <1>8, <2>1
    <3> QED
      BY <1>2, <1>5, <2>1, <3>1, <3>2, EmptyTableIs DEF TableOK, Whole
  <2>2. CASE len # 1
    <3>1. PICK h \in 0 .. size - 1 : h = Home(cur, size) /\ h = HomeOf(entry, cur, size)
      <4>1. Home(cur, size) = HomeOf(entry, cur, size)
        BY DEF Home, HomeOf, Bucket
      <4> QED
        BY <1>4, <4>1, EntriesHave DEF LInv
    <3>2. /\ List(bs[h].chain) /\ cur \in ToSet(bs[h].chain)
          /\ bs[h].count = Len(bs[h].chain)
      BY <1>4, <1>10, <3>1, BucketHas DEF LinksIn, List
    <3>3. t.num_items = len /\ t.num_items \in Nat \ {0}
      BY <1>1, <1>3, <1>4 DEF LInv, TableOK
    <3>4. PICK u : u = Deleted(cur) /\ u = tbl'
      BY <1>2, <1>8, <2>2
    <3>5. /\ u \in Tables(size) /\ u.num_items = t.num_items - 1 /\ u.num_buckets = size
          /\ u.buckets \in Bkts(size)
          /\ u.buckets[h].chain = Unlink(bs[h].chain, cur)
          /\ u.buckets[h].count = bs[h].count - 1
          /\ \A a \in 0 .. size - 1 : a # h => u.buckets[a] = bs[a]
      <4>1. /\ t = tbl /\ h = Home(cur, size) /\ u = Deleted(cur) /\ t.num_items \in Nat \ {0}
            /\ List(t.buckets[h].chain) /\ cur \in ToSet(t.buckets[h].chain)
            /\ t.buckets[h].count = Len(t.buckets[h].chain)
        BY <1>1, <3>1, <3>2, <3>3, <3>4
      <4>2. WithoutIn(t, u, size, h, cur)
        BY ONLY <4>1, DeletedIs, size \in Nat \ {0}, t \in Tables(size), h \in 0 .. size - 1,
                Zenon
      <4> QED
        BY <1>1, <4>2 DEF WithoutIn
    <3>6. PICK cs \in Bkts(size) : cs = u.buckets
      BY <3>5
    <3>7. LinksIn(entry', cs, size, ToSet(s) \ {cur})
      <4>1. \A x \in ToSet(s) \ {cur} : HomeOf(entry', x, size) = HomeOf(entry, x, size)
        BY <1>3, <1>6 DEF HomeOf
      <4>2. /\ cs[h].chain = Unlink(bs[h].chain, cur) /\ cs[h].count = bs[h].count - 1
            /\ \A a \in 0 .. size - 1 : a # h => cs[a] = bs[a]
        BY <3>5, <3>6
      <4>3. size \in Nat /\ cur \in ToSet(s) /\ HomeOf(entry, cur, size) = h
        BY <1>4, <3>1
      <4> QED
        BY ONLY <1>10, <4>1, <4>2, <4>3, bs \in Bkts(size), cs \in Bkts(size),
                h \in 0 .. size - 1, DropLinks, Zenon
    <3>8. order' # <<>>
      BY <1>3, <1>4, <1>5, <2>2, NoEntries
    <3>9. TableOK'
      BY <1>1, <1>5, <3>3, <3>4, <3>5, <3>8 DEF TableOK
    <3> QED
      BY <1>2, <1>5, <3>4, <3>5, <3>6, <3>7, <3>9 DEF Whole
  <2> QED
    BY <2>1, <2>2
<1> QED
  BY <1>2, <1>7, <1>9, <1>11 DEF LInv

LEMMA LabelsInductive == LInv /\ [Next]_vars => LInv'
<1> SUFFICES ASSUME LInv, [Next]_vars PROVE LInv'
  OBVIOUS
<1>1. ASSUME NEW n \in Names, Bind(n) PROVE LInv'
  BY <1>1, BindKeeps
<1>2. ASSUME NEW n \in Names, Lookup(n) PROVE LInv'
  BY <1>2, LookupKeeps
<1>3. CASE NoMemory
  BY <1>3, StopKeeps
<1>4. CASE ExpandMove
  BY <1>4, ExpandMoveKeeps
<1>5. CASE ExpandDone
  BY <1>5, ExpandDoneKeeps
<1>6. CASE FreeEntry
  BY <1>6, FreeEntryKeeps
<1>7. CASE FreeDone
  BY <1>7, FreeDoneKeeps
<1>8. CASE FreeStart
  BY <1>8, FreeStartKeeps
<1>9. CASE Abandon
  BY <1>9, AbandonKeeps
<1>10. CASE UNCHANGED vars
  BY <1>10, StopKeeps
<1> QED
  BY <1>1, <1>2, <1>3, <1>4, <1>5, <1>6, <1>7, <1>8, <1>9, <1>10 DEF Next, Loops, Ended

THEOREM LabelsInvariant == Spec => []LInv
BY InitLabels, LabelsInductive, PTL DEF Spec

-----------------------------------------------------------------------------
(* What the runs check, for every value of the constants                     *)

LEMMA ListOver ==
  ASSUME NEW s, s \in Seq(Nat), NEW es, ToSet(s) \subseteq es
  PROVE  s \in Seq(es)
<1>1. Len(s) \in Nat /\ \A k \in 1 .. Len(s) : s[k] \in es
  BY ListHas
<1>2. s = [k \in 1 .. Len(s) |-> s[k]]
  BY <1>1
<1> QED
  BY <1>1, <1>2, IsASeq

LEMMA BktsOver ==
  ASSUME NEW size \in Nat, NEW bs \in Bkts(size), NEW es,
         \A b \in 0 .. size - 1 : ToSet(bs[b].chain) \subseteq es
  PROVE  bs \in [0 .. size - 1 -> BucketType(es)]
<1>1. ASSUME NEW b \in 0 .. size - 1 PROVE bs[b] \in BucketType(es)
  <2>1. PICK bkt \in Bkt : bkt = bs[b]
    BY BucketHas
  <2>2. bkt.chain \in Seq(es)
    BY <2>1, ListOver DEF Bkt
  <2>3. bkt \in BucketType(es)
    BY ONLY <2>2, bkt \in Bkt DEF Bkt, BucketType
  <2> QED
    BY <2>1, <2>3
<1> QED
  BY <1>1 DEF Bkts

LEMMA NthIs ==
  ASSUME NEW s \in Seq(Nat)
  PROVE  \A k \in Nat \ {0} : Nth(s, k) \in ToSet(s) \cup {NULL}
<1> SUFFICES ASSUME NEW k \in Nat \ {0} PROVE Nth(s, k) \in ToSet(s) \cup {NULL}
  OBVIOUS
<1>1. CASE k <= Len(s)
  <2>1. k \in 1 .. Len(s) /\ Nth(s, k) = s[k]
    BY <1>1 DEF Nth
  <2> QED
    BY <2>1, ListHas
<1>2. CASE ~(k <= Len(s))
  BY <1>2 DEF Nth
<1> QED
  BY <1>1, <1>2

LEMMA LabelsTypes == LInv => TypeOK
<1> SUFFICES ASSUME LInv PROVE TypeOK
  OBVIOUS
<1> PICK size \in Nat \ {0} : size = tbl.num_buckets
  BY TableHas DEF LInv
<1>1. PICK bs \in Bkts(size) : size = tbl.num_buckets /\ bs = tbl.buckets
  BY TableHas DEF LInv
<1>2. order \in Seq(Nat) /\ Len(order) \in Nat /\ ToSet(order) \subseteq Ids
  BY EntriesHave DEF LInv
<1>3. Ids \subseteq 1 .. MaxEntries /\ leaked \subseteq Ids
  BY DEF LInv, EntriesOK
<1>4. entry \in [Ids -> [name : Names, index : Nat, era : Nat]]
  BY DEF LInv, EntriesOK, Entries
<1>5. order \in Seq(Ids)
  BY <1>2, ListOver
<1>6. tbl.buckets \in [0 .. tbl.num_buckets - 1 -> BucketType(Ids)]
  <2>1. ASSUME NEW b \in 0 .. size - 1 PROVE ToSet(bs[b].chain) \subseteq Ids
    <3>1. CASE pc = "expanding"
      <4>1. Linear(bs) \subseteq ToSet(order)
        BY <1>1, <3>1 DEF LInv, Whole, Moving
      <4> QED
        BY <1>2, <4>1, LinearHas
    <3>2. CASE pc # "expanding"
      BY <1>1, <1>2, <3>2 DEF LInv, Whole, LinksIn
    <3> QED
      BY <3>1, <3>2
  <2>2. bs \in [0 .. size - 1 -> BucketType(Ids)]
    BY <2>1, BktsOver
  <2> QED
    BY <1>1, <2>2
<1>7. ASSUME pc = "expanding"
      PROVE  new \in [0 .. 2 * tbl.num_buckets - 1 -> BucketType(Ids)]
  <2>1. PICK twice \in Nat : twice = 2 * size
    OBVIOUS
  <2>2. PICK nw \in Bkts(twice), es \in SUBSET Ids : nw = new /\ LinksIn(entry, nw, twice, es)
    <3>1. ToSet(order) \ Linear(bs) \subseteq Ids
      BY <1>2
    <3> QED
      BY <1>1, <1>7, <2>1, <3>1 DEF LInv, Whole, Moving
  <2>3. \A b \in 0 .. twice - 1 : ToSet(nw[b].chain) \subseteq Ids
    BY <2>2 DEF LinksIn
  <2>4. nw \in [0 .. twice - 1 -> BucketType(Ids)]
    BY <2>3, BktsOver
  <2> QED
    BY <1>1, <2>1, <2>2, <2>4
<1>8. cur \in Ids \cup {NULL} /\ tmp \in Ids \cup {NULL}
  BY <1>2, NthIs DEF LInv, Iterating
<1>9. answer \in {<<>>} \cup {<<i>> : i \in {NotFound} \cup 1 .. MaxEntries}
  BY DEF LInv, Answers
<1> QED
  BY <1>1, <1>3, <1>4, <1>5, <1>6, <1>7, <1>8, <1>9 DEF TypeOK, LInv

\* Every variable stays of its type: bind_label, the expansion of the table,
\* get_label_index and free_label_table work on entries that are allocated.
THEOREM LabelsTyped == Spec => []TypeOK
BY LabelsInvariant, LabelsTypes, PTL

LEMMA LinksAre ==
  \A buckets, size, es : LinksIn(entry, buckets, size, es) <=> Links(buckets, size, es)
<1>1. \A e, size : HomeOf(entry, e, size) = Home(e, size)
  BY Zenon DEF HomeOf, Home, Bucket
<1> QED
  BY <1>1 DEF LinksIn, Links

\* The table is what HASH_FSCK accepts after every call and in every step of an
\* expansion: each bucket counts what it links, and links every entry of its
\* hash exactly once.
THEOREM TableSound == Spec => []Fsck
<1>1. LInv => Fsck
  <2> SUFFICES ASSUME LInv PROVE Fsck
    OBVIOUS
  <2>1. IsInjective(order) /\ tbl.num_items = Len(order)
    BY DEF LInv, EntriesOK, TableOK, List
  <2>2. CASE pc = "expanding"
    BY <2>1, <2>2, LinksAre DEF LInv, Whole, Moving, Fsck
  <2>3. CASE pc # "expanding"
    BY <2>1, <2>3, LinksAre DEF LInv, Whole, Fsck
  <2> QED
    BY <2>2, <2>3
<1> QED
  BY <1>1, LabelsInvariant, PTL

\* free_label_table frees every entry of the table once and follows no pointer
\* to one it has freed, and no entry is lost but with a pointer to its table.
THEOREM NothingIsDangling == Spec => []NothingDangles
<1>1. LInv => NothingDangles
  <2> SUFFICES ASSUME LInv PROVE NothingDangles
    OBVIOUS
  <2>1. order \in Seq(Nat)
    BY EntriesHave DEF LInv
  <2> QED
    BY <2>1, NthIs DEF LInv, EntriesOK, Iterating, NothingDangles
<1> QED
  BY <1>1, LabelsInvariant, PTL

-----------------------------------------------------------------------------
(* The chains are sorted                                                     *)

\* The rank of the k-th binding, made d expansions ago.
Signed(k, d) == IF d % 2 = 0 THEN k ELSE -k

Ranks(s, en, log2) == [e \in ToSet(s) |-> Signed(Place(s, e), log2 - en[e].era)]

LEMMA SignedIs ==
  ASSUME NEW k \in Nat, NEW d \in Int
  PROVE  /\ Signed(k, d) \in Int /\ Signed(k, d) <= k
         /\ Signed(k, d + 1) = -Signed(k, d)
<1>1. Signed(k, d) \in Int /\ Signed(k, d) <= k
  BY DEF Signed
<1>2. d % 2 = 0 <=> (d + 1) % 2 # 0
  OBVIOUS
<1>3. CASE d % 2 = 0
  BY <1>2, <1>3 DEF Signed
<1>4. CASE d % 2 # 0
  BY <1>2, <1>4 DEF Signed
<1> QED
  BY <1>1, <1>3, <1>4

LEMMA RankIs ==
  ASSUME NEW s, List(s), NEW en, NEW log2, NEW k \in 1 .. Len(s), NEW r, r = Ranks(s, en, log2)
  PROVE  r[s[k]] = Signed(k, log2 - en[s[k]].era)
<1>1. s[k] \in ToSet(s)
  BY ListHas DEF List
<1>2. Place(s, s[k]) = k
  BY PlaceIs
<1> QED
  BY <1>1, <1>2 DEF Ranks

Ranked(s, en, log2, r) == \A k \in 1 .. Len(s) : r[s[k]] = Signed(k, log2 - en[s[k]].era)

LEMMA AllRanked ==
  ASSUME NEW s, List(s), NEW en, NEW log2
  PROVE  Ranked(s, en, log2, Ranks(s, en, log2))
<1> PICK r : r = Ranks(s, en, log2)
  OBVIOUS
<1>1. \A k \in 1 .. Len(s) : r[s[k]] = Signed(k, log2 - en[s[k]].era)
  BY RankIs
<1> QED
  BY <1>1 DEF Ranked

\* The ranks once e is appended, with the highest one.
Highest(r, q, s, e) == \A x \in ToSet(s) : q[x] = r[x] /\ q[x] < q[e]

LEMMA RanksAdded ==
  ASSUME NEW s, List(s), NEW e \in Nat, e \notin ToSet(s), NEW t, t = Append(s, e),
         NEW en, NEW fn, NEW log2 \in Nat,
         \A x \in ToSet(s) : en[x].era \in Nat /\ fn[x] = en[x], fn[e].era = log2,
         NEW r, r = Ranks(s, en, log2), NEW q, q = Ranks(t, fn, log2)
  PROVE  Highest(r, q, s, e)
<1>1. PICK len \in Nat : len = Len(s)
  BY DEF List
<1>2. List(t) /\ Len(t) = len + 1 /\ AtEnd(t, s, e)
  <2>1. List(t) /\ Len(t) = Len(s) + 1 /\ AtEnd(t, s, e)
    BY ONLY List(s), e \in Nat, e \notin ToSet(s), t = Append(s, e), AppendIs, Zenon
  <2> QED
    BY <1>1, <2>1
<1>2a. Ranked(t, fn, log2, q)
  <2>1. Ranked(t, fn, log2, Ranks(t, fn, log2))
    BY ONLY <1>2, AllRanked, Zenon
  <2> QED
    BY <2>1
<1>3. q[e] = len + 1
  <2>1. PICK k \in 1 .. Len(t) : k = len + 1 /\ t[k] = e
    BY <1>1, <1>2 DEF AtEnd
  <2>2. q[t[k]] = Signed(k, log2 - fn[t[k]].era)
    BY <1>2a DEF Ranked
  <2>3. q[e] = Signed(k, log2 - log2) /\ (log2 - log2) % 2 = 0
    BY <2>1, <2>2
  <2> QED
    BY <2>1, <2>3 DEF Signed
<1>4. ASSUME NEW x \in ToSet(s) PROVE q[x] = r[x] /\ q[x] < q[e]
  <2>1. PICK k \in 1 .. len : s[k] = x
    BY <1>1, ListHas DEF List
  <2>2. k \in 1 .. Len(s) /\ k \in 1 .. Len(t) /\ t[k] = x
    BY <1>1, <1>2, <2>1 DEF AtEnd
  <2>3. r[s[k]] = Signed(k, log2 - en[s[k]].era)
    BY <2>2, RankIs
  <2>4. q[t[k]] = Signed(k, log2 - fn[t[k]].era)
    BY <1>2a, <2>2 DEF Ranked
  <2>5. en[s[k]] = en[x] /\ fn[t[k]] = en[x] /\ s[k] = x /\ t[k] = x
    BY <2>1, <2>2
  <2>6. r[x] = Signed(k, log2 - en[x].era) /\ q[x] = Signed(k, log2 - en[x].era)
    BY <2>3, <2>4, <2>5
  <2>7. Signed(k, log2 - en[x].era) \in Int /\ Signed(k, log2 - en[x].era) <= k
    <3>1. log2 - en[x].era \in Int /\ k \in Nat
      OBVIOUS
    <3> QED
      BY ONLY <3>1, SignedIs, Zenon
  <2> QED
    BY <1>3, <2>6, <2>7
<1> QED
  BY <1>4 DEF Highest

\* Another expansion turns the ranks around.
Turned(s, r, q) == \A x, y \in ToSet(s) : r[y] < r[x] <=> q[x] < q[y]

LEMMA RanksTurned ==
  ASSUME NEW s, List(s), NEW en, NEW log2 \in Nat, \A x \in ToSet(s) : en[x].era \in Nat
  PROVE  Turned(s, Ranks(s, en, log2), Ranks(s, en, log2 + 1))
<1> PICK r, q : r = Ranks(s, en, log2) /\ q = Ranks(s, en, log2 + 1)
  OBVIOUS
<1>1. ASSUME NEW z \in ToSet(s) PROVE r[z] \in Int /\ q[z] = -r[z]
  <2>1. PICK k \in 1 .. Len(s) : s[k] = z
    BY ListHas DEF List
  <2>2. r[s[k]] = Signed(k, log2 - en[s[k]].era)
    BY RankIs
  <2>3. q[s[k]] = Signed(k, (log2 + 1) - en[s[k]].era)
    BY RankIs
  <2>4. PICK d \in Int : d = log2 - en[z].era /\ d + 1 = (log2 + 1) - en[z].era
    <3>1. PICK era \in Nat : era = en[z].era
      OBVIOUS
    <3>2. log2 - era \in Int /\ (log2 - era) + 1 = (log2 + 1) - era
      OBVIOUS
    <3> QED
      BY <3>1, <3>2
  <2>5. k \in Nat
    BY DEF List
  <2>6. Signed(k, d) \in Int /\ Signed(k, d + 1) = -Signed(k, d)
    BY <2>5, SignedIs
  <2> QED
    BY <2>1, <2>2, <2>3, <2>4, <2>6
<1>2. Turned(s, r, q)
  BY <1>1 DEF Turned
<1> QED
  BY <1>2

\* A chain links those of one name by falling ranks.
Falling(c, en, r) ==
  \A i, j \in 1 .. Len(c) : (i < j /\ en[c[i]].name = en[c[j]].name) => r[c[j]] < r[c[i]]

\* e goes before the entries of c, which are what they were.
Before(c, e, en, fn, r, q) ==
  \A x \in ToSet(c) : /\ fn[x] = en[x] /\ q[x] = r[x]
                      /\ fn[e].name = fn[x].name => q[x] < q[e]

LEMMA FallingAdded ==
  ASSUME NEW c, List(c), NEW e \in Nat, e \notin ToSet(c),
         NEW en, NEW fn, NEW r, NEW q, Falling(c, en, r), Before(c, e, en, fn, r, q)
  PROVE  Falling(<<e>> \o c, fn, q)
<1> PICK d : d = <<e>> \o c
  OBVIOUS
<1>1. PICK len \in Nat : /\ len = Len(c) /\ Len(d) = len + 1 /\ d[1] = e
                         /\ \A i \in 1 .. len : d[i + 1] = c[i] /\ c[i] \in ToSet(c)
  <2>1. c \in Seq(Nat) /\ Len(c) \in Nat
    BY DEF List
  <2>2. Len(d) = Len(c) + 1 /\ InFront(d, c, e)
    BY ConsIs
  <2> QED
    BY <2>1, <2>2, ListHas DEF InFront
<1>2. ASSUME NEW i \in 1 .. Len(d), NEW j \in 1 .. Len(d), i < j,
             fn[d[i]].name = fn[d[j]].name
      PROVE  q[d[j]] < q[d[i]]
  <2>1. PICK v \in 1 .. len : j = v + 1 /\ d[j] = c[v] /\ c[v] \in ToSet(c)
    <3>1. j - 1 \in 1 .. len /\ j = (j - 1) + 1
      BY <1>1, <1>2
    <3> QED
      BY <1>1, <3>1
  <2>2. CASE i = 1
    BY <1>1, <1>2, <2>1, <2>2 DEF Before
  <2>3. CASE i # 1
    <3>1. PICK u \in 1 .. len : i = u + 1 /\ d[i] = c[u] /\ c[u] \in ToSet(c)
      <4>1. i - 1 \in 1 .. len /\ i = (i - 1) + 1
        BY <1>1, <2>3
      <4> QED
        BY <1>1, <4>1
    <3>2. u < v /\ en[c[u]].name = en[c[v]].name
      BY <1>2, <2>1, <3>1 DEF Before
    <3>3. r[c[v]] < r[c[u]]
      BY <1>1, <3>2 DEF Falling
    <3> QED
      BY <2>1, <3>1, <3>3 DEF Before
  <2> QED
    BY <2>2, <2>3
<1> QED
  BY <1>2 DEF Falling

LEMMA FallingKept ==
  ASSUME NEW c, List(c), NEW en, NEW fn, NEW r, NEW q, Falling(c, en, r),
         \A x \in ToSet(c) : fn[x] = en[x] /\ q[x] = r[x]
  PROVE  Falling(c, fn, q)
<1>1. \A i \in 1 .. Len(c) : c[i] \in ToSet(c)
  BY ListHas DEF List
<1> QED
  BY <1>1 DEF Falling

\* Without its first, which is ahead of the others.
LEMMA FallingTail ==
  ASSUME NEW c, List(c), c # <<>>, NEW t, t = Tail(c), NEW en, NEW r, Falling(c, en, r)
  PROVE  /\ Falling(t, en, r)
         /\ \A x \in ToSet(t) : en[Head(c)].name = en[x].name => r[x] < r[Head(c)]
<1>1. PICK len \in Nat : len = Len(c) /\ len # 0
  BY EmptySeq DEF List
<1>2. /\ t \in Seq(Nat) /\ Len(t) = len - 1 /\ Head(c) = c[1]
      /\ \A i \in 1 .. len - 1 : t[i] = c[i + 1]
  BY <1>1, HeadTailProperties DEF List
<1>3. ASSUME NEW i \in 1 .. Len(t), NEW j \in 1 .. Len(t), i < j, en[t[i]].name = en[t[j]].name
      PROVE  r[t[j]] < r[t[i]]
  <2>1. i + 1 \in 1 .. Len(c) /\ j + 1 \in 1 .. Len(c) /\ i + 1 < j + 1
    BY <1>1, <1>2, <1>3
  <2> QED
    BY <1>2, <1>3, <2>1 DEF Falling
<1>4. ASSUME NEW x \in ToSet(t), en[Head(c)].name = en[x].name PROVE r[x] < r[Head(c)]
  <2>1. PICK i \in 1 .. len - 1 : t[i] = x
    BY <1>2, ListHas
  <2>2. i + 1 \in 1 .. Len(c) /\ 1 \in 1 .. Len(c) /\ 1 < i + 1 /\ c[i + 1] = x
    BY <1>1, <1>2, <2>1
  <2> QED
    BY <1>2, <1>4, <2>2 DEF Falling
<1> QED
  BY <1>3, <1>4 DEF Falling

LEMMA FallingEmpty ==
  ASSUME NEW c, c = <<>>, NEW en, NEW r
  PROVE  Falling(c, en, r)
BY NoEntries DEF Falling

Sorted(bs, size, en, r) == \A b \in 0 .. size - 1 : Falling(bs[b].chain, en, r)

\* Of those of one name, the ones in rest are behind the others.
Ahead(es, rest, en, r) ==
  \A x \in es \ rest, y \in rest : en[x].name = en[y].name => r[y] < r[x]

\* The chains are sorted by the ranks; while the table expands the new ones are by
\* the ranks they are about to have, and what is still to be moved comes later.
Sorting(en, s, t, nw, ph) ==
  /\ ph \in {"idle", "expanding"} =>
       Sorted(t.buckets, t.num_buckets, en, Ranks(s, en, t.log2_num_buckets))
  /\ ph = "expanding" =>
       /\ Sorted(nw, 2 * t.num_buckets, en, Ranks(s, en, t.log2_num_buckets + 1))
       /\ Ahead(ToSet(s), Linear(t.buckets), en, Ranks(s, en, t.log2_num_buckets))

DInv == Sorting(entry, order, tbl, new, pc)

LEMMA SortedNone ==
  ASSUME NEW size \in Nat, NEW en, NEW r
  PROVE  Sorted(Buckets(size), size, en, r)
BY NoneLinked, FallingEmpty DEF Sorted

LEMMA EmptySorted ==
  ASSUME NEW en, NEW s, NEW t, t = EmptyTable, NEW nw, NEW ph, ph # "expanding"
  PROVE  Sorting(en, s, t, nw, ph)
<1>1. PICK size \in Nat : t.buckets = Buckets(size) /\ t.num_buckets = size
  BY EmptyTableIs
<1>2. PICK r : r = Ranks(s, en, t.log2_num_buckets)
  OBVIOUS
<1>3. Sorted(t.buckets, t.num_buckets, en, r)
  BY <1>1, SortedNone
<1> QED
  BY <1>2, <1>3 DEF Sorting

\* What bind_label does.
Binds(n, size, h, e) ==
  /\ size = tbl.num_buckets /\ h = Bucket(n, size)
  /\ e \notin Ids /\ Ids' = Ids \cup {e} /\ \A x \in Ids : entry'[x] = entry[x]
  /\ entry'[e] = [name |-> n, index |-> e, era |-> tbl.log2_num_buckets]
  /\ order' = Append(order, e) /\ answer' = <<>>
  /\ tbl'.num_buckets = size /\ AddedTo(tbl, tbl', e, h, tbl.num_items + 1)
  /\ pc = "idle"
  /\ \/ pc' = "idle"
     \/ pc' = "expanding" /\ new' = Buckets(2 * size) /\ Overfull(Added(tbl.buckets[h], e))

LEMMA BindIs ==
  ASSUME LInv, NEW n \in Names, Bind(n)
  PROVE  \E size \in Nat \ {0}, e \in Nat : \E h \in 0 .. size - 1 : Binds(n, size, h, e)
<1>1. PICK size \in Nat \ {0} : size = tbl.num_buckets
  BY TableHas DEF LInv
<1>2. PICK e : e = Min(Free)
  OBVIOUS
<1>3. e \in Nat /\ e \notin Ids
  <2>1. Free \subseteq Nat /\ Free # {}
    BY LabelsAssumption DEF Free, Bind
  <2>2. e \in Free
    BY <1>2, <2>1, MinIs
  <2> QED
    BY <2>1, <2>2 DEF Free, Ids
<1>4. PICK h \in 0 .. size - 1 : h = Bucket(n, size)
  BY HomeIs
<1>5. /\ pc = "idle" /\ order' = Append(order, e) /\ answer' = <<>>
      /\ \/ pc' = "idle"
         \/ pc' = "expanding" /\ new' = Buckets(2 * size) /\ Overfull(Added(tbl.buckets[h], e))
  BY <1>1, <1>2, <1>4 DEF Bind
<1>6. /\ Ids' = Ids \cup {e} /\ \A x \in Ids : entry'[x] = entry[x]
      /\ entry'[e] = [name |-> n, index |-> e, era |-> tbl.log2_num_buckets]
  BY <1>2, <1>3 DEF Bind, Ids
<1>7. tbl'.num_buckets = size /\ AddedTo(tbl, tbl', e, h, tbl.num_items + 1)
  BY <1>1, <1>2, <1>3, <1>4, BindTable DEF LInv
<1> QED
  BY <1>1, <1>3, <1>4, <1>5, <1>6, <1>7 DEF Binds

\* The chains before and after.
LEMMA BindChains ==
  ASSUME LInv, NEW n \in Names, NEW size \in Nat \ {0}, NEW e \in Nat, NEW h \in 0 .. size - 1,
         Binds(n, size, h, e), NEW bs, bs = tbl.buckets, NEW cs, cs = tbl'.buckets
  PROVE  \A b \in 0 .. size - 1 :
           /\ List(bs[b].chain) /\ ToSet(bs[b].chain) \subseteq ToSet(order)
           /\ bs[b].count = Len(bs[b].chain)
           /\ cs[b].chain = IF b = h THEN <<e>> \o bs[b].chain ELSE bs[b].chain
<1> SUFFICES ASSUME NEW b \in 0 .. size - 1
             PROVE  /\ List(bs[b].chain) /\ ToSet(bs[b].chain) \subseteq ToSet(order)
                    /\ bs[b].count = Len(bs[b].chain)
                    /\ cs[b].chain = IF b = h THEN <<e>> \o bs[b].chain ELSE bs[b].chain
  OBVIOUS
<1>1. bs \in Bkts(size) /\ pc = "idle"
  BY TableHas DEF LInv, Binds
<1>2. LinksIn(entry, bs, size, ToSet(order))
  BY <1>1 DEF LInv, Whole, Binds
<1>3. /\ List(bs[b].chain) /\ ToSet(bs[b].chain) \subseteq ToSet(order)
      /\ bs[b].count = Len(bs[b].chain)
  BY <1>1, <1>2, BucketHas DEF LinksIn, List
<1>4. cs = [bs EXCEPT ![h] = Added(bs[h], e)]
  BY DEF Binds, AddedTo
<1>5. CASE b = h
  <2>1. PICK old \in Bkt : old = bs[h]
    BY <1>1, BucketHas
  <2>2. cs[b] = Added(old, e)
    BY <1>1, <1>4, <1>5, <2>1 DEF Bkts
  <2> QED
    BY <1>3, <1>5, <2>1, <2>2 DEF Added, Bkt
<1>6. CASE b # h
  <2>1. cs[b] = bs[b]
    BY <1>1, <1>4, <1>6 DEF Bkts
  <2> QED
    BY <1>3, <1>6, <2>1
<1> QED
  BY <1>5, <1>6

LEMMA ErasOf ==
  ASSUME LInv
  PROVE  /\ List(order) /\ ToSet(order) \subseteq Ids /\ tbl.log2_num_buckets \in Nat
         /\ \A x \in ToSet(order) : entry[x].era \in Nat
<1>1. List(order) /\ ToSet(order) \subseteq Ids /\ tbl.log2_num_buckets \in Nat
  BY TableHas DEF LInv, EntriesOK
<1>2. ASSUME NEW x \in ToSet(order) PROVE entry[x].era \in Nat
  <2>1. entry[x] \in Entries
    BY <1>1, EntriesHave DEF LInv
  <2> QED
    BY <2>1 DEF Entries
<1> QED
  BY <1>1, <1>2

LEMMA BindSorts == ASSUME LInv, DInv, NEW n \in Names, Bind(n) PROVE DInv'
<1>1. PICK size \in Nat \ {0}, e \in Nat : \E h \in 0 .. size - 1 : Binds(n, size, h, e)
  BY BindIs
<1>2. PICK h \in 0 .. size - 1 : Binds(n, size, h, e)
  BY <1>1
<1>3. PICK log2 \in Nat : log2 = tbl.log2_num_buckets /\ log2 = tbl'.log2_num_buckets
  BY <1>2, TableHas DEF LInv, Binds, AddedTo
<1>4. PICK s, t : s = order /\ t = order' /\ t = Append(s, e)
  BY <1>2 DEF Binds
<1>5. PICK en, fn : en = entry /\ fn = entry'
  OBVIOUS
<1>6. /\ List(s) /\ e \notin ToSet(s) /\ fn[e].era = log2 /\ fn[e].name = n
      /\ \A x \in ToSet(s) : en[x].era \in Nat /\ fn[x] = en[x]
  BY <1>2, <1>3, <1>4, <1>5, ErasOf DEF Binds
<1>7. PICK r, q : r = Ranks(s, en, log2) /\ q = Ranks(t, fn, log2)
  OBVIOUS
<1>8. \A x \in ToSet(s) : q[x] = r[x] /\ q[x] < q[e]
  <2>1. Highest(r, q, s, e)
    BY ONLY <1>4, <1>6, <1>7, e \in Nat, log2 \in Nat, RanksAdded
  <2> QED
    BY <2>1 DEF Highest
<1>9. PICK bs, cs : bs = tbl.buckets /\ cs = tbl'.buckets
  OBVIOUS
<1>10. ASSUME NEW b \in 0 .. size - 1
       PROVE  /\ List(bs[b].chain) /\ ToSet(bs[b].chain) \subseteq ToSet(s)
              /\ cs[b].chain = IF b = h THEN <<e>> \o bs[b].chain ELSE bs[b].chain
  BY <1>2, <1>4, <1>9, BindChains
<1>11. Sorted(bs, size, en, r)
  BY <1>2, <1>3, <1>4, <1>5, <1>7, <1>9 DEF DInv, Sorting, Binds
<1>12. Sorted(cs, size, fn, q)
  <2> SUFFICES ASSUME NEW b \in 0 .. size - 1 PROVE Falling(cs[b].chain, fn, q)
    BY DEF Sorted
  <2>1. PICK c : c = bs[b].chain /\ List(c) /\ ToSet(c) \subseteq ToSet(s) /\ Falling(c, en, r)
    BY <1>10, <1>11 DEF Sorted
  <2>2. \A x \in ToSet(c) : fn[x] = en[x] /\ q[x] = r[x] /\ q[x] < q[e]
    BY <1>6, <1>8, <2>1
  <2>3. CASE b = h
    <3>1. e \notin ToSet(c)
      BY <1>6, <2>1
    <3>2. Before(c, e, en, fn, r, q)
      BY <2>2 DEF Before
    <3>3. List(c) /\ Falling(c, en, r)
      BY <2>1
    <3>4. Falling(<<e>> \o c, fn, q)
      BY ONLY <3>1, <3>2, <3>3, e \in Nat, FallingAdded, Zenon
    <3> QED
      BY <1>10, <2>1, <2>3, <3>4
  <2>4. CASE b # h
    <3>1. Falling(c, fn, q)
      BY ONLY <2>1, <2>2, FallingKept
    <3> QED
      BY <1>10, <2>1, <2>4, <3>1
  <2> QED
    BY <2>3, <2>4
<1>13. ASSUME pc' = "expanding"
       PROVE  /\ Sorted(new', 2 * size, fn, Ranks(t, fn, log2 + 1))
              /\ Ahead(ToSet(t), Linear(cs), fn, q)
  <2>1. PICK twice \in Nat : twice = 2 * size
    OBVIOUS
  <2>2. new' = Buckets(twice)
    BY <1>2, <1>13, <2>1 DEF Binds
  <2>3. PICK z : z = Ranks(t, fn, log2 + 1)
    OBVIOUS
  <2>4. Sorted(Buckets(twice), twice, fn, z)
    BY SortedNone
  <2>5. ToSet(t) \ Linear(cs) = {}
    <3>1. LInv'
      BY BindKeeps
    <3>2. LinksIn(fn, Buckets(twice), twice, ToSet(t) \ Linear(cs)) /\ ToSet(t) \subseteq Ids'
          /\ 2 * tbl'.num_buckets = twice
      BY <1>2, <1>4, <1>5, <1>9, <1>13, <2>1, <2>2, <3>1
         DEF Binds, LInv, Whole, Moving, EntriesOK
    <3>3. ASSUME NEW x \in ToSet(t) \ Linear(cs) PROVE FALSE
      <4>1. fn[x].name \in Names
        BY <1>5, <3>1, <3>2 DEF LInv, EntriesOK, Entries
      <4>2. HomeOf(fn, x, twice) \in 0 .. twice - 1
        BY <2>1, <4>1, HomeIs DEF HomeOf
      <4>3. PICK b \in 0 .. twice - 1 : b = HomeOf(fn, x, twice)
        BY <4>2
      <4>4. Buckets(twice)[b].chain = <<>>
        BY NoneLinked
      <4>5. x \in ToSet(Buckets(twice)[b].chain)
        BY <3>2, <4>3 DEF LinksIn
      <4> QED
        BY <4>4, <4>5, NoEntries
    <3> QED
      BY <3>3
  <2>6. Ahead(ToSet(t), Linear(cs), fn, q)
    BY <2>5 DEF Ahead
  <2> QED
    BY <2>1, <2>2, <2>3, <2>4, <2>6
<1>14. tbl'.num_buckets = size
  BY <1>2 DEF Binds
<1> QED
  BY <1>3, <1>4, <1>5, <1>7, <1>9, <1>12, <1>13, <1>14 DEF DInv, Sorting

LEMMA ExpandMoveSorts == ASSUME LInv, DInv, ExpandMove PROVE DInv'
<1>1. PICK size \in Nat \ {0} : \E b \in 0 .. size - 1, to \in 0 .. 2 * size - 1, e \in Nat :
        size = tbl.num_buckets /\ Moves(tbl, tbl', new, new', size, b, e, to)
  BY ExpandMoveIs
<1>2. PICK b \in 0 .. size - 1, to \in 0 .. 2 * size - 1, e \in Nat :
        size = tbl.num_buckets /\ Moves(tbl, tbl', new, new', size, b, e, to)
  BY <1>1, Zenon
<1>3. UNCHANGED <<entry, order, pc>> /\ pc = "expanding"
  BY DEF ExpandMove
<1>4. PICK log2 \in Nat : log2 = tbl.log2_num_buckets /\ log2 = tbl'.log2_num_buckets
  BY <1>2, TableHas DEF LInv, Moves, OneLess
<1>5. PICK s, en : s = order /\ en = entry
  OBVIOUS
<1>6. List(s) /\ \A x \in ToSet(s) : en[x].era \in Nat
  BY <1>5, ErasOf
<1>7. PICK r, q : r = Ranks(s, en, log2) /\ q = Ranks(s, en, log2 + 1)
  OBVIOUS
<1>8. Turned(s, r, q)
  <2>1. Turned(s, Ranks(s, en, log2), Ranks(s, en, log2 + 1))
    BY ONLY <1>6, log2 \in Nat, RanksTurned, Zenon
  <2> QED
    BY <1>7, <2>1
<1>9. PICK bs, cs, nw, nx : /\ bs = tbl.buckets /\ cs = tbl'.buckets
                            /\ nw = new /\ nx = new'
  OBVIOUS
<1>10. /\ Sorted(bs, size, en, r) /\ Sorted(nw, 2 * size, en, q)
       /\ Ahead(ToSet(s), Linear(bs), en, r)
  BY <1>2, <1>3, <1>4, <1>5, <1>7, <1>9 DEF DInv, Sorting
<1>11. PICK c : /\ c = bs[b].chain /\ List(c) /\ c # <<>> /\ e = Head(c)
                /\ cs[b].chain = Tail(c) /\ cs \in Bkts(size)
                /\ \A a \in 0 .. size - 1 : a # b => cs[a] = bs[a]
  BY <1>2, <1>9 DEF Moves, OneLess
<1>12. PICK d : d = Tail(c)
  OBVIOUS
<1>13. Falling(d, en, r) /\ \A x \in ToSet(d) : en[e].name = en[x].name => r[x] < r[e]
  <2>1. Falling(c, en, r)
    BY <1>10, <1>11 DEF Sorted
  <2>2. /\ Falling(d, en, r)
        /\ \A x \in ToSet(d) : en[Head(c)].name = en[x].name => r[x] < r[Head(c)]
    BY ONLY <1>11, <1>12, <2>1, FallingTail
  <2> QED
    BY <1>11, <2>2
<1>14. Sorted(cs, size, en, r)
  BY <1>10, <1>11, <1>12, <1>13 DEF Sorted
<1>15. PICK es : /\ es = ToSet(s) /\ Linear(bs) \subseteq es
                 /\ LinksIn(en, nw, 2 * size, es \ Linear(bs))
                 /\ \A a \in 0 .. size - 1 : \A x \in ToSet(bs[a].chain) : HomeOf(en, x, size) = a
  BY <1>2, <1>3, <1>5, <1>9 DEF LInv, Whole, Moving
<1>16. /\ HomeOf(en, e, size) = b
       /\ e \in Linear(bs) /\ Linear(cs) = Linear(bs) \ {e}
       /\ nx[to].chain = <<e>> \o nw[to].chain
       /\ \A a \in 0 .. 2 * size - 1 : a # to => nx[a] = nw[a]
  BY <1>2, <1>5, <1>9 DEF Moves
<1>17. Sorted(nx, 2 * size, en, q)
  <2> SUFFICES ASSUME NEW a \in 0 .. 2 * size - 1 PROVE Falling(nx[a].chain, en, q)
    BY DEF Sorted
  <2>1. Falling(nw[a].chain, en, q)
    BY <1>10 DEF Sorted
  <2>2. CASE a = to
    <3>1. PICK f : f = nw[a].chain /\ nx[a].chain = <<e>> \o f
      BY <1>16, <2>2
    <3>2. List(f) /\ ToSet(f) \subseteq es \ Linear(bs)
      <4>1. nw \in Bkts(2 * size)
        BY <1>2, <1>3, <1>9 DEF LInv, Whole, Moving
      <4>2. IsInjective(f) /\ ToSet(f) \subseteq es \ Linear(bs)
        BY <1>15, <3>1 DEF LinksIn
      <4>3. f \in Seq(Nat)
        BY <3>1, <4>1 DEF Bkts, Bkt
      <4> QED
        BY <4>2, <4>3 DEF List
    <3>3. e \notin ToSet(f)
      BY <1>16, <3>2
    <3>4. ASSUME NEW x \in ToSet(f), en[e].name = en[x].name PROVE q[x] < q[e]
      <4>1. x \in ToSet(s) /\ e \in ToSet(s) /\ x \in es \ Linear(bs)
        BY <1>15, <1>16, <3>2
      <4>2. r[e] < r[x]
        BY <1>10, <1>15, <1>16, <3>4, <4>1 DEF Ahead
      <4> QED
        BY <1>8, <4>1, <4>2 DEF Turned
    <3>5. Before(f, e, en, en, q, q)
      BY <3>4 DEF Before
    <3>6. Falling(f, en, q)
      BY <2>1, <3>1
    <3>7. Falling(<<e>> \o f, en, q)
      BY ONLY <3>2, <3>3, <3>5, <3>6, e \in Nat, FallingAdded, Zenon
    <3> QED
      BY <3>1, <3>7
  <2>3. CASE a # to
    BY <1>16, <2>1, <2>3
  <2> QED
    BY <2>2, <2>3
<1>18. Ahead(ToSet(s), Linear(cs), en, r)
  <2> SUFFICES ASSUME NEW x \in es \ Linear(cs), NEW y \in Linear(cs), en[x].name = en[y].name
               PROVE  r[y] < r[x]
    BY <1>15 DEF Ahead
  <2>1. y \in Linear(bs) /\ y # e
    BY <1>16
  <2>2. CASE x = e
    <3>1. HomeOf(en, y, size) = b
      BY <1>16, <2>2 DEF HomeOf
    <3>2. PICK a \in 0 .. size - 1 : y \in ToSet(cs[a].chain)
      BY <1>11, LinearHas
    <3>3. a = b
      BY <1>11, <1>15, <3>1, <3>2
    <3> QED
      BY <1>11, <1>12, <1>13, <2>2, <3>2, <3>3
  <2>3. CASE x # e
    <3>1. x \in ToSet(s) \ Linear(bs)
      BY <1>15, <1>16, <2>3
    <3> QED
      BY <1>10, <2>1, <3>1 DEF Ahead
  <2> QED
    BY <2>2, <2>3
<1>19. tbl'.num_buckets = size
  BY <1>2 DEF Moves, OneLess
<1> QED
  BY <1>3, <1>4, <1>5, <1>7, <1>9, <1>14, <1>17, <1>18, <1>19 DEF DInv, Sorting

LEMMA ExpandDoneSorts == ASSUME LInv, DInv, ExpandDone PROVE DInv'
<1>1. pc = "expanding" /\ pc' = "idle" /\ UNCHANGED <<entry, order>>
  BY DEF ExpandDone
<1>2. PICK size \in Nat : size = tbl.num_buckets
  BY TableHas DEF LInv
<1>3. PICK t \in Tables(size) : t = tbl
  BY <1>2, TableHas DEF LInv
<1>4. PICK u : u = tbl'
  OBVIOUS
<1>5. /\ u.num_buckets = 2 * size /\ u.buckets = new
      /\ u.log2_num_buckets = t.log2_num_buckets + 1
  BY <1>2, <1>3, <1>4 DEF ExpandDone, Tables
<1>6. Sorted(new, 2 * size, entry, Ranks(order, entry, t.log2_num_buckets + 1))
  BY <1>1, <1>2, <1>3 DEF DInv, Sorting
<1> QED
  BY <1>1, <1>4, <1>5, <1>6 DEF DInv, Sorting

LEMMA FreedAll == ASSUME LInv, FreeDone PROVE order = <<>>
<1>1. pc = "freeing" /\ cur = NULL
  BY DEF FreeDone
<1>2. order \in Seq(Nat) /\ Len(order) \in Nat /\ cur = Nth(order, 1)
  BY <1>1, EntriesHave DEF LInv, Iterating
<1>3. ASSUME 1 <= Len(order) PROVE FALSE
  <2>1. order[1] \in ToSet(order) /\ cur = order[1]
    BY <1>2, <1>3, ListHas DEF Nth
  <2> QED
    BY <1>1, <2>1, EntriesHave DEF LInv, NULL
<1>4. Len(order) = 0
  BY <1>2, <1>3
<1> QED
  BY <1>2, <1>4, ListHas

LEMMA SortedInductive == ASSUME LInv, DInv, [Next]_vars PROVE DInv'
<1>1. ASSUME order' = <<>>, pc' # "expanding" PROVE DInv'
  <2>1. tbl' = EmptyTable
    BY <1>1, LabelsInductive DEF LInv, TableOK
  <2> QED
    BY <1>1, <2>1, EmptySorted DEF DInv
<1>2. ASSUME NEW n \in Names, Bind(n) PROVE DInv'
  BY <1>2, BindSorts
<1>3. ASSUME NEW n \in Names, Lookup(n) PROVE DInv'
  BY <1>3 DEF DInv, Sorting, Lookup
<1>4. CASE NoMemory
  BY <1>4 DEF DInv, Sorting, NoMemory
<1>5. CASE ExpandMove
  BY <1>5, ExpandMoveSorts
<1>6. CASE ExpandDone
  BY <1>6, ExpandDoneSorts
<1>7. CASE FreeEntry
  BY <1>7 DEF DInv, Sorting, FreeEntry
<1>8. CASE FreeDone
  BY <1>1, <1>8, FreedAll DEF FreeDone
<1>9. CASE FreeStart
  BY <1>9 DEF DInv, Sorting, FreeStart
<1>10. CASE Abandon
  BY <1>1, <1>10 DEF Abandon
<1>11. CASE UNCHANGED vars
  BY <1>11 DEF DInv, Sorting, vars
<1> QED
  BY <1>2, <1>3, <1>4, <1>5, <1>6, <1>7, <1>8, <1>9, <1>10, <1>11 DEF Next, Loops, Ended

\* In every state the chains are sorted by what expansions do to them.
THEOREM ChainsSorted == Spec => []DInv
<1>1. Init => DInv
  <2> SUFFICES ASSUME Init PROVE DInv
    OBVIOUS
  <2>1. tbl = EmptyTable /\ pc = "idle"
    BY DEF Init
  <2> QED
    BY <2>1, EmptySorted DEF DInv
<1> QED
  BY <1>1, LabelsInvariant, SortedInductive, PTL DEF Spec

\* A lookup finds the binding of the name that has the highest rank.
RankAt(k) == Signed(k, tbl.log2_num_buckets - entry[order[k]].era)

FindsFirst(n) ==
  \E k \in OfName(n) :
    /\ Index(n) = entry[order[k]].index
    /\ \A j \in OfName(n) \ {k} : RankAt(j) < RankAt(k)

LEMMA LookupIs ==
  ASSUME LInv, DInv, pc = "idle", NEW n \in Names
  PROVE  IF OfName(n) = {} THEN Index(n) = NotFound ELSE FindsFirst(n)
<1> PICK size \in Nat \ {0} : size = tbl.num_buckets
  BY TableHas DEF LInv
<1>1. PICK bs \in Bkts(size) : size = tbl.num_buckets /\ bs = tbl.buckets
  BY TableHas DEF LInv
<1>2. PICK len \in Nat : /\ len = Len(order) /\ List(order) /\ order \in Seq(Nat)
                         /\ DOMAIN order = 1 .. len
                         /\ \A k \in 1 .. len : order[k] \in ToSet(order)
  BY EntriesHave, ListHas DEF LInv, EntriesOK
<1>3. PICK h \in 0 .. size - 1 : h = Bucket(n, size) /\ h = Hash[n] % size
  BY HomeIs
<1>4. PICK c : c = bs[h].chain
  OBVIOUS
<1>5. /\ List(c) /\ c \in Seq(Nat)
      /\ ToSet(c) = {x \in ToSet(order) : HomeOf(entry, x, size) = h}
      /\ \A i \in 1 .. Len(c) : c[i] \in ToSet(c)
  <2>1. LinksIn(entry, bs, size, ToSet(order))
    BY <1>1 DEF LInv, Whole
  <2>2. c \in Seq(Nat) /\ IsInjective(c)
        /\ ToSet(c) = {x \in ToSet(order) : HomeOf(entry, x, size) = h}
    BY <1>4, <2>1, BucketHas DEF LinksIn
  <2> QED
    BY <2>2, ListHas DEF List
<1>6. PICK M : M = {i \in 1 .. Len(c) : entry[c[i]].name = n}
  OBVIOUS
<1>7. PICK Of : Of = OfName(n) /\ Of = {k \in 1 .. len : entry[order[k]].name = n}
  BY <1>2 DEF OfName
<1>8. ASSUME NEW i \in M PROVE \E k \in Of : order[k] = c[i]
  <2>1. c[i] \in ToSet(order) /\ entry[c[i]].name = n
    BY <1>5, <1>6
  <2>2. PICK k \in 1 .. len : order[k] = c[i]
    BY <1>2, <2>1, ListHas
  <2> QED
    BY <1>7, <2>1, <2>2
<1>9. ASSUME NEW k \in Of PROVE \E i \in M : order[k] = c[i]
  <2>1. order[k] \in ToSet(order) /\ entry[order[k]].name = n
    BY <1>2, <1>7
  <2>2. order[k] \in ToSet(c)
    BY <1>3, <1>5, <2>1 DEF HomeOf
  <2>3. PICK i \in 1 .. Len(c) : c[i] = order[k]
    BY <1>5, <2>2, ListHas
  <2> QED
    BY <1>6, <2>1, <2>3
<1>10. Found(c, n) = IF M # {} THEN Min(M) ELSE 0
  BY <1>6 DEF Found, SelectInSeq
<1>11. Index(n) = IF order = <<>> \/ Found(c, n) = 0 THEN NotFound
                  ELSE entry[c[Found(c, n)]].index
  BY <1>1, <1>3, <1>4 DEF Index
<1>12. CASE Of = {}
  <2>1. M = {}
    BY <1>8, <1>12
  <2>2. Index(n) = NotFound
    BY <1>10, <1>11, <2>1, Zenon
  <2> QED
    BY <1>7, <1>12, <2>2
<1>13. CASE Of # {}
  <2>1. M # {} /\ M \subseteq Nat /\ order # <<>>
    <3>1. M # {} /\ len # 0
      BY <1>7, <1>9, <1>13
    <3> QED
      BY <1>2, <1>6, <3>1, ListHas
  <2>2. PICK f \in M : f = Found(c, n) /\ (\A i \in M : f <= i)
    BY <1>10, <2>1, MinIs
  <2>3. PICK k \in Of : order[k] = c[f]
    BY <1>8
  <2>4. Index(n) = entry[order[k]].index
    <3>1. f # 0
      BY <1>6
    <3> QED
      BY <1>11, <2>1, <2>2, <2>3, <3>1, Zenon
  <2>5. PICK r : r = Ranks(order, entry, tbl.log2_num_buckets)
    OBVIOUS
  <2>6. ASSUME NEW j \in Of PROVE r[order[j]] = RankAt(j)
    <3>1. j \in 1 .. Len(order)
      BY <1>2, <1>7
    <3>2. List(order)
      BY <1>2
    <3>3. r[order[j]] = Signed(j, tbl.log2_num_buckets - entry[order[j]].era)
      BY ONLY <2>5, <3>1, <3>2, RankIs
    <3> QED
      BY <3>3 DEF RankAt
  <2>7. ASSUME NEW j \in Of \ {k} PROVE RankAt(j) < RankAt(k)
    <3>1. PICK i \in M : order[j] = c[i]
      BY <1>9
    <3>2. Falling(c, entry, r)
      BY <1>1, <1>4, <2>5 DEF DInv, Sorting, Sorted
    <3>3. f # i
      <4>1. j \in 1 .. Len(order) /\ k \in 1 .. Len(order) /\ j # k
        BY <1>2, <1>7
      <4> QED
        BY <1>2, <2>3, <3>1, <4>1, ListApart
    <3>4. f < i /\ f \in 1 .. Len(c) /\ i \in 1 .. Len(c)
      BY <1>6, <2>2, <3>3
    <3>5. r[c[i]] < r[c[f]]
      BY <1>6, <3>2, <3>4 DEF Falling
    <3> QED
      BY <2>3, <2>6, <3>1, <3>5
  <2> QED
    BY <1>7, <1>13, <2>4, <2>7 DEF FindsFirst
<1> QED
  BY <1>12, <1>13

LEMMA MaxMinOf ==
  ASSUME NEW T, T \subseteq Nat, NEW k \in T
  PROVE  /\ (\A j \in T \ {k} : j < k) => Max(T) = k
         /\ (\A j \in T \ {k} : k < j) => Min(T) = k
<1>1. ASSUME \A j \in T \ {k} : j < k PROVE Max(T) = k
  <2>1. \A j \in T : k >= j
    BY <1>1
  <2>2. \A x \in T : (\A j \in T : x >= j) => x = k
    BY <2>1
  <2> QED
    BY <2>1, <2>2, Zenon DEF Max
<1>2. ASSUME \A j \in T \ {k} : k < j PROVE Min(T) = k
  <2>1. Min(T) \in T /\ Min(T) <= k
    <3>1. T \subseteq Nat /\ T # {}
      OBVIOUS
    <3> QED
      BY ONLY <3>1, k \in T, MinIs, Zenon
  <2>2. PICK m \in T : m = Min(T)
    BY <2>1
  <2>3. m <= k /\ (m = k \/ k < m)
    BY <1>2, <2>1, <2>2
  <2> QED
    BY <2>2, <2>3
<1> QED
  BY <1>1, <1>2

\* Whatever expansions have done to the chains, a lookup finds the latest of the
\* name's bindings made an even number of expansions ago, and the oldest of all if
\* there is none; and none only if the name is not bound.
THEOREM FindsDuplicates == Spec => []DuplicateLookup
<1>1. LInv /\ DInv => DuplicateLookup
  <2> SUFFICES ASSUME LInv, DInv, pc = "idle", NEW n \in Names
               PROVE  Index(n) = IF OfName(n) = {} THEN NotFound
                                 ELSE entry[order[IF Alike(n) # {} THEN Max(Alike(n))
                                                  ELSE Min(OfName(n))]].index
    BY DEF DuplicateLookup
  <2>1. CASE OfName(n) = {}
    BY <2>1, LookupIs
  <2>2. CASE OfName(n) # {}
    <3>1. PICK k \in OfName(n) :
            /\ Index(n) = entry[order[k]].index
            /\ \A j \in OfName(n) \ {k} : RankAt(j) < RankAt(k)
      BY <2>2, LookupIs DEF FindsFirst
    <3>2. OfName(n) \subseteq Nat \ {0}
      BY ErasOf, ListHas DEF OfName, List
    <3>3. ASSUME NEW j \in OfName(n)
          PROVE  RankAt(j) = IF j \in Alike(n) THEN j ELSE -j
      BY DEF RankAt, Signed, Alike
    <3>4. CASE Alike(n) # {}
      <4>1. Alike(n) \subseteq OfName(n)
        BY DEF Alike
      <4>2. k \in Alike(n)
        <5>1. PICK j \in Alike(n) : TRUE
          BY <3>4
        <5>2. j \in OfName(n) /\ RankAt(j) = j /\ (j = k \/ RankAt(j) < RankAt(k))
          BY <3>1, <3>3, <4>1
        <5> QED
          BY <3>2, <3>3, <5>2
      <4>3. \A j \in Alike(n) \ {k} : j < k
        BY <3>1, <3>3, <4>1, <4>2
      <4>4. Max(Alike(n)) = k
        BY <3>2, <4>1, <4>2, <4>3, MaxMinOf
      <4> QED
        BY <2>2, <3>1, <3>4, <4>4
    <3>5. CASE Alike(n) = {}
      <4>1. \A j \in OfName(n) \ {k} : k < j
        BY <3>1, <3>2, <3>3, <3>5
      <4>2. Min(OfName(n)) = k
        BY <3>2, <4>1, MaxMinOf
      <4> QED
        BY <2>2, <3>1, <3>5, <4>2
    <3> QED
      BY <3>4, <3>5
  <2> QED
    BY <2>1, <2>2
<1> QED
  BY <1>1, LabelsInvariant, ChainsSorted, PTL

-----------------------------------------------------------------------------
(* The loops take each entry once                                            *)

\* The entries of the table, and those the old buckets link, are finitely many.
LEMMA ListFinite == ASSUME NEW s, List(s) PROVE IsFiniteSet(ToSet(s))
<1>1. PICK len \in Nat : /\ len = Len(s) /\ DOMAIN s = 1 .. len
                         /\ \A x : x \in ToSet(s) <=> \E i \in 1 .. len : s[i] = x
  BY ListHas DEF List
<1>2. IsFiniteSet(1 .. len)
  BY FS_Interval
<1>3. PICK S : S = 1 .. len /\ IsFiniteSet(S)
  BY <1>2
<1>4. PICK T : T = ToSet(s)
  OBVIOUS
<1>5. PICK f : f = [i \in S |-> s[i]]
  OBVIOUS
<1>6. f \in Surjection(S, T)
  <2>1. \A i \in S : f[i] \in T
    BY <1>1, <1>3, <1>4, <1>5
  <2>2. \A x \in T : \E i \in S : f[i] = x
    BY <1>1, <1>3, <1>4, <1>5
  <2> QED
    BY <1>5, <2>1, <2>2 DEF Surjection
<1> QED
  BY <1>3, <1>4, <1>6, FS_Surjection

\* A turn of the expansion takes one entry out of the old buckets.
LEMMA ExpandTakes == ASSUME LInv, ExpandMove PROVE TurnsLeft' = TurnsLeft - 1
<1>1. PICK old, rest, e : /\ old = Linear(tbl.buckets) /\ rest = Linear(tbl'.buckets)
                          /\ e \in old /\ rest = old \ {e}
  <2>1. PICK size \in Nat \ {0} :
          \E b \in 0 .. size - 1, to \in 0 .. 2 * size - 1, e \in Nat :
            Moves(tbl, tbl', new, new', size, b, e, to)
    BY ExpandMoveIs, Zenon
  <2>2. PICK b, to, e : Moves(tbl, tbl', new, new', size, b, e, to)
    BY <2>1, Zenon
  <2> QED
    BY <2>2, Zenon DEF Moves
<1>2. pc = "expanding" /\ pc' = "expanding"
  BY DEF ExpandMove
<1>3. IsFiniteSet(old)
  <2>1. old \subseteq ToSet(order) /\ List(order)
    BY <1>1, <1>2 DEF LInv, EntriesOK, Whole, Moving
  <2>2. PICK S : S = ToSet(order) /\ IsFiniteSet(S)
    BY <2>1, ListFinite
  <2> QED
    BY <2>1, <2>2, FS_Subset
<1>4. PICK n \in Nat : n = Cardinality(old) /\ Cardinality(rest) = n - 1
  <2>1. Cardinality(old \ {e}) = IF e \in old THEN Cardinality(old) - 1 ELSE Cardinality(old)
    BY <1>3, FS_RemoveElement
  <2>2. Cardinality(old) \in Nat
    BY <1>3, FS_CardinalityType
  <2> QED
    BY <1>1, <2>1, <2>2
<1>5. TurnsLeft = n + 1 /\ TurnsLeft' = n - 1 + 1
  BY <1>1, <1>2, <1>4 DEF TurnsLeft
<1> QED
  BY <1>5

LEMMA ExpandEnds == ASSUME LInv, ExpandDone PROVE TurnsLeft' = TurnsLeft - 1
<1>1. pc = "expanding" /\ pc' = "idle" /\ Emptied(tbl.buckets)
  BY DEF ExpandDone
<1>2. PICK old : old = Linear(tbl.buckets)
  OBVIOUS
<1>3. old = {}
  <2>1. \A b \in DOMAIN tbl.buckets : ToSet(tbl.buckets[b].chain) = {}
    BY <1>1, NoEntries DEF Emptied
  <2> QED
    BY <1>2, <2>1 DEF Linear
<1>4. Cardinality(old) = 0
  BY <1>3, FS_EmptySet
<1>5. TurnsLeft = 0 + 1 /\ TurnsLeft' = 0
  BY <1>1, <1>2, <1>4 DEF TurnsLeft
<1> QED
  BY <1>5

\* A turn of free_label_table takes the first entry off the list.
LEMMA FreeTakes == ASSUME LInv, FreeEntry PROVE TurnsLeft' = TurnsLeft - 1
<1>1. pc = "freeing" /\ pc' = "freeing" /\ cur # NULL /\ order' = Unlink(order, cur)
  BY DEF FreeEntry
<1>2. PICK s, r : /\ s = order /\ r = order' /\ List(s) /\ cur = Nth(s, 1)
                  /\ r = Unlink(s, cur)
  BY <1>1 DEF LInv, EntriesOK, Iterating
<1>3. PICK len \in Nat : len = Len(s)
  BY <1>2 DEF List
<1>4. 1 \in 1 .. Len(s) /\ r = Unlink(s, s[1])
  BY <1>1, <1>2, <1>3 DEF Nth
<1>5. Len(r) = Len(s) - 1
  <2>1. PICK k \in 1 .. Len(s) : k = 1 /\ List(s) /\ r = Unlink(s, s[k])
    BY <1>2, <1>4
  <2> QED
    BY ONLY <2>1, UnlinkIs, k \in 1 .. Len(s), Zenon
<1>6. TurnsLeft = len + 1 /\ TurnsLeft' = len - 1 + 1
  BY <1>1, <1>2, <1>3, <1>5 DEF TurnsLeft
<1> QED
  BY <1>6

LEMMA FreeEnds == ASSUME LInv, FreeDone PROVE TurnsLeft' = TurnsLeft - 1
<1>1. pc = "freeing" /\ pc' = "idle" /\ order = <<>>
  BY FreedAll DEF FreeDone
<1>2. TurnsLeft = 0 + 1 /\ TurnsLeft' = 0
  BY <1>1, NoEntries DEF TurnsLeft
<1> QED
  BY <1>2

\* The loop that rebuilds the table and the one that destroys it take as many
\* turns as there are entries and one more: neither takes an entry twice or ends
\* before the last, whatever the steps before it did to the links it follows.
THEOREM TakesEachOnce == Spec => EachEntryOnce
<1>1. ASSUME LInv, Next, TurnsLeft > 0, ~UNCHANGED vars
      PROVE  TurnsLeft' = TurnsLeft - 1
  <2>1. pc \in {"expanding", "freeing"}
    BY <1>1 DEF TurnsLeft
  <2>2. ExpandMove \/ ExpandDone \/ FreeEntry \/ FreeDone
    BY <1>1, <2>1 DEF Next, Loops, Bind, Lookup, NoMemory, FreeStart, Abandon, Ended
  <2> QED
    BY <1>1, <2>2, ExpandTakes, ExpandEnds, FreeTakes, FreeEnds
<1>2. LInv /\ [Next]_vars => [TurnsLeft > 0 => TurnsLeft' = TurnsLeft - 1]_vars
  BY <1>1
<1> QED
  BY <1>2, LabelsInvariant, PTL DEF Spec, EachEntryOnce

-----------------------------------------------------------------------------
(* The table is a map                                                        *)

LEMMA ShorterIs ==
  ASSUME NEW s, NEW t, List(s), List(t), ToSet(s) \subseteq ToSet(t)
  PROVE  Len(s) <= Len(t)
<1>1. /\ s \in Seq(Nat) /\ t \in Seq(Nat) /\ Len(s) \in Nat /\ Len(t) \in Nat
  BY DEF List
<1>2. PICK m \in Nat : m = Len(s)
  BY <1>1
<1>3. PICK n \in Nat : n = Len(t)
  BY <1>1
<1>4. ASSUME NEW i \in 1 .. m PROVE \E j \in 1 .. n : t[j] = s[i]
  BY <1>1, <1>2, <1>3, ListHas
<1>5. PICK f : f = [i \in 1 .. m |-> CHOOSE j \in 1 .. n : t[j] = s[i]]
  OBVIOUS
<1>6. ASSUME NEW i \in 1 .. m PROVE f[i] \in 1 .. n /\ t[f[i]] = s[i]
  BY <1>4, <1>5
<1>7. f \in [1 .. m -> 1 .. n]
  BY <1>5, <1>6
<1>8. ASSUME m > n PROVE FALSE
  <2>1. IsFiniteSet(1 .. m) /\ IsFiniteSet(1 .. n) /\ Cardinality(1 .. n) < Cardinality(1 .. m)
    <3>1. 1 \in Int /\ m \in Int /\ n \in Int
      OBVIOUS
    <3>2. IsFiniteSet(1 .. m) /\ Cardinality(1 .. m) = IF 1 > m THEN 0 ELSE m - 1 + 1
      BY ONLY <3>1, FS_Interval
    <3>3. IsFiniteSet(1 .. n) /\ Cardinality(1 .. n) = IF 1 > n THEN 0 ELSE n - 1 + 1
      BY ONLY <3>1, FS_Interval
    <3>4. Cardinality(1 .. m) = m /\ Cardinality(1 .. n) = n
      BY <3>2, <3>3
    <3> QED
      BY <1>8, <3>2, <3>3, <3>4
  <2>2. PICK i \in 1 .. m : \E j \in 1 .. m : i # j /\ f[i] = f[j]
    BY <1>7, <2>1, FS_PigeonHole
  <2>3. PICK j \in 1 .. m : i # j /\ f[i] = f[j]
    BY <2>2
  <2>4. s[i] = s[j]
    BY <1>6, <2>3
  <2> QED
    BY <1>2, <2>3, <2>4, ListApart
<1> QED
  BY <1>2, <1>3, <1>8

\* While the table is small it is not expanded, and the ranks of its entries are
\* their places.
SInv ==
  /\ pc = "expanding" => Threshold <= Len(order)
  /\ (pc = "idle" /\ Len(order) < Threshold) =>
       \A x \in ToSet(order) : entry[x].era = tbl.log2_num_buckets

LEMMA BindFew ==
  ASSUME LInv, SInv, NEW n \in Names, Bind(n) PROVE SInv'
<1>1. PICK size \in Nat \ {0}, e \in Nat : \E h \in 0 .. size - 1 : Binds(n, size, h, e)
  BY BindIs
<1>2. PICK h \in 0 .. size - 1 : Binds(n, size, h, e)
  BY <1>1
<1>3. /\ List(order) /\ ToSet(order) \subseteq Ids /\ e \notin ToSet(order)
      /\ tbl.buckets \in Bkts(size)
  BY <1>2, TableHas DEF LInv, EntriesOK, Binds
<1>4. PICK len \in Nat : /\ len = Len(order) /\ Len(order') = len + 1
                         /\ ToSet(order') = ToSet(order) \cup {e}
  <2>1. PICK s, t : s = order /\ t = order' /\ t = Append(s, e)
    BY <1>2 DEF Binds
  <2>2. List(s) /\ e \in Nat /\ e \notin ToSet(s) /\ t = Append(s, e)
    BY <1>3, <2>1
  <2>3. Len(t) = Len(s) + 1 /\ ToSet(t) = ToSet(s) \cup {e}
    BY ONLY <2>2, AppendIs, Zenon
  <2>4. Len(s) \in Nat
    BY <2>2 DEF List
  <2> QED
    BY <2>1, <2>3, <2>4
<1>5. ASSUME pc' = "expanding" PROVE Threshold <= Len(order')
  <2>1. PICK old \in Bkt : old = tbl.buckets[h]
    BY <1>3, BucketHas
  <2>2. PICK bkt : bkt = Added(old, e) /\ bkt.count = old.count + 1
                   /\ bkt.expand_mult = old.expand_mult
    <3>1. PICK bkt : bkt = Added(old, e)
      OBVIOUS
    <3>2. bkt.count = old.count + 1 /\ bkt.expand_mult = old.expand_mult
      BY ONLY <3>1, old \in Bkt DEF Added, Bkt
    <3> QED
      BY <3>1, <3>2
  <2>3. bkt.count >= (bkt.expand_mult + 1) * Threshold
    BY <1>2, <1>5, <2>1, <2>2 DEF Overfull, Binds
  <2>4. PICK k \in Nat : k = old.expand_mult
    BY DEF Bkt
  <2>5. (k + 1) * Threshold = k * Threshold + Threshold /\ k * Threshold \in Nat
    BY LabelsAssumption
  <2>6. old.count \in Nat /\ old.count <= len
    <3>1. PICK bs, cs : bs = tbl.buckets /\ cs = tbl'.buckets
      OBVIOUS
    <3>2. /\ List(bs[h].chain) /\ ToSet(bs[h].chain) \subseteq ToSet(order)
          /\ bs[h].count = Len(bs[h].chain)
      <4>1. ASSUME NEW b \in 0 .. size - 1
            PROVE  /\ List(bs[b].chain) /\ ToSet(bs[b].chain) \subseteq ToSet(order)
                   /\ bs[b].count = Len(bs[b].chain)
                   /\ cs[b].chain = IF b = h THEN <<e>> \o bs[b].chain ELSE bs[b].chain
        BY <1>2, <3>1, BindChains
      <4> QED
        BY <4>1
    <3>3. Len(bs[h].chain) <= Len(order)
      BY <1>3, <3>2, ShorterIs
    <3> QED
      BY <1>4, <2>1, <3>1, <3>2, <3>3 DEF Bkt
  <2>7. PICK more \in Nat : more = k * Threshold
    BY <2>5
  <2>8. old.count + 1 >= more + Threshold
    BY <2>2, <2>3, <2>4, <2>5, <2>7
  <2> QED
    BY ONLY <1>4, <2>6, <2>7, <2>8, len \in Nat, LabelsAssumption
<1>6. ASSUME pc' = "idle", Len(order') < Threshold, NEW x \in ToSet(order')
      PROVE  entry'[x].era = tbl'.log2_num_buckets
  <2>1. tbl'.log2_num_buckets = tbl.log2_num_buckets /\ pc = "idle"
    BY <1>2 DEF Binds, AddedTo
  <2>2. CASE x = e
    BY <1>2, <2>1, <2>2 DEF Binds
  <2>3. CASE x \in ToSet(order)
    <3>1. entry[x].era = tbl.log2_num_buckets
      BY <1>4, <1>6, <2>1, <2>3, LabelsAssumption DEF SInv
    <3> QED
      BY <1>2, <1>3, <2>1, <2>3, <3>1 DEF Binds
  <2> QED
    BY <1>4, <2>2, <2>3
<1> QED
  BY <1>2, <1>5, <1>6 DEF SInv, Binds

LEMMA FewInductive == ASSUME LInv, SInv, [Next]_vars PROVE SInv'
<1>1. ASSUME order' = <<>>, pc' # "expanding" PROVE SInv'
  BY <1>1, NoEntries DEF SInv
<1>2. ASSUME NEW n \in Names, Bind(n) PROVE SInv'
  BY <1>2, BindFew
<1>3. ASSUME NEW n \in Names, Lookup(n) PROVE SInv'
  BY <1>3 DEF SInv, Lookup
<1>4. CASE NoMemory
  BY <1>4 DEF SInv, NoMemory
<1>5. CASE ExpandMove
  BY <1>5 DEF SInv, ExpandMove
<1>6. CASE ExpandDone
  <2>1. Threshold <= Len(order) /\ order' = order /\ pc' = "idle"
    BY <1>6 DEF SInv, ExpandDone
  <2>2. ~(Len(order) < Threshold)
    BY <2>1, EntriesHave, LabelsAssumption DEF LInv
  <2> QED
    BY <2>1, <2>2 DEF SInv
<1>7. CASE FreeEntry
  BY <1>7 DEF SInv, FreeEntry
<1>8. CASE FreeDone
  BY <1>1, <1>8, FreedAll DEF FreeDone
<1>9. CASE FreeStart
  BY <1>9 DEF SInv, FreeStart
<1>10. CASE Abandon
  BY <1>1, <1>10 DEF Abandon
<1>11. CASE UNCHANGED vars
  BY <1>11 DEF SInv, vars
<1> QED
  BY <1>2, <1>3, <1>4, <1>5, <1>6, <1>7, <1>8, <1>9, <1>10, <1>11 DEF Next, Loops, Ended

\* The bindings of the entries of a list.
Held(s, en) == [k \in DOMAIN s |-> [name |-> en[s[k]].name, index |-> en[s[k]].index]]
Binding == [name : Names, index : Nat]

LEMMA HeldIs ==
  ASSUME NEW s \in Seq(Nat), NEW en, \A x \in ToSet(s) : en[x] \in Entries,
         NEW h, h = Held(s, en)
  PROVE  /\ h \in Seq(Binding) /\ Len(h) = Len(s) /\ DOMAIN h = 1 .. Len(s)
         /\ \A k \in 1 .. Len(s) :
              h[k] \in Binding /\ h[k].name = en[s[k]].name /\ h[k].index = en[s[k]].index
<1>1. PICK n \in Nat : n = Len(s) /\ DOMAIN s = 1 .. n
  BY ListHas
<1>2. h = [k \in 1 .. n |-> [name |-> en[s[k]].name, index |-> en[s[k]].index]]
  BY <1>1 DEF Held
<1>3. ASSUME NEW k \in 1 .. n
      PROVE  [name |-> en[s[k]].name, index |-> en[s[k]].index] \in Binding
  <2>1. en[s[k]] \in Entries
    BY <1>1, ListHas
  <2> QED
    BY <2>1 DEF Entries, Binding
<1>4. h \in [1 .. n -> Binding]
  BY <1>2, <1>3
<1>5. h \in Seq(Binding)
  BY <1>4, SeqDef
<1>6. DOMAIN h = 1 .. n /\ Len(h) = n
  BY <1>4, <1>5, LenProperties
<1>7. \A k \in 1 .. n : /\ h[k] \in Binding
                        /\ h[k].name = en[s[k]].name /\ h[k].index = en[s[k]].index
  BY <1>2, <1>3
<1> QED
  BY <1>1, <1>5, <1>6, <1>7

LEMMA NothingHeld == ASSUME NEW en PROVE Held(<<>>, en) = <<>>
<1>1. DOMAIN <<>> = {}
  OBVIOUS
<1> QED
  BY <1>1 DEF Held

LEMMA MapBinds == ASSUME LInv, NEW n \in Names, Bind(n) PROVE Map!Bind
<1>1. PICK size \in Nat \ {0}, e \in Nat : \E h \in 0 .. size - 1 : Binds(n, size, h, e)
  BY BindIs
<1>2. /\ pc = "idle" /\ pc' \in {"idle", "expanding"} /\ order' = Append(order, e)
      /\ answer' = <<>> /\ Ids' = Ids \cup {e} /\ e \notin Ids
      /\ \A x \in Ids : entry'[x] = entry[x]
  BY <1>1 DEF Binds
<1>3. LInv'
  BY BindKeeps
<1>4. /\ List(order) /\ ToSet(order) \subseteq Ids /\ e \notin ToSet(order)
      /\ List(order') /\ ToSet(order') \subseteq Ids'
  BY <1>2, <1>3 DEF LInv, EntriesOK
<1>5. PICK len \in Nat : /\ len = Len(order) /\ Len(order') = len + 1
                         /\ AtEnd(order', order, e)
  <2>1. PICK s, t : s = order /\ t = order' /\ t = Append(s, e)
    BY <1>2
  <2>2. List(s) /\ e \in Nat /\ e \notin ToSet(s) /\ t = Append(s, e)
    BY <1>1, <1>4, <2>1
  <2>3. Len(t) = Len(s) + 1 /\ AtEnd(t, s, e)
    BY ONLY <2>2, AppendIs, Zenon
  <2>4. Len(s) \in Nat
    BY <2>2 DEF List
  <2> QED
    BY <2>1, <2>3, <2>4
<1>6. PICK h, g : h = Held(order, entry) /\ g = Held(order', entry')
  OBVIOUS
<1>7. /\ h \in Seq(Binding) /\ Len(h) = len
      /\ \A k \in 1 .. len :
           h[k].name = entry[order[k]].name /\ h[k].index = entry[order[k]].index
  <2>1. \A x \in ToSet(order) : entry[x] \in Entries
    BY <1>4 DEF LInv, EntriesOK
  <2> QED
    BY <1>4, <1>5, <1>6, <2>1, HeldIs DEF List
<1>8. /\ g \in Seq(Binding) /\ Len(g) = len + 1
      /\ \A k \in 1 .. len + 1 :
           /\ g[k] \in Binding
           /\ g[k].name = entry'[order'[k]].name /\ g[k].index = entry'[order'[k]].index
  <2>1. \A x \in ToSet(order') : entry'[x] \in Entries
    BY <1>3, <1>4 DEF LInv, EntriesOK
  <2> QED
    BY <1>4, <1>5, <1>6, <2>1, HeldIs DEF List
<1>9. g = Append(h, g[len + 1])
  <2>1. PICK w \in Binding : w = g[len + 1]
    BY <1>8
  <2>2. PICK f : f = Append(h, w)
    OBVIOUS
  <2>3. /\ f \in Seq(Binding) /\ Len(f) = len + 1 /\ f[len + 1] = w
        /\ \A k \in 1 .. len : f[k] = h[k]
    BY ONLY <1>7, <2>2, w \in Binding, AppendProperties
  <2>4. ASSUME NEW k \in 1 .. len PROVE g[k] = h[k]
    <3>1. order[k] \in Ids /\ order'[k] = order[k]
      BY <1>4, <1>5, ListHas DEF AtEnd, List
    <3>2. entry'[order'[k]] = entry[order[k]]
      BY <1>2, <3>1
    <3>3. k \in 1 .. len + 1
      OBVIOUS
    <3>4. g[k] \in Binding /\ h[k] \in Binding
      BY <1>7, <1>8, <3>3, ElementOfSeq
    <3>5. g[k].name = h[k].name /\ g[k].index = h[k].index
      BY <1>7, <1>8, <3>2, <3>3
    <3> QED
      BY ONLY <3>4, <3>5 DEF Binding
  <2>5. \A k \in 1 .. len + 1 : g[k] = f[k]
    BY <2>1, <2>3, <2>4
  <2>6. g = f
    BY ONLY <1>8, <2>3, <2>5, SeqEqual
  <2> QED
    BY <2>1, <2>2, <2>6
<1>10. Bindings = h /\ Bindings' = g
  BY <1>2, <1>6 DEF Bindings, Held
<1>11. g[len + 1] \in [name : Names, index : Nat]
  BY <1>8 DEF Binding
<1> QED
  BY <1>2, <1>7, <1>8, <1>9, <1>10, <1>11 DEF Map!Bind

LEMMA MapLookups == ASSUME LInv, SInv, DInv, NEW n \in Names, Lookup(n) PROVE Map!Lookup(n)
<1>1. /\ pc = "idle" /\ UNCHANGED <<entry, order, pc>> /\ answer' = <<Index(n)>>
  BY DEF Lookup
<1>2. Bindings' = Bindings
  BY <1>1 DEF Bindings
<1>3. PICK len \in Nat : /\ len = Len(order) /\ order \in Seq(Nat) /\ DOMAIN order = 1 .. len
                         /\ \A x \in ToSet(order) : entry[x] \in Entries
                         /\ \A k \in 1 .. len : order[k] \in ToSet(order)
  BY EntriesHave, ListHas DEF LInv
<1>4. PICK hs : hs = Bindings /\ hs = Held(order, entry)
  BY <1>1 DEF Bindings, Held
<1>5. /\ Len(hs) = len /\ DOMAIN hs = 1 .. len
      /\ \A k \in 1 .. len :
           hs[k].name = entry[order[k]].name /\ hs[k].index = entry[order[k]].index
  BY <1>3, <1>4, HeldIs
<1>6. PICK Of : Of = OfName(n) /\ Of = Map!Of(Bindings, n) /\ Of \subseteq 1 .. len
  <2>1. OfName(n) = {k \in 1 .. len : entry[order[k]].name = n}
    BY <1>3 DEF OfName
  <2>2. Map!Of(Bindings, n) = {k \in 1 .. len : hs[k].name = n}
    BY <1>4, <1>5 DEF Map!Of
  <2> QED
    BY <1>5, <2>1, <2>2
<1>7. CASE Of = {}
  <2>1. Index(n) = NotFound
    BY <1>1, <1>6, <1>7, LookupIs
  <2> QED
    BY <1>1, <1>2, <1>6, <1>7, <2>1 DEF Map!Lookup, Map!Answers, NotFound, Map!NotFound
<1>8. CASE Of # {}
  <2>1. PICK k \in Of : /\ Index(n) = entry[order[k]].index
                        /\ \A j \in Of \ {k} : RankAt(j) < RankAt(k)
    <3>1. FindsFirst(n)
      BY <1>1, <1>6, <1>8, LookupIs
    <3> QED
      BY <1>6, <3>1 DEF FindsFirst
  <2>2. ASSUME len < Threshold, NEW j \in Of PROVE j <= k
    <3>1. ASSUME NEW i \in Of PROVE RankAt(i) = i
      <4>1. entry[order[i]].era = tbl.log2_num_buckets
        BY <1>1, <1>3, <1>6, <2>2 DEF SInv
      <4>2. (tbl.log2_num_buckets - tbl.log2_num_buckets) % 2 = 0
        BY ErasOf
      <4> QED
        BY <4>1, <4>2 DEF RankAt, Signed
    <3> QED
      BY <1>6, <2>1, <3>1
  <2>3. Map!MayFind(Bindings, n, k) /\ k \in DOMAIN Bindings /\ Bindings[k].index = Index(n)
    BY <1>4, <1>5, <1>6, <2>1, <2>2 DEF Map!MayFind
  <2>4. Index(n) \in Map!Answers(Bindings, n)
    BY <1>6, <1>8, <2>3 DEF Map!Answers
  <2> QED
    BY <1>1, <1>2, <2>4 DEF Map!Lookup
<1> QED
  BY <1>7, <1>8

LEMMA MapSteps == ASSUME LInv, SInv, DInv, [Next]_vars PROVE [Map!Next]_Map!vars
<1>1. ASSUME Bindings' = <<>>, answer' = <<>> PROVE Map!Next
  BY <1>1 DEF Map!Next, Map!Clear
<1>2. ASSUME Bindings' = Bindings, answer' = answer PROVE UNCHANGED Map!vars
  BY <1>2 DEF Map!vars
<1>3. ASSUME UNCHANGED <<entry, order, answer>>, pc # "freeing", pc' # "freeing"
      PROVE  UNCHANGED Map!vars
  BY <1>2, <1>3 DEF Bindings
<1>4. ASSUME order = <<>>, pc # "freeing" PROVE Bindings = <<>>
  <2>1. Bindings = Held(order, entry)
    BY <1>4 DEF Bindings, Held
  <2> QED
    BY <1>4, <2>1, NothingHeld
<1>5. ASSUME order' = <<>>, pc' # "freeing" PROVE Bindings' = <<>>
  <2>1. Bindings' = Held(order', entry')
    BY <1>5 DEF Bindings, Held
  <2> QED
    BY <1>5, <2>1, NothingHeld
<1>6. ASSUME NEW n \in Names, Bind(n) PROVE Map!Next
  BY <1>6, MapBinds DEF Map!Next
<1>7. ASSUME NEW n \in Names, Lookup(n) PROVE Map!Next
  BY <1>7, MapLookups DEF Map!Next
<1>8. CASE NoMemory
  BY <1>3, <1>8 DEF NoMemory
<1>9. CASE ExpandMove
  BY <1>3, <1>9 DEF ExpandMove
<1>10. CASE ExpandDone
  BY <1>3, <1>10 DEF ExpandDone
<1>11. CASE FreeEntry
  BY <1>2, <1>11 DEF FreeEntry, Bindings
<1>12. CASE FreeDone
  <2>1. order' = <<>> /\ answer' = answer /\ pc = "freeing" /\ pc' = "idle"
    BY <1>12, FreedAll DEF FreeDone
  <2>2. Bindings' = <<>> /\ Bindings = <<>>
    BY <1>5, <2>1 DEF Bindings
  <2> QED
    BY <1>2, <2>1, <2>2
<1>13. CASE FreeStart
  BY <1>1, <1>13 DEF FreeStart, Bindings
<1>14. CASE Abandon
  BY <1>1, <1>5, <1>14 DEF Abandon
<1>15. CASE UNCHANGED vars
  BY <1>2, <1>15 DEF vars, Bindings
<1> QED
  BY <1>6, <1>7, <1>8, <1>9, <1>10, <1>11, <1>12, <1>13, <1>14, <1>15 DEF Next, Loops, Ended

\* bind_label, get_label_index and free_label_table are the operations of a
\* map: what is bound stays bound until the table is freed, a lookup answers
\* with an index its name was bound to, with the latest while the table is
\* small, and with none only if the name was never bound; and an expansion is
\* not seen.
THEOREM TableIsMap == Spec => ImplementsLabelMap
<1>1. Init => Map!Init
  <2> SUFFICES ASSUME Init PROVE Map!Init
    OBVIOUS
  <2>1. Bindings = Held(<<>>, entry) /\ answer = <<>>
    BY DEF Init, Bindings, Held
  <2> QED
    BY <2>1, NothingHeld DEF Map!Init
<1>2. Init => SInv
  BY NoEntries DEF Init, SInv
<1>3. Spec => []SInv
  BY <1>2, LabelsInvariant, FewInductive, PTL DEF Spec
<1>4. LInv /\ SInv /\ DInv /\ [Next]_vars => [Map!Next]_Map!vars
  BY MapSteps
<1> QED
  BY <1>1, <1>3, <1>4, LabelsInvariant, ChainsSorted, PTL DEF Spec, ImplementsLabelMap, Map!Spec
=============================================================================
