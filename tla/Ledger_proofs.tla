--------------------------- MODULE Ledger_proofs ----------------------------
(***************************************************************************)
(* Every operation of an order book keeps its index, queues and price      *)
(* slices consistent; what the updates of the ledger maps and of the books *)
(* in Exchange do to the totals and the reservations, and what LedgerInv   *)
(* says of a state.                                                        *)
(***************************************************************************)
EXTENDS Exchange, FiniteSetTheorems, WellFoundedInduction, TLAPS

\* Zenon proves every leaf that names no other prover; SMT is named for the rest.
USE ZenonT(30)

-----------------------------------------------------------------------------
(* The order book.                                                          *)

\* The elements of a sequence.
Elements(q) == {q[i] : i \in DOMAIN q}
Injective(q) == \A i, j \in DOMAIN q : q[i] = q[j] => i = j
Ascending(q) == \A i, j \in DOMAIN q : i < j => q[i] < q[j]

\* r is q without its i-th element, and q with e put in at position i.
Shortened(r, q, i) ==
  /\ Len(r) = Len(q) - 1
  /\ \A j \in 1..(Len(q) - 1) : r[j] = IF j < i THEN q[j] ELSE q[j + 1]
Lengthened(r, q, i, e) ==
  /\ Len(r) = Len(q) + 1
  /\ \A j \in 1..(Len(q) + 1) :
       r[j] = IF j < i THEN q[j] ELSE IF j = i THEN e ELSE q[j - 1]

\* The positions of a concatenation.
LEMMA Concatenation ==
  ASSUME NEW S, NEW s \in Seq(S), NEW t \in Seq(S)
  PROVE  /\ s \o t \in Seq(S)
         /\ Len(s \o t) = Len(s) + Len(t)
         /\ \A j \in 1..(Len(s) + Len(t)) :
              (s \o t)[j] = IF j <= Len(s) THEN s[j] ELSE t[j - Len(s)]
BY SMT

\* The positions of a sequence without its i-th element.
LEMMA RemoveAtPositions ==
  ASSUME NEW S, NEW q \in Seq(S), NEW i \in 1..Len(q)
  PROVE  Delete(q, i) \in Seq(S) /\ Shortened(Delete(q, i), q, i)
<1> DEFINE L == SubSeq(q, 1, i-1)
           R == SubSeq(q, i+1, Len(q))
<1>1. /\ L \in Seq(S) /\ Len(L) = i - 1
      /\ \A j \in 1..(i-1) : L[j] = q[j]
  BY SMT
<1>2. /\ R \in Seq(S) /\ Len(R) = Len(q) - i
      /\ \A j \in 1..(Len(q) - i) : R[j] = q[i + j]
  BY SMT
<1>3. Delete(q, i) = L \o R
  BY DEF Delete
<1>4. i \in Nat /\ 1 <= i /\ i <= Len(q) /\ Len(q) \in Nat
  BY SMT
<1> HIDE DEF L, R
<1>5. /\ L \o R \in Seq(S)
      /\ Len(L \o R) = Len(L) + Len(R)
      /\ \A j \in 1..(Len(L) + Len(R)) :
           (L \o R)[j] = IF j <= Len(L) THEN L[j] ELSE R[j - Len(L)]
  BY <1>1, <1>2, Concatenation
<1>6. ASSUME NEW j \in 1..(Len(q) - 1)
      PROVE  (L \o R)[j] = IF j < i THEN q[j] ELSE q[j + 1]
  <2>1. PICK n \in Nat : n = Len(q)
    BY <1>4
  <2>2. j \in 1..(n - 1) /\ i \in Nat /\ 1 <= i /\ i <= n
    BY <1>4, <2>1
  <2>3. /\ j \in 1..((i - 1) + (n - i))
        /\ j < i => j <= i - 1 /\ j \in 1..(i - 1)
        /\ ~(j < i) => /\ ~(j <= i - 1) /\ j - (i - 1) \in 1..(n - i)
                       /\ i + (j - (i - 1)) = j + 1
    BY <2>2, SMT
  <2>4. (L \o R)[j] = IF j <= i - 1 THEN L[j] ELSE R[j - (i - 1)]
    BY <1>1, <1>2, <1>5, <2>1, <2>3
  <2>5. j < i => (L \o R)[j] = q[j]
    BY <1>1, <2>3, <2>4
  <2>6. ~(j < i) => (L \o R)[j] = q[j + 1]
    BY <1>2, <2>1, <2>3, <2>4
  <2> QED BY <2>5, <2>6
<1> QED BY <1>1, <1>2, <1>3, <1>4, <1>5, <1>6, SMT DEF Shortened

\* The same for a sequence with an element inserted.
LEMMA InsertAtPositions ==
  ASSUME NEW S, NEW q \in Seq(S), NEW i \in 1..(Len(q) + 1), NEW e \in S
  PROVE  Insert(q, i, e) \in Seq(S) /\ Lengthened(Insert(q, i, e), q, i, e)
<1> DEFINE L == SubSeq(q, 1, i-1)
           R == SubSeq(q, i, Len(q))
           M == L \o <<e>>
<1>1. /\ L \in Seq(S) /\ Len(L) = i - 1
      /\ \A j \in 1..(i-1) : L[j] = q[j]
  BY SMT
<1>2. /\ R \in Seq(S) /\ Len(R) = Len(q) + 1 - i
      /\ \A j \in 1..(Len(q) + 1 - i) : R[j] = q[i + j - 1]
  BY SMT
<1>3. Insert(q, i, e) = M \o R
  BY DEF Insert
<1>4. i \in Nat /\ 1 <= i /\ i <= Len(q) + 1 /\ Len(q) \in Nat
  BY SMT
<1> HIDE DEF L, R
<1>5. /\ M \in Seq(S) /\ Len(M) = i
      /\ \A j \in 1..i : M[j] = IF j < i THEN q[j] ELSE e
  BY <1>1, <1>4, SMT
<1> HIDE DEF M
<1>6. /\ M \o R \in Seq(S)
      /\ Len(M \o R) = Len(M) + Len(R)
      /\ \A j \in 1..(Len(M) + Len(R)) :
           (M \o R)[j] = IF j <= Len(M) THEN M[j] ELSE R[j - Len(M)]
  BY <1>2, <1>5, Concatenation
<1>7. ASSUME NEW j \in 1..(Len(q) + 1)
      PROVE  (M \o R)[j] = IF j < i THEN q[j] ELSE IF j = i THEN e ELSE q[j - 1]
  <2>1. PICK n \in Nat : n = Len(q)
    BY <1>4
  <2>2. j \in 1..(n + 1) /\ i \in Nat /\ 1 <= i /\ i <= n + 1
    BY <1>4, <2>1
  <2>3. /\ j \in 1..(i + (n + 1 - i))
        /\ j <= i => j \in 1..i
        /\ ~(j <= i) => /\ j - i \in 1..(n + 1 - i) /\ i + (j - i) - 1 = j - 1
        /\ j < i => j <= i /\ j # i
        /\ j = i => j <= i
        /\ j <= i => j < i \/ j = i
    BY <2>2, SMT
  <2>4. (M \o R)[j] = IF j <= i THEN M[j] ELSE R[j - i]
    BY <1>2, <1>5, <1>6, <2>1, <2>3
  <2>5. j <= i => (M \o R)[j] = IF j < i THEN q[j] ELSE e
    BY <1>5, <2>3, <2>4
  <2>6. ~(j <= i) => (M \o R)[j] = q[j - 1]
    BY <1>2, <2>1, <2>3, <2>4
  <2> QED BY <2>3, <2>5, <2>6
<1>8. Len(M) + Len(R) = Len(q) + 1
  <2>1. Len(M) = i /\ Len(R) = Len(q) + 1 - i
    BY <1>2, <1>5
  <2> QED BY <1>4, <2>1, SMT
<1> QED BY <1>3, <1>6, <1>7, <1>8 DEF Lengthened

\* A nonempty set of naturals has a least element.
LEMMA LeastNatural ==
  ASSUME NEW T, T \subseteq Nat, T # {}
  PROVE  /\ Min(T) \in T
         /\ \A y \in T : Min(T) <= y
<1> DEFINE Less == {ss \in Nat \X Nat : ss[1] < ss[2]}
<1>1. IsWellFoundedOn(Less, Nat)
  BY NatLessThanWellFounded DEF OpToRel
<1> HIDE DEF Less
<1>2. PICK x \in T : \A y \in T : ~(<<y, x>> \in Less)
  BY <1>1, WFMin
<1>3. \A y \in T : x <= y
  <2> SUFFICES ASSUME NEW y \in T PROVE x <= y
    OBVIOUS
  <2>1. x \in Nat /\ y \in Nat /\ ~(<<y, x>> \in Less)
    BY <1>2
  <2>2. ~(y < x)
    BY <2>1 DEF Less
  <2> QED BY <2>1, <2>2, SMT
<1> QED BY <1>3 DEF Min

\* What removing position i of n keeps: order, distinctness, the other elements.
LEMMA ShortenedElements ==
  ASSUME NEW S, NEW q \in Seq(S), NEW r \in Seq(S), NEW i \in 1..Len(q), Shortened(r, q, i)
  PROVE  /\ Injective(q) => Injective(r) /\ Elements(r) = Elements(q) \ {q[i]}
         /\ S = Nat /\ Ascending(q) => Ascending(r)
<1>0. PICK n \in Nat : n = Len(q)
  BY SMT
<1>1. /\ DOMAIN q = 1..n /\ DOMAIN r = 1..(n - 1) /\ i \in 1..n
      /\ \A j \in 1..(n - 1) : r[j] = IF j < i THEN q[j] ELSE q[j + 1]
  BY <1>0, SMT DEF Shortened
<1>1a. /\ i \in 1..n
       /\ \A j \in 1..(n - 1) : (j < i => r[j] = q[j]) /\ (~(j < i) => r[j] = q[j + 1])
  BY <1>1
<1>1b. /\ \A j \in 1..(n - 1) : /\ j \in 1..n /\ j + 1 \in 1..n
                                /\ j < i => j # i
                                /\ ~(j < i) => j + 1 # i
       /\ \A j \in 1..n : /\ j < i => j \in 1..(n - 1)
                          /\ j > i => /\ j - 1 \in 1..(n - 1) /\ ~(j - 1 < i)
                                      /\ (j - 1) + 1 = j
                          /\ j < i \/ j = i \/ j > i
  <2>1. i \in 1..n
    BY <1>1a
  <2> QED BY <2>1, SMT
<1>2. ASSUME Injective(q) PROVE Injective(r)
  <2> SUFFICES ASSUME NEW j \in 1..(n - 1), NEW k \in 1..(n - 1), r[j] = r[k] PROVE j = k
    BY <1>1 DEF Injective
  <2>1. \A x, y \in 1..n : q[x] = q[y] => x = y
    BY <1>1, <1>2 DEF Injective
  <2>2. /\ j \in 1..n /\ j + 1 \in 1..n /\ k \in 1..n /\ k + 1 \in 1..n
        /\ j \in Int /\ k \in Int /\ i \in Int
    <3>1. i \in 1..n
      BY <1>1a
    <3> QED BY <3>1, SMT
  <2>3. r[j] = (IF j < i THEN q[j] ELSE q[j + 1]) /\ r[k] = (IF k < i THEN q[k] ELSE q[k + 1])
    BY <1>1
  <2>4. CASE j < i /\ k < i
    BY <2>1, <2>2, <2>3, <2>4
  <2>5. CASE j < i /\ ~(k < i)
    <3>1. j = k + 1
      BY <2>1, <2>2, <2>3, <2>5
    <3> QED BY <2>2, <2>5, <3>1, SMT
  <2>6. CASE ~(j < i) /\ k < i
    <3>1. j + 1 = k
      BY <2>1, <2>2, <2>3, <2>6
    <3> QED BY <2>2, <2>6, <3>1, SMT
  <2>7. CASE ~(j < i) /\ ~(k < i)
    <3>1. j + 1 = k + 1
      BY <2>1, <2>2, <2>3, <2>7
    <3> QED BY <2>2, <3>1, SMT
  <2> QED BY <2>4, <2>5, <2>6, <2>7
<1>3. ASSUME Injective(q), NEW j \in 1..(n - 1) PROVE r[j] \in Elements(q) \ {q[i]}
  <2>1. \A x, y \in 1..n : q[x] = q[y] => x = y
    BY <1>1, <1>3 DEF Injective
  <2>2. CASE j < i
    <3>1. r[j] = q[j] /\ j \in 1..n /\ j # i
      BY <1>1a, <1>1b, <2>2
    <3> QED BY <1>1, <2>1, <3>1 DEF Elements
  <2>3. CASE ~(j < i)
    <3>1. r[j] = q[j + 1] /\ j + 1 \in 1..n /\ j + 1 # i
      BY <1>1a, <1>1b, <2>3
    <3> QED BY <1>1, <2>1, <3>1 DEF Elements
  <2> QED BY <2>2, <2>3
<1>4. ASSUME NEW j \in 1..n, q[j] # q[i] PROVE q[j] \in Elements(r)
  <2>1. j # i
    BY <1>4
  <2>2. CASE j < i
    <3>1. j \in 1..(n - 1) /\ r[j] = q[j]
      BY <1>1a, <1>1b, <2>2
    <3> QED BY <1>1, <3>1 DEF Elements
  <2>3. CASE j > i
    <3>1. j - 1 \in 1..(n - 1) /\ r[j - 1] = q[j]
      BY <1>1a, <1>1b, <2>3
    <3> QED BY <1>1, <3>1 DEF Elements
  <2> QED BY <1>1b, <2>1, <2>2, <2>3
<1>5. ASSUME Injective(q) PROVE Elements(r) = Elements(q) \ {q[i]}
  <2>1. \A x \in Elements(q) : \E j \in 1..n : x = q[j]
    BY <1>1 DEF Elements
  <2>2. \A x \in Elements(r) : \E j \in 1..(n - 1) : x = r[j]
    BY <1>1 DEF Elements
  <2>3. \A x \in Elements(r) : x \in Elements(q) \ {q[i]}
    BY <1>3, <1>5, <2>2
  <2>4. \A x \in Elements(q) \ {q[i]} : x \in Elements(r)
    BY <1>4, <2>1
  <2> QED BY <2>3, <2>4
<1>6. ASSUME S = Nat, Ascending(q) PROVE Ascending(r)
  <2> SUFFICES ASSUME NEW j \in 1..(n - 1), NEW k \in 1..(n - 1), j < k PROVE r[j] < r[k]
    BY <1>1 DEF Ascending
  <2>1. \A x, y \in 1..n : x < y => q[x] < q[y]
    BY <1>1, <1>6 DEF Ascending
  <2>3. CASE k < i
    <3>1. j < i
      <4>1. i \in Int
        BY SMT
      <4> QED BY <2>3, <4>1, SMT
    <3>2. j \in 1..n /\ k \in 1..n /\ r[j] = q[j] /\ r[k] = q[k]
      BY <1>1a, <1>1b, <2>3, <3>1
    <3> QED BY <2>1, <3>2
  <2>4. CASE j < i /\ ~(k < i)
    <3>1. j < k + 1
      BY SMT
    <3>2. j \in 1..n /\ k + 1 \in 1..n /\ r[j] = q[j] /\ r[k] = q[k + 1]
      BY <1>1a, <1>1b, <2>4
    <3> QED BY <2>1, <3>1, <3>2
  <2>5. CASE ~(j < i)
    <3>1. ~(k < i) /\ j + 1 < k + 1
      <4>1. i \in 1..n
        BY <1>1a
      <4> QED BY <2>5, <4>1, SMT
    <3>2. j + 1 \in 1..n /\ k + 1 \in 1..n /\ r[j] = q[j + 1] /\ r[k] = q[k + 1]
      BY <1>1a, <1>1b, <2>5, <3>1
    <3> QED BY <2>1, <3>1, <3>2
  <2> QED BY <1>1, <2>3, <2>4, <2>5
<1> QED BY <1>2, <1>5, <1>6

\* What inserting e at position i of n + 1 keeps.
LEMMA LengthenedElements ==
  ASSUME NEW q \in Seq(Nat), NEW r \in Seq(Nat), NEW i \in 1..(Len(q) + 1), NEW e \in Nat,
         Lengthened(r, q, i, e)
  PROVE  /\ Elements(r) = Elements(q) \cup {e}
         /\ /\ Ascending(q)
            /\ \A j \in 1..Len(q) : (j < i => q[j] < e) /\ (j >= i => e < q[j])
            => Ascending(r)
<1>0. PICK n \in Nat : n = Len(q)
  BY SMT
<1>1. /\ DOMAIN q = 1..n /\ DOMAIN r = 1..(n + 1) /\ i \in 1..(n + 1)
      /\ \A j \in 1..(n + 1) : r[j] = IF j < i THEN q[j] ELSE IF j = i THEN e ELSE q[j - 1]
  BY <1>0, SMT DEF Lengthened
<1>1a. /\ i \in 1..(n + 1)
       /\ \A j \in 1..(n + 1) : /\ j < i => r[j] = q[j]
                                /\ j = i => r[j] = e
                                /\ ~(j < i) /\ j # i => r[j] = q[j - 1]
  <2>1. ~(i < i)
    BY SMT
  <2> QED BY <1>1, <2>1
<1>1b. /\ \A j \in 1..(n + 1) : /\ j < i => j \in 1..n
                                /\ j > i => /\ j - 1 \in 1..n /\ ~(j < i) /\ j # i
                                            /\ j - 1 >= i
                                /\ j < i \/ j = i \/ j > i
       /\ \A j \in 1..n : /\ j \in 1..(n + 1) /\ j + 1 \in 1..(n + 1) /\ (j + 1) - 1 = j
                          /\ ~(j < i) => ~(j + 1 < i) /\ j + 1 # i
  <2>1. i \in 1..(n + 1)
    BY <1>1a
  <2> QED BY <2>1, SMT
<1>2. ASSUME NEW j \in 1..(n + 1) PROVE r[j] \in Elements(q) \cup {e}
  <2>1. CASE j < i
    <3>1. r[j] = q[j] /\ j \in 1..n
      BY <1>1a, <1>1b, <2>1
    <3> QED BY <1>1, <3>1 DEF Elements
  <2>2. CASE j = i
    BY <1>1a, <2>2
  <2>3. CASE j > i
    <3>1. r[j] = q[j - 1] /\ j - 1 \in 1..n
      BY <1>1a, <1>1b, <2>3
    <3> QED BY <1>1, <3>1 DEF Elements
  <2> QED BY <1>1b, <2>1, <2>2, <2>3
<1>3. ASSUME NEW j \in 1..n PROVE q[j] \in Elements(r)
  <2>1. CASE j < i
    <3>1. r[j] = q[j] /\ j \in 1..(n + 1)
      BY <1>1a, <1>1b, <2>1
    <3> QED BY <1>1, <3>1 DEF Elements
  <2>2. CASE ~(j < i)
    <3>1. r[j + 1] = q[j] /\ j + 1 \in 1..(n + 1)
      BY <1>1a, <1>1b, <2>2
    <3> QED BY <1>1, <3>1 DEF Elements
  <2> QED BY <2>1, <2>2
<1>4. r[i] = e
  BY <1>1a
<1>5. Elements(r) = Elements(q) \cup {e}
  BY <1>1, <1>2, <1>3, <1>4 DEF Elements
<1>6. ASSUME Ascending(q),
             \A j \in 1..Len(q) : (j < i => q[j] < e) /\ (j >= i => e < q[j])
      PROVE  Ascending(r)
  <2> SUFFICES ASSUME NEW j \in 1..(n + 1), NEW k \in 1..(n + 1), j < k PROVE r[j] < r[k]
    BY <1>1 DEF Ascending
  <2>1. \A x, y \in 1..n : x < y => q[x] < q[y]
    BY <1>1, <1>6 DEF Ascending
  <2>2. \A x \in 1..n : q[x] \in Nat /\ (x < i => q[x] < e) /\ (x >= i => e < q[x])
    <3>1. \A x \in 1..n : q[x] \in Nat
      BY <1>0, SMT
    <3> QED BY <1>0, <1>6, <3>1
  <2>3. CASE k < i
    <3>1. j < i
      <4>1. i \in Int
        BY SMT
      <4> QED BY <2>3, <4>1, SMT
    <3>2. j \in 1..n /\ k \in 1..n /\ r[j] = q[j] /\ r[k] = q[k]
      BY <1>1a, <1>1b, <2>3, <3>1
    <3> QED BY <2>1, <3>2
  <2>4. CASE j < i /\ k = i
    <3>1. j \in 1..n /\ r[j] = q[j]
      BY <1>1a, <1>1b, <2>4
    <3>2. r[k] = e
      BY <1>4, <2>4
    <3> QED BY <2>2, <2>4, <3>1, <3>2
  <2>5. CASE j < i /\ k > i
    <3>1. j \in 1..n /\ k - 1 \in 1..n /\ r[j] = q[j] /\ r[k] = q[k - 1] /\ k - 1 >= i
      BY <1>1a, <1>1b, <2>5
    <3>2. q[j] < e /\ e < q[k - 1] /\ q[j] \in Nat /\ q[k - 1] \in Nat
      BY <2>2, <2>5, <3>1
    <3> QED BY <3>1, <3>2, SMTT(30)
  <2>6. CASE j = i
    <3>1. k > i
      BY <2>6, SMT
    <3>2. k - 1 \in 1..n /\ r[k] = q[k - 1] /\ k - 1 >= i /\ r[j] = e
      BY <1>1a, <1>1b, <2>6, <3>1
    <3> QED BY <2>2, <3>2
  <2>7. CASE j > i
    <3>1. k > i /\ j - 1 < k - 1
      <4>1. i \in 1..(n + 1)
        BY <1>1a
      <4> QED BY <2>7, <4>1, SMT
    <3>2. j - 1 \in 1..n /\ k - 1 \in 1..n /\ r[j] = q[j - 1] /\ r[k] = q[k - 1]
      BY <1>1a, <1>1b, <2>7, <3>1
    <3> QED BY <2>1, <3>1, <3>2
  <2>8. j < i \/ j = i \/ j > i
    BY <1>1b
  <2>9. k < i \/ k = i \/ k > i
    BY <1>1b
  <2> QED BY <2>3, <2>4, <2>5, <2>6, <2>7, <2>8, <2>9
<1> QED BY <1>5, <1>6

\* list.Remove: the queue loses the one order and keeps the others once each.
LEMMA UnlinkElements ==
  ASSUME NEW S, NEW q \in Seq(S), Injective(q), NEW e \in Elements(q)
  PROVE  /\ Unlink(q, e) \in Seq(S)
         /\ Injective(Unlink(q, e))
         /\ Elements(Unlink(q, e)) = Elements(q) \ {e}
<1>1. PICK i \in 1..Len(q) : i = (CHOOSE j \in DOMAIN q : q[j] = e) /\ q[i] = e
  BY SMT DEF Elements
<1>2. Unlink(q, e) = Delete(q, i)
  BY <1>1 DEF Unlink
<1>3. Unlink(q, e) \in Seq(S) /\ Shortened(Unlink(q, e), q, i)
  BY <1>2, RemoveAtPositions
<1> QED BY <1>1, <1>3, ShortenedElements, SMT

\* PushBack: the queue gains the new order.
LEMMA AppendElements ==
  ASSUME NEW S, NEW q \in Seq(S), Injective(q), NEW e \in S, e \notin Elements(q)
  PROVE  /\ Append(q, e) \in Seq(S) /\ Append(q, e) # <<>>
         /\ Injective(Append(q, e))
         /\ Elements(Append(q, e)) = Elements(q) \cup {e}
<1> DEFINE r == Append(q, e)
<1>1. /\ r \in Seq(S) /\ r # <<>> /\ Len(r) = Len(q) + 1
      /\ \A j \in 1..Len(q) : r[j] = q[j]
      /\ r[Len(q) + 1] = e
  BY SMT
<1> HIDE DEF r
<1>2. DOMAIN r = 1..(Len(q) + 1) /\ DOMAIN q = 1..Len(q) /\ Len(q) \in Nat
  BY <1>1, SMT
<1>3. Injective(r)
  BY <1>1, <1>2, SMT DEF Injective, Elements
<1>4. Elements(r) = Elements(q) \cup {e}
  BY <1>1, <1>2, SMT DEF Elements
<1> QED BY <1>1, <1>3, <1>4 DEF r

\* slices.BinarySearch finds the first price that is not lower.
LEMMA BinarySearchPosition ==
  ASSUME NEW q \in Seq(Nat), NEW p \in Nat
  PROVE  \E i \in 1..(Len(q) + 1) :
           /\ i = BinarySearch(q, p)
           /\ \A j \in 1..Len(q) : j < i => q[j] < p
           /\ i <= Len(q) => q[i] >= p
<1> DEFINE T == {i \in DOMAIN q : q[i] >= p} \cup {Len(q) + 1}
<1>1. T \subseteq Nat /\ T # {}
  BY SMT
<1>2. Min(T) \in T /\ \A y \in T : Min(T) <= y
  BY <1>1, LeastNatural
<1>3. BinarySearch(q, p) = Min(T)
  BY DEF BinarySearch
<1>4. PICK i \in T : i = BinarySearch(q, p) /\ \A y \in T : i <= y
  BY <1>2, <1>3
<1>5. i \in 1..(Len(q) + 1) /\ Len(q) \in Nat
  BY SMT
<1>6. ASSUME NEW j \in 1..Len(q), j < i PROVE q[j] < p
  <2>1. j \notin T
    BY <1>4, <1>5, <1>6, SMT
  <2> QED BY <2>1, SMT
<1>7. ASSUME i <= Len(q) PROVE q[i] >= p
  BY <1>5, <1>7, SMT
<1> QED BY <1>4, <1>5, <1>6, <1>7

\* Inserting a new price where the search says keeps the slice ascending.
LEMMA InsertAscending ==
  ASSUME NEW q \in Seq(Nat), Ascending(q), NEW p \in Nat, p \notin Elements(q)
  PROVE  LET r == Insert(q, BinarySearch(q, p), p)
         IN r \in Seq(Nat) /\ Ascending(r) /\ Elements(r) = Elements(q) \cup {p}
<1>1. PICK i \in 1..(Len(q) + 1) :
           /\ i = BinarySearch(q, p)
           /\ \A j \in 1..Len(q) : j < i => q[j] < p
           /\ i <= Len(q) => q[i] >= p
  BY BinarySearchPosition
<1> DEFINE r == Insert(q, i, p)
<1>2. r \in Seq(Nat) /\ Lengthened(r, q, i, p)
  BY InsertAtPositions
<1> HIDE DEF r
<1>3. Len(q) \in Nat /\ q \in [1..Len(q) -> Nat]
  BY SMT
<1>4. /\ \A j \in 1..Len(q) : q[j] # p
      /\ \A j, k \in 1..Len(q) : j < k => q[j] < q[k]
  BY <1>3 DEF Elements, Ascending
<1>5. ASSUME NEW j \in 1..Len(q), j >= i PROVE p < q[j]
  <2>1. i \in 1..Len(q) /\ q[i] > p
    BY <1>1, <1>3, <1>4, <1>5, SMT
  <2> QED BY <1>3, <1>4, <1>5, <2>1, SMT
<1>6. Ascending(r) /\ Elements(r) = Elements(q) \cup {p}
  BY <1>1, <1>2, <1>5, LengthenedElements, SMT
<1> QED BY <1>1, <1>2, <1>6 DEF r

\* The search finds a price of the slice, and removing it there keeps the slice
\* ascending.
LEMMA RemoveAscending ==
  ASSUME NEW q \in Seq(Nat), Ascending(q), NEW p \in Elements(q)
  PROVE  LET at == BinarySearch(q, p)
             r  == Delete(q, at)
         IN /\ at <= Len(q) /\ q[at] = p
            /\ r \in Seq(Nat) /\ Ascending(r) /\ Elements(r) = Elements(q) \ {p}
<1>1. PICK m \in 1..Len(q) : q[m] = p
  BY SMT DEF Elements
<1>2. p \in Nat /\ Len(q) \in Nat /\ q \in [1..Len(q) -> Nat]
  BY <1>1, SMT
<1>3. PICK i \in 1..(Len(q) + 1) :
           /\ i = BinarySearch(q, p)
           /\ \A j \in 1..Len(q) : j < i => q[j] < p
           /\ i <= Len(q) => q[i] >= p
  BY <1>2, BinarySearchPosition
<1>4. \A j, k \in 1..Len(q) : j < k => q[j] < q[k]
  BY <1>2 DEF Ascending
<1>5. i = m
  <2>1. ~(m < i)
    BY <1>1, <1>2, <1>3, SMT
  <2>2. ~(i < m)
    <3> SUFFICES ASSUME i < m PROVE FALSE
      OBVIOUS
    <3>1. i \in 1..Len(q) /\ q[i] < q[m]
      BY <1>2, <1>4, SMT
    <3> QED BY <1>1, <1>2, <1>3, <3>1, SMT
  <2> QED BY <2>1, <2>2, SMT
<1> DEFINE r == Delete(q, m)
<1>6. r \in Seq(Nat) /\ Shortened(r, q, m)
  BY RemoveAtPositions
<1> HIDE DEF r
<1>8. Injective(q)
  BY <1>2, <1>4, SMT DEF Injective
<1>9. Ascending(r) /\ Elements(r) = Elements(q) \ {q[m]}
  BY <1>6, <1>8, ShortenedElements
<1> QED BY <1>1, <1>2, <1>3, <1>5, <1>6, <1>9, SMT DEF r

-----------------------------------------------------------------------------
\* The order records of a book with the given ids.
AreOrders(ids, recs) ==
  \A r \in recs : /\ r.id \in ids /\ r.side \in Sides /\ r.price \in Nat
                  /\ r.quantity \in Nat /\ r.filled \in Nat

\* Writing a key keeps a map a map, and so does deleting one.
LEMMA PutMap ==
  ASSUME NEW K, NEW V, NEW f, IsMap(f, K, V), NEW k \in K, NEW v \in V
  PROVE  IsMap(Put(f, k, v), K, V)
BY DEF IsMap, Put

\* Taking a key out of a map (delete) leaves a map.
LEMMA DropMap ==
  ASSUME NEW K, NEW V, NEW f, IsMap(f, K, V), NEW k
  PROVE  IsMap(Drop(f, k), K, V)
BY DEF IsMap, Drop

\* The parts of a consistent book in the terms of the lemmas above.
LEMMA ConsistentParts ==
  ASSUME NEW ids, NEW recs, AreOrders(ids, recs),
         NEW b, IsBook(b, ids, recs), Consistent(b), NEW side \in Sides
  PROVE  /\ b.prices[side] \in Seq(Nat)
         /\ Ascending(b.prices[side])
         /\ Elements(b.prices[side]) = DOMAIN b.levels[side]
         /\ DOMAIN b.levels[side] \subseteq Nat
         /\ \A p \in DOMAIN b.levels[side] :
              /\ b.levels[side][p] \in Seq(ids) /\ b.levels[side][p] # <<>>
              /\ Injective(b.levels[side][p])
              /\ Elements(b.levels[side][p]) = AtLevel(b, side, p)
         /\ \A p : p \notin DOMAIN b.levels[side] => AtLevel(b, side, p) = {}
<1>1. b.prices[side] \in Seq(Nat) /\ IsMap(b.levels[side], Nat, Seq(ids))
  BY DEF IsBook
<1>2. /\ SliceAgrees(b, side)
      /\ \A p \in DOMAIN b.levels[side] : QueueAgrees(b, side, p)
      /\ \A id \in DOMAIN b.index : OrderAgrees(b, id)
  BY DEF Consistent
<1>3. Ascending(b.prices[side]) /\ Elements(b.prices[side]) = DOMAIN b.levels[side]
  BY <1>2 DEF SliceAgrees, Ascending, Elements
<1>4. ASSUME NEW p \in DOMAIN b.levels[side]
      PROVE  /\ b.levels[side][p] \in Seq(ids) /\ b.levels[side][p] # <<>>
             /\ Injective(b.levels[side][p])
             /\ Elements(b.levels[side][p]) = AtLevel(b, side, p)
  BY <1>1, <1>2 DEF IsMap, QueueAgrees, Injective, Elements
<1>5. ASSUME NEW p, p \notin DOMAIN b.levels[side] PROVE AtLevel(b, side, p) = {}
  BY <1>2, <1>5 DEF AtLevel, OrderAgrees
<1> QED BY <1>1, <1>3, <1>4, <1>5 DEF IsMap

\* Resting a fresh order with something left to fill keeps the book consistent.
THEOREM AddConsistent ==
  ASSUME NEW ids, NEW recs, AreOrders(ids, recs),
         NEW b, IsBook(b, ids, recs), Consistent(b),
         NEW o \in recs, ~Has(b, o.id), o.filled < o.quantity
  PROVE  IsBook(Add(b, o), ids, recs) /\ Consistent(Add(b, o))
<1> DEFINE c     == Add(b, o)
           known == o.price \in DOMAIN b.levels[o.side]
           queue == IF known THEN b.levels[o.side][o.price] ELSE <<>>
<1>1. o.id \in ids /\ o.side \in Sides /\ o.price \in Nat /\ o.id \notin DOMAIN b.index
  BY DEF AreOrders, Has
<1>2. /\ DOMAIN b.levels = Sides /\ DOMAIN b.prices = Sides
      /\ IsMap(b.index, ids, recs)
  BY DEF IsBook
<1>3. queue \in Seq(ids) /\ Injective(queue) /\ Elements(queue) = AtLevel(b, o.side, o.price)
  <2>1. CASE known
    <3>1. queue = b.levels[o.side][o.price]
      BY <2>1
    <3>2. /\ b.levels[o.side][o.price] \in Seq(ids) /\ Injective(b.levels[o.side][o.price])
          /\ Elements(b.levels[o.side][o.price]) = AtLevel(b, o.side, o.price)
      BY <1>1, <2>1, ConsistentParts, SMT
    <3> QED BY <3>1, <3>2
  <2>2. CASE ~known
    <3>1. queue = <<>>
      BY <2>2
    <3>2. AtLevel(b, o.side, o.price) = {}
      BY <1>1, <2>2, ConsistentParts, SMT
    <3>3. <<>> \in Seq(ids) /\ Injective(<<>>) /\ Elements(<<>>) = {}
      BY SMT DEF Injective, Elements
    <3> QED BY <3>1, <3>2, <3>3
  <2> QED BY <2>1, <2>2
<1>4. o.id \notin Elements(queue)
  BY <1>1, <1>3 DEF AtLevel
<1>5. /\ Append(queue, o.id) \in Seq(ids) /\ Append(queue, o.id) # <<>>
      /\ Injective(Append(queue, o.id))
      /\ Elements(Append(queue, o.id)) = AtLevel(b, o.side, o.price) \cup {o.id}
  <2> HIDE DEF queue
  <2>1. Append(queue, o.id) \in Seq(ids) /\ Append(queue, o.id) # <<>>
    BY <1>1, <1>3, SMT
  <2>2. /\ Injective(Append(queue, o.id))
        /\ Elements(Append(queue, o.id)) = Elements(queue) \cup {o.id}
    BY <1>1, <1>3, <1>4, AppendElements, SMT
  <2> QED BY <1>3, <2>1, <2>2
<1>6. /\ c.index = Put(b.index, o.id, o)
      /\ c.levels = [b.levels EXCEPT ![o.side] = Put(@, o.price, Append(queue, o.id))]
      /\ c.prices = IF known THEN b.prices
                    ELSE [b.prices EXCEPT
                            ![o.side] = Insert(@, BinarySearch(@, o.price), o.price)]
  BY DEF Add
<1> HIDE DEF c, queue
<1>7. /\ DOMAIN c.index = DOMAIN b.index \cup {o.id}
      /\ c.index[o.id] = o
      /\ \A id \in DOMAIN b.index : c.index[id] = b.index[id]
      /\ IsMap(c.index, ids, recs)
  BY <1>1, <1>2, <1>6, SMT DEF Put, IsMap
<1>8. ASSUME NEW side \in Sides, NEW p
      PROVE  AtLevel(c, side, p) =
               IF side = o.side /\ p = o.price THEN AtLevel(b, side, p) \cup {o.id}
               ELSE AtLevel(b, side, p)
  BY <1>1, <1>7 DEF AtLevel
<1>9. /\ DOMAIN c.levels = Sides /\ c.levels = [side \in Sides |-> c.levels[side]]
      /\ \A side \in Sides : side # o.side => c.levels[side] = b.levels[side]
      /\ c.levels[o.side] = Put(b.levels[o.side], o.price, Append(queue, o.id))
  BY <1>1, <1>2, <1>6
<1>10. /\ c.prices[o.side] \in Seq(Nat) /\ Ascending(c.prices[o.side])
       /\ Elements(c.prices[o.side]) = DOMAIN c.levels[o.side]
  <2>1. CASE known
    <3>1. c.prices = b.prices
      BY <1>6, <2>1
    <3>2. DOMAIN c.levels[o.side] = DOMAIN b.levels[o.side] \cup {o.price}
      <4>1. c.levels[o.side] = Put(b.levels[o.side], o.price, Append(queue, o.id))
        BY <1>9
      <4> QED BY <4>1 DEF Put
    <3>3. DOMAIN c.levels[o.side] = DOMAIN b.levels[o.side]
      BY <2>1, <3>2
    <3> QED BY <1>1, <3>1, <3>3, ConsistentParts, SMT
  <2>2. CASE ~known
    <3>1. c.prices[o.side] = Insert(b.prices[o.side],
                               BinarySearch(b.prices[o.side], o.price), o.price)
      BY <1>1, <1>2, <1>6, <2>2
    <3>2. /\ b.prices[o.side] \in Seq(Nat) /\ Ascending(b.prices[o.side])
          /\ Elements(b.prices[o.side]) = DOMAIN b.levels[o.side]
      BY <1>1, ConsistentParts, SMT
    <3>3. /\ c.prices[o.side] \in Seq(Nat) /\ Ascending(c.prices[o.side])
          /\ Elements(c.prices[o.side]) = Elements(b.prices[o.side]) \cup {o.price}
      BY <1>1, <2>2, <3>1, <3>2, InsertAscending
    <3> QED BY <1>9, <3>2, <3>3 DEF Put
  <2> QED BY <2>1, <2>2
<1>11. ASSUME NEW side \in Sides, side # o.side PROVE c.prices[side] = b.prices[side]
  BY <1>1, <1>2, <1>6, <1>11
<1>12. c.prices \in [Sides -> Seq(Nat)]
  <2>1. b.prices \in [Sides -> Seq(Nat)]
    BY DEF IsBook
  <2>2. DOMAIN c.prices = Sides /\ c.prices = [side \in Sides |-> c.prices[side]]
    BY <1>6, <2>1
  <2> QED BY <1>10, <1>11, <2>1, <2>2
<1>13. \A side \in Sides : IsMap(c.levels[side], Nat, Seq(ids))
  <2>1. \A side \in Sides : IsMap(b.levels[side], Nat, Seq(ids))
    BY DEF IsBook
  <2>2. IsMap(c.levels[o.side], Nat, Seq(ids))
    <3>1. IsMap(b.levels[o.side], Nat, Seq(ids)) /\ Append(queue, o.id) \in Seq(ids)
      BY <1>1, <1>5, <2>1
    <3>2. IsMap(Put(b.levels[o.side], o.price, Append(queue, o.id)), Nat, Seq(ids))
      BY <1>1, <3>1, PutMap
    <3> QED BY <1>9, <3>2
  <2> QED BY <1>9, <2>1, <2>2
<1>14. IsBook(c, ids, recs)
  BY <1>7, <1>9, <1>12, <1>13 DEF IsBook
<1>15. ASSUME NEW side \in Sides PROVE SliceAgrees(c, side)
  <2>1. Elements(c.prices[side]) = DOMAIN c.levels[side] /\ Ascending(c.prices[side])
    BY <1>9, <1>10, <1>11, ConsistentParts, SMT
  <2> QED BY <2>1 DEF SliceAgrees, Elements, Ascending
<1>16. ASSUME NEW side \in Sides, NEW p \in DOMAIN c.levels[side] PROVE QueueAgrees(c, side, p)
  <2>1. CASE side = o.side /\ p = o.price
    <3>1. c.levels[side][p] = Append(queue, o.id)
      BY <1>9, <2>1 DEF Put
    <3>2. AtLevel(c, side, p) = AtLevel(b, o.side, o.price) \cup {o.id}
      BY <1>8, <2>1
    <3> QED BY <1>5, <3>1, <3>2, SMT DEF QueueAgrees, Elements, Injective
  <2>2. CASE ~(side = o.side /\ p = o.price)
    <3>1. p \in DOMAIN b.levels[side] /\ c.levels[side][p] = b.levels[side][p]
      BY <1>9, <1>16, <2>2, SMT DEF Put
    <3>2. AtLevel(c, side, p) = AtLevel(b, side, p)
      BY <1>8, <2>2
    <3>3. QueueAgrees(b, side, p)
      BY <3>1 DEF Consistent
    <3> QED BY <3>1, <3>2, <3>3 DEF QueueAgrees
  <2> QED BY <2>1, <2>2
<1>17. ASSUME NEW id \in DOMAIN c.index PROVE OrderAgrees(c, id)
  <2>1. CASE id = o.id
    BY <1>1, <1>7, <1>9, <2>1 DEF OrderAgrees, Put
  <2>2. CASE id # o.id
    <3>1. id \in DOMAIN b.index /\ c.index[id] = b.index[id]
      BY <1>7, <2>2
    <3>2. OrderAgrees(b, id) /\ b.index[id] \in recs
      BY <1>2, <3>1 DEF Consistent, IsMap
    <3> QED BY <1>9, <3>1, <3>2, SMT DEF OrderAgrees, Put, AreOrders
  <2> QED BY <2>1, <2>2
<1> QED BY <1>14, <1>15, <1>16, <1>17 DEF Consistent, c

\* Taking a resting order out keeps the book consistent.
THEOREM RemoveConsistent ==
  ASSUME NEW ids, NEW recs, AreOrders(ids, recs),
         NEW b, IsBook(b, ids, recs), Consistent(b), NEW id \in DOMAIN b.index
  PROVE  IsBook(removeRef(b, id), ids, recs) /\ Consistent(removeRef(b, id))
<1> DEFINE c     == removeRef(b, id)
           side  == b.index[id].side
           price == b.index[id].price
           queue == Unlink(b.levels[side][price], id)
           at    == BinarySearch(b.prices[side], price)
           empty == queue = <<>>
<1>1. /\ DOMAIN b.levels = Sides /\ b.prices \in [Sides -> Seq(Nat)]
      /\ IsMap(b.index, ids, recs)
  BY DEF IsBook
<1>2. /\ id \in ids /\ b.index[id] \in recs /\ side \in Sides /\ price \in Nat
      /\ b.index[id].id = id /\ price \in DOMAIN b.levels[side]
  BY <1>1 DEF IsMap, AreOrders, Consistent, OrderAgrees
<1>3. id \in AtLevel(b, side, price)
  BY DEF AtLevel
<1> HIDE DEF side, price
<1>4. /\ queue \in Seq(ids) /\ Injective(queue)
      /\ Elements(queue) = AtLevel(b, side, price) \ {id}
  <2>1. /\ b.levels[side][price] \in Seq(ids) /\ Injective(b.levels[side][price])
        /\ Elements(b.levels[side][price]) = AtLevel(b, side, price)
    BY <1>2, ConsistentParts
  <2>2. id \in Elements(b.levels[side][price])
    BY <1>3, <2>1
  <2> DEFINE q == b.levels[side][price]
  <2>3. q \in Seq(ids) /\ Injective(q) /\ id \in Elements(q)
    BY <2>1, <2>2
  <2>4. Elements(q) = AtLevel(b, side, price) /\ queue = Unlink(q, id)
    BY <2>1
  <2> HIDE DEF q
  <2>5. /\ Unlink(q, id) \in Seq(ids) /\ Injective(Unlink(q, id))
        /\ Elements(Unlink(q, id)) = Elements(q) \ {id}
    BY <2>3, UnlinkElements
  <2> HIDE DEF queue
  <2> QED BY <2>4, <2>5
<1>5. /\ at <= Len(b.prices[side]) /\ b.prices[side][at] = price
      /\ Delete(b.prices[side], at) \in Seq(Nat)
      /\ Ascending(Delete(b.prices[side], at))
      /\ Elements(Delete(b.prices[side], at)) = DOMAIN b.levels[side] \ {price}
  <2>1. /\ b.prices[side] \in Seq(Nat) /\ Ascending(b.prices[side])
        /\ Elements(b.prices[side]) = DOMAIN b.levels[side]
    BY <1>2, ConsistentParts, SMT
  <2> QED BY <1>2, <2>1, RemoveAscending
<1>6. /\ c.index = Drop(b.index, id)
      /\ c.levels = [b.levels EXCEPT ![side] = IF empty THEN Drop(@, price)
                                               ELSE Put(@, price, queue)]
      /\ c.prices = IF empty THEN [b.prices EXCEPT ![side] = Delete(@, at)]
                    ELSE b.prices
  BY <1>5 DEF removeRef, side, price
<1> HIDE DEF c, queue, at, empty
<1>7. /\ DOMAIN c.index = DOMAIN b.index \ {id}
      /\ \A x \in DOMAIN c.index : c.index[x] = b.index[x]
      /\ IsMap(c.index, ids, recs)
  BY <1>1, <1>6, SMT DEF Drop, IsMap
<1>8. ASSUME NEW x \in Sides, NEW p
      PROVE  AtLevel(c, x, p) =
               IF x = side /\ p = price THEN AtLevel(b, x, p) \ {id} ELSE AtLevel(b, x, p)
  BY <1>7 DEF AtLevel, side, price
<1>9. /\ DOMAIN c.levels = Sides /\ c.levels = [x \in Sides |-> c.levels[x]]
      /\ \A x \in Sides : x # side => c.levels[x] = b.levels[x]
      /\ c.levels[side] = IF empty THEN Drop(b.levels[side], price)
                          ELSE Put(b.levels[side], price, queue)
  BY <1>1, <1>2, <1>6
<1>10. ASSUME NEW x \in Sides, NEW p, ~(x = side /\ p = price)
       PROVE  /\ p \in DOMAIN c.levels[x] <=> p \in DOMAIN b.levels[x]
              /\ p \in DOMAIN b.levels[x] => c.levels[x][p] = b.levels[x][p]
  <2>1. CASE x # side
    BY <1>9, <2>1
  <2>2. CASE x = side /\ empty
    <3>1. c.levels[x] = Drop(b.levels[x], price) /\ p # price
      BY <1>9, <1>10, <2>2
    <3> QED BY <3>1 DEF Drop
  <2>3. CASE x = side /\ ~empty
    <3>1. c.levels[x] = Put(b.levels[x], price, queue) /\ p # price
      BY <1>9, <1>10, <2>3
    <3> QED BY <3>1 DEF Put
  <2> QED BY <2>1, <2>2, <2>3
<1>11. /\ DOMAIN c.prices = Sides /\ c.prices = [x \in Sides |-> c.prices[x]]
       /\ \A x \in Sides : x # side => c.prices[x] = b.prices[x]
       /\ c.prices[side] = IF empty THEN Delete(b.prices[side], at)
                           ELSE b.prices[side]
  BY <1>1, <1>2, <1>6
<1>12. /\ c.prices[side] \in Seq(Nat) /\ Ascending(c.prices[side])
       /\ Elements(c.prices[side]) = DOMAIN c.levels[side]
  <2>1. CASE empty
    <3>1. c.prices[side] = Delete(b.prices[side], at)
      BY <1>11, <2>1
    <3>2. DOMAIN c.levels[side] = DOMAIN b.levels[side] \ {price}
      BY <1>9, <2>1 DEF Drop
    <3> QED BY <1>5, <3>1, <3>2
  <2>2. CASE ~empty
    <3>1. c.prices[side] = b.prices[side]
      BY <1>11, <2>2
    <3>2. DOMAIN c.levels[side] = DOMAIN b.levels[side] \cup {price}
      <4>1. c.levels[side] = Put(b.levels[side], price, queue)
        BY <1>9, <2>2
      <4> QED BY <4>1 DEF Put
    <3>3. DOMAIN c.levels[side] = DOMAIN b.levels[side]
      BY <1>2, <3>2
    <3> QED BY <1>2, <3>1, <3>3, ConsistentParts, SMT
  <2> QED BY <2>1, <2>2
<1>13. c.prices \in [Sides -> Seq(Nat)]
  BY <1>1, <1>11, <1>12
<1>14. \A x \in Sides : IsMap(c.levels[x], Nat, Seq(ids))
  <2>1. \A x \in Sides : IsMap(b.levels[x], Nat, Seq(ids))
    BY DEF IsBook
  <2>2. IsMap(Drop(b.levels[side], price), Nat, Seq(ids))
    BY <1>2, <2>1, DropMap
  <2>3. IsMap(Put(b.levels[side], price, queue), Nat, Seq(ids))
    BY <1>2, <1>4, <2>1, PutMap
  <2> QED BY <1>9, <2>1, <2>2, <2>3
<1>15. IsBook(c, ids, recs)
  BY <1>7, <1>9, <1>13, <1>14 DEF IsBook
<1>16. ASSUME NEW x \in Sides PROVE SliceAgrees(c, x)
  <2>1. Elements(c.prices[x]) = DOMAIN c.levels[x] /\ Ascending(c.prices[x])
    <3>1. CASE x = side
      BY <1>12, <3>1
    <3>2. CASE x # side
      <4>1. c.prices[x] = b.prices[x] /\ c.levels[x] = b.levels[x]
        BY <1>9, <1>11, <3>2
      <4> QED BY <4>1, ConsistentParts, SMT
    <3> QED BY <3>1, <3>2
  <2> QED BY <2>1 DEF SliceAgrees, Elements, Ascending
<1>17. ASSUME NEW x \in Sides, NEW p \in DOMAIN c.levels[x] PROVE QueueAgrees(c, x, p)
  <2>1. CASE x = side /\ p = price
    <3>1. ~empty /\ c.levels[x][p] = queue
      BY <1>9, <1>17, <2>1 DEF Put, Drop
    <3>2. AtLevel(c, x, p) = Elements(queue)
      BY <1>4, <1>8, <2>1
    <3> QED BY <1>4, <3>1, <3>2, SMT DEF QueueAgrees, Elements, Injective, empty
  <2>2. CASE ~(x = side /\ p = price)
    <3>1. p \in DOMAIN b.levels[x] /\ c.levels[x][p] = b.levels[x][p]
      BY <1>17, <1>10, <2>2
    <3>2. AtLevel(c, x, p) = AtLevel(b, x, p)
      BY <1>8, <2>2
    <3>3. QueueAgrees(b, x, p)
      BY <3>1 DEF Consistent
    <3> QED BY <3>1, <3>2, <3>3 DEF QueueAgrees
  <2> QED BY <2>1, <2>2
<1>18. ASSUME NEW x \in DOMAIN c.index PROVE OrderAgrees(c, x)
  <2>1. x \in DOMAIN b.index /\ x # id /\ c.index[x] = b.index[x]
    BY <1>7
  <2>2. OrderAgrees(b, x) /\ b.index[x].side \in Sides
    BY <1>1, <2>1 DEF Consistent, IsMap, AreOrders
  <2>3. b.index[x].price \in DOMAIN c.levels[b.index[x].side]
    <3>1. CASE b.index[x].side = side /\ b.index[x].price = price
      <4>1. x \in Elements(queue)
        BY <1>4, <2>1, <3>1 DEF AtLevel
      <4>2. ~empty
        BY <4>1, SMT DEF Elements, empty
      <4> QED BY <1>2, <1>9, <3>1, <4>2, SMT DEF Put
    <3>2. CASE ~(b.index[x].side = side /\ b.index[x].price = price)
      BY <1>10, <2>2, <3>2 DEF OrderAgrees
    <3> QED BY <3>1, <3>2
  <2> QED BY <2>1, <2>2, <2>3 DEF OrderAgrees
<1> QED BY <1>15, <1>16, <1>17, <1>18 DEF Consistent, c

\* Filled quantities may change within the order records.
AreFillable(recs) ==
  \A r \in recs, n \in Nat :
    LET u == [r EXCEPT !.filled = n]
    IN /\ u \in recs /\ u.id = r.id /\ u.side = r.side /\ u.price = r.price
       /\ u.quantity = r.quantity /\ u.filled = n

\* What Fill does to the orders of a book, which stays consistent.
THEOREM FillConsistent ==
  ASSUME NEW ids, NEW recs, AreOrders(ids, recs), AreFillable(recs),
         NEW b, IsBook(b, ids, recs), Consistent(b), NEW id \in DOMAIN b.index,
         NEW want \in Nat, want > 0
  PROVE  LET n == FillQuantity(b, id, want)
             u == [b.index[id] EXCEPT !.filled = @ + n]
         IN /\ IsBook(Fill(b, id, want), ids, recs) /\ Consistent(Fill(b, id, want))
            /\ n \in Nat /\ n > 0 /\ n <= want /\ n <= Remaining(b.index[id])
            /\ Fill(b, id, want).index =
                 IF Remaining(b.index[id]) = n THEN Drop(b.index, id)
                 ELSE [b.index EXCEPT ![id] = u]
<1> DEFINE r == b.index[id]
           n == FillQuantity(b, id, want)
           u == [r EXCEPT !.filled = @ + n]
           f == [levels |-> b.levels, prices |-> b.prices,
                 index  |-> [b.index EXCEPT ![id].filled = @ + n]]
<1>1. /\ IsMap(b.index, ids, recs) /\ r \in recs /\ r.filled < r.quantity
      /\ r.quantity \in Nat /\ r.filled \in Nat /\ r.id = id
  BY DEF IsBook, IsMap, Consistent, OrderAgrees, AreOrders
<1>2. n \in Nat /\ n > 0 /\ n <= want /\ n <= Remaining(r)
  BY <1>1, SMT DEF FillQuantity, Has, Remaining
<1> HIDE DEF n, r
<1>3. /\ u \in recs /\ u.id = r.id /\ u.side = r.side /\ u.price = r.price
      /\ u.quantity = r.quantity /\ u.filled = r.filled + n
  BY <1>1, <1>2, SMT DEF AreFillable
<1>4. f.index = [b.index EXCEPT ![id] = u] /\ f.levels = b.levels /\ f.prices = b.prices
  BY DEF r
<1>5. /\ DOMAIN f.index = DOMAIN b.index /\ f.index[id] = u
      /\ \A x \in DOMAIN b.index : x # id => f.index[x] = b.index[x]
  BY <1>4
<1>6. CASE Remaining(r) = n
  <2>1. Drop(f.index, id) = Drop(b.index, id)
    BY <1>5 DEF Drop
  <2>2. removeRef(f, id) = removeRef(b, id)
    <3> HIDE DEF f, u
    <3>1. f.index[id].side = b.index[id].side /\ f.index[id].price = b.index[id].price
      BY <1>3, <1>5 DEF r
    <3> QED BY <1>4, <2>1, <3>1 DEF removeRef
  <2>3. Fill(b, id, want) = removeRef(b, id)
    BY <1>2, <1>6, <2>2, SMT DEF Fill, n, r
  <2>4. removeRef(b, id).index = Drop(b.index, id)
    BY DEF removeRef
  <2> QED BY <1>2, <1>6, <2>3, <2>4, RemoveConsistent DEF n, r
<1>7. CASE Remaining(r) # n
  <2>1. Fill(b, id, want) = f
    BY <1>2, <1>7, SMT DEF Fill, n, r
  <2>2. u.filled < u.quantity
    BY <1>1, <1>2, <1>3, <1>7, SMT DEF Remaining
  <2> HIDE DEF f, u
  <2>3. IsMap(f.index, ids, recs)
    BY <1>1, <1>3, <1>4 DEF IsMap
  <2>4. IsBook(f, ids, recs)
    BY <1>4, <2>3 DEF IsBook
  <2>5. \A side, p : AtLevel(f, side, p) = AtLevel(b, side, p)
    BY <1>3, <1>5 DEF AtLevel, r
  <2>6. \A x \in DOMAIN f.index : OrderAgrees(f, x)
    <3> SUFFICES ASSUME NEW x \in DOMAIN f.index PROVE OrderAgrees(f, x)
      OBVIOUS
    <3>1. OrderAgrees(b, x)
      BY <1>5 DEF Consistent
    <3>2. CASE x = id
      BY <1>1, <1>3, <1>4, <1>5, <2>2, <3>1, <3>2 DEF OrderAgrees, r
    <3>3. CASE x # id
      BY <1>4, <1>5, <3>1, <3>3 DEF OrderAgrees
    <3> QED BY <3>2, <3>3
  <2>7. \A side \in Sides : SliceAgrees(f, side)
    BY <1>4, SMT DEF Consistent, SliceAgrees
  <2>8. \A side \in Sides : \A p \in DOMAIN f.levels[side] : QueueAgrees(f, side, p)
    BY <1>4, <2>5, SMT DEF Consistent, QueueAgrees
  <2>9. Consistent(f)
    BY <2>6, <2>7, <2>8 DEF Consistent
  <2> QED BY <1>2, <1>4, <1>7, <2>1, <2>4, <2>9 DEF n, r, u
<1> QED BY <1>6, <1>7

\* The best price of a side has a queue, and its front is an order of that side at
\* that price.
THEOREM FrontOfBest ==
  ASSUME NEW ids, NEW recs, AreOrders(ids, recs),
         NEW b, IsBook(b, ids, recs), Consistent(b), NEW side \in Sides, HasBest(b, side),
         NEW p, p = Best(b, side), NEW f, f = Front(b, side, p)
  PROVE  /\ HasFront(b, side, p) /\ f \in DOMAIN b.index
         /\ b.index[f].side = side /\ b.index[f].price = p /\ b.index[f].id = f
<1>1. /\ b.prices[side] \in Seq(Nat) /\ b.prices[side] # <<>>
      /\ Elements(b.prices[side]) = DOMAIN b.levels[side]
  BY ConsistentParts, SMT DEF HasBest
<1>2. p \in DOMAIN b.levels[side]
  <2>1. p = b.prices[side][1] \/ p = b.prices[side][Len(b.prices[side])]
    BY DEF Best, Sides, Buy, Sell
  <2>2. 1 \in DOMAIN b.prices[side] /\ Len(b.prices[side]) \in DOMAIN b.prices[side]
    BY <1>1, SMT
  <2> QED BY <1>1, <2>1, <2>2 DEF Elements
<1>3. /\ b.levels[side][p] \in Seq(ids) /\ b.levels[side][p] # <<>>
      /\ Elements(b.levels[side][p]) = AtLevel(b, side, p)
  BY <1>2, ConsistentParts, SMT
<1>4. f \in AtLevel(b, side, p)
  BY <1>3, SMT DEF Front, Elements
<1>5. HasFront(b, side, p)
  BY <1>2, <1>3 DEF HasFront
<1> QED BY <1>4, <1>5 DEF AtLevel, Consistent, OrderAgrees

\* A new book is consistent.
THEOREM NewConsistent ==
  ASSUME NEW ids, NEW recs
  PROVE  IsBook(NewOrderBook, ids, recs) /\ Consistent(NewOrderBook)
<1>1. IsMap(EmptyMap, ids, recs) /\ IsMap(EmptyMap, Nat, Seq(ids)) /\ DOMAIN EmptyMap = {}
  BY DEF IsMap, EmptyMap
<1>2. IsBook(NewOrderBook, ids, recs)
  BY <1>1, SMT DEF IsBook, NewOrderBook
<1>3. \A side \in Sides : SliceAgrees(NewOrderBook, side)
  BY <1>1, SMT DEF SliceAgrees, NewOrderBook
<1> QED BY <1>1, <1>2, <1>3 DEF Consistent, NewOrderBook

-----------------------------------------------------------------------------
(* Totals.  A total is the number of its units, so that these facts follow  *)
(* from facts about finite sets without induction.                          *)

\* The units of S are those of S without x and the column of x, disjoint.
LEMMA UnitsSplit ==
  ASSUME NEW S, NEW f \in [S -> Nat], NEW x \in S
  PROVE  /\ Units(f, S) = Units(f, S \ {x}) \cup ({x} \X (1..f[x]))
         /\ Units(f, S \ {x}) \cap ({x} \X (1..f[x])) = {}
  BY SMT DEF Units

\* The column of an entry has as many units as the entry's value.
LEMMA ColumnSize ==
  ASSUME NEW x, NEW n \in Nat
  PROVE  /\ IsFiniteSet({x} \X (1..n))
         /\ Cardinality({x} \X (1..n)) = n
<1>1. IsFiniteSet({x}) /\ Cardinality({x}) = 1
  BY FS_Singleton
<1>2. IsFiniteSet(1..n) /\ Cardinality(1..n) = n
  BY FS_Interval, SMT
<1>3. /\ IsFiniteSet({x} \X (1..n))
      /\ Cardinality({x} \X (1..n)) = Cardinality({x}) * Cardinality(1..n)
  BY <1>1, <1>2, FS_Product
<1> QED BY <1>1, <1>2, <1>3, SMT

\* A finite set of natural entries has finitely many units.
LEMMA UnitsFinite ==
  ASSUME NEW S, IsFiniteSet(S), NEW f \in [S -> Nat], NEW T \in SUBSET S
  PROVE  IsFiniteSet(Units(f, T))
<1> DEFINE C == {{x} \X (1..f[x]) : x \in T}
           g == [x \in T |-> {x} \X (1..f[x])]
<1>1. IsFiniteSet(T)
  BY FS_Subset
<1>2. IsFiniteSet(C)
  <2>1. g \in Surjection(T, C)
    BY DEF Surjection
  <2> QED BY <1>1, <2>1, FS_Surjection
<1>3. ASSUME NEW c \in C PROVE IsFiniteSet(c)
  <2>1. PICK x \in T : c = {x} \X (1..f[x])
    OBVIOUS
  <2> QED BY <2>1, ColumnSize
<1> QED BY <1>2, <1>3, FS_UNION DEF Units

\* A total of naturals over a finite set is a natural.
THEOREM TotalType ==
  ASSUME NEW S, IsFiniteSet(S), NEW f \in [S -> Nat]
  PROVE  Total(f) \in Nat
  BY UnitsFinite, FS_CardinalityType DEF Total

\* When one entry changes, the total moves by as much as the entry: how every
\* ledger update moves the sum of the balances.
THEOREM TotalExcept ==
  ASSUME NEW S, IsFiniteSet(S), NEW f \in [S -> Nat], NEW g \in [S -> Nat],
         NEW x \in S, \A y \in S \ {x} : g[y] = f[y]
  PROVE  Total(g) = Total(f) - f[x] + g[x]
<1> DEFINE R == Units(f, S \ {x})
<1>1. Units(g, S \ {x}) = R
  BY DEF Units
<1>2. IsFiniteSet(R) /\ Cardinality(R) \in Nat
  BY UnitsFinite, FS_CardinalityType
<1> HIDE DEF R
<1>3. ASSUME NEW h \in [S -> Nat], Units(h, S \ {x}) = R
      PROVE  Total(h) = Cardinality(R) + h[x]
  <2>1. /\ Units(h, S) = R \cup ({x} \X (1..h[x]))
        /\ R \cap ({x} \X (1..h[x])) = {}
    BY <1>3, UnitsSplit, SMT
  <2>2. h[x] \in Nat
    OBVIOUS
  <2>3. /\ IsFiniteSet({x} \X (1..h[x]))
        /\ Cardinality({x} \X (1..h[x])) = h[x]
    BY <2>2, ColumnSize
  <2>4. PICK C : C = {x} \X (1..h[x])
    OBVIOUS
  <2>5. /\ IsFiniteSet(R) /\ IsFiniteSet(C) /\ R \cap C = {}
        /\ Cardinality(R) \in Nat /\ Cardinality(C) = h[x] /\ Total(h) = Cardinality(R \cup C)
    BY <1>2, <2>1, <2>3, <2>4 DEF Total
  <2>6. Cardinality(R \cup C) = Cardinality(R) + Cardinality(C) - Cardinality(R \cap C)
    BY <2>5, FS_Union
  <2>7. Cardinality(R \cap C) = 0
    BY <2>5, FS_EmptySet
  <2> QED BY <2>2, <2>5, <2>6, <2>7, SMT
<1>4. Total(f) = Cardinality(R) + f[x]
  BY <1>3 DEF R
<1>5. Total(g) = Cardinality(R) + g[x]
  BY <1>1, <1>3
<1> QED BY <1>2, <1>4, <1>5, SMT

\* A total of zeros is zero.
THEOREM TotalZero ==
  ASSUME NEW S, NEW f \in [S -> Nat], \A x \in S : f[x] = 0
  PROVE  Total(f) = 0
<1>1. Units(f, S) = {}
  BY SMT DEF Units
<1> QED BY <1>1, FS_EmptySet DEF Total

\* No entry exceeds the total: an account's balance is bounded by all the cash
\* deposited with the exchange.
THEOREM TotalBound ==
  ASSUME NEW S, IsFiniteSet(S), NEW f \in [S -> Nat], NEW x \in S
  PROVE  f[x] <= Total(f)
<1> DEFINE K == {x} \X (1..f[x])
<1>1. IsFiniteSet(K) /\ Cardinality(K) = f[x]
  BY ColumnSize
<1>2. IsFiniteSet(Units(f, S)) /\ K \subseteq Units(f, S)
  BY UnitsFinite DEF Units
<1> QED BY <1>1, <1>2, FS_Subset, SMT DEF Total

-----------------------------------------------------------------------------
(* Arithmetic on words.                                                     *)

\* A uint64 has at least one value.
LEMMA WordPositive == Word \in Nat /\ Word > 0
BY AmountAssumption, SMT

\* A result that fits in a uint64 is not changed by it.
LEMMA WordExact ==
  ASSUME NEW x \in 0..(Word - 1)
  PROVE  UInt64(x) = x
BY WordPositive, SMT DEF UInt64

\* Every uint64 result is in range.
LEMMA WordRange ==
  ASSUME NEW x \in Int
  PROVE  UInt64(x) \in 0..(Word - 1)
BY WordPositive, SMT DEF UInt64

\* A sum that wraps, and a difference that does.
LEMMA WordOver ==
  ASSUME NEW x \in Int, x >= Word, x < 2 * Word
  PROVE  UInt64(x) = x - Word
BY WordPositive, SMT DEF UInt64

\* A difference that goes below zero wraps once.
LEMMA WordUnder ==
  ASSUME NEW x \in Int, x < 0, x >= -Word
  PROVE  UInt64(x) = x + Word
BY WordPositive, SMT DEF UInt64

\* Adding n and taking it away again is the identity, wrapped or not.
LEMMA WordReturn ==
  ASSUME NEW x \in 0..(Word - 1), NEW n \in 0..(Word - 1)
  PROVE  UInt64(UInt64(x + n) + (-n)) = x
<1>1. CASE x + n < Word
  <2>1. UInt64(x + n) = x + n
    BY <1>1, WordExact, WordPositive, SMT
  <2>2. x + n + (-n) = x
    BY WordPositive, SMT
  <2> QED BY <2>1, <2>2, WordExact
<1>2. CASE x + n >= Word
  <2>1. UInt64(x + n) = x + n - Word
    BY <1>2, WordOver, WordPositive, SMT
  <2>2. x + n - Word + (-n) = x - Word /\ x - Word \in Int /\ x - Word < 0 /\ x - Word >= -Word
    BY WordPositive, SMT
  <2>3. UInt64(x - Word) = x - Word + Word
    BY <2>2, WordUnder
  <2>4. x - Word + Word = x
    BY WordPositive, SMT
  <2> QED BY <2>1, <2>2, <2>3, <2>4
<1> QED BY <1>1, <1>2, WordPositive, SMT

-----------------------------------------------------------------------------
(* Products.                                                                *)

\* price * quantity is never negative.
LEMMA MulType ==
  ASSUME NEW a \in Nat, NEW b \in Nat
  PROVE  a * b \in Nat
BY SMT

\* The value of two fills is the value of both together.
LEMMA MulDistributes ==
  ASSUME NEW a \in Int, NEW b \in Int, NEW c \in Int
  PROVE  a * (b + c) = a * b + a * c /\ a * (b - c) = a * b - a * c
BY SMT

\* Fewer shares at a lower price cost no more.
LEMMA MulMonotone ==
  ASSUME NEW a \in Nat, NEW b \in Nat, NEW c \in Nat, NEW d \in Nat, a <= c, b <= d
  PROVE  a * b <= c * d
<1>1. a * b <= a * d
  BY SMT
<1>2. a * d <= c * d
  BY SMT
<1>3. a * b \in Nat /\ a * d \in Nat /\ c * d \in Nat
  BY MulType
<1> QED BY <1>1, <1>2, <1>3, SMT

-----------------------------------------------------------------------------
(* Updates of the ledger maps, while nothing wraps.                         *)

AreAccounts(accts) == IsMap(accts, Accounts, Balances)
AreHoldings(holds) == IsMap(holds, Accounts \X Stocks, Shares)

\* g is f but for the entry of k.
ChangedAt(f, g, k) ==
  DOMAIN g = DOMAIN f \cup {k} /\ \A x \in DOMAIN f \ {k} : g[x] = f[x]

\* An account upsert (Accounts.Upsert) whose sums do not wrap changes one account, by
\* exactly what it adds.
LEMMA AddCashExact ==
  ASSUME NEW accts, AreAccounts(accts), NEW id \in DOMAIN accts, NEW b \in Int, NEW a \in Int,
         accts[id].balance + b \in 0..(Word - 1), accts[id].available + a \in 0..(Word - 1)
  PROVE  LET r == AddCash(accts, id, b, a)
         IN /\ AreAccounts(r) /\ DOMAIN r = DOMAIN accts /\ ChangedAt(accts, r, id)
            /\ r[id].balance = accts[id].balance + b
            /\ r[id].available = accts[id].available + a
<1> DEFINE r == AddCash(accts, id, b, a)
           v == [balance |-> accts[id].balance + b, available |-> accts[id].available + a]
<1>1. v \in Balances
  BY DEF Balances
<1>2. r = [accts EXCEPT ![id] = v]
  BY WordExact DEF AddCash
<1> HIDE DEF r
<1>3. DOMAIN r = DOMAIN accts /\ r[id] = v /\ \A x \in DOMAIN accts \ {id} : r[x] = accts[x]
  BY <1>2
<1>4. AreAccounts(r)
  BY <1>1, <1>2 DEF AreAccounts, IsMap
<1>5. ChangedAt(accts, r, id)
  BY <1>3 DEF ChangedAt
<1>6. r[id].balance = accts[id].balance + b /\ r[id].available = accts[id].available + a
  BY <1>3, SMT
<1> QED BY <1>3, <1>4, <1>5, <1>6 DEF r

\* The same for a holding upsert (StockBalances.Upsert).
LEMMA AddSharesExact ==
  ASSUME NEW holds, AreHoldings(holds), NEW k \in DOMAIN holds, NEW q \in Int, NEW a \in Int,
         holds[k].quantity + q \in 0..(Word - 1), holds[k].available + a \in 0..(Word - 1)
  PROVE  LET r == AddShares(holds, k, q, a)
         IN /\ AreHoldings(r) /\ DOMAIN r = DOMAIN holds /\ ChangedAt(holds, r, k)
            /\ r[k].quantity = holds[k].quantity + q
            /\ r[k].available = holds[k].available + a
<1> DEFINE r == AddShares(holds, k, q, a)
           v == [quantity |-> holds[k].quantity + q, available |-> holds[k].available + a]
<1>1. v \in Shares
  BY DEF Shares
<1>2. r = [holds EXCEPT ![k] = v]
  BY WordExact DEF AddShares
<1> HIDE DEF r
<1>3. DOMAIN r = DOMAIN holds /\ r[k] = v /\ \A x \in DOMAIN holds \ {k} : r[x] = holds[x]
  BY <1>2
<1>4. AreHoldings(r)
  BY <1>1, <1>2 DEF AreHoldings, IsMap
<1>5. ChangedAt(holds, r, k)
  BY <1>3 DEF ChangedAt
<1>6. r[k].quantity = holds[k].quantity + q /\ r[k].available = holds[k].available + a
  BY <1>3, SMT
<1> QED BY <1>3, <1>4, <1>5, <1>6 DEF r

\* The totals follow a change of one entry.
LEMMA CashType ==
  ASSUME NEW accts, AreAccounts(accts)
  PROVE  /\ Cash(accts) \in [Accounts -> Nat]
         /\ Total(Cash(accts)) \in Nat
         /\ \A a \in DOMAIN accts : accts[a].balance <= Total(Cash(accts))
<1>1. Cash(accts) \in [Accounts -> Nat]
  BY WordPositive, SMT DEF AreAccounts, IsMap, Balances, Cash
<1>2. Total(Cash(accts)) \in Nat
  BY <1>1, IdAssumption, TotalType
<1>3. ASSUME NEW a \in DOMAIN accts PROVE accts[a].balance <= Total(Cash(accts))
  <2>1. a \in Accounts /\ Cash(accts)[a] = accts[a].balance
    BY DEF AreAccounts, IsMap, Cash
  <2> QED BY <1>1, <2>1, IdAssumption, TotalBound
<1> QED BY <1>1, <1>2, <1>3

\* Changing one account changes the total cash by what that account changes.
LEMMA CashMoves ==
  ASSUME NEW accts, AreAccounts(accts), NEW r, AreAccounts(r), NEW id \in Accounts,
         ChangedAt(accts, r, id)
  PROVE  Total(Cash(r)) = Total(Cash(accts)) - Cash(accts)[id] + Cash(r)[id]
<1>1. Cash(accts) \in [Accounts -> Nat] /\ Cash(r) \in [Accounts -> Nat]
  BY CashType
<1>2. \A y \in Accounts \ {id} : Cash(r)[y] = Cash(accts)[y]
  BY DEF Cash, ChangedAt
<1> QED BY <1>1, <1>2, IdAssumption, TotalExcept, SMT

\* No holding of a stock exceeds all of its shares.
LEMMA SharesType ==
  ASSUME NEW holds, AreHoldings(holds), NEW s \in Stocks
  PROVE  /\ SharesOf(holds, s) \in [Accounts -> Nat]
         /\ Total(SharesOf(holds, s)) \in Nat
         /\ \A a \in Accounts : <<a, s>> \in DOMAIN holds =>
              holds[<<a, s>>].quantity <= Total(SharesOf(holds, s))
<1>1. SharesOf(holds, s) \in [Accounts -> Nat]
  BY WordPositive, SMT DEF AreHoldings, IsMap, Shares, SharesOf
<1>2. Total(SharesOf(holds, s)) \in Nat
  BY <1>1, IdAssumption, TotalType
<1>3. ASSUME NEW a \in Accounts, <<a, s>> \in DOMAIN holds
      PROVE  holds[<<a, s>>].quantity <= Total(SharesOf(holds, s))
  <2>1. SharesOf(holds, s)[a] = holds[<<a, s>>].quantity
    BY <1>3 DEF SharesOf
  <2> QED BY <1>1, <2>1, IdAssumption, TotalBound
<1> QED BY <1>1, <1>2, <1>3

\* Changing one holding changes the shares of its stock only, by what it changes.
LEMMA SharesMove ==
  ASSUME NEW holds, AreHoldings(holds), NEW r, AreHoldings(r),
         NEW a \in Accounts, NEW s \in Stocks, ChangedAt(holds, r, <<a, s>>)
  PROVE  /\ Total(SharesOf(r, s)) =
              Total(SharesOf(holds, s)) - SharesOf(holds, s)[a] + SharesOf(r, s)[a]
         /\ \A t \in Stocks \ {s} : SharesOf(r, t) = SharesOf(holds, t)
<1>1. SharesOf(holds, s) \in [Accounts -> Nat] /\ SharesOf(r, s) \in [Accounts -> Nat]
  BY SharesType
<1>2. \A y \in Accounts \ {a} : SharesOf(r, s)[y] = SharesOf(holds, s)[y]
  BY DEF SharesOf, ChangedAt
<1>3. \A t \in Stocks \ {s} : SharesOf(r, t) = SharesOf(holds, t)
  BY DEF SharesOf, ChangedAt
<1> QED BY <1>1, <1>2, <1>3, IdAssumption, TotalExcept, SMT

\* Two accounts together hold no more than all of them.
LEMMA TwoHoldings ==
  ASSUME NEW holds, AreHoldings(holds), NEW s \in Stocks, NEW a \in Accounts, NEW c \in Accounts,
         a # c
  PROVE  SharesOf(holds, s)[a] + SharesOf(holds, s)[c] <= Total(SharesOf(holds, s))
<1> DEFINE f == SharesOf(holds, s)
           g == [f EXCEPT ![a] = 0]
<1>1. f \in [Accounts -> Nat]
  BY SharesType
<1> HIDE DEF f
<1>2. g \in [Accounts -> Nat] /\ (\A y \in Accounts \ {a} : g[y] = f[y]) /\ g[a] = 0 /\ g[c] = f[c]
  BY <1>1
<1> HIDE DEF g
<1>3. Total(g) = Total(f) - f[a] + g[a]
  BY <1>1, <1>2, IdAssumption, TotalExcept, SMT
<1>4. g[c] <= Total(g)
  BY <1>2, IdAssumption, TotalBound
<1>5. Total(f) \in Nat /\ Total(g) \in Nat
  BY <1>1, <1>2, IdAssumption, TotalType
<1> QED BY <1>1, <1>2, <1>3, <1>4, <1>5, SMT DEF f

-----------------------------------------------------------------------------
(* The books, and what their orders reserve.                                *)

\* The order records are what the book lemmas ask of them.
LEMMA OrderRecords == AreOrders(OrderIds, Orders) /\ AreFillable(Orders)
BY PriceAssumption DEF AreOrders, AreFillable, Orders

\* The types of the fields of an order.
LEMMA OrderFields ==
  ASSUME NEW o \in Orders
  PROVE  /\ o.price \in Nat /\ o.quantity \in Nat /\ o.filled \in Nat
         /\ o.id \in OrderIds /\ o.account \in Accounts /\ o.side \in Sides
BY PriceAssumption DEF Orders

AreBooks(bks) ==
  /\ bks = [s \in Stocks |-> bks[s]]
  /\ \A s \in Stocks : IsBook(bks[s], OrderIds, Orders) /\ Consistent(bks[s])

\* A resting order is filed under its id and is never filled.
LEMMA RestingOrder ==
  ASSUME NEW bks, AreBooks(bks), NEW s \in Stocks, NEW id, Has(bks[s], id)
  PROVE  /\ id \in OrderIds /\ bks[s].index[id] \in Orders /\ bks[s].index[id].id = id
         /\ Remaining(bks[s].index[id]) \in Nat /\ Remaining(bks[s].index[id]) > 0
<1>1. /\ id \in OrderIds /\ bks[s].index[id] \in Orders /\ OrderAgrees(bks[s], id)
  BY DEF AreBooks, IsBook, IsMap, Consistent, Has
<1> QED BY <1>1, SMT DEF OrderAgrees, Remaining, Orders

\* What an order reserves is a number.
LEMMA OrderReserves ==
  ASSUME NEW o \in Orders, Remaining(o) \in Nat, NEW a
  PROVE  OrderCash(o, a) \in Nat /\ OrderShares(o, a) \in Nat
<1>1. o.price \in Nat
  BY PriceAssumption DEF Orders
<1>2. o.price * Remaining(o) \in Nat
  BY <1>1, MulType
<1> QED BY <1>2 DEF OrderCash, OrderShares

\* What all resting orders reserve for an account is a number.
LEMMA LocksType ==
  ASSUME NEW bks, AreBooks(bks), NEW a
  PROVE  /\ CashLock(bks, a) \in [Resting -> Nat]
         /\ Total(CashLock(bks, a)) \in Nat
         /\ \A s \in Stocks : /\ ShareLock(bks[s], a) \in [OrderIds -> Nat]
                              /\ Total(ShareLock(bks[s], a)) \in Nat
<1>1. ASSUME NEW s \in Stocks, NEW id \in OrderIds
      PROVE  BuyLock(bks[s], id, a) \in Nat /\ SellLock(bks[s], id, a) \in Nat
  BY RestingOrder, OrderReserves DEF BuyLock, SellLock
<1>2. CashLock(bks, a) \in [Resting -> Nat]
  BY <1>1 DEF CashLock, Resting
<1>3. IsFiniteSet(Resting)
  BY IdAssumption, FS_Product DEF Resting
<1>4. Total(CashLock(bks, a)) \in Nat
  BY <1>2, <1>3, TotalType
<1>5. ASSUME NEW s \in Stocks
      PROVE  ShareLock(bks[s], a) \in [OrderIds -> Nat] /\ Total(ShareLock(bks[s], a)) \in Nat
  <2>1. ShareLock(bks[s], a) \in [OrderIds -> Nat]
    BY <1>1 DEF ShareLock
  <2> QED BY <2>1, IdAssumption, TotalType
<1> QED BY <1>2, <1>4, <1>5

\* The same, of the shares of one stock.
LEMMA ShareLockType ==
  ASSUME NEW bks, AreBooks(bks), NEW a, NEW s \in Stocks
  PROVE  Total(ShareLock(bks[s], a)) \in Nat
BY LocksType

\* The books agree on every order but one.
SameOrders(bks, new, s, id) ==
  \A x \in Stocks, y \in OrderIds : ~(x = s /\ y = id) =>
    /\ Has(bks[x], y) <=> Has(new[x], y)
    /\ Has(bks[x], y) => new[x].index[y] = bks[x].index[y]

\* When the books differ in one order, the cash they reserve differs by what that order
\* reserves.
LEMMA CashLockMoves ==
  ASSUME NEW bks, AreBooks(bks), NEW new, AreBooks(new), NEW s \in Stocks, NEW id \in OrderIds,
         SameOrders(bks, new, s, id), NEW a
  PROVE  Total(CashLock(new, a)) =
           Total(CashLock(bks, a)) - BuyLock(bks[s], id, a) + BuyLock(new[s], id, a)
<1>1. CashLock(bks, a) \in [Resting -> Nat] /\ CashLock(new, a) \in [Resting -> Nat]
  BY LocksType
<1>2. IsFiniteSet(Resting) /\ <<s, id>> \in Resting
  BY IdAssumption, FS_Product DEF Resting
<1>3. ASSUME NEW k \in Resting \ {<<s, id>>} PROVE CashLock(new, a)[k] = CashLock(bks, a)[k]
  <2>1. k[1] \in Stocks /\ k[2] \in OrderIds /\ ~(k[1] = s /\ k[2] = id)
    BY SMT DEF Resting
  <2> QED BY <2>1 DEF CashLock, BuyLock, SameOrders
<1>4. /\ CashLock(bks, a)[<<s, id>>] = BuyLock(bks[s], id, a)
      /\ CashLock(new, a)[<<s, id>>] = BuyLock(new[s], id, a)
  BY <1>2 DEF CashLock
<1>5. Total(CashLock(new, a)) =
        Total(CashLock(bks, a)) - CashLock(bks, a)[<<s, id>>] + CashLock(new, a)[<<s, id>>]
  BY <1>1, <1>2, <1>3, TotalExcept, SMT
<1> QED BY <1>4, <1>5

\* The same for shares, in the stock of that order only.
LEMMA ShareLockMoves ==
  ASSUME NEW bks, AreBooks(bks), NEW new, AreBooks(new), NEW s \in Stocks, NEW id \in OrderIds,
         SameOrders(bks, new, s, id), NEW a
  PROVE  /\ Total(ShareLock(new[s], a)) =
              Total(ShareLock(bks[s], a)) - SellLock(bks[s], id, a) + SellLock(new[s], id, a)
         /\ \A t \in Stocks \ {s} : Total(ShareLock(new[t], a)) = Total(ShareLock(bks[t], a))
<1>1. ShareLock(bks[s], a) \in [OrderIds -> Nat] /\ ShareLock(new[s], a) \in [OrderIds -> Nat]
  BY LocksType
<1>2. \A y \in OrderIds \ {id} : ShareLock(new[s], a)[y] = ShareLock(bks[s], a)[y]
  BY DEF ShareLock, SellLock, SameOrders
<1>3. /\ ShareLock(bks[s], a)[id] = SellLock(bks[s], id, a)
      /\ ShareLock(new[s], a)[id] = SellLock(new[s], id, a)
  BY DEF ShareLock
<1>4. Total(ShareLock(new[s], a)) =
        Total(ShareLock(bks[s], a)) - ShareLock(bks[s], a)[id] + ShareLock(new[s], a)[id]
  BY <1>1, <1>2, IdAssumption, TotalExcept, SMT
<1>5. ASSUME NEW t \in Stocks \ {s} PROVE ShareLock(new[t], a) = ShareLock(bks[t], a)
  BY DEF ShareLock, SellLock, SameOrders
<1> QED BY <1>3, <1>4, <1>5

\* A lock is no more than the total.
LEMMA LockBound ==
  ASSUME NEW bks, AreBooks(bks), NEW s \in Stocks, NEW id \in OrderIds, NEW a
  PROVE  /\ BuyLock(bks[s], id, a) <= Total(CashLock(bks, a))
         /\ SellLock(bks[s], id, a) <= Total(ShareLock(bks[s], a))
<1>1. CashLock(bks, a) \in [Resting -> Nat] /\ ShareLock(bks[s], a) \in [OrderIds -> Nat]
  BY LocksType
<1>2. IsFiniteSet(Resting) /\ <<s, id>> \in Resting
  BY IdAssumption, FS_Product DEF Resting
<1>3. CashLock(bks, a)[<<s, id>>] <= Total(CashLock(bks, a))
  BY <1>1, <1>2, TotalBound
<1>4. ShareLock(bks[s], a)[id] <= Total(ShareLock(bks[s], a))
  BY <1>1, IdAssumption, TotalBound
<1>5. CashLock(bks, a)[<<s, id>>] = BuyLock(bks[s], id, a)
  BY <1>2 DEF CashLock
<1>6. ShareLock(bks[s], a)[id] = SellLock(bks[s], id, a)
  BY DEF ShareLock
<1> QED BY <1>3, <1>4, <1>5, <1>6

\* new is the books after o is rested, after t is taken out, and after up to want
\* of r is filled.
Rested(bks, new, s, o) == new = [bks EXCEPT ![s] = Add(@, o)]
TakenOut(bks, new, s, id, t) ==
  /\ Has(bks[s], id) /\ t = bks[s].index[id]
  /\ new = [bks EXCEPT ![s] = Cancel(@, id)]
Filled(bks, new, s, id, want, r, n) ==
  /\ Has(bks[s], id) /\ r = bks[s].index[id] /\ n = FillQuantity(bks[s], id, want)
  /\ new = [bks EXCEPT ![s] = Fill(@, id, want)]

\* Add keeps every book consistent and touches no other order.
LEMMA AddOrder ==
  ASSUME NEW bks, AreBooks(bks), NEW s \in Stocks, NEW o \in Orders, ~Has(bks[s], o.id),
         o.filled < o.quantity, NEW new, Rested(bks, new, s, o)
  PROVE  /\ AreBooks(new) /\ SameOrders(bks, new, s, o.id)
         /\ Has(new[s], o.id) /\ new[s].index[o.id] = o
<1>1. /\ DOMAIN bks = Stocks /\ new = [x \in Stocks |-> new[x]]
      /\ new[s] = Add(bks[s], o) /\ \A x \in Stocks \ {s} : new[x] = bks[x]
  BY DEF AreBooks, Rested
<1>2. IsBook(new[s], OrderIds, Orders) /\ Consistent(new[s])
  BY <1>1, OrderRecords, AddConsistent, SMT DEF AreBooks
<1>3. AreBooks(new)
  BY <1>1, <1>2 DEF AreBooks
<1>4. new[s].index = Put(bks[s].index, o.id, o)
  BY <1>1, SMT DEF Add
<1>5. SameOrders(bks, new, s, o.id)
  BY <1>1, <1>4, SMT DEF SameOrders, Has, Put
<1>6. Has(new[s], o.id) /\ new[s].index[o.id] = o
  BY <1>4 DEF Has, Put
<1> QED BY <1>3, <1>5, <1>6

\* So does Cancel.
LEMMA CancelOrder ==
  ASSUME NEW bks, AreBooks(bks), NEW s \in Stocks, NEW id, NEW t, NEW new,
         TakenOut(bks, new, s, id, t)
  PROVE  AreBooks(new) /\ SameOrders(bks, new, s, id) /\ ~Has(new[s], id)
<1>1. /\ DOMAIN bks = Stocks /\ new = [x \in Stocks |-> new[x]] /\ Has(bks[s], id)
      /\ new[s] = removeRef(bks[s], id) /\ \A x \in Stocks \ {s} : new[x] = bks[x]
  BY DEF AreBooks, Cancel, TakenOut
<1>2. IsBook(new[s], OrderIds, Orders) /\ Consistent(new[s])
  BY <1>1, OrderRecords, RemoveConsistent, SMT DEF AreBooks, Has
<1>3. AreBooks(new)
  BY <1>1, <1>2 DEF AreBooks
<1>4. new[s].index = Drop(bks[s].index, id)
  <2>1. removeRef(bks[s], id).index = Drop(bks[s].index, id)
    BY DEF removeRef
  <2> QED BY <1>1, <2>1
<1>5. SameOrders(bks, new, s, id) /\ ~Has(new[s], id)
  BY <1>1, <1>4, SMT DEF SameOrders, Has, Drop
<1> QED BY <1>3, <1>5

\* So does Fill, which drops an order that has nothing left.
LEMMA FillOrder ==
  ASSUME NEW bks, AreBooks(bks), NEW s \in Stocks, NEW id, NEW want \in Nat, want > 0,
         NEW r, NEW n, NEW new, Filled(bks, new, s, id, want, r, n)
  PROVE  /\ AreBooks(new) /\ SameOrders(bks, new, s, id)
         /\ n \in Nat /\ n > 0 /\ n <= want /\ n <= Remaining(r)
         /\ Remaining(r) = n => ~Has(new[s], id)
         /\ Remaining(r) # n => Has(new[s], id) /\ new[s].index[id] = [r EXCEPT !.filled = @ + n]
<1>1. /\ DOMAIN bks = Stocks /\ new = [x \in Stocks |-> new[x]]
      /\ new[s] = Fill(bks[s], id, want) /\ \A x \in Stocks \ {s} : new[x] = bks[x]
  BY DEF AreBooks, Filled
<1>2. IsBook(bks[s], OrderIds, Orders) /\ Consistent(bks[s]) /\ id \in DOMAIN bks[s].index
  BY DEF AreBooks, Has, Filled
<1>3. /\ IsBook(Fill(bks[s], id, want), OrderIds, Orders) /\ Consistent(Fill(bks[s], id, want))
      /\ n \in Nat /\ n > 0 /\ n <= want /\ n <= Remaining(r)
      /\ Fill(bks[s], id, want).index =
           IF Remaining(r) = n THEN Drop(bks[s].index, id)
           ELSE [bks[s].index EXCEPT ![id] = [r EXCEPT !.filled = @ + n]]
  BY <1>2, OrderRecords, FillConsistent, SMT DEF Filled
<1>4. AreBooks(new)
  BY <1>1, <1>3 DEF AreBooks
<1>5. CASE Remaining(r) = n
  <2>1. new[s].index = Drop(bks[s].index, id)
    BY <1>1, <1>3, <1>5
  <2>2. SameOrders(bks, new, s, id) /\ ~Has(new[s], id)
    BY <1>1, <2>1, SMT DEF SameOrders, Has, Drop
  <2> QED BY <1>3, <1>4, <1>5, <2>2
<1>6. CASE Remaining(r) # n
  <2>1. PICK u : u = [r EXCEPT !.filled = @ + n]
    OBVIOUS
  <2>2. new[s].index = [bks[s].index EXCEPT ![id] = u]
    BY <1>1, <1>3, <1>6, <2>1
  <2>3. SameOrders(bks, new, s, id) /\ Has(new[s], id) /\ new[s].index[id] = u
    BY <1>1, <1>2, <2>2 DEF SameOrders, Has
  <2> QED BY <1>3, <1>4, <1>6, <2>1, <2>3
<1> QED BY <1>5, <1>6

-----------------------------------------------------------------------------
(* One update of an account or a holding, with its effect on the totals.    *)

\* What AddCash does to the accounts and to the total cash, when its sums do not wrap.
LEMMA CashStep ==
  ASSUME NEW accts, AreAccounts(accts), NEW id \in DOMAIN accts, NEW b \in Int, NEW a \in Int,
         accts[id].balance + b \in 0..(Word - 1), accts[id].available + a \in 0..(Word - 1)
  PROVE  LET r == AddCash(accts, id, b, a)
         IN /\ AreAccounts(r) /\ DOMAIN r = DOMAIN accts
            /\ \A x \in DOMAIN accts \ {id} : r[x] = accts[x]
            /\ r[id].balance = accts[id].balance + b
            /\ r[id].available = accts[id].available + a
            /\ Total(Cash(r)) = Total(Cash(accts)) + b
<1> DEFINE r == AddCash(accts, id, b, a)
<1>1. /\ AreAccounts(r) /\ DOMAIN r = DOMAIN accts /\ ChangedAt(accts, r, id)
      /\ r[id].balance = accts[id].balance + b
      /\ r[id].available = accts[id].available + a
  BY AddCashExact, SMT
<1> HIDE DEF r
<1>2. id \in Accounts /\ accts[id].balance \in Nat
  BY WordPositive, SMT DEF AreAccounts, IsMap, Balances
<1>3. Total(Cash(r)) = Total(Cash(accts)) - Cash(accts)[id] + Cash(r)[id]
  BY <1>1, <1>2, CashMoves
<1>4. Cash(accts)[id] = accts[id].balance /\ Cash(r)[id] = accts[id].balance + b
  BY <1>1, <1>2 DEF Cash
<1>5. Total(Cash(accts)) \in Nat
  BY CashType
<1>6. Total(Cash(r)) = Total(Cash(accts)) + b
  BY <1>2, <1>3, <1>4, <1>5, SMT
<1> QED BY <1>1, <1>6 DEF ChangedAt, r

\* What AddShares does to the holdings and to the shares of each stock.
LEMMA SharesStep ==
  ASSUME NEW holds, AreHoldings(holds), NEW c, NEW s, <<c, s>> \in DOMAIN holds,
         NEW q \in Int, NEW a \in Int,
         holds[<<c, s>>].quantity + q \in 0..(Word - 1),
         holds[<<c, s>>].available + a \in 0..(Word - 1)
  PROVE  LET r == AddShares(holds, <<c, s>>, q, a)
         IN /\ AreHoldings(r) /\ DOMAIN r = DOMAIN holds
            /\ \A x \in DOMAIN holds \ {<<c, s>>} : r[x] = holds[x]
            /\ r[<<c, s>>].quantity = holds[<<c, s>>].quantity + q
            /\ r[<<c, s>>].available = holds[<<c, s>>].available + a
            /\ Total(SharesOf(r, s)) = Total(SharesOf(holds, s)) + q
            /\ \A t \in Stocks \ {s} : SharesOf(r, t) = SharesOf(holds, t)
<1> DEFINE k == <<c, s>>
           r == AddShares(holds, k, q, a)
<1>1. /\ AreHoldings(r) /\ DOMAIN r = DOMAIN holds /\ ChangedAt(holds, r, k)
      /\ r[k].quantity = holds[k].quantity + q
      /\ r[k].available = holds[k].available + a
  BY AddSharesExact, SMT
<1> HIDE DEF r
<1>2. c \in Accounts /\ s \in Stocks /\ holds[k].quantity \in Nat
  BY WordPositive, SMT DEF AreHoldings, IsMap, Shares
<1>3. /\ Total(SharesOf(r, s)) =
           Total(SharesOf(holds, s)) - SharesOf(holds, s)[c] + SharesOf(r, s)[c]
      /\ \A t \in Stocks \ {s} : SharesOf(r, t) = SharesOf(holds, t)
  BY <1>1, <1>2, SharesMove, SMT
<1>4. SharesOf(holds, s)[c] = holds[k].quantity /\ SharesOf(r, s)[c] = holds[k].quantity + q
  BY <1>1, <1>2 DEF SharesOf
<1>5. Total(SharesOf(holds, s)) \in Nat
  BY <1>2, SharesType
<1>6. Total(SharesOf(r, s)) = Total(SharesOf(holds, s)) + q
  BY <1>2, <1>3, <1>4, <1>5, SMT
<1> QED BY <1>1, <1>3, <1>6 DEF ChangedAt, r

-----------------------------------------------------------------------------
(* What the invariant says of a state.                                      *)

\* The maps of the ledger have the types the lemmas above ask for.
LEMMA Maps ==
  ASSUME LedgerInv
  PROVE  AreAccounts(accounts) /\ AreHoldings(holdings) /\ AreBooks(books)
BY DEF LedgerInv, TypeOK, BooksConsistent, AreAccounts, AreHoldings, AreBooks

\* The order the match loop works on is a real one, filled no further than its quantity.
LEMMA TakerFacts ==
  ASSUME LedgerInv, ~Idle
  PROVE  /\ taker \in Takers /\ taker.order \in Orders /\ taker.stock \in Stocks
         /\ taker.initial \in Nat /\ taker.cash \in Nat
         /\ taker.order.price \in Nat /\ taker.order.quantity \in Nat /\ taker.order.filled \in Nat
         /\ taker.initial <= taker.order.filled /\ taker.order.filled <= taker.order.quantity
         /\ Remaining(taker.order) \in Nat
<1>1. taker \in Takers
  BY DEF LedgerInv, TypeOK, Idle
<1>2. /\ taker.order \in Orders /\ taker.stock \in Stocks
      /\ taker.initial \in Nat /\ taker.cash \in Nat
  BY <1>1, WordPositive, SMT DEF Takers
<1>3. taker.order.price \in Nat /\ taker.order.quantity \in Nat /\ taker.order.filled \in Nat
  BY <1>2, PriceAssumption DEF Orders
<1>4. taker.initial <= taker.order.filled /\ taker.order.filled <= taker.order.quantity
  BY DEF LedgerInv, TakerSound
<1> QED BY <1>1, <1>2, <1>3, <1>4, SMT DEF Remaining

\* What the order being matched still reserves covers what it has left to pay.
LEMMA TakerCovers ==
  ASSUME LedgerInv, ~Idle, taker.order.side = Buy
  PROVE  LET p == taker.order.price
             i == taker.initial
         IN /\ p * (taker.order.quantity - i) - taker.cash \in Nat
            /\ p * (taker.order.filled - i) - taker.cash \in Nat
            /\ p * Remaining(taker.order) \in Nat
            /\ p * (taker.order.quantity - i) - taker.cash =
                 p * Remaining(taker.order) + (p * (taker.order.filled - i) - taker.cash)
<1> DEFINE p == taker.order.price
           q == taker.order.quantity
           f == taker.order.filled
           i == taker.initial
<1>1. /\ p \in Nat /\ q \in Nat /\ f \in Nat /\ i \in Nat /\ i <= f /\ f <= q
      /\ taker.cash \in Nat
  BY TakerFacts
<1>2. taker.cash <= p * (f - i)
  BY DEF LedgerInv, PaidWithinLimit
<1> HIDE DEF p, q, f, i
<1>3. q - f \in Nat /\ f - i \in Nat /\ q - i = (q - f) + (f - i)
  BY <1>1, SMT
<1>4. p * (q - i) = p * (q - f) + p * (f - i)
  BY <1>1, <1>3, MulDistributes, SMT
<1>5. p * (q - f) \in Nat /\ p * (f - i) \in Nat
  BY <1>1, <1>3, MulType
<1>6. /\ p * (q - i) - taker.cash \in Nat /\ p * (f - i) - taker.cash \in Nat
      /\ p * (q - i) - taker.cash = p * (q - f) + (p * (f - i) - taker.cash)
  BY <1>1, <1>2, <1>4, <1>5, SMTT(60)
<1> QED BY <1>5, <1>6 DEF p, q, f, i, Remaining

\* What the taker still holds back is a number.
LEMMA TakerReserves ==
  ASSUME LedgerInv
  PROVE  /\ \A a : TakerCash(a) \in Nat
         /\ \A a, s : TakerShares(a, s) \in Nat
<1>1. ASSUME NEW a PROVE TakerCash(a) \in Nat
  BY TakerCovers DEF TakerCash
<1>2. ASSUME NEW a, NEW s PROVE TakerShares(a, s) \in Nat
  BY TakerFacts DEF TakerShares
<1> QED BY <1>1, <1>2

\* A balance is at most the cash deposited, a quantity at most the shares.
LEMMA BalanceFacts ==
  ASSUME LedgerInv, NEW a \in DOMAIN accounts
  PROVE  /\ accounts[a].balance \in Nat /\ accounts[a].available \in Nat
         /\ Total(CashLock(books, a)) \in Nat /\ TakerCash(a) \in Nat
         /\ accounts[a].balance = accounts[a].available + Total(CashLock(books, a)) + TakerCash(a)
         /\ accounts[a].available <= accounts[a].balance
         /\ accounts[a].balance <= supply.cash
         /\ supply.cash \in Nat /\ supply.cash < Word
         /\ Total(Cash(accounts)) = supply.cash
<1>1. accounts[a].balance \in Nat /\ accounts[a].available \in Nat
  BY Maps, WordPositive, SMT DEF AreAccounts, IsMap, Balances
<1>2. Total(CashLock(books, a)) \in Nat /\ TakerCash(a) \in Nat
  BY Maps, LocksType, TakerReserves
<1>3. accounts[a].balance = accounts[a].available + Total(CashLock(books, a)) + TakerCash(a)
  BY DEF LedgerInv, CashReserved
<1>4. supply.cash \in Nat /\ supply.cash < Word
  BY AmountAssumption, SMT DEF LedgerInv, TypeOK
<1>5. Total(Cash(accounts)) = supply.cash
  BY DEF LedgerInv, Conserved
<1>6. accounts[a].balance <= supply.cash
  BY <1>5, Maps, CashType
<1> QED BY <1>1, <1>2, <1>3, <1>4, <1>5, <1>6, SMT

\* The same for a holding.
LEMMA HoldingFacts ==
  ASSUME LedgerInv, NEW a, NEW s, <<a, s>> \in DOMAIN holdings
  PROVE  LET h == holdings[<<a, s>>]
         IN /\ a \in Accounts /\ s \in Stocks
            /\ h.quantity \in Nat /\ h.available \in Nat
            /\ Total(ShareLock(books[s], a)) \in Nat /\ TakerShares(a, s) \in Nat
            /\ h.quantity = h.available + Total(ShareLock(books[s], a)) + TakerShares(a, s)
            /\ h.available <= h.quantity
            /\ h.quantity <= supply.shares[s]
            /\ supply.shares[s] \in Nat /\ supply.shares[s] < Word
            /\ Total(SharesOf(holdings, s)) = supply.shares[s]
<1> DEFINE h == holdings[<<a, s>>]
<1>1. a \in Accounts /\ s \in Stocks /\ h.quantity \in Nat /\ h.available \in Nat
  BY Maps, WordPositive, SMT DEF AreHoldings, IsMap, Shares
<1>2. Total(ShareLock(books[s], a)) \in Nat /\ TakerShares(a, s) \in Nat
  BY <1>1, Maps, LocksType, TakerReserves
<1>3. h.quantity = h.available + Total(ShareLock(books[s], a)) + TakerShares(a, s)
  BY DEF LedgerInv, SharesReserved
<1>4. supply.shares[s] \in Nat /\ supply.shares[s] < Word
  BY <1>1, AmountAssumption, SMT DEF LedgerInv, TypeOK
<1>5. Total(SharesOf(holdings, s)) = supply.shares[s]
  BY <1>1 DEF LedgerInv, Conserved
<1>6. h.quantity <= supply.shares[s]
  BY <1>1, <1>5, Maps, SharesType
<1> QED BY <1>1, <1>2, <1>3, <1>4, <1>5, <1>6, SMT

\* An account without an entry has nothing reserved.
LEMMA NoCashLock ==
  ASSUME LedgerInv, NEW a, a \notin DOMAIN accounts
  PROVE  Total(CashLock(books, a)) = 0 /\ TakerCash(a) = 0
<1>1. CashLock(books, a) \in [Resting -> Nat]
  BY Maps, LocksType
<1>2. ASSUME NEW k \in Resting PROVE CashLock(books, a)[k] = 0
  BY DEF LedgerInv, OwnersKnown, OwnerKnown, CashLock, BuyLock, OrderCash, Has, Resting
<1>3. Total(CashLock(books, a)) = 0
  BY <1>1, <1>2, TotalZero
<1>4. TakerCash(a) = 0
  BY DEF LedgerInv, OwnersKnown, OwnerKnown, TakerCash
<1> QED BY <1>3, <1>4

\* No order reserves shares of a holding that does not exist.
LEMMA NoShareLock ==
  ASSUME LedgerInv, NEW a, NEW s \in Stocks, <<a, s>> \notin DOMAIN holdings
  PROVE  Total(ShareLock(books[s], a)) = 0 /\ TakerShares(a, s) = 0
<1>1. ShareLock(books[s], a) \in [OrderIds -> Nat]
  BY Maps, LocksType
<1>2. ASSUME NEW id \in OrderIds PROVE ShareLock(books[s], a)[id] = 0
  BY DEF LedgerInv, OwnersKnown, OwnerKnown, ShareLock, SellLock, OrderShares, Has
<1>3. Total(ShareLock(books[s], a)) = 0
  BY <1>1, <1>2, TotalZero
<1>4. TakerShares(a, s) = 0
  BY DEF LedgerInv, OwnersKnown, OwnerKnown, TakerShares
<1> QED BY <1>3, <1>4

-----------------------------------------------------------------------------
(* A ledger is sound when its resting orders account for all that is        *)
(* reserved: the invariant between requests.                                *)

SupplyType == [cash: 0..CashCap, shares: [Stocks -> 0..ShareCap]]

\* While no order is matched, all that is reserved is reserved by resting orders.
LEMMA IdleBalances ==
  ASSUME LedgerInv, Idle
  PROVE  /\ \A a \in DOMAIN accounts :
              accounts[a].balance = accounts[a].available + Total(CashLock(books, a))
         /\ \A k \in DOMAIN holdings :
              holdings[k].quantity = holdings[k].available + Total(ShareLock(books[k[2]], k[1]))
<1>1. ASSUME NEW a \in DOMAIN accounts
      PROVE  accounts[a].balance = accounts[a].available + Total(CashLock(books, a))
  <2>1. TakerCash(a) = 0
    BY DEF TakerCash
  <2> QED BY <2>1, BalanceFacts, SMT
<1>2. ASSUME NEW k \in DOMAIN holdings
      PROVE  holdings[k].quantity = holdings[k].available + Total(ShareLock(books[k[2]], k[1]))
  <2>1. TakerShares(k[1], k[2]) = 0
    BY DEF TakerShares
  <2>2. k = <<k[1], k[2]>>
    BY Maps, SMT DEF AreHoldings, IsMap
  <2>3. <<k[1], k[2]>> \in DOMAIN holdings
    BY <2>2
  <2> QED BY <2>1, <2>2, <2>3, HoldingFacts, SMT
<1> QED BY <1>1, <1>2

Owned(order, s, accts, holds) ==
  /\ order.account \in DOMAIN accts
  /\ order.side = Sell => <<order.account, s>> \in DOMAIN holds

LedgerSound(accts, holds, bks, sup) ==
  /\ AreAccounts(accts) /\ AreHoldings(holds) /\ AreBooks(bks)
  /\ \A a \in DOMAIN accts :
       accts[a].balance = accts[a].available + Total(CashLock(bks, a))
  /\ \A k \in DOMAIN holds :
       holds[k].quantity = holds[k].available + Total(ShareLock(bks[k[2]], k[1]))
  /\ Total(Cash(accts)) = sup.cash
  /\ \A s \in Stocks : Total(SharesOf(holds, s)) = sup.shares[s]
  /\ \A k \in DOMAIN holds : k[1] \in DOMAIN accts
  /\ \A s \in Stocks : \A id \in DOMAIN bks[s].index : Owned(bks[s].index[id], s, accts, holds)

AreStocks(stks) == IsMap(stks, Stocks, [price: Prices, status: {Listed}])

\* Between two handlers the ledger is sound without a taker.
LEMMA IdleSound ==
  ASSUME LedgerInv, Idle
  PROVE  LedgerSound(accounts, holdings, books, supply)
<1>1. /\ \A k \in DOMAIN holdings : k[1] \in DOMAIN accounts
      /\ \A s \in Stocks : \A id \in DOMAIN books[s].index :
           Owned(books[s].index[id], s, accounts, holdings)
  BY DEF LedgerInv, OwnersKnown, OwnerKnown, Owned
<1>2. /\ Total(Cash(accounts)) = supply.cash
      /\ \A s \in Stocks : Total(SharesOf(holdings, s)) = supply.shares[s]
  BY DEF LedgerInv, Conserved
<1> QED BY <1>1, <1>2, Maps, IdleBalances DEF LedgerSound

\* A handler that ends with a sound ledger and no taker keeps LedgerInv.
LEMMA SoundIdle ==
  ASSUME LedgerSound(accounts', holdings', books', supply'), AreStocks(stocks'),
         supply' \in SupplyType, taker' = NoTaker
  PROVE  LedgerInv'
<1>1. TypeOK' /\ BooksConsistent'
  BY DEF LedgerSound, TypeOK, BooksConsistent, AreAccounts, AreHoldings, AreBooks, AreStocks,
         SupplyType
<1>2. TakerSound' /\ PaidWithinLimit' /\ OwnersKnown'
  BY DEF LedgerSound, TakerSound, PaidWithinLimit, OwnersKnown, OwnerKnown, Owned, Idle
<1>3. CashReserved'
  <2> SUFFICES ASSUME NEW a \in DOMAIN accounts'
               PROVE  accounts'[a].balance =
                        accounts'[a].available + Total(CashLock(books', a)) + TakerCash(a)'
    BY DEF CashReserved
  <2>1. TakerCash(a)' = 0
    BY DEF TakerCash, Idle
  <2>2. accounts'[a].available \in Nat /\ Total(CashLock(books', a)) \in Nat
    BY LocksType, WordPositive, SMT DEF LedgerSound, AreAccounts, IsMap, Balances
  <2> QED BY <2>1, <2>2, SMT DEF LedgerSound
<1>4. SharesReserved'
  <2> SUFFICES ASSUME NEW k \in DOMAIN holdings'
               PROVE  holdings'[k].quantity = holdings'[k].available
                        + Total(ShareLock(books'[k[2]], k[1])) + TakerShares(k[1], k[2])'
    BY DEF SharesReserved
  <2>1. TakerShares(k[1], k[2])' = 0
    BY DEF TakerShares, Idle
  <2>2. k[2] \in Stocks /\ holdings'[k].available \in Nat
    BY WordPositive, SMT DEF LedgerSound, AreHoldings, IsMap, Shares
  <2>3. Total(ShareLock(books'[k[2]], k[1])) \in Nat
    BY <2>2, LocksType DEF LedgerSound
  <2> QED BY <2>1, <2>2, <2>3, SMT DEF LedgerSound
<1>5. Conserved'
  BY DEF LedgerSound, Conserved
<1> QED BY <1>1, <1>2, <1>3, <1>4, <1>5 DEF LedgerInv

-----------------------------------------------------------------------------
(* Reserving and releasing for an order.                                    *)

\* d is added to what the owner of a buy order has available, and fits.
CashShift(accts, A, side, owner, d) ==
  /\ side = Buy => owner \in DOMAIN accts /\ accts[owner].available + d \in 0..(Word - 1)
  /\ A = IF side = Buy THEN AddCash(accts, owner, 0, d) ELSE accts

CashAfter(accts, A, side, owner, d) ==
  /\ AreAccounts(A) /\ DOMAIN A = DOMAIN accts
  /\ Total(Cash(A)) = Total(Cash(accts))
  /\ \A a \in DOMAIN accts :
       /\ A[a].balance = accts[a].balance
       /\ A[a].available = accts[a].available + IF side = Buy /\ owner = a THEN d ELSE 0

\* The same for the owner of a sell order.
SharesShift(holds, H, side, owner, s, d) ==
  /\ side = Sell => /\ <<owner, s>> \in DOMAIN holds
                    /\ holds[<<owner, s>>].available + d \in 0..(Word - 1)
  /\ H = IF side = Sell THEN AddShares(holds, <<owner, s>>, 0, d) ELSE holds

SharesAfter(holds, H, side, owner, s, d) ==
  /\ AreHoldings(H) /\ DOMAIN H = DOMAIN holds
  /\ \A t \in Stocks : Total(SharesOf(H, t)) = Total(SharesOf(holds, t))
  /\ \A k \in DOMAIN holds :
       /\ H[k].quantity = holds[k].quantity
       /\ H[k].available = holds[k].available
            + IF side = Sell /\ owner = k[1] /\ s = k[2] THEN d ELSE 0

\* Reserving or releasing cash (LockCash, ReleaseCash) moves no balance and one
\* available balance.
LEMMA CashShifted ==
  ASSUME NEW accts, AreAccounts(accts), NEW side, NEW owner, NEW d \in Int,
         NEW A, CashShift(accts, A, side, owner, d)
  PROVE  CashAfter(accts, A, side, owner, d)
<1>1. \A a \in DOMAIN accts : accts[a].balance \in Nat /\ accts[a].balance < Word
                               /\ accts[a].available \in Nat
  BY WordPositive, SMT DEF AreAccounts, IsMap, Balances
<1>2. Total(Cash(accts)) \in Nat
  BY CashType
<1>3. CASE side = Buy
  <2>1. A = AddCash(accts, owner, 0, d) /\ owner \in DOMAIN accts
    BY <1>3 DEF CashShift
  <2>2. /\ accts[owner].balance + 0 \in 0..(Word - 1)
        /\ accts[owner].available + d \in 0..(Word - 1)
    BY <1>1, <1>3, WordPositive, SMT DEF CashShift
  <2>3. /\ AreAccounts(A) /\ DOMAIN A = DOMAIN accts
        /\ \A x \in DOMAIN accts \ {owner} : A[x] = accts[x]
        /\ A[owner].balance = accts[owner].balance + 0
        /\ A[owner].available = accts[owner].available + d
        /\ Total(Cash(A)) = Total(Cash(accts)) + 0
    BY <2>1, <2>2, CashStep, SMT
  <2> QED BY <1>1, <1>2, <1>3, <2>1, <2>3, SMT DEF CashAfter
<1>4. CASE side # Buy
  BY <1>1, <1>4, SMT DEF CashShift, CashAfter
<1> QED BY <1>3, <1>4

\* The same for shares (LockShares, ReleaseShares).
LEMMA SharesShifted ==
  ASSUME NEW holds, AreHoldings(holds), NEW side, NEW owner, NEW s \in Stocks, NEW d \in Int,
         NEW H, SharesShift(holds, H, side, owner, s, d)
  PROVE  SharesAfter(holds, H, side, owner, s, d)
<1>1. \A k \in DOMAIN holds :
        /\ holds[k].quantity \in Nat /\ holds[k].quantity < Word /\ holds[k].available \in Nat
        /\ k = <<k[1], k[2]>>
  BY WordPositive, SMT DEF AreHoldings, IsMap, Shares
<1>2. \A t \in Stocks : Total(SharesOf(holds, t)) \in Nat
  BY SharesType
<1>3. CASE side = Sell
  <2>1. H = AddShares(holds, <<owner, s>>, 0, d) /\ <<owner, s>> \in DOMAIN holds
    BY <1>3 DEF SharesShift
  <2>2. /\ holds[<<owner, s>>].quantity + 0 \in 0..(Word - 1)
        /\ holds[<<owner, s>>].available + d \in 0..(Word - 1)
    BY <1>1, <1>3, WordPositive, SMT DEF SharesShift
  <2>3. /\ AreHoldings(H) /\ DOMAIN H = DOMAIN holds
        /\ \A x \in DOMAIN holds \ {<<owner, s>>} : H[x] = holds[x]
        /\ H[<<owner, s>>].quantity = holds[<<owner, s>>].quantity + 0
        /\ H[<<owner, s>>].available = holds[<<owner, s>>].available + d
        /\ Total(SharesOf(H, s)) = Total(SharesOf(holds, s)) + 0
        /\ \A t \in Stocks \ {s} : SharesOf(H, t) = SharesOf(holds, t)
    BY <2>1, <2>2, SharesStep, SMT
  <2>4. \A t \in Stocks : Total(SharesOf(H, t)) = Total(SharesOf(holds, t))
    BY <1>2, <2>3, SMT
  <2>5. ASSUME NEW k \in DOMAIN holds
        PROVE  /\ H[k].quantity = holds[k].quantity
               /\ H[k].available = holds[k].available
                    + IF side = Sell /\ owner = k[1] /\ s = k[2] THEN d ELSE 0
    <3>1. CASE k = <<owner, s>>
      BY <1>1, <1>3, <2>3, <3>1, SMT
    <3>2. CASE k # <<owner, s>>
      <4>1. ~(owner = k[1] /\ s = k[2])
        BY <1>1, <3>2
      <4> QED BY <1>1, <2>3, <3>2, <4>1, SMT
    <3> QED BY <3>1, <3>2
  <2> QED BY <2>3, <2>4, <2>5 DEF SharesAfter
<1>4. CASE side # Sell
  BY <1>1, <1>4, SMT DEF SharesShift, SharesAfter
<1> QED BY <1>3, <1>4

\* What a resting order takes with it when it leaves the book (Cancel).
LEMMA CancelledLocks ==
  ASSUME NEW bks, AreBooks(bks), NEW s \in Stocks, NEW id, NEW t, NEW new,
         TakenOut(bks, new, s, id, t), NEW a
  PROVE  /\ OrderCash(t, a) \in Nat /\ OrderShares(t, a) \in Nat
         /\ OrderCash(t, a) <= Total(CashLock(bks, a))
         /\ OrderShares(t, a) <= Total(ShareLock(bks[s], a))
         /\ Total(CashLock(new, a)) = Total(CashLock(bks, a)) - OrderCash(t, a)
         /\ Total(ShareLock(new[s], a)) = Total(ShareLock(bks[s], a)) - OrderShares(t, a)
         /\ \A x \in Stocks \ {s} : Total(ShareLock(new[x], a)) = Total(ShareLock(bks[x], a))
<1>1. id \in OrderIds /\ t \in Orders /\ Remaining(t) \in Nat
  BY RestingOrder DEF TakenOut
<1>2. AreBooks(new) /\ SameOrders(bks, new, s, id) /\ ~Has(new[s], id)
  BY CancelOrder
<1>3. /\ BuyLock(new[s], id, a) = 0 /\ SellLock(new[s], id, a) = 0
      /\ BuyLock(bks[s], id, a) = OrderCash(t, a) /\ SellLock(bks[s], id, a) = OrderShares(t, a)
  BY <1>2 DEF BuyLock, SellLock, TakenOut
<1>4. Total(CashLock(bks, a)) \in Nat /\ Total(ShareLock(bks[s], a)) \in Nat
  BY LocksType
<1>5. OrderCash(t, a) \in Nat /\ OrderShares(t, a) \in Nat
  BY <1>1, OrderReserves
<1>6. /\ Total(CashLock(new, a)) =
           Total(CashLock(bks, a)) - BuyLock(bks[s], id, a) + BuyLock(new[s], id, a)
      /\ Total(ShareLock(new[s], a)) =
           Total(ShareLock(bks[s], a)) - SellLock(bks[s], id, a) + SellLock(new[s], id, a)
      /\ \A x \in Stocks \ {s} : Total(ShareLock(new[x], a)) = Total(ShareLock(bks[x], a))
  <2>1. Total(CashLock(new, a)) =
          Total(CashLock(bks, a)) - BuyLock(bks[s], id, a) + BuyLock(new[s], id, a)
    BY <1>1, <1>2, CashLockMoves, SMT
  <2>2. /\ Total(ShareLock(new[s], a)) =
             Total(ShareLock(bks[s], a)) - SellLock(bks[s], id, a) + SellLock(new[s], id, a)
        /\ \A x \in Stocks \ {s} : Total(ShareLock(new[x], a)) = Total(ShareLock(bks[x], a))
    BY <1>1, <1>2, ShareLockMoves, SMT
  <2> QED BY <2>1, <2>2
<1>7. /\ BuyLock(bks[s], id, a) <= Total(CashLock(bks, a))
      /\ SellLock(bks[s], id, a) <= Total(ShareLock(bks[s], a))
  BY <1>1, LockBound
<1> QED BY <1>3, <1>4, <1>5, <1>6, <1>7, SMT

-----------------------------------------------------------------------------
(* What a fill of a resting order takes from the reservations.              *)

\* What filling n of r releases of the cash, or the shares, of account a.
FillCash(r, n, a) == IF r.side = Buy /\ r.account = a THEN r.price * n ELSE 0
FillShares(r, n, a) == IF r.side = Sell /\ r.account = a THEN n ELSE 0

LocksFilled(bks, new, s, r, n, a) ==
  /\ FillCash(r, n, a) \in Nat /\ FillCash(r, n, a) <= Total(CashLock(bks, a))
  /\ FillShares(r, n, a) \in Nat /\ FillShares(r, n, a) <= Total(ShareLock(bks[s], a))
  /\ Total(CashLock(new, a)) = Total(CashLock(bks, a)) - FillCash(r, n, a)
  /\ Total(ShareLock(new[s], a)) = Total(ShareLock(bks[s], a)) - FillShares(r, n, a)
  /\ \A x \in Stocks \ {s} : Total(ShareLock(new[x], a)) = Total(ShareLock(bks[x], a))

\* What Fill leaves of an order's reservation is what was not filled.
LEMMA LocksFill ==
  ASSUME NEW bks, AreBooks(bks), NEW s \in Stocks, NEW id, NEW want \in Nat, want > 0,
         NEW r, NEW n, NEW new, Filled(bks, new, s, id, want, r, n), NEW a
  PROVE  LocksFilled(bks, new, s, r, n, a)
<1>1. /\ Has(bks[s], id) /\ r = bks[s].index[id]
  BY DEF Filled
<1>2. /\ id \in OrderIds /\ r \in Orders /\ Remaining(r) \in Nat
  BY <1>1, RestingOrder
<1>3. /\ AreBooks(new) /\ SameOrders(bks, new, s, id)
      /\ n \in Nat /\ n > 0 /\ n <= want /\ n <= Remaining(r)
      /\ Remaining(r) = n => ~Has(new[s], id)
      /\ Remaining(r) # n => Has(new[s], id) /\ new[s].index[id] = [r EXCEPT !.filled = @ + n]
  BY FillOrder, SMT
<1>4. r.price \in Nat /\ r.quantity \in Nat /\ r.filled \in Nat
  BY <1>2, OrderFields
<1>5. PICK d \in Nat : d = r.price * n
  BY <1>3, <1>4, MulType
<1>6. PICK e \in Nat : e = r.price * (Remaining(r) - n)
  BY <1>2, <1>3, <1>4, MulType, SMT
<1>7. r.price * Remaining(r) = e + d
  <2>1. r.price * (Remaining(r) - n) = r.price * Remaining(r) - r.price * n
    BY <1>2, <1>3, <1>4, MulDistributes, SMT
  <2>2. r.price * Remaining(r) \in Nat
    BY <1>2, <1>4, MulType
  <2> QED BY <1>5, <1>6, <2>1, <2>2, SMT
<1>8. BuyLock(bks[s], id, a) = OrderCash(r, a) /\ SellLock(bks[s], id, a) = OrderShares(r, a)
  BY <1>1 DEF BuyLock, SellLock
<1>9. /\ OrderCash(r, a) = IF r.side = Buy /\ r.account = a THEN e + d ELSE 0
      /\ FillCash(r, n, a) = IF r.side = Buy /\ r.account = a THEN d ELSE 0
  BY <1>5, <1>7 DEF OrderCash, FillCash
<1>10. /\ BuyLock(new[s], id, a) = OrderCash(r, a) - FillCash(r, n, a)
       /\ SellLock(new[s], id, a) = OrderShares(r, a) - FillShares(r, n, a)
  <2>1. CASE Remaining(r) = n
    <3>1. BuyLock(new[s], id, a) = 0 /\ SellLock(new[s], id, a) = 0
      BY <1>3, <2>1 DEF BuyLock, SellLock
    <3>2. e = 0
      <4>1. Remaining(r) - n = 0
        BY <1>3, <2>1, SMT
      <4> QED BY <1>4, <1>6, <4>1, SMT
    <3> QED BY <1>3, <1>9, <2>1, <3>1, <3>2, SMT DEF OrderShares, FillShares
  <2>2. CASE Remaining(r) # n
    <3>1. PICK u : u = [r EXCEPT !.filled = @ + n]
      OBVIOUS
    <3>2. /\ u.side = r.side /\ u.account = r.account /\ u.price = r.price
          /\ u.quantity = r.quantity /\ u.filled = r.filled + n
      BY <1>2, <3>1 DEF Orders
    <3>3. Remaining(u) = Remaining(r) - n
      BY <1>3, <1>4, <3>2, SMT DEF Remaining
    <3>4. BuyLock(new[s], id, a) = OrderCash(u, a) /\ SellLock(new[s], id, a) = OrderShares(u, a)
      BY <1>3, <2>2, <3>1 DEF BuyLock, SellLock
    <3>5. OrderCash(u, a) = IF r.side = Buy /\ r.account = a THEN e ELSE 0
      BY <1>6, <3>2, <3>3 DEF OrderCash
    <3>6. OrderShares(u, a) = OrderShares(r, a) - FillShares(r, n, a)
      BY <1>2, <1>3, <3>2, <3>3, SMT DEF OrderShares, FillShares
    <3> QED BY <1>9, <3>4, <3>5, <3>6, SMT
  <2> QED BY <2>1, <2>2
<1>11. Total(CashLock(new, a)) =
         Total(CashLock(bks, a)) - BuyLock(bks[s], id, a) + BuyLock(new[s], id, a)
  BY <1>2, <1>3, CashLockMoves, SMT
<1>12. /\ Total(ShareLock(new[s], a)) =
            Total(ShareLock(bks[s], a)) - SellLock(bks[s], id, a) + SellLock(new[s], id, a)
       /\ \A x \in Stocks \ {s} : Total(ShareLock(new[x], a)) = Total(ShareLock(bks[x], a))
  BY <1>2, <1>3, ShareLockMoves, SMT
<1>13. /\ BuyLock(bks[s], id, a) <= Total(CashLock(bks, a))
       /\ SellLock(bks[s], id, a) <= Total(ShareLock(bks[s], a))
  BY <1>2, LockBound
<1>14. Total(CashLock(bks, a)) \in Nat /\ Total(ShareLock(bks[s], a)) \in Nat
  BY LocksType, ShareLockType
<1>15. /\ OrderShares(r, a) \in Nat /\ FillShares(r, n, a) \in Nat
       /\ FillShares(r, n, a) <= OrderShares(r, a)
  BY <1>2, <1>3, SMT DEF OrderShares, FillShares
<1>16. /\ OrderCash(r, a) \in Nat /\ FillCash(r, n, a) \in Nat
       /\ FillCash(r, n, a) <= OrderCash(r, a)
  BY <1>9, SMT
<1>17. /\ FillCash(r, n, a) <= Total(CashLock(bks, a))
       /\ Total(CashLock(new, a)) = Total(CashLock(bks, a)) - FillCash(r, n, a)
  BY <1>8, <1>10, <1>11, <1>13, <1>14, <1>16, SMT
<1>18. /\ FillShares(r, n, a) <= Total(ShareLock(bks[s], a))
       /\ Total(ShareLock(new[s], a)) = Total(ShareLock(bks[s], a)) - FillShares(r, n, a)
  BY <1>8, <1>10, <1>12, <1>13, <1>14, <1>15, SMT
<1> QED BY <1>12, <1>15, <1>16, <1>17, <1>18 DEF LocksFilled
=============================================================================
