---------------------------- MODULE Dedup_proofs ----------------------------
(***************************************************************************)
(* What a ring of the duplicate check remembers of the Input WAL, and what *)
(* loadDedup restores, for any window and any log.                         *)
(***************************************************************************)
EXTENDS Dedup, WellFoundedInduction, TLAPS

\* Zenon proves every leaf that names no other prover; SMT is named for the rest.
USE ZenonT(30)

-----------------------------------------------------------------------------
(* Induction.  What fails for some number fails for a least one.            *)

\* A nonempty set of naturals has a least element.
LEMMA Least ==
  ASSUME NEW T, T \subseteq Nat, T # {}
  PROVE  \E x \in T : \A y \in T : x <= y
<1> DEFINE Less == {ss \in Nat \X Nat : ss[1] < ss[2]}
<1>1. IsWellFoundedOn(Less, Nat)
  BY NatLessThanWellFounded DEF OpToRel
<1> HIDE DEF Less
<1>2. PICK x \in T : \A y \in T : ~(<<y, x>> \in Less)
  BY <1>1, WFMin
<1>3. \A y \in T : x <= y
  <2> SUFFICES ASSUME NEW y \in T PROVE x <= y
    OBVIOUS
  <2>1. x \in Nat /\ y \in Nat /\ ~(<<y, x>> \in Less)
    BY <1>2
  <2>2. ~(y < x)
    BY <2>1 DEF Less
  <2> QED BY <2>1, <2>2, SMT
<1> QED BY <1>3

-----------------------------------------------------------------------------
(* The ring of one kind.                                                    *)

\* How many ids of the kind came since the one in a slot, it included.
Age(slot, pos) == IF slot < pos THEN pos - slot ELSE pos + Window - slot

\* An age is a number from 1 to Window.
LEMMA AgeType ==
  ASSUME NEW x \in 0..(Window - 1), NEW y \in 0..(Window - 1)
  PROVE  Age(x, y) \in Int /\ 1 <= Age(x, y) /\ Age(x, y) <= Window
BY WindowAssumption, SMT DEF Age

\* At least Window ids stand between two equal ones.
Spaced(h) == \A p, q \in 1..Len(h) : p < q /\ h[p] = h[q] => q - p > Window

\* r after the ids h were added to it.
RingOf(r, h) ==
  /\ r.pos \in 0..(Window - 1)
  /\ r.ring = [x \in 0..(Window - 1) |->
                 IF Age(x, r.pos) <= Len(h) THEN h[Len(h) + 1 - Age(x, r.pos)] ELSE 0]
  /\ \A id : id # 0 =>
       (id \in r.seen <=> \E p \in 1..Len(h) : p > Len(h) - Window /\ h[p] = id)
  /\ 0 \in r.seen <=> \E p \in 1..Len(h) : h[p] = 0
  /\ Spaced(h)

\* A new ring remembers nothing.
LEMMA RingEmpty == RingOf(newRecentIDs, <<>>)
<1>1. /\ newRecentIDs.seen = {} /\ newRecentIDs.pos = 0
      /\ newRecentIDs.ring = [x \in 0..(Window - 1) |-> 0]
  BY DEF newRecentIDs
<1>2. 0 \in 0..(Window - 1)
  BY WindowAssumption, SMT
<1>3. Len(<<>>) = 0
  BY SMT
<1>4. \A x \in 0..(Window - 1) : ~(Age(x, 0) <= 0)
  BY WindowAssumption, SMT DEF Age
<1>5. \A x \in 1..0 : FALSE
  BY SMT
<1>6. newRecentIDs.ring = [x \in 0..(Window - 1) |->
                 IF Age(x, newRecentIDs.pos) <= Len(<<>>)
                 THEN <<>>[Len(<<>>) + 1 - Age(x, newRecentIDs.pos)] ELSE 0]
  BY <1>1, <1>3, <1>4, SMT
<1> QED BY <1>1, <1>2, <1>3, <1>5, <1>6 DEF RingOf, Spaced

\* add of an id it does not know.
LEMMA RingAdd ==
  ASSUME NEW I, NEW r, NEW h \in Seq(I), NEW id \in I, RingOf(r, h), id \notin r.seen
  PROVE  RingOf(addRecent(r, id), Append(h, id))
<1> DEFINE n == Len(h)
           g == Append(h, id)
           old == r.ring[r.pos]
           pos == IF r.pos + 1 = Window THEN 0 ELSE r.pos + 1
           ring == [r.ring EXCEPT ![r.pos] = id]
           seen == {id} \cup IF old # 0 THEN r.seen \ {old} ELSE r.seen
<1>1. n \in Nat /\ Window \in Nat /\ Window > 0
  BY WindowAssumption, SMT
<1>2. Len(g) = n + 1 /\ g[n + 1] = id /\ \A p \in 1..n : g[p] = h[p]
  BY SMT
<1>3. /\ r.pos \in 0..(Window - 1)
      /\ r.ring = [x \in 0..(Window - 1) |->
                 IF Age(x, r.pos) <= n THEN h[n + 1 - Age(x, r.pos)] ELSE 0]
  BY DEF RingOf
<1>4. /\ \A x : x # 0 => (x \in r.seen <=> \E p \in 1..n : p > n - Window /\ h[p] = x)
      /\ 0 \in r.seen <=> \E p \in 1..n : h[p] = 0
      /\ \A p, q \in 1..n : p < q /\ h[p] = h[q] => q - p > Window
  BY DEF RingOf, Spaced
<1>5. old = IF Window <= n THEN h[n + 1 - Window] ELSE 0
  <2>1. Age(r.pos, r.pos) = Window
    BY <1>1, <1>3, SMT DEF Age
  <2> QED BY <1>3, <2>1
<1>6. addRecent(r, id) = [seen |-> seen, ring |-> ring, pos |-> pos]
  BY DEF addRecent
<1> HIDE DEF n, g, old
<1>7. pos \in 0..(Window - 1)
  BY <1>1, <1>3, SMT
<1>8. ring = [x \in 0..(Window - 1) |->
                 IF Age(x, pos) <= n + 1 THEN g[n + 2 - Age(x, pos)] ELSE 0]
  <2>1. ASSUME NEW x \in 0..(Window - 1)
        PROVE  ring[x] = IF Age(x, pos) <= n + 1 THEN g[n + 2 - Age(x, pos)] ELSE 0
    <3>1. CASE x = r.pos
      <4>1. Age(x, pos) = 1
        BY <1>1, <1>3, <3>1, SMT DEF Age
      <4>2. n + 2 - 1 = n + 1 /\ 1 <= n + 1
        BY <1>1, SMT
      <4>3. ring[x] = id
        BY <1>3, <3>1
      <4> QED BY <1>2, <4>1, <4>2, <4>3
    <3>2. CASE x # r.pos
      <4>0. PICK y \in 0..(Window - 1) : y = r.pos
        BY <1>3
      <4>1. PICK a \in Nat : a = Age(x, y)
        <5>1. Age(x, y) \in Nat
          BY <1>1, SMT DEF Age
        <5> QED BY <5>1
      <4>2. Age(x, pos) = a + 1 /\ a > 0
        <5>1. pos = IF y + 1 = Window THEN 0 ELSE y + 1
          BY <4>0
        <5>2. x # y
          BY <3>2, <4>0
        <5>3. CASE y + 1 = Window
          <6>1. pos = 0
            BY <5>1, <5>3
          <6> QED BY <1>1, <4>1, <5>2, <5>3, <6>1, SMT DEF Age
        <5>4. CASE y + 1 # Window
          <6>1. pos = y + 1
            BY <5>1, <5>4
          <6> QED BY <1>1, <4>1, <5>2, <5>4, <6>1, SMT DEF Age
        <5> QED BY <5>3, <5>4
      <4>3. ring[x] = r.ring[x] /\ r.ring[x] = IF a <= n THEN h[n + 1 - a] ELSE 0
        BY <1>3, <3>2, <4>0, <4>1
      <4>4. a <= n => n + 1 - a \in 1..n /\ n + 2 - (a + 1) = n + 1 - a
        BY <1>1, <4>1, <4>2, SMT
      <4>5. a <= n <=> a + 1 <= n + 1
        BY <1>1, <4>1, SMT
      <4> QED BY <1>2, <4>2, <4>3, <4>4, <4>5
    <3> QED BY <3>1, <3>2
  <2> QED BY <1>3, <2>1
<1> HIDE DEF pos, ring
<1>9. ASSUME NEW x, x # 0
      PROVE  x \in seen <=> \E p \in 1..(n + 1) : p > n + 1 - Window /\ g[p] = x
  <2>1. CASE x = id
    <3>1. n + 1 \in 1..(n + 1) /\ n + 1 > n + 1 - Window
      BY <1>1, SMT
    <3> QED BY <1>2, <2>1, <3>1
  <2>2. CASE x # id
    <3>1. ASSUME x \in seen
          PROVE  \E p \in 1..(n + 1) : p > n + 1 - Window /\ g[p] = x
      <4>1. x \in r.seen /\ (old # 0 => x # old)
        BY <2>2, <3>1
      <4>2. PICK p \in 1..n : p > n - Window /\ h[p] = x
        BY <1>4, <1>9, <4>1
      <4>3. p # n + 1 - Window
        <5>1. SUFFICES ASSUME p = n + 1 - Window PROVE FALSE
          OBVIOUS
        <5>2. Window <= n
          BY <1>1, <5>1, SMT
        <5>3. old = x
          BY <1>5, <4>2, <5>1, <5>2
        <5> QED BY <1>9, <4>1, <5>3
      <4>4. p \in 1..(n + 1) /\ p > n + 1 - Window
        BY <1>1, <4>2, <4>3, SMT
      <4> QED BY <1>2, <4>2, <4>4
    <3>2. ASSUME NEW p \in 1..(n + 1), p > n + 1 - Window, g[p] = x
          PROVE  x \in seen
      <4>1. p \in 1..n /\ p > n - Window
        BY <1>1, <1>2, <2>2, <3>2, SMT
      <4>2. h[p] = x /\ x \in r.seen
        BY <1>2, <1>4, <1>9, <3>2, <4>1
      <4>3. ASSUME old # 0 PROVE x # old
        <5>1. Window <= n /\ old = h[n + 1 - Window]
          BY <1>5, <4>3
        <5>2. /\ n + 1 - Window \in 1..n /\ n + 1 - Window < p
              /\ ~(p - (n + 1 - Window) > Window)
          BY <1>1, <3>2, <4>1, <5>1, SMT
        <5> QED BY <1>4, <4>1, <4>2, <5>1, <5>2
      <4> QED BY <4>2, <4>3
    <3> QED BY <3>1, <3>2
  <2> QED BY <2>1, <2>2
<1>10. 0 \in seen <=> \E p \in 1..(n + 1) : g[p] = 0
  <2>1. 0 \in seen <=> id = 0 \/ 0 \in r.seen
    OBVIOUS
  <2>2. \A p : p \in 1..(n + 1) <=> p \in 1..n \/ p = n + 1
    BY <1>1, SMT
  <2> QED BY <1>2, <1>4, <2>1, <2>2
<1>11. Spaced(g)
  <2> SUFFICES ASSUME NEW p \in 1..(n + 1), NEW q \in 1..(n + 1), p < q, g[p] = g[q]
               PROVE  q - p > Window
    BY <1>2 DEF Spaced
  <2>1. p \in 1..n
    BY <1>1, SMT
  <2>2. CASE q = n + 1
    <3>1. h[p] = id
      BY <1>2, <2>1, <2>2
    <3>2. ~(p > n - Window)
      BY <1>4, <2>1, <3>1
    <3> QED BY <1>1, <2>1, <2>2, <3>2, SMT
  <2>3. CASE q # n + 1
    <3>1. q \in 1..n
      BY <1>1, <2>3, SMT
    <3> QED BY <1>2, <1>4, <2>1, <3>1
  <2> QED BY <2>2, <2>3
<1>12. Len(g) = n + 1 /\ Len(g) + 1 = n + 2
  BY <1>1, <1>2, SMT
<1> HIDE DEF seen
<1>13. PICK t : t = addRecent(r, id)
  OBVIOUS
<1>14. t.seen = seen /\ t.ring = ring /\ t.pos = pos
  BY <1>6, <1>13, SMT
<1>15. t.ring = [x \in 0..(Window - 1) |->
                 IF Age(x, t.pos) <= Len(g) THEN g[Len(g) + 1 - Age(x, t.pos)] ELSE 0]
  <2>1. ASSUME NEW x \in 0..(Window - 1)
        PROVE  (IF Age(x, pos) <= n + 1 THEN g[n + 2 - Age(x, pos)] ELSE 0)
               = IF Age(x, t.pos) <= Len(g) THEN g[Len(g) + 1 - Age(x, t.pos)] ELSE 0
    <3>1. PICK a : a = Age(x, pos)
      OBVIOUS
    <3>2. a = Age(x, t.pos) /\ a \in Int
      BY <1>7, <1>14, <3>1, AgeType
    <3> QED BY <1>1, <1>12, <3>1, <3>2, SMTT(30)
  <2> QED BY <1>8, <1>14, <2>1
<1>16. \A x : x # 0 =>
         (x \in t.seen <=> \E p \in 1..Len(g) : p > Len(g) - Window /\ g[p] = x)
  <2>1. SUFFICES ASSUME NEW x, x # 0
        PROVE  x \in t.seen <=> \E p \in 1..Len(g) : p > Len(g) - Window /\ g[p] = x
    OBVIOUS
  <2>2. x \in seen <=> \E p \in 1..(n + 1) : p > n + 1 - Window /\ g[p] = x
    BY <1>9, <2>1
  <2> QED BY <1>1, <1>12, <1>14, <2>2, SMT
<1>17. 0 \in t.seen <=> \E p \in 1..Len(g) : g[p] = 0
  BY <1>10, <1>12, <1>14, SMT
<1>18. t.pos \in 0..(Window - 1)
  BY <1>7, <1>14
<1>19. RingOf(t, g)
  BY <1>11, <1>15, <1>16, <1>17, <1>18 DEF RingOf
<1> QED BY <1>13, <1>19 DEF g

-----------------------------------------------------------------------------
(* The ring of a kind and the records of a log w.                           *)

Records(I) == [kind: Kinds, id: I]

\* s lists the records of kind k among those from first to last.
Listed(w, k, first, last, s) ==
  /\ \A p \in 1..Len(s) : /\ s[p] \in first..last /\ w[s[p]].kind = k
                           /\ last - s[p] >= Len(s) - p
  /\ \A p, q \in 1..Len(s) : p < q => s[p] < s[q]
  /\ \A i \in first..last : w[i].kind = k => \E p \in 1..Len(s) : s[p] = i

IdsAt(w, s) == [p \in 1..Len(s) |-> w[s[p]].id]

\* r is what add made of the records of kind k from first to last.
Tracks(r, w, k, first, last) ==
  \E s \in Seq(Nat) : Listed(w, k, first, last, s) /\ RingOf(r, IdsAt(w, s))

\* Before the first record.
LEMMA TracksNothing ==
  ASSUME NEW w, NEW k, NEW first \in Nat
  PROVE  Tracks(newRecentIDs, w, k, first, first - 1)
<1>1. <<>> \in Seq(Nat) /\ Len(<<>>) = 0 /\ IdsAt(w, <<>>) = <<>>
  BY SMT DEF IdsAt
<1>2. Listed(w, k, first, first - 1, <<>>)
  BY <1>1, SMT DEF Listed
<1> QED BY <1>1, <1>2, RingEmpty DEF Tracks

\* One more record, of this kind and not known.
LEMMA TracksAdd ==
  ASSUME NEW I, NEW w \in Seq(Records(I)), NEW k, NEW first \in Nat \ {0}, NEW last \in Nat,
         first <= last + 1, last + 1 <= Len(w), w[last + 1].kind = k,
         NEW r, Tracks(r, w, k, first, last), w[last + 1].id \notin r.seen
  PROVE  Tracks(addRecent(r, w[last + 1].id), w, k, first, last + 1)
<1>1. PICK s \in Seq(Nat) : Listed(w, k, first, last, s) /\ RingOf(r, IdsAt(w, s))
  BY DEF Tracks
<1>2. PICK t : t = Append(s, last + 1)
  OBVIOUS
<1>3. PICK n \in Nat : n = Len(s)
  BY SMTT(60)
<1>4. /\ t \in Seq(Nat) /\ Len(t) = n + 1 /\ t[n + 1] = last + 1
      /\ \A p \in 1..n : t[p] = s[p]
  BY <1>2, <1>3, SMTT(60)
<1>5. /\ \A p \in 1..n : /\ s[p] \in first..last /\ w[s[p]].kind = k
                          /\ last - s[p] >= n - p
      /\ \A p, q \in 1..n : p < q => s[p] < s[q]
      /\ \A i \in first..last : w[i].kind = k => \E p \in 1..n : s[p] = i
  BY <1>1, <1>3 DEF Listed
<1>6. Listed(w, k, first, last + 1, t)
  <2>1. ASSUME NEW p \in 1..(n + 1)
        PROVE  /\ t[p] \in first..(last + 1) /\ w[t[p]].kind = k
               /\ (last + 1) - t[p] >= (n + 1) - p
    <3>1. CASE p = n + 1
      BY <1>4, <3>1, SMTT(60)
    <3>2. CASE p \in 1..n
      <4>1. PICK x \in first..last : x = s[p] /\ last - x >= n - p
        BY <1>5, <3>2
      <4>2. x \in first..(last + 1) /\ (last + 1) - x >= (n + 1) - p
        BY <4>1, <3>2, SMTT(60)
      <4> QED BY <1>4, <1>5, <3>2, <4>1, <4>2
    <3> QED BY <1>3, <3>1, <3>2, SMTT(60)
  <2>2. ASSUME NEW p \in 1..(n + 1), NEW q \in 1..(n + 1), p < q PROVE t[p] < t[q]
    <3>1. p \in 1..n /\ s[p] \in first..last /\ s[p] \in Int
      BY <1>3, <1>5, <2>2, SMTT(60)
    <3>2. CASE q = n + 1
      BY <1>4, <3>1, <3>2, SMTT(60)
    <3>3. CASE q \in 1..n
      BY <1>4, <1>5, <2>2, <3>1, <3>3
    <3> QED BY <1>3, <3>2, <3>3, SMTT(60)
  <2>3. ASSUME NEW i \in first..(last + 1), w[i].kind = k PROVE \E p \in 1..(n + 1) : t[p] = i
    <3>1. CASE i = last + 1
      <4>1. n + 1 \in 1..(n + 1)
        BY <1>3, SMTT(60)
      <4> QED BY <1>4, <3>1, <4>1
    <3>2. CASE i \in first..last
      <4>1. PICK p \in 1..n : s[p] = i
        BY <1>5, <2>3, <3>2
      <4>2. p \in 1..(n + 1) /\ t[p] = i
        BY <1>3, <1>4, <4>1, SMTT(60)
      <4> QED BY <4>2
    <3> QED BY <3>1, <3>2, SMTT(60)
  <2> QED BY <1>4, <2>1, <2>2, <2>3 DEF Listed
<1>7. IdsAt(w, s) \in Seq(I) /\ w[last + 1].id \in I
  <2>1. \A i \in 1..Len(w) : w[i] \in Records(I)
    BY SMTT(60)
  <2>2. \A i \in 1..Len(w) : w[i].id \in I
    BY <2>1, SMTT(60) DEF Records
  <2>3. \A p \in 1..n : s[p] \in 1..Len(w)
    BY <1>3, <1>5, SMTT(60)
  <2>4. IdsAt(w, s) = [p \in 1..n |-> w[s[p]].id] /\ \A p \in 1..n : w[s[p]].id \in I
    BY <1>3, <2>2, <2>3 DEF IdsAt
  <2>5. last + 1 \in 1..Len(w)
    BY SMTT(60)
  <2> QED BY <1>3, <2>2, <2>4, <2>5, SMTT(60)
<1>8. IdsAt(w, t) = Append(IdsAt(w, s), w[last + 1].id)
  <2>1. PICK h \in Seq(I) : h = IdsAt(w, s)
    BY <1>7
  <2>2. Len(h) = n /\ \A p \in 1..n : h[p] = w[s[p]].id
    BY <1>3, <2>1, SMTT(60) DEF IdsAt
  <2>3. PICK g : g = Append(h, w[last + 1].id)
    OBVIOUS
  <2>4. /\ DOMAIN g = 1..(n + 1) /\ g = [p \in DOMAIN g |-> g[p]]
        /\ g[n + 1] = w[last + 1].id /\ \A p \in 1..n : g[p] = h[p]
    BY <1>7, <2>1, <2>2, <2>3, SMTT(60)
  <2>5. ASSUME NEW p \in 1..(n + 1) PROVE g[p] = w[t[p]].id
    <3>1. CASE p = n + 1
      BY <1>4, <2>4, <3>1
    <3>2. CASE p \in 1..n
      BY <1>4, <2>2, <2>4, <3>2
    <3>3. p = n + 1 \/ p \in 1..n
      BY SMTT(60)
    <3> QED BY <3>1, <3>2, <3>3
  <2>6. IdsAt(w, t) = [p \in 1..(n + 1) |-> w[t[p]].id]
    BY <1>4 DEF IdsAt
  <2>7. g = [p \in 1..(n + 1) |-> w[t[p]].id]
    BY <2>4, <2>5
  <2> QED BY <2>1, <2>3, <2>6, <2>7
<1>9. RingOf(addRecent(r, w[last + 1].id), IdsAt(w, t))
  BY <1>1, <1>7, <1>8, RingAdd
<1> QED BY <1>4, <1>6, <1>9 DEF Tracks

\* One more record, of another kind.
LEMMA TracksSkip ==
  ASSUME NEW w, NEW k, NEW first \in Nat, NEW last \in Nat, w[last + 1].kind # k,
         NEW r, Tracks(r, w, k, first, last)
  PROVE  Tracks(r, w, k, first, last + 1)
<1>1. PICK s \in Seq(Nat) : Listed(w, k, first, last, s) /\ RingOf(r, IdsAt(w, s))
  BY DEF Tracks
<1>2. Len(s) \in Nat /\ \A p \in 1..Len(s) : s[p] \in Nat
  BY SMT
<1>3. ASSUME NEW p \in 1..Len(s)
      PROVE  s[p] \in first..(last + 1) /\ (last + 1) - s[p] >= Len(s) - p
  <2>1. s[p] \in first..last /\ last - s[p] >= Len(s) - p
    BY <1>1 DEF Listed
  <2> QED BY <1>2, <2>1, SMTT(30)
<1>4. \A i \in first..(last + 1) : i \in first..last \/ i = last + 1
  BY SMT
<1>5. Listed(w, k, first, last + 1, s)
  BY <1>1, <1>3, <1>4 DEF Listed
<1> QED BY <1>1, <1>5 DEF Tracks

\* Only the records from first to last count.
LEMMA TracksSame ==
  ASSUME NEW w, NEW v, NEW k, NEW first \in Nat, NEW last \in Nat,
         \A i \in first..last : w[i] = v[i], NEW r, Tracks(r, w, k, first, last)
  PROVE  Tracks(r, v, k, first, last)
<1>1. PICK s \in Seq(Nat) : Listed(w, k, first, last, s) /\ RingOf(r, IdsAt(w, s))
  BY DEF Tracks
<1>2. \A p \in 1..Len(s) : s[p] \in first..last /\ w[s[p]] = v[s[p]]
  BY <1>1 DEF Listed
<1>3. Listed(v, k, first, last, s)
  BY <1>1, <1>2 DEF Listed
<1>4. IdsAt(v, s) = IdsAt(w, s)
  BY <1>2 DEF IdsAt
<1> QED BY <1>1, <1>3, <1>4 DEF Tracks

\* The last Window records are known.
LEMMA TracksRecent ==
  ASSUME NEW w, NEW k, NEW first \in Nat, NEW last \in Nat, NEW r, Tracks(r, w, k, first, last),
         NEW i \in first..last, w[i].kind = k, i > last - Window
  PROVE  w[i].id \in r.seen
<1>1. PICK s \in Seq(Nat) : Listed(w, k, first, last, s) /\ RingOf(r, IdsAt(w, s))
  BY DEF Tracks
<1>2. PICK n \in Nat : n = Len(s)
  BY SMT
<1>3. PICK p \in 1..n : s[p] = i /\ last - s[p] >= n - p
  BY <1>1, <1>2 DEF Listed
<1>4. PICK h : h = IdsAt(w, s)
  OBVIOUS
<1>5. Len(h) = n /\ h[p] = w[i].id
  BY <1>2, <1>3, <1>4, SMT DEF IdsAt
<1>6. p > n - Window
  BY <1>3, WindowAssumption, SMT
<1>7. CASE w[i].id # 0
  BY <1>1, <1>4, <1>5, <1>6, <1>7 DEF RingOf
<1>8. CASE w[i].id = 0
  BY <1>1, <1>4, <1>5, <1>8 DEF RingOf
<1> QED BY <1>7, <1>8

InLog(w, k, first, last, id) == \E i \in first..last : w[i].kind = k /\ w[i].id = id

\* What is known is in the log.
LEMMA TracksKnown ==
  ASSUME NEW w, NEW k, NEW first \in Nat, NEW last \in Nat, NEW r, Tracks(r, w, k, first, last)
  PROVE  \A id \in r.seen : InLog(w, k, first, last, id)
<1> TAKE id \in r.seen
<1>1. PICK s \in Seq(Nat) : Listed(w, k, first, last, s) /\ RingOf(r, IdsAt(w, s))
  BY DEF Tracks
<1>2. PICK n \in Nat : n = Len(s)
  BY SMT
<1>3. PICK h : h = IdsAt(w, s)
  OBVIOUS
<1>4. Len(h) = n /\ \A p \in 1..n : h[p] = w[s[p]].id
  BY <1>2, <1>3, SMT DEF IdsAt
<1>5. PICK p \in 1..n : h[p] = id
  BY <1>1, <1>3, <1>4 DEF RingOf
<1>6. s[p] \in first..last /\ w[s[p]].kind = k
  BY <1>1, <1>2, <1>5 DEF Listed
<1> QED BY <1>4, <1>5, <1>6 DEF InLog

-----------------------------------------------------------------------------
(* loadDedup.                                                               *)

\* f is the function loadDedup defines, up to the record n, when it begins with b.
Loading(f, w, b, n) ==
  f = [i \in 0..n |-> IF i < b THEN newDedup ELSE add(f[i - 1], w[i].kind, w[i].id)]

\* There is one.
LEMMA LoadExists ==
  ASSUME NEW w, NEW b \in Nat \ {0}, NEW n \in Nat
  PROVE  \E f : Loading(f, w, b, n)
<1> DEFINE T == {m \in Nat : ~\E f : Loading(f, w, b, m)}
<1>1. SUFFICES T = {}
  OBVIOUS
<1>2. SUFFICES ASSUME T # {} PROVE FALSE
  OBVIOUS
<1>3. PICK m \in T : \A y \in T : m <= y
  BY <1>2, Least
<1>4. m \in Nat /\ ~\E f : Loading(f, w, b, m)
  OBVIOUS
<1> HIDE DEF T
<1>5. CASE m = 0
  <2>1. PICK f : f = [i \in 0..0 |-> newDedup]
    OBVIOUS
  <2>2. \A i \in 0..0 : i < b
    BY SMT
  <2>3. f = [i \in 0..0 |-> IF i < b THEN newDedup ELSE add(f[i - 1], w[i].kind, w[i].id)]
    BY <2>1, <2>2
  <2> QED BY <1>4, <1>5, <2>3 DEF Loading
<1>6. CASE m # 0
  <2>1. m - 1 \in Nat /\ ~(m <= m - 1)
    BY <1>4, <1>6, SMT
  <2>2. PICK f : Loading(f, w, b, m - 1)
    BY <1>3, <2>1 DEF T
  <2>3. f = [i \in 0..(m - 1) |->
               IF i < b THEN newDedup ELSE add(f[i - 1], w[i].kind, w[i].id)]
    BY <2>2 DEF Loading
  <2>4. PICK g : g = [i \in 0..m |-> IF i = m
                                    THEN IF i < b THEN newDedup
                                         ELSE add(f[i - 1], w[i].kind, w[i].id)
                                    ELSE f[i]]
    OBVIOUS
  <2>5. ASSUME NEW i \in 0..m
        PROVE  g[i] = IF i < b THEN newDedup ELSE add(g[i - 1], w[i].kind, w[i].id)
    <3>1. i >= b => i - 1 \in 0..m /\ i - 1 # m
      BY <1>4, SMT
    <3>2. i < b \/ i >= b
      BY <1>4, SMT
    <3>3. i >= b => g[i - 1] = f[i - 1]
      BY <2>4, <3>1
    <3>4. CASE i = m
      BY <2>4, <3>2, <3>3, <3>4
    <3>5. CASE i # m
      <4>1. i \in 0..(m - 1)
        BY <1>4, <3>5, SMT
      <4>2. g[i] = f[i]
        BY <2>4, <3>5
      <4>3. f[i] = IF i < b THEN newDedup ELSE add(f[i - 1], w[i].kind, w[i].id)
        BY <2>3, <4>1
      <4> QED BY <3>2, <3>3, <4>2, <4>3
    <3> QED BY <3>4, <3>5
  <2>6. g = [i \in 0..m |-> IF i < b THEN newDedup ELSE add(g[i - 1], w[i].kind, w[i].id)]
    BY <2>4, <2>5
  <2> QED BY <1>4, <2>6 DEF Loading
<1> QED BY <1>5, <1>6

\* loadDedup is the last value of a function that adds record by record.
LEMMA LoadDef ==
  ASSUME NEW I, NEW w \in Seq(Records(I))
  PROVE  \E f : Loading(f, w, DedupStart(Len(w)), Len(w)) /\ loadDedup(w) = f[Len(w)]
<1>1. Len(w) \in Nat /\ DedupStart(Len(w)) \in Nat \ {0}
  BY WindowAssumption, SMT DEF DedupStart
<1>2. PICK f : f = CHOOSE g : g = [i \in 0..Len(w) |->
                  IF i < DedupStart(Len(w)) THEN newDedup
                  ELSE add(g[i - 1], w[i].kind, w[i].id)]
  OBVIOUS
<1>3. loadDedup(w) = f[Len(w)]
  BY <1>2 DEF loadDedup
<1>4. Loading(f, w, DedupStart(Len(w)), Len(w))
  <2>1. PICK b \in Nat \ {0}, n \in Nat : b = DedupStart(Len(w)) /\ n = Len(w)
    BY <1>1
  <2>2. f = CHOOSE g : Loading(g, w, b, n)
    BY <1>2, <2>1 DEF Loading
  <2>3. \E g : Loading(g, w, b, n)
    BY LoadExists
  <2>4. Loading(f, w, b, n)
    BY <2>2, <2>3
  <2> QED BY <2>1, <2>4
<1> QED BY <1>3, <1>4

\* A load of records that differ from each other tracks all of them.
LEMMA LoadTracks ==
  ASSUME NEW I, NEW w \in Seq(Records(I)),
         \A i, j \in DedupStart(Len(w))..Len(w) : i # j => w[i] # w[j]
  PROVE  /\ loadDedup(w) = [k \in Kinds |-> loadDedup(w)[k]]
         /\ \A k \in Kinds : Tracks(loadDedup(w)[k], w, k, DedupStart(Len(w)), Len(w))
<1> DEFINE b == DedupStart(Len(w))
           n == Len(w)
<1>1. n \in Nat /\ b \in Nat \ {0} /\ b <= n + 1
  BY WindowAssumption, SMT DEF DedupStart
<1>2. PICK f : Loading(f, w, b, n) /\ loadDedup(w) = f[n]
  BY LoadDef
<1>3. \A i \in 0..n : f[i] = IF i < b THEN newDedup ELSE add(f[i - 1], w[i].kind, w[i].id)
  BY <1>2 DEF Loading
<1>4. \A i \in 1..n : w[i] \in Records(I) /\ w[i].kind \in Kinds /\ w[i].id \in I
  <2>1. \A i \in 1..n : w[i] \in Records(I)
    BY SMT
  <2> QED BY <2>1, SMT DEF Records
<1>5. \A i, j \in b..n : i # j => w[i] # w[j]
  OBVIOUS
<1> DEFINE Good(i) == /\ f[i] = [k \in Kinds |-> f[i][k]]
                      /\ \A k \in Kinds : Tracks(f[i][k], w, k, b, i)
           T == {i \in Nat : i >= b - 1 /\ i <= n /\ ~Good(i)}
<1> HIDE DEF b, n
<1>6. T = {}
  <2>1. SUFFICES ASSUME T # {} PROVE FALSE
    OBVIOUS
  <2>2. PICK m \in T : \A y \in T : m <= y
    BY <2>1, Least
  <2>3. m \in Nat /\ m >= b - 1 /\ m <= n /\ ~Good(m)
    OBVIOUS
  <2> HIDE DEF T
  <2>4. CASE m = b - 1
    <3>1. m \in 0..n /\ m < b
      BY <1>1, <2>3, <2>4, SMT
    <3>2. f[m] = [k \in Kinds |-> newRecentIDs]
      BY <1>3, <3>1 DEF newDedup
    <3>3. \A k \in Kinds : Tracks(newRecentIDs, w, k, b, b - 1)
      BY <1>1, TracksNothing
    <3> QED BY <2>3, <2>4, <3>2, <3>3
  <2>5. CASE m # b - 1
    <3>1. m - 1 \in Nat /\ m - 1 >= b - 1 /\ m - 1 <= n /\ ~(m <= m - 1)
      BY <1>1, <2>3, <2>5, SMT
    <3>2. Good(m - 1)
      BY <2>2, <3>1 DEF T
    <3>3. PICK d : d = f[m - 1]
      OBVIOUS
    <3>4. d = [k \in Kinds |-> d[k]] /\ \A k \in Kinds : Tracks(d[k], w, k, b, m - 1)
      BY <3>2, <3>3
    <3>5. m \in 0..n /\ ~(m < b) /\ m \in 1..n /\ m \in b..n
      BY <1>1, <2>3, <2>5, SMT
    <3>6. PICK kind, id : kind = w[m].kind /\ id = w[m].id
      OBVIOUS
    <3>7. kind \in Kinds /\ id \in I
      BY <1>4, <3>5, <3>6
    <3>8. f[m] = [d EXCEPT ![kind] = addRecent(d[kind], id)]
      BY <1>3, <3>3, <3>5, <3>6 DEF add
    <3>9. DOMAIN d = Kinds
      BY <3>4
    <3>10. /\ f[m] = [k \in Kinds |-> f[m][k]] /\ f[m][kind] = addRecent(d[kind], id)
           /\ \A k \in Kinds \ {kind} : f[m][k] = d[k]
      BY <3>7, <3>8, <3>9
    <3>11. id \notin d[kind].seen
      <4> SUFFICES ASSUME id \in d[kind].seen PROVE FALSE
        OBVIOUS
      <4>1. PICK i \in b..(m - 1) : w[i].kind = kind /\ w[i].id = id
        <5>1. b \in Nat /\ m - 1 \in Nat /\ Tracks(d[kind], w, kind, b, m - 1)
          BY <1>1, <3>1, <3>4, <3>7
        <5>2. \A e \in d[kind].seen : InLog(w, kind, b, m - 1, e)
          BY <5>1, TracksKnown
        <5> QED BY <5>2 DEF InLog
      <4>2. i \in b..n /\ i # m /\ i \in 1..n
        BY <1>1, <2>3, <4>1, SMT
      <4>3. w[i] = w[m]
        <5>1. w[i] \in Records(I) /\ w[m] \in Records(I)
          BY <1>4, <3>5, <4>2
        <5>2. w[i].kind = w[m].kind /\ w[i].id = w[m].id
          BY <3>6, <4>1
        <5> QED BY <5>1, <5>2, SMT DEF Records
      <4> QED BY <1>5, <3>5, <4>2, <4>3
    <3>12. m - 1 + 1 = m /\ b <= m - 1 + 1 /\ m <= Len(w)
      BY <1>1, <2>3, <3>1, SMT DEF n
    <3>13. Tracks(addRecent(d[kind], id), w, kind, b, m)
      <4>1. PICK l \in Nat : l = m - 1
        BY <3>1
      <4>2. l + 1 = m /\ b <= l + 1 /\ l + 1 <= Len(w)
        BY <3>12, <4>1
      <4>3. Tracks(d[kind], w, kind, b, l) /\ w[l + 1].kind = kind /\ w[l + 1].id = id
        BY <3>4, <3>6, <3>7, <4>1, <4>2
      <4>4. Tracks(addRecent(d[kind], w[l + 1].id), w, kind, b, l + 1)
        BY <1>1, <3>11, <4>2, <4>3, TracksAdd
      <4> QED BY <4>2, <4>3, <4>4
    <3>14. ASSUME NEW k \in Kinds \ {kind} PROVE Tracks(d[k], w, k, b, m)
      <4>1. PICK l \in Nat : l = m - 1
        BY <3>1
      <4>2. l + 1 = m /\ w[l + 1].kind # k /\ Tracks(d[k], w, k, b, l)
        BY <3>4, <3>6, <3>12, <4>1
      <4>3. Tracks(d[k], w, k, b, l + 1)
        BY <1>1, <4>2, TracksSkip
      <4> QED BY <4>2, <4>3
    <3> QED BY <2>3, <3>10, <3>13, <3>14
  <2> QED BY <2>4, <2>5
<1>7. Good(n)
  <2>1. n \in Nat /\ n >= b - 1 /\ n <= n
    BY <1>1, SMT
  <2> QED BY <1>6, <2>1
<1> QED BY <1>2, <1>7 DEF b, n

-----------------------------------------------------------------------------
(* What a process that appends and loads knows of the log.                  *)

\* The rings d track the records of w from first on, the last Window ones at least.
Known(I, d, w, first) ==
  /\ w \in Seq(Records(I))
  /\ d = [k \in Kinds |-> d[k]]
  /\ first \in Nat \ {0} /\ first <= DedupStart(Len(w))
  /\ \A k \in Kinds : Tracks(d[k], w, k, first, Len(w))

\* Where loading starts: at the record that is Window before the next one.
LEMMA StartWithin ==
  ASSUME NEW n \in Nat
  PROVE  /\ DedupStart(n) \in Nat \ {0} /\ DedupStart(n) <= n + 1
         /\ \A i \in 1..n : i >= DedupStart(n) <=> i > n - Window
         /\ DedupStart(n) <= DedupStart(n + 1)
BY WindowAssumption, SMT DEF DedupStart

\* A record no ring knows is added.
LEMMA KnownNext ==
  ASSUME NEW I, NEW d, NEW w, NEW first, Known(I, d, w, first),
         NEW kind \in Kinds, NEW id \in I, ~has(d, kind, id)
  PROVE  Known(I, add(d, kind, id), Append(w, [kind |-> kind, id |-> id]), first)
<1> DEFINE v == Append(w, [kind |-> kind, id |-> id])
           e == add(d, kind, id)
<1>0. /\ w \in Seq(Records(I)) /\ d = [k \in Kinds |-> d[k]]
      /\ first \in Nat \ {0} /\ first <= DedupStart(Len(w))
      /\ \A k \in Kinds : Tracks(d[k], w, k, first, Len(w))
  BY DEF Known
<1>1. PICK n \in Nat : n = Len(w)
  BY <1>0, SMT
<1>2. [kind |-> kind, id |-> id] \in Records(I)
  BY DEF Records
<1>3. v \in Seq(Records(I)) /\ Len(v) = n + 1 /\ \A i \in 1..n : v[i] = w[i]
  BY <1>0, <1>1, <1>2, SMT
<1>4. v[n + 1] = [kind |-> kind, id |-> id]
  BY <1>0, <1>1, <1>2, SMT
<1> HIDE DEF v
<1>5. \A i \in first..n : i \in 1..n
  BY <1>0, SMT
<1>6. \A k \in Kinds : Tracks(d[k], v, k, first, n)
  <2> TAKE k \in Kinds
  <2>1. \A i \in first..n : w[i] = v[i]
    BY <1>3, <1>5
  <2>2. first \in Nat /\ Tracks(d[k], w, k, first, n)
    BY <1>0, <1>1
  <2> QED BY <2>1, <2>2, TracksSame
<1>7. e = [d EXCEPT ![kind] = addRecent(d[kind], id)]
  BY DEF add
<1> HIDE DEF e
<1>8. /\ e = [k \in Kinds |-> e[k]] /\ e[kind] = addRecent(d[kind], id)
      /\ \A k \in Kinds \ {kind} : e[k] = d[k]
  BY <1>0, <1>7
<1>9. v[n + 1].kind = kind /\ v[n + 1].id = id
  BY <1>4, SMT
<1>10. Tracks(e[kind], v, kind, first, n + 1)
  <2>0. DedupStart(n) <= n + 1 /\ DedupStart(n) \in Nat
    BY StartWithin
  <2>1. first <= n + 1 /\ n + 1 <= Len(v)
    BY <1>0, <1>1, <1>3, <2>0, SMT
  <2>2. v[n + 1].id \notin d[kind].seen
    BY <1>9 DEF has
  <2>3. Tracks(addRecent(d[kind], v[n + 1].id), v, kind, first, n + 1)
    BY <1>0, <1>3, <1>6, <1>9, <2>1, <2>2, TracksAdd
  <2> QED BY <1>8, <1>9, <2>3
<1>11. \A k \in Kinds \ {kind} : Tracks(e[k], v, k, first, n + 1)
  <2> TAKE k \in Kinds \ {kind}
  <2>1. v[n + 1].kind # k /\ first \in Nat /\ Tracks(d[k], v, k, first, n)
    BY <1>0, <1>6, <1>9
  <2> QED BY <1>8, <2>1, TracksSkip
<1>12. first <= DedupStart(n + 1)
  <2>1. DedupStart(n) <= DedupStart(n + 1) /\ DedupStart(n) \in Nat
    BY StartWithin
  <2>2. DedupStart(n + 1) \in Nat
    <3>1. n + 1 \in Nat
      BY SMT
    <3> QED BY <3>1, StartWithin
  <2> QED BY <1>0, <1>1, <2>1, <2>2, SMT
<1>13. \A k \in Kinds : Tracks(e[k], v, k, first, n + 1)
  BY <1>10, <1>11
<1>14. Known(I, e, v, first)
  BY <1>0, <1>3, <1>8, <1>12, <1>13 DEF Known
<1> QED BY <1>14 DEF v, e

\* A record no ring knows is none of the last Window ones.
LEMMA UnknownFar ==
  ASSUME NEW I, NEW d, NEW w, NEW first, Known(I, d, w, first),
         NEW kind \in Kinds, NEW id, ~has(d, kind, id),
         NEW i \in 1..Len(w), w[i].kind = kind, w[i].id = id
  PROVE  Len(w) + 1 - i > Window
<1> SUFFICES ASSUME ~(Len(w) + 1 - i > Window) PROVE FALSE
  OBVIOUS
<1> DEFINE n == Len(w)
<1>0. /\ n \in Nat /\ first \in Nat \ {0} /\ first <= DedupStart(n)
      /\ \A k \in Kinds : Tracks(d[k], w, k, first, n)
  BY SMT DEF Known
<1> HIDE DEF n
<1>1. i \in 1..n /\ i > n - Window
  BY <1>0, WindowAssumption, SMT DEF n
<1>2. i >= DedupStart(n) /\ DedupStart(n) \in Nat
  BY <1>0, <1>1, StartWithin
<1>3. i \in first..n /\ first \in Nat
  BY <1>0, <1>1, <1>2, SMT
<1>4. w[i].id \in d[kind].seen
  BY <1>0, <1>1, <1>3, TracksRecent
<1> QED BY <1>4 DEF has
=============================================================================
