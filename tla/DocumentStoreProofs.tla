------------------------ MODULE DocumentStoreProofs ------------------------
(***************************************************************************)
(* Proofs about one namespace: a document has one active record, the index *)
(* leads to it, and the server finds every document that it must update;   *)
(* the log takes what is in the file to what the client believes in, and a *)
(* find gives that, whatever it filters, limits or selects.                *)
(***************************************************************************)
EXTENDS DocumentStore, SequenceTheorems, WellFoundedInduction, TLAPS

Operation == [code : {"insert", "update", "remove", "drop"}, id : Id \cup {None},
              val : Val \cup {None}, rev : Rev \cup {None}]
IndexEntry == [id : Id, pos : Nat, raw : Nat]
Requested == \A i \in 1..Len(pending) : WellFormed(pending[i])

\* Ids are inserted once, and nothing has led the server astray.
Good == regular /\ ~reused /\ ~shifted
Sound == ~down /\ Once /\ Latest /\ Foreseen

\* The log grows by one operation at its end, or gives its first one.
Grows(op) ==
  /\ Len(pending') = Len(pending) + 1 /\ pending'[Len(pending) + 1] = op
  /\ \A i \in 1..Len(pending) : pending'[i] = pending[i]
Shrinks ==
  /\ Len(pending) \in Nat \ {0} /\ Len(pending') = Len(pending) - 1
  /\ \A i \in 1..Len(pending') : pending'[i] = pending[i + 1]

(* A nonempty set of numbers has a least one.                              *)
LEMMA Least ==
    ASSUME NEW S \in SUBSET Nat, S # {}
    PROVE  \E x \in S : \A y \in S : x <= y
<1>1. PICK x \in S : \A y \in S : ~(<<y, x>> \in OpToRel(<, Nat))
  BY NatLessThanWellFounded, WFMin, Zenon
<1>2. \A y \in S : x <= y
  <2> SUFFICES ASSUME NEW y \in S, y < x PROVE FALSE
    OBVIOUS
  <2>1. <<y, x>> \in Nat \X Nat /\ <<y, x>>[1] = y /\ <<y, x>>[2] = x
    OBVIOUS
  <2>2. <<y, x>> \in OpToRel(<, Nat)
    BY <2>1, Zenon DEF OpToRel
  <2>3. QED BY <1>1, <2>2, Zenon
<1>3. QED BY <1>2

(* Induction over the numbers, for a set of them.                          *)
LEMMA Numbers ==
    ASSUME NEW G, 0 \in G, \A n \in Nat : n \in G => n + 1 \in G
    PROVE  Nat \subseteq G
<1> DEFINE Bad == Nat \ G
<1> SUFFICES ASSUME Bad # {} PROVE FALSE
  OBVIOUS
<1>1. PICK n \in Bad : \A m \in Bad : n <= m
  <2>1. Bad \in SUBSET Nat
    OBVIOUS
  <2>2. QED BY <2>1, Least
<1>2. n \in Nat /\ n # 0 /\ n \notin G
  OBVIOUS
<1>3. PICK m \in Nat : n = m + 1
  <2>1. n - 1 \in Nat /\ n = (n - 1) + 1
    BY <1>2
  <2>2. QED BY <2>1
<1>4. m \in G
  <2>1. ~(n <= m)
    BY <1>2, <1>3
  <2>2. QED BY <1>1, <2>1
<1>5. QED BY <1>2, <1>3, <1>4

(* Induction over the sequences, for a set of them.                        *)
LEMMA Sequences ==
    ASSUME NEW X, NEW G, <<>> \in G,
           \A t \in Seq(X), x \in X : t \in G => Append(t, x) \in G
    PROVE  Seq(X) \subseteq G
<1> DEFINE N == {n \in Nat : \A s \in Seq(X) : Len(s) = n => s \in G}
<1>1. 0 \in N
  BY EmptySeq
<1>2. ASSUME NEW n \in Nat, n \in N PROVE n + 1 \in N
  <2>1. ASSUME NEW s \in Seq(X), Len(s) = n + 1 PROVE s \in G
    <3>1. PICK t : t = SubSeq(s, 1, n)
      OBVIOUS
    <3>2. t \in Seq(X) /\ Len(t) = n /\ \A i \in 1..n : t[i] = s[i]
      BY <2>1, <3>1
    <3>3. s[n + 1] \in X /\ t \in G
      BY <1>2, <2>1, <3>2
    <3>4. Append(t, s[n + 1]) = s
      <4>1. \A i \in 1..(n + 1) : Append(t, s[n + 1])[i] = s[i]
        BY <3>2, <3>3
      <4>2. Append(t, s[n + 1]) \in Seq(X) /\ Len(Append(t, s[n + 1])) = n + 1
        BY <3>2, <3>3
      <4>3. QED BY <2>1, <4>1, <4>2, SeqEqual
    <3>5. QED BY <3>2, <3>3, <3>4
  <2>2. QED BY <2>1
<1> HIDE DEF N
<1>3. Nat \subseteq N
  BY <1>1, <1>2, Numbers
<1>4. ASSUME NEW s \in Seq(X) PROVE s \in G
  <2>1. Len(s) \in N
    BY <1>3
  <2>2. QED BY <2>1 DEF N
<1>5. QED BY <1>4

----------------------------------------------------------------------------
(* Items of a sequence at some of its places.                              *)

\* f[k] has what is picked of the first k items.
Picks(f, s, I, n) ==
  f = [k \in 0..n |-> IF k = 0 THEN <<>>
                      ELSE IF k \in I THEN Append(f[k - 1], s[k]) ELSE f[k - 1]]

(* The recursion at one place.                                             *)
LEMMA PicksAt ==
    ASSUME NEW f, NEW s, NEW I, NEW n \in Nat, Picks(f, s, I, n), NEW k \in 0..n
    PROVE  f[k] = IF k = 0 THEN <<>>
                  ELSE IF k \in I THEN Append(f[k - 1], s[k]) ELSE f[k - 1]
<1>1. f = [j \in 0..n |-> IF j = 0 THEN <<>>
                          ELSE IF j \in I THEN Append(f[j - 1], s[j]) ELSE f[j - 1]]
  BY Zenon DEF Picks
<1>2. [j \in 0..n |-> IF j = 0 THEN <<>>
                      ELSE IF j \in I THEN Append(f[j - 1], s[j]) ELSE f[j - 1]][k]
        = IF k = 0 THEN <<>> ELSE IF k \in I THEN Append(f[k - 1], s[k]) ELSE f[k - 1]
  OBVIOUS
<1>3. QED BY <1>1, <1>2

(* The recursion has a solution.                                           *)
LEMMA PicksExists ==
    ASSUME NEW s, NEW I
    PROVE  \A n \in Nat : \E f : Picks(f, s, I, n)
<1> DEFINE N == {n \in Nat : \E f : Picks(f, s, I, n)}
<1>1. 0 \in N
  <2> DEFINE g == [k \in 0..0 |-> <<>>]
  <2>1. ASSUME NEW k \in 0..0
        PROVE  (IF k = 0 THEN <<>>
                ELSE IF k \in I THEN Append(g[k - 1], s[k]) ELSE g[k - 1]) = <<>>
    OBVIOUS
  <2> HIDE DEF g
  <2>2. [k \in 0..0 |-> IF k = 0 THEN <<>>
                        ELSE IF k \in I THEN Append(g[k - 1], s[k]) ELSE g[k - 1]]
          = [k \in 0..0 |-> <<>>]
    BY <2>1
  <2>3. Picks(g, s, I, 0)
    BY <2>2, Zenon DEF Picks, g
  <2>4. QED BY <2>3
<1>2. ASSUME NEW n \in Nat, n \in N PROVE n + 1 \in N
  <2>1. PICK f : Picks(f, s, I, n)
    BY <1>2
  <2> DEFINE e == IF n + 1 \in I THEN Append(f[n], s[n + 1]) ELSE f[n]
             g == [k \in 0..(n + 1) |-> IF k = n + 1 THEN e ELSE f[k]]
  <2>2. ASSUME NEW k \in 0..(n + 1)
        PROVE  g[k] = IF k = 0 THEN <<>>
                      ELSE IF k \in I THEN Append(g[k - 1], s[k]) ELSE g[k - 1]
    <3>1. CASE k = n + 1
      <4>1. g[k] = e /\ g[n] = f[n] /\ k - 1 = n /\ k # 0
        BY <3>1
      <4> HIDE DEF g
      <4>2. QED BY <3>1, <4>1
    <3>2. CASE k # n + 1
      <4>1. k \in 0..n /\ g[k] = f[k] /\ (k # 0 => g[k - 1] = f[k - 1])
        BY <3>2
      <4> HIDE DEF g
      <4>2. QED BY <2>1, <4>1, PicksAt
    <3>3. QED BY <3>1, <3>2
  <2>3. g = [k \in 0..(n + 1) |-> g[k]]
    OBVIOUS
  <2> HIDE DEF g
  <2>4. [k \in 0..(n + 1) |-> g[k]]
          = [k \in 0..(n + 1) |-> IF k = 0 THEN <<>>
                                  ELSE IF k \in I THEN Append(g[k - 1], s[k]) ELSE g[k - 1]]
    BY <2>2
  <2>5. Picks(g, s, I, n + 1)
    BY <2>3, <2>4, Zenon DEF Picks
  <2>6. QED BY <2>5
<1> HIDE DEF N
<1>3. Nat \subseteq N
  BY <1>1, <1>2, Numbers
<1>4. QED BY <1>3 DEF N

\* The same items and the same places of them up to n
Alike(s, I, t, J, n) == \A k \in 1..n : s[k] = t[k] /\ (k \in I <=> k \in J)

(* The solution depends on the items and the places up to n only.          *)
LEMMA PicksSame ==
    ASSUME NEW s, NEW t, NEW I, NEW J, NEW n \in Nat, NEW m \in Nat, n <= m,
           NEW f, NEW g, Picks(f, s, I, n), Picks(g, t, J, m), Alike(s, I, t, J, n)
    PROVE  \A k \in 0..n : f[k] = g[k]
<1> DEFINE N == {k \in Nat : k <= n => f[k] = g[k]}
<1>1. 0 \in N
  <2>1. f[0] = <<>> /\ g[0] = <<>>
    BY PicksAt
  <2>2. QED BY <2>1
<1>2. ASSUME NEW k \in Nat, k \in N PROVE k + 1 \in N
  <2>1. ASSUME k + 1 <= n PROVE f[k + 1] = g[k + 1]
    <3>1. PICK i \in 1..n : i = k + 1 /\ i - 1 = k /\ i \in 0..n /\ i \in 0..m /\ i # 0
      BY <2>1
    <3>2. f[i] = IF i \in I THEN Append(f[k], s[i]) ELSE f[k]
      BY <3>1, PicksAt
    <3>3. g[i] = IF i \in J THEN Append(g[k], t[i]) ELSE g[k]
      BY <3>1, PicksAt
    <3>4. f[k] = g[k]
      BY <1>2, <2>1
    <3>5. s[i] = t[i] /\ (i \in I <=> i \in J)
      BY DEF Alike
    <3>6. QED BY <3>1, <3>2, <3>3, <3>4, <3>5
  <2>2. QED BY <2>1
<1> HIDE DEF N
<1>3. Nat \subseteq N
  BY <1>1, <1>2, Numbers
<1>4. QED BY <1>3 DEF N

(* Picked is the last value of a solution.                                 *)
LEMMA PickedChosen ==
    ASSUME NEW s, NEW I, Len(s) \in Nat
    PROVE  \E f : Picks(f, s, I, Len(s)) /\ Picked(s, I) = f[Len(s)]
<1> DEFINE g == CHOOSE h : Picks(h, s, I, Len(s))
<1>1. Picks(g, s, I, Len(s))
  BY PicksExists, Zenon
<1>2. Picked(s, I) = g[Len(s)]
  BY DEF Picked, Picks
<1> HIDE DEF g
<1>3. QED BY <1>1, <1>2

(* Nothing is picked from nothing.                                         *)
LEMMA PickedNone == \A I : Picked(<<>>, I) = <<>>
<1> SUFFICES ASSUME NEW I PROVE Picked(<<>>, I) = <<>>
  OBVIOUS
<1>1. Len(<<>>) = 0
  OBVIOUS
<1>2. PICK f : Picks(f, <<>>, I, 0) /\ Picked(<<>>, I) = f[0]
  BY <1>1, PickedChosen
<1>3. f[0] = <<>>
  BY <1>2, PicksAt
<1>4. QED BY <1>2, <1>3

(* One item more, and places that are the same below it.                   *)
LEMMA PickedMore ==
    ASSUME NEW X, NEW t \in Seq(X), NEW x \in X, NEW I, NEW J,
           \A k \in 1..Len(t) : k \in I <=> k \in J
    PROVE  Picked(Append(t, x), I) = IF Len(t) + 1 \in I THEN Append(Picked(t, J), x)
                                     ELSE Picked(t, J)
<1>1. PICK n \in Nat : n = Len(t)
  OBVIOUS
<1>2. PICK s : s = Append(t, x)
  OBVIOUS
<1>3. Len(s) = n + 1 /\ s[n + 1] = x /\ \A k \in 1..n : s[k] = t[k]
  BY <1>1, <1>2
<1>4. PICK f : Picks(f, s, I, n + 1) /\ Picked(s, I) = f[n + 1]
  BY <1>3, PickedChosen
<1>5. PICK g : Picks(g, t, J, n) /\ Picked(t, J) = g[n]
  BY <1>1, PickedChosen
<1>6. g[n] = f[n]
  <2>1. Alike(t, J, s, I, n)
    BY <1>1, <1>3 DEF Alike
  <2>2. PICK m \in Nat : m = n + 1 /\ n <= m
    OBVIOUS
  <2>3. Picks(f, s, I, m)
    BY <1>4, <2>2
  <2>4. \A k \in 0..n : g[k] = f[k]
    BY <1>5, <2>1, <2>2, <2>3, PicksSame
  <2>5. QED BY <2>4
<1>7. f[n + 1] = IF n + 1 \in I THEN Append(f[n], s[n + 1]) ELSE f[n]
  <2>1. n + 1 \in 0..(n + 1) /\ n + 1 \in Nat /\ n + 1 # 0 /\ (n + 1) - 1 = n
    OBVIOUS
  <2>2. QED BY <1>4, <2>1, PicksAt
<1>8. QED BY <1>1, <1>2, <1>3, <1>4, <1>5, <1>6, <1>7

\* A sequence has an item.
In(d, s) == \E i \in 1..Len(s) : s[i] = d

(* The items after one more.                                               *)
LEMMA InMore ==
    ASSUME NEW X, NEW t \in Seq(X), NEW x \in X
    PROVE  /\ Append(t, x) \in Seq(X) /\ Len(Append(t, x)) = Len(t) + 1 /\ Len(t) \in Nat
           /\ \A d : In(d, Append(t, x)) <=> In(d, t) \/ d = x
<1>1. PICK n \in Nat : n = Len(t)
  OBVIOUS
<1>2. PICK s : s = Append(t, x)
  OBVIOUS
<1>3. s \in Seq(X) /\ Len(s) = n + 1 /\ s[n + 1] = x /\ \A k \in 1..n : s[k] = t[k]
  BY <1>1, <1>2
<1>4. \A k : k \in 1..(n + 1) <=> k \in 1..n \/ k = n + 1
  OBVIOUS
<1>5. \A d : In(d, s) <=> In(d, t) \/ d = x
  BY <1>1, <1>3, <1>4 DEF In
<1>6. QED BY <1>1, <1>2, <1>3, <1>5

(* Nothing is in the empty sequence.                                       *)
LEMMA InNone == Len(<<>>) = 0 /\ \A d : ~In(d, <<>>)
<1>1. Len(<<>>) = 0 /\ 1..0 = {}
  OBVIOUS
<1>2. QED BY <1>1 DEF In

(* What is picked has the type of the items and is no longer than they.    *)
LEMMA PickedType ==
    ASSUME NEW X, NEW s \in Seq(X), NEW I
    PROVE  Picked(s, I) \in Seq(X) /\ Len(Picked(s, I)) \in Nat /\ Len(Picked(s, I)) <= Len(s)
<1> DEFINE G == {u \in Seq(X) : Picked(u, I) \in Seq(X) /\ Len(Picked(u, I)) <= Len(u)}
<1>1. <<>> \in G
  <2>1. <<>> \in Seq(X) /\ Len(<<>>) = 0 /\ 0 <= 0
    OBVIOUS
  <2>2. QED BY <2>1, PickedNone
<1>2. ASSUME NEW t \in Seq(X), NEW x \in X, t \in G PROVE Append(t, x) \in G
  <2>0. PICK p : p = Picked(t, I)
    OBVIOUS
  <2>1. p \in Seq(X) /\ p = Picked(t, I)
    BY <1>2, <2>0
  <2>2. Len(p) \in Nat /\ Len(t) \in Nat /\ Len(p) <= Len(t)
    BY <1>2, <2>1
  <2>3. Append(p, x) \in Seq(X) /\ Len(Append(p, x)) = Len(p) + 1
    BY <2>1, InMore
  <2>4. Append(t, x) \in Seq(X) /\ Len(Append(t, x)) = Len(t) + 1
    BY InMore
  <2>5. Picked(Append(t, x), I) = Append(p, x) \/ Picked(Append(t, x), I) = p
    BY <2>1, PickedMore
  <2>6. PICK q : q = Picked(Append(t, x), I)
    OBVIOUS
  <2>7. q \in Seq(X) /\ Len(q) <= Len(t) + 1
    BY <2>1, <2>2, <2>3, <2>5, <2>6
  <2>8. QED BY <2>4, <2>6, <2>7
<1> HIDE DEF G
<1>3. Seq(X) \subseteq G
  BY <1>1, <1>2, Sequences
<1>4. QED BY <1>3 DEF G

(* All items are picked at all places.                                     *)
LEMMA PickedAll ==
    ASSUME NEW X, NEW s \in Seq(X), NEW I, \A k \in 1..Len(s) : k \in I
    PROVE  Picked(s, I) = s
<1> DEFINE G == {u \in Seq(X) : \A J : (\A k \in 1..Len(u) : k \in J) => Picked(u, J) = u}
<1>1. <<>> \in G
  BY PickedNone, EmptySeq
<1>2. ASSUME NEW t \in Seq(X), NEW x \in X, t \in G PROVE Append(t, x) \in G
  <2>1. PICK n \in Nat : n = Len(t)
    OBVIOUS
  <2>2. Append(t, x) \in Seq(X) /\ Len(Append(t, x)) = n + 1
    BY <2>1, InMore
  <2>3. ASSUME NEW J, \A k \in 1..(n + 1) : k \in J PROVE Picked(Append(t, x), J) = Append(t, x)
    <3>1. \A k \in 1..n : k \in J
      BY <2>3
    <3>2. n + 1 \in J
      BY <2>3
    <3>3. Picked(t, J) = t
      BY <1>2, <2>1, <3>1
    <3>4. Picked(Append(t, x), J) = IF Len(t) + 1 \in J THEN Append(Picked(t, J), x)
                                    ELSE Picked(t, J)
      BY PickedMore
    <3>5. QED BY <2>1, <3>2, <3>3, <3>4
  <2>4. QED BY <2>2, <2>3
<1> HIDE DEF G
<1>3. Seq(X) \subseteq G
  BY <1>1, <1>2, Sequences
<1>4. QED BY <1>3 DEF G

(* LinkedMap::erase, one document more.                                    *)
LEMMA EraseMore ==
    ASSUME NEW X, NEW t \in Seq(X), NEW x \in X, NEW id
    PROVE  Erase(Append(t, x), id) = IF x.id # id THEN Append(Erase(t, id), x) ELSE Erase(t, id)
<1>1. PICK n \in Nat : n = Len(t)
  OBVIOUS
<1>2. PICK s : s = Append(t, x)
  OBVIOUS
<1>3. /\ DOMAIN s = 1..(n + 1) /\ s[n + 1] = x /\ \A k \in 1..n : s[k] = t[k]
      /\ DOMAIN t = 1..n
  BY <1>1, <1>2
<1>4. PICK I : I = {i \in DOMAIN s : s[i].id # id}
  OBVIOUS
<1>5. PICK J : J = {i \in DOMAIN t : t[i].id # id}
  OBVIOUS
<1>6. \A k \in 1..n : k \in I <=> k \in J
  BY <1>3, <1>4, <1>5
<1>7. n + 1 \in I <=> x.id # id
  BY <1>3, <1>4
<1>8. Picked(s, I) = IF n + 1 \in I THEN Append(Picked(t, J), x) ELSE Picked(t, J)
  BY <1>1, <1>2, <1>6, PickedMore
<1>9. Erase(s, id) = Picked(s, I) /\ Erase(t, id) = Picked(t, J)
  BY <1>4, <1>5 DEF Erase
<1>10. QED BY <1>2, <1>7, <1>8, <1>9

(* The documents that match, one more.                                     *)
LEMMA MatchingMore ==
    ASSUME NEW X, NEW t \in Seq(X), NEW x \in X, NEW F
    PROVE  Matching(Append(t, x), F) = IF x.val \in F THEN Append(Matching(t, F), x)
                                       ELSE Matching(t, F)
<1>1. PICK n \in Nat : n = Len(t)
  OBVIOUS
<1>2. PICK s : s = Append(t, x)
  OBVIOUS
<1>3. /\ DOMAIN s = 1..(n + 1) /\ s[n + 1] = x /\ \A k \in 1..n : s[k] = t[k]
      /\ DOMAIN t = 1..n
  BY <1>1, <1>2
<1>4. PICK I : I = {i \in DOMAIN s : s[i].val \in F}
  OBVIOUS
<1>5. PICK J : J = {i \in DOMAIN t : t[i].val \in F}
  OBVIOUS
<1>6. \A k \in 1..n : k \in I <=> k \in J
  BY <1>3, <1>4, <1>5
<1>7. n + 1 \in I <=> x.val \in F
  BY <1>3, <1>4
<1>8. Picked(s, I) = IF n + 1 \in I THEN Append(Picked(t, J), x) ELSE Picked(t, J)
  BY <1>1, <1>2, <1>6, PickedMore
<1>9. Matching(s, F) = Picked(s, I) /\ Matching(t, F) = Picked(t, J)
  BY <1>4, <1>5 DEF Matching
<1>10. QED BY <1>2, <1>7, <1>8, <1>9

(* Nothing is left, matches or is found of nothing.                        *)
LEMMA NoneOfNone ==
  \A a : Erase(<<>>, a) = <<>> /\ Matching(<<>>, a) = <<>> /\ Scanned(<<>>, a) = <<>>
<1> SUFFICES ASSUME NEW a
             PROVE  Erase(<<>>, a) = <<>> /\ Matching(<<>>, a) = <<>> /\ Scanned(<<>>, a) = <<>>
  OBVIOUS
<1>1. Erase(<<>>, a) = <<>> /\ Matching(<<>>, a) = <<>>
  BY PickedNone DEF Erase, Matching
<1>2. PICK hits : hits = Picked(<<>>, {k \in DOMAIN <<>> : /\ <<>>[k].status = Active
                                                           /\ <<>>[k].val \in a})
  OBVIOUS
<1>3. hits = <<>>
  BY <1>2, PickedNone
<1>4. Scanned(<<>>, a) = [i \in DOMAIN hits |-> DocOf(hits[i])]
  BY <1>2 DEF Scanned
<1>5. [i \in DOMAIN <<>> |-> DocOf(<<>>[i])] = <<>>
  OBVIOUS
<1>6. QED BY <1>1, <1>3, <1>4, <1>5

(* The document of a record is a document.                                 *)
LEMMA DocOfType ==
    ASSUME NEW r \in RecordType
    PROVE  DocOf(r) \in Doc /\ DocOf(r).id = r.id /\ DocOf(r).val = r.val /\ DocOf(r).rev = r.rev
BY DEF DocOf, Doc, RecordType

(* findFullScan, one record more.                                          *)
LEMMA ScannedMore ==
    ASSUME NEW t \in Seq(RecordType), NEW r \in RecordType, NEW F
    PROVE  /\ Scanned(t, F) \in Seq(Doc) /\ Len(Scanned(t, F)) <= Len(t)
           /\ Scanned(Append(t, r), F) = IF r.status = Active /\ r.val \in F
                                         THEN Append(Scanned(t, F), DocOf(r))
                                         ELSE Scanned(t, F)
<1>1. PICK n \in Nat : n = Len(t)
  OBVIOUS
<1>2. PICK s : s = Append(t, r)
  OBVIOUS
<1>3. /\ DOMAIN s = 1..(n + 1) /\ s[n + 1] = r /\ \A k \in 1..n : s[k] = t[k]
      /\ DOMAIN t = 1..n
  BY <1>1, <1>2
<1>4. PICK I : I = {k \in DOMAIN s : s[k].status = Active /\ s[k].val \in F}
  OBVIOUS
<1>5. PICK J : J = {k \in DOMAIN t : t[k].status = Active /\ t[k].val \in F}
  OBVIOUS
<1>6. \A k \in 1..n : k \in I <=> k \in J
  BY <1>3, <1>4, <1>5
<1>7. n + 1 \in I <=> r.status = Active /\ r.val \in F
  BY <1>3, <1>4
<1>8. Picked(s, I) = IF n + 1 \in I THEN Append(Picked(t, J), r) ELSE Picked(t, J)
  BY <1>1, <1>2, <1>6, PickedMore
<1>9. PICK h : h = Picked(t, J)
  OBVIOUS
<1>10. h \in Seq(RecordType) /\ Len(h) \in Nat /\ Len(h) <= Len(t)
  BY <1>9, PickedType
<1>11. PICK m \in Nat : m = Len(h)
  BY <1>10
<1>12. PICK d : d = [i \in DOMAIN h |-> DocOf(h[i])]
  OBVIOUS
<1>13. d = Scanned(t, F)
  BY <1>5, <1>9, <1>12 DEF Scanned
<1>14. d \in Seq(Doc) /\ Len(d) = m
  <2>1. DOMAIN h = 1..m /\ \A i \in 1..m : h[i] \in RecordType
    BY <1>10, <1>11
  <2>2. \A i \in 1..m : DocOf(h[i]) \in Doc
    BY <2>1, DocOfType
  <2>3. d = [i \in 1..m |-> DocOf(h[i])]
    BY <1>12, <2>1
  <2>4. QED BY <2>2, <2>3
<1>15. CASE n + 1 \in I
  <2>1. PICK g : g = Append(h, r)
    OBVIOUS
  <2>2. g \in Seq(RecordType) /\ DOMAIN g = 1..(m + 1) /\ g[m + 1] = r /\ \A i \in 1..m : g[i] = h[i]
    BY <1>10, <1>11, <2>1
  <2>3. Scanned(s, F) = [i \in DOMAIN g |-> DocOf(g[i])]
    BY <1>4, <1>8, <1>9, <1>15, <2>1 DEF Scanned
  <2>4. PICK e : e = [i \in 1..(m + 1) |-> DocOf(g[i])]
    OBVIOUS
  <2>5. e \in Seq(Doc) /\ Len(e) = m + 1
    <3>1. \A i \in 1..(m + 1) : g[i] \in RecordType
      BY <2>2
    <3>2. \A i \in 1..(m + 1) : DocOf(g[i]) \in Doc
      BY <3>1, DocOfType
    <3>3. QED BY <2>4, <3>2
  <2>6. DocOf(r) \in Doc
    BY DocOfType
  <2>7. PICK a : a = Append(d, DocOf(r))
    OBVIOUS
  <2>8. a \in Seq(Doc) /\ Len(a) = m + 1
    BY <1>14, <2>6, <2>7
  <2>9. ASSUME NEW i \in 1..(m + 1) PROVE e[i] = a[i]
    <3>1. e[i] = DocOf(g[i])
      BY <2>4
    <3>2. CASE i = m + 1
      BY <1>14, <2>2, <2>6, <2>7, <3>1, <3>2
    <3>3. CASE i # m + 1
      <4>1. i \in 1..m /\ i \in DOMAIN h
        BY <1>10, <1>11, <3>3
      <4>2. a[i] = d[i]
        BY <1>14, <2>6, <2>7, <4>1
      <4>3. d[i] = DocOf(h[i])
        BY <1>12, <4>1
      <4>4. QED BY <2>2, <3>1, <4>1, <4>2, <4>3
    <3>4. QED BY <3>2, <3>3
  <2>10. e = a
    BY <2>5, <2>8, <2>9, SeqEqual
  <2>11. QED BY <1>2, <1>7, <1>10, <1>11, <1>13, <1>14, <1>15, <2>2, <2>3, <2>4, <2>7, <2>10
<1>16. CASE n + 1 \notin I
  <2>1. Scanned(s, F) = [i \in DOMAIN h |-> DocOf(h[i])]
    BY <1>4, <1>8, <1>9, <1>16 DEF Scanned
  <2>2. QED BY <1>2, <1>7, <1>10, <1>11, <1>12, <1>13, <1>14, <1>16, <2>1
<1>17. QED BY <1>15, <1>16

(* What is left after an erase.                                            *)
LEMMA EraseIs ==
    ASSUME NEW X, NEW s \in Seq(X), NEW id
    PROVE  /\ Erase(s, id) \in Seq(X) /\ Len(Erase(s, id)) \in Nat /\ Len(Erase(s, id)) <= Len(s)
           /\ \A d : In(d, Erase(s, id)) <=> In(d, s) /\ d.id # id
<1>1. Erase(s, id) \in Seq(X) /\ Len(Erase(s, id)) \in Nat /\ Len(Erase(s, id)) <= Len(s)
  BY PickedType DEF Erase
<1> DEFINE G == {u \in Seq(X) : Erase(u, id) \in Seq(X) /\ \A d : In(d, Erase(u, id)) <=> In(d, u) /\ d.id # id}
<1>2. <<>> \in G
  BY NoneOfNone, InNone, EmptySeq
<1>3. ASSUME NEW t \in Seq(X), NEW x \in X, t \in G PROVE Append(t, x) \in G
  <2>1. PICK e : e = Erase(t, id)
    OBVIOUS
  <2>2. e \in Seq(X) /\ \A d : In(d, e) <=> In(d, t) /\ d.id # id
    BY <1>3, <2>1
  <2>3. Append(t, x) \in Seq(X) /\ \A d : In(d, Append(t, x)) <=> In(d, t) \/ d = x
    BY InMore
  <2>4. Append(e, x) \in Seq(X) /\ \A d : In(d, Append(e, x)) <=> In(d, e) \/ d = x
    BY <2>2, InMore
  <2>5. Erase(Append(t, x), id) = IF x.id # id THEN Append(e, x) ELSE e
    BY <2>1, EraseMore
  <2>6. PICK q : q = Erase(Append(t, x), id)
    OBVIOUS
  <2>7. q \in Seq(X) /\ \A d : In(d, q) <=> In(d, Append(t, x)) /\ d.id # id
    BY <2>2, <2>3, <2>4, <2>5, <2>6
  <2>8. QED BY <2>3, <2>6, <2>7
<1> HIDE DEF G
<1>4. Seq(X) \subseteq G
  BY <1>2, <1>3, Sequences
<1>5. QED BY <1>1, <1>4 DEF G

(* The documents that match.                                               *)
LEMMA MatchingIs ==
    ASSUME NEW X, NEW s \in Seq(X), NEW F
    PROVE  /\ Matching(s, F) \in Seq(X) /\ Len(Matching(s, F)) \in Nat /\ Len(Matching(s, F)) <= Len(s)
           /\ \A d : In(d, Matching(s, F)) <=> In(d, s) /\ d.val \in F
<1>1. Matching(s, F) \in Seq(X) /\ Len(Matching(s, F)) \in Nat /\ Len(Matching(s, F)) <= Len(s)
  BY PickedType DEF Matching
<1> DEFINE G == {u \in Seq(X) : Matching(u, F) \in Seq(X) /\ \A d : In(d, Matching(u, F)) <=> In(d, u) /\ d.val \in F}
<1>2. <<>> \in G
  BY NoneOfNone, InNone, EmptySeq
<1>3. ASSUME NEW t \in Seq(X), NEW x \in X, t \in G PROVE Append(t, x) \in G
  <2>1. PICK e : e = Matching(t, F)
    OBVIOUS
  <2>2. e \in Seq(X) /\ \A d : In(d, e) <=> In(d, t) /\ d.val \in F
    BY <1>3, <2>1
  <2>3. Append(t, x) \in Seq(X) /\ \A d : In(d, Append(t, x)) <=> In(d, t) \/ d = x
    BY InMore
  <2>4. Append(e, x) \in Seq(X) /\ \A d : In(d, Append(e, x)) <=> In(d, e) \/ d = x
    BY <2>2, InMore
  <2>5. Matching(Append(t, x), F) = IF x.val \in F THEN Append(e, x) ELSE e
    BY <2>1, MatchingMore
  <2>6. PICK q : q = Matching(Append(t, x), F)
    OBVIOUS
  <2>7. q \in Seq(X) /\ \A d : In(d, q) <=> In(d, Append(t, x)) /\ d.val \in F
    BY <2>2, <2>3, <2>4, <2>5, <2>6
  <2>8. QED BY <2>3, <2>6, <2>7
<1> HIDE DEF G
<1>4. Seq(X) \subseteq G
  BY <1>2, <1>3, Sequences
<1>5. QED BY <1>1, <1>4 DEF G

(* No document has the id: nothing is erased.                              *)
LEMMA EraseAbsent ==
    ASSUME NEW X, NEW s \in Seq(X), NEW id, \A i \in 1..Len(s) : s[i].id # id
    PROVE  Erase(s, id) = s
<1>1. PICK I : I = {i \in DOMAIN s : s[i].id # id}
  OBVIOUS
<1>2. \A k \in 1..Len(s) : k \in I
  BY <1>1
<1>3. QED BY <1>1, <1>2, PickedAll DEF Erase

(* A document can be erased before or after the filter.                    *)
LEMMA MatchingErase ==
    ASSUME NEW X, NEW s \in Seq(X), NEW id, NEW F
    PROVE  Matching(Erase(s, id), F) = Erase(Matching(s, F), id)
<1> DEFINE G == {u \in Seq(X) : Matching(Erase(u, id), F) = Erase(Matching(u, F), id)}
<1>1. <<>> \in G
  BY NoneOfNone, EmptySeq
<1>2. ASSUME NEW t \in Seq(X), NEW x \in X, t \in G PROVE Append(t, x) \in G
  <2>1. PICK e : e = Erase(t, id)
    OBVIOUS
  <2>2. PICK m : m = Matching(t, F)
    OBVIOUS
  <2>3. e \in Seq(X) /\ m \in Seq(X) /\ Matching(e, F) = Erase(m, id)
    BY <1>2, <2>1, <2>2, EraseIs, MatchingIs
  <2>4. Erase(Append(t, x), id) = IF x.id # id THEN Append(e, x) ELSE e
    BY <2>1, EraseMore
  <2>5. Matching(Append(t, x), F) = IF x.val \in F THEN Append(m, x) ELSE m
    BY <2>2, MatchingMore
  <2>6. Matching(Append(e, x), F) = IF x.val \in F THEN Append(Matching(e, F), x) ELSE Matching(e, F)
    BY <2>3, MatchingMore
  <2>7. Erase(Append(m, x), id) = IF x.id # id THEN Append(Erase(m, id), x) ELSE Erase(m, id)
    BY <2>3, EraseMore
  <2>8. Append(t, x) \in Seq(X)
    BY InMore
  <2>9. QED BY <2>3, <2>4, <2>5, <2>6, <2>7, <2>8
<1> HIDE DEF G
<1>3. Seq(X) \subseteq G
  BY <1>1, <1>2, Sequences
<1>4. QED BY <1>3 DEF G

(* The scan with a filter has what matches of a scan with all values.      *)
LEMMA MatchingScanned ==
    ASSUME NEW s \in Seq(RecordType), NEW F \in SUBSET Val
    PROVE  Matching(Scanned(s, Val), F) = Scanned(s, F)
<1> DEFINE G == {u \in Seq(RecordType) : Matching(Scanned(u, Val), F) = Scanned(u, F)}
<1>1. <<>> \in G
  BY NoneOfNone, EmptySeq
<1>2. ASSUME NEW t \in Seq(RecordType), NEW x \in RecordType, t \in G PROVE Append(t, x) \in G
  <2>1. PICK d : d = Scanned(t, Val)
    OBVIOUS
  <2>2. d \in Seq(Doc) /\ DocOf(x) \in Doc /\ DocOf(x).val = x.val /\ x.val \in Val
    BY <2>1, ScannedMore, DocOfType DEF RecordType
  <2>3. Scanned(Append(t, x), Val) = IF x.status = Active THEN Append(d, DocOf(x)) ELSE d
    BY <2>1, <2>2, ScannedMore
  <2>4. Scanned(Append(t, x), F) = IF x.status = Active /\ x.val \in F
                                   THEN Append(Scanned(t, F), DocOf(x)) ELSE Scanned(t, F)
    BY ScannedMore
  <2>5. Matching(Append(d, DocOf(x)), F) = IF x.val \in F THEN Append(Matching(d, F), DocOf(x))
                                           ELSE Matching(d, F)
    BY <2>2, MatchingMore
  <2>6. Append(t, x) \in Seq(RecordType) /\ Matching(d, F) = Scanned(t, F)
    BY <1>2, <2>1, InMore
  <2>7. QED BY <2>3, <2>4, <2>5, <2>6
<1> HIDE DEF G
<1>3. Seq(RecordType) \subseteq G
  BY <1>1, <1>2, Sequences
<1>4. QED BY <1>3 DEF G

(* A sequence that is not empty has a last item.                           *)
LEMMA LastOf ==
    ASSUME NEW X, NEW s \in Seq(X), NEW n \in Nat, Len(s) = n + 1
    PROVE  \E t \in Seq(X), x \in X : s = Append(t, x) /\ Len(t) = n
<1>1. PICK t : t = SubSeq(s, 1, n)
  OBVIOUS
<1>2. t \in Seq(X) /\ Len(t) = n /\ \A i \in 1..n : t[i] = s[i]
  BY <1>1
<1>3. s[n + 1] \in X
  OBVIOUS
<1>4. Append(t, s[n + 1]) = s
  <2>1. \A i \in 1..(n + 1) : Append(t, s[n + 1])[i] = s[i]
    BY <1>2, <1>3
  <2>2. Append(t, s[n + 1]) \in Seq(X) /\ Len(Append(t, s[n + 1])) = n + 1
    BY <1>2, <1>3
  <2>3. QED BY <2>1, <2>2, SeqEqual
<1>5. QED BY <1>2, <1>3, <1>4

\* The records are those of s, and the one of x has another status.
Marks(u, s, x) ==
  /\ Len(u) = Len(s)
  /\ \A i \in 1..Len(s) : /\ DocOf(u[i]) = DocOf(s[i])
                          /\ u[i].status = Active <=> s[i].status = Active /\ s[i].id # x

(* A scan does not find a record that is no longer active.                 *)
LEMMA ScannedMarked ==
    ASSUME NEW s \in Seq(RecordType), NEW u \in Seq(RecordType), NEW x, Marks(u, s, x)
    PROVE  Scanned(u, Val) = Erase(Scanned(s, Val), x)
<1> DEFINE G == {a \in Seq(RecordType) : \A b \in Seq(RecordType) :
                   Marks(b, a, x) => Scanned(b, Val) = Erase(Scanned(a, Val), x)}
<1>1. <<>> \in G
  <2>1. ASSUME NEW b \in Seq(RecordType), Marks(b, <<>>, x) PROVE b = <<>>
    BY <2>1, EmptySeq, InNone DEF Marks
  <2>2. Scanned(<<>>, Val) = Erase(Scanned(<<>>, Val), x)
    BY NoneOfNone
  <2>3. QED BY <2>1, <2>2, EmptySeq
<1>2. ASSUME NEW t \in Seq(RecordType), NEW r \in RecordType, t \in G PROVE Append(t, r) \in G
  <2>0. PICK n \in Nat : n = Len(t)
    OBVIOUS
  <2>1. PICK a : a = Append(t, r)
    OBVIOUS
  <2>2. /\ a \in Seq(RecordType) /\ Len(a) = n + 1 /\ a[n + 1] = r
        /\ \A i \in 1..n : a[i] = t[i]
    BY <2>0, <2>1
  <2>3. ASSUME NEW b \in Seq(RecordType), Marks(b, a, x)
        PROVE  Scanned(b, Val) = Erase(Scanned(a, Val), x)
    <3>1. Len(b) = n + 1
      BY <2>2, <2>3 DEF Marks
    <3>2. PICK c \in Seq(RecordType), q \in RecordType : b = Append(c, q) /\ Len(c) = n
      BY <3>1, LastOf
    <3>3. b[n + 1] = q /\ \A i \in 1..n : b[i] = c[i]
      BY <3>2
    <3>4. Marks(c, t, x)
      BY <2>0, <2>2, <2>3, <3>2 DEF Marks
    <3>5. PICK d : d = Scanned(t, Val)
      OBVIOUS
    <3>6. PICK e : e = Erase(d, x)
      OBVIOUS
    <3>7. Scanned(c, Val) = e
      BY <1>2, <3>2, <3>4, <3>5, <3>6
    <3>8. n + 1 \in 1..Len(a)
      BY <2>2
    <3>9. DocOf(q) = DocOf(r) /\ (q.status = Active <=> r.status = Active /\ r.id # x)
      BY <2>2, <2>3, <3>3, <3>8 DEF Marks
    <3>10. q.val \in Val /\ r.val \in Val
      BY DEF RecordType
    <3>11. Scanned(b, Val) = IF q.status = Active THEN Append(e, DocOf(q)) ELSE e
      <4>1. Scanned(Append(c, q), Val) = IF q.status = Active /\ q.val \in Val
                                         THEN Append(Scanned(c, Val), DocOf(q))
                                         ELSE Scanned(c, Val)
        BY ScannedMore
      <4>2. QED BY <3>2, <3>7, <3>10, <4>1
    <3>12. Scanned(a, Val) = IF r.status = Active THEN Append(d, DocOf(r)) ELSE d
      BY <2>1, <3>5, <3>10, ScannedMore
    <3>13. d \in Seq(Doc) /\ DocOf(r) \in Doc /\ DocOf(r).id = r.id
      BY <3>5, ScannedMore, DocOfType
    <3>14. Erase(Append(d, DocOf(r)), x) = IF r.id # x THEN Append(e, DocOf(r)) ELSE e
      BY <3>6, <3>13, EraseMore
    <3>15. QED BY <3>6, <3>9, <3>11, <3>12, <3>14
  <2>4. QED BY <2>1, <2>2, <2>3
<1> HIDE DEF G
<1>3. Seq(RecordType) \subseteq G
  BY <1>1, <1>2, Sequences
<1>4. QED BY <1>3 DEF G

(* The documents a scan finds are those of active records.                 *)
LEMMA ScannedIs ==
    ASSUME NEW s \in Seq(RecordType), NEW F
    PROVE  \A d : In(d, Scanned(s, F)) =>
             \E k \in 1..Len(s) : s[k].status = Active /\ d = DocOf(s[k]) /\ d.id = s[k].id
<1> DEFINE G == {a \in Seq(RecordType) : \A d : In(d, Scanned(a, F)) =>
                   \E k \in 1..Len(a) : a[k].status = Active /\ d = DocOf(a[k]) /\ d.id = a[k].id}
<1>1. <<>> \in G
  BY NoneOfNone, InNone, EmptySeq
<1>2. ASSUME NEW t \in Seq(RecordType), NEW r \in RecordType, t \in G PROVE Append(t, r) \in G
  <2>0. PICK n \in Nat : n = Len(t)
    OBVIOUS
  <2>1. PICK a : a = Append(t, r)
    OBVIOUS
  <2>2. /\ a \in Seq(RecordType) /\ Len(a) = n + 1 /\ a[n + 1] = r
        /\ \A i \in 1..n : a[i] = t[i]
    BY <2>0, <2>1
  <2>3. PICK e : e = Scanned(t, F)
    OBVIOUS
  <2>4. e \in Seq(Doc) /\ DocOf(r) \in Doc /\ DocOf(r).id = r.id
    BY <2>3, ScannedMore, DocOfType
  <2>5. Scanned(a, F) = IF r.status = Active /\ r.val \in F THEN Append(e, DocOf(r)) ELSE e
    BY <2>1, <2>3, ScannedMore
  <2>6. ASSUME NEW d, In(d, Scanned(a, F))
        PROVE  \E k \in 1..(n + 1) : a[k].status = Active /\ d = DocOf(a[k]) /\ d.id = a[k].id
    <3>1. In(d, e) \/ (r.status = Active /\ d = DocOf(r))
      BY <2>4, <2>5, <2>6, InMore
    <3>2. CASE In(d, e)
      <4>1. PICK k \in 1..n : t[k].status = Active /\ d = DocOf(t[k]) /\ d.id = t[k].id
        BY <1>2, <2>0, <2>3, <3>2
      <4>2. k \in 1..(n + 1) /\ a[k] = t[k]
        BY <2>2
      <4>3. QED BY <4>1, <4>2
    <3>3. CASE r.status = Active /\ d = DocOf(r)
      <4>1. n + 1 \in 1..(n + 1)
        OBVIOUS
      <4>2. QED BY <2>2, <2>4, <3>3, <4>1
    <3>4. QED BY <3>1, <3>2, <3>3
  <2>7. QED BY <2>1, <2>2, <2>6
<1> HIDE DEF G
<1>3. Seq(RecordType) \subseteq G
  BY <1>1, <1>2, Sequences
<1>4. QED BY <1>3 DEF G

\* A document has one active record; an id is in the sequence once.
OneActive(s) ==
  \A j, k \in 1..Len(s) :
    s[j].id = s[k].id /\ s[j].status = Active /\ s[k].status = Active => j = k
Distinct(s) == \A i, j \in 1..Len(s) : s[i].id = s[j].id => i = j

(* A scan finds a document once.                                           *)
LEMMA ScannedDistinct ==
    ASSUME NEW s \in Seq(RecordType), NEW F, OneActive(s)
    PROVE  Distinct(Scanned(s, F))
<1> DEFINE G == {a \in Seq(RecordType) : OneActive(a) => Distinct(Scanned(a, F))}
<1>1. <<>> \in G
  BY NoneOfNone, InNone, EmptySeq DEF Distinct
<1>2. ASSUME NEW t \in Seq(RecordType), NEW r \in RecordType, t \in G PROVE Append(t, r) \in G
  <2>0. PICK n \in Nat : n = Len(t)
    OBVIOUS
  <2>1. PICK a : a = Append(t, r)
    OBVIOUS
  <2>2. /\ a \in Seq(RecordType) /\ Len(a) = n + 1 /\ a[n + 1] = r
        /\ \A i \in 1..n : a[i] = t[i]
    BY <2>0, <2>1
  <2>3. PICK e : e = Scanned(t, F)
    OBVIOUS
  <2>4. e \in Seq(Doc) /\ DocOf(r) \in Doc /\ DocOf(r).id = r.id
    BY <2>3, ScannedMore, DocOfType
  <2>5. Scanned(a, F) = IF r.status = Active /\ r.val \in F THEN Append(e, DocOf(r)) ELSE e
    BY <2>1, <2>3, ScannedMore
  <2>6. ASSUME OneActive(a) PROVE Distinct(Scanned(a, F))
    <3>1. OneActive(t)
      BY <2>0, <2>2, <2>6 DEF OneActive
    <3>2. Distinct(e)
      BY <1>2, <2>3, <3>1
    <3>3. CASE r.status = Active
      <4>1. ASSUME NEW i \in 1..Len(e) PROVE e[i].id # r.id
        <5>1. In(e[i], e)
          BY DEF In
        <5>2. PICK k \in 1..n : t[k].status = Active /\ e[i].id = t[k].id
          BY <2>0, <2>3, <5>1, ScannedIs
        <5>3. k \in 1..(n + 1) /\ n + 1 \in 1..(n + 1) /\ k # n + 1 /\ a[k] = t[k]
          BY <2>2
        <5>4. a[k].id # r.id
          BY <2>2, <2>6, <3>3, <5>2, <5>3 DEF OneActive
        <5>5. QED BY <5>2, <5>3, <5>4
      <4>2. PICK g : g = Append(e, DocOf(r))
        OBVIOUS
      <4>3. PICK m \in Nat : m = Len(e)
        BY <2>4
      <4>4. /\ Len(g) = m + 1 /\ g[m + 1] = DocOf(r)
            /\ \A i \in 1..m : g[i] = e[i]
        BY <2>4, <4>2, <4>3
      <4>5. Distinct(g)
        BY <2>4, <3>2, <4>1, <4>3, <4>4 DEF Distinct
      <4>6. QED BY <2>5, <3>2, <4>2, <4>5
    <3>4. QED BY <2>5, <3>2, <3>3
  <2>7. QED BY <2>1, <2>2, <2>6
<1> HIDE DEF G
<1>3. Seq(RecordType) \subseteq G
  BY <1>1, <1>2, Sequences
<1>4. QED BY <1>3 DEF G

(* LinkedMap::add on ids that differ loses no document.                    *)
LEMMA LoadedIs ==
    ASSUME NEW X, NEW s \in Seq(X), Distinct(s)
    PROVE  Loaded(s) = s
<1>1. PICK I : I = {i \in DOMAIN s : \A j \in DOMAIN s : i < j => s[j].id # s[i].id}
  OBVIOUS
<1>2. ASSUME NEW k \in 1..Len(s) PROVE k \in I
  <2>1. DOMAIN s = 1..Len(s) /\ Len(s) \in Nat
    OBVIOUS
  <2>2. \A j \in DOMAIN s : k < j => s[j].id # s[k].id
    BY <2>1 DEF Distinct
  <2>3. QED BY <1>1, <2>1, <2>2
<1>3. QED BY <1>1, <1>2, PickedAll DEF Loaded

(* The first n documents are all when there are no more.                   *)
LEMMA FirstOfIs ==
    ASSUME NEW X, NEW s \in Seq(X), NEW n \in Nat
    PROVE  /\ Len(s) <= n => FirstOf(s, n) = s
           /\ FirstOf(s, n) \in Seq(X)
           /\ n < Len(s) => Len(FirstOf(s, n)) = n /\ \A i \in 1..n : FirstOf(s, n)[i] = s[i]
<1>1. PICK m \in Nat : m = Len(s)
  OBVIOUS
<1>2. ASSUME m <= n PROVE FirstOf(s, n) = s
  <2>1. FirstOf(s, n) = SubSeq(s, 1, m)
    BY <1>1, <1>2 DEF FirstOf
  <2>2. SubSeq(s, 1, m) \in Seq(X) /\ Len(SubSeq(s, 1, m)) = m /\ \A i \in 1..m : SubSeq(s, 1, m)[i] = s[i]
    BY <1>1
  <2>3. SubSeq(s, 1, m) = s
    BY <1>1, <2>2, SeqEqual
  <2>4. QED BY <2>1, <2>3
<1>3. ASSUME n < m
      PROVE  /\ FirstOf(s, n) \in Seq(X) /\ Len(FirstOf(s, n)) = n
             /\ \A i \in 1..n : FirstOf(s, n)[i] = s[i]
  <2>1. FirstOf(s, n) = SubSeq(s, 1, n)
    BY <1>1, <1>3 DEF FirstOf
  <2>2. QED BY <1>1, <1>3, <2>1
<1>4. QED BY <1>1, <1>2, <1>3

----------------------------------------------------------------------------
(* The log in the answer of a find.                                        *)

\* f[k] is what is in the map after k operations of the log.
Merges(f, base, log, F, R, n) ==
  f = [k \in 0..n |-> IF k = 0 THEN base ELSE Merged(f[k - 1], log[k], F, R)]

(* The recursion at one place.                                             *)
LEMMA MergesAt ==
    ASSUME NEW f, NEW base, NEW log, NEW F, NEW R, NEW n \in Nat, Merges(f, base, log, F, R, n),
           NEW k \in 0..n
    PROVE  f[k] = IF k = 0 THEN base ELSE Merged(f[k - 1], log[k], F, R)
<1>1. f = [j \in 0..n |-> IF j = 0 THEN base ELSE Merged(f[j - 1], log[j], F, R)]
  BY Zenon DEF Merges
<1>2. [j \in 0..n |-> IF j = 0 THEN base ELSE Merged(f[j - 1], log[j], F, R)][k]
        = IF k = 0 THEN base ELSE Merged(f[k - 1], log[k], F, R)
  OBVIOUS
<1>3. QED BY <1>1, <1>2

(* The recursion has a solution.                                           *)
LEMMA MergesExists ==
    ASSUME NEW base, NEW log, NEW F, NEW R
    PROVE  \A n \in Nat : \E f : Merges(f, base, log, F, R, n)
<1> DEFINE N == {n \in Nat : \E f : Merges(f, base, log, F, R, n)}
<1>1. 0 \in N
  <2> DEFINE g == [k \in 0..0 |-> base]
  <2>1. ASSUME NEW k \in 0..0
        PROVE  (IF k = 0 THEN base ELSE Merged(g[k - 1], log[k], F, R)) = base
    OBVIOUS
  <2> HIDE DEF g
  <2>2. [k \in 0..0 |-> IF k = 0 THEN base ELSE Merged(g[k - 1], log[k], F, R)] = [k \in 0..0 |-> base]
    BY <2>1
  <2>3. Merges(g, base, log, F, R, 0)
    BY <2>2, Zenon DEF Merges, g
  <2>4. QED BY <2>3
<1>2. ASSUME NEW n \in Nat, n \in N PROVE n + 1 \in N
  <2>1. PICK f : Merges(f, base, log, F, R, n)
    BY <1>2
  <2> DEFINE e == Merged(f[n], log[n + 1], F, R)
             g == [k \in 0..(n + 1) |-> IF k = n + 1 THEN e ELSE f[k]]
  <2>2. ASSUME NEW k \in 0..(n + 1)
        PROVE  g[k] = IF k = 0 THEN base ELSE Merged(g[k - 1], log[k], F, R)
    <3>1. CASE k = n + 1
      <4>1. g[k] = e /\ g[n] = f[n] /\ k - 1 = n /\ k # 0
        BY <3>1
      <4> HIDE DEF g
      <4>2. QED BY <3>1, <4>1
    <3>2. CASE k # n + 1
      <4>1. k \in 0..n /\ g[k] = f[k] /\ (k # 0 => g[k - 1] = f[k - 1])
        BY <3>2
      <4>2. f[k] = IF k = 0 THEN base ELSE Merged(f[k - 1], log[k], F, R)
        BY <2>1, <4>1, MergesAt
      <4> HIDE DEF g
      <4>3. QED BY <4>1, <4>2
    <3>3. QED BY <3>1, <3>2
  <2>3. g = [k \in 0..(n + 1) |-> g[k]]
    OBVIOUS
  <2> HIDE DEF g
  <2>4. [k \in 0..(n + 1) |-> g[k]]
          = [k \in 0..(n + 1) |-> IF k = 0 THEN base ELSE Merged(g[k - 1], log[k], F, R)]
    BY <2>2
  <2>5. Merges(g, base, log, F, R, n + 1)
    BY <2>3, <2>4, Zenon DEF Merges
  <2>6. QED BY <2>5
<1> HIDE DEF N
<1>3. Nat \subseteq N
  BY <1>1, <1>2, Numbers
<1>4. QED BY <1>3 DEF N

(* What is in the map after each operation of the log.                     *)
LEMMA WithLogAt ==
    ASSUME NEW base, NEW log, NEW n \in Nat, n = Len(log), NEW F, NEW R
    PROVE  /\ WithLog(base, log, F, R)[0] = base
           /\ \A k \in 1..n : WithLog(base, log, F, R)[k]
                                = Merged(WithLog(base, log, F, R)[k - 1], log[k], F, R)
<1> DEFINE g == CHOOSE h : Merges(h, base, log, F, R, n)
<1>1. Merges(g, base, log, F, R, n)
  BY MergesExists, Zenon
<1>2. WithLog(base, log, F, R) = g
  BY DEF WithLog, Merges
<1> HIDE DEF g
<1>3. 0 \in 0..n /\ \A k \in 1..n : k \in 0..n /\ k # 0
  OBVIOUS
<1>4. g[0] = base
  BY <1>1, <1>3, MergesAt
<1>5. ASSUME NEW k \in 1..n PROVE g[k] = Merged(g[k - 1], log[k], F, R)
  BY <1>1, <1>3, MergesAt
<1>6. QED BY <1>2, <1>4, <1>5

\* A document as a select gives it, with or without its revision
Row == [id : Id, val : Val, rev : Rev \cup {None}]

(* Documents are rows, and no list of rows is a failure.                   *)
LEMMA RowsAre ==
  /\ \A s \in Seq(Doc) : s \in Seq(Row)
  /\ \A s \in Seq(Row) : s # Failure
<1>1. None \notin Row
  BY NoneAssumption DEF Row
<1>2. ASSUME NEW s \in Seq(Row), s = Failure PROVE FALSE
  <2>1. Len(s) = 1 /\ s[1] = None
    BY <1>2 DEF Failure
  <2>2. s[1] \in Row
    BY <2>1
  <2>3. QED BY <1>1, <2>1, <2>2
<1>3. Doc \subseteq Row
  BY DEF Doc, Row
<1>4. ASSUME NEW s \in Seq(Doc) PROVE s \in Seq(Row)
  BY <1>3
<1>5. QED BY <1>2, <1>4

(* What an operation of the log does to the rows.                          *)
LEMMA MergedIs ==
    ASSUME NEW m \in Seq(Row), NEW op \in Operation, WellFormed(op), NEW F, NEW R
    PROVE  /\ op.code \in {"insert", "update"} =>
                /\ Selected(op, R) \in Row
                /\ Selected(op, R).id = op.id /\ Selected(op, R).val = op.val
                /\ op.val \in F =>
                     Merged(m, op, F, R) = Append(Erase(m, op.id), Selected(op, R))
           /\ op.code = "insert" /\ op.val \notin F => Merged(m, op, F, R) = m
           /\ op.code = "update" /\ op.val \notin F => Merged(m, op, F, R) = Erase(m, op.id)
           /\ op.code = "remove" =>
                Merged(m, op, F, R)
                  = IF \E i \in 1..Len(m) : m[i].id = op.id /\ m[i].rev = None THEN Failure
                    ELSE IF \E i \in 1..Len(m) : m[i].id = op.id /\ m[i].rev = op.rev
                         THEN Erase(m, op.id) ELSE m
           /\ op.code = "drop" => Merged(m, op, F, R) = <<>>
<1>1. m # Failure /\ DOMAIN m = 1..Len(m)
  BY RowsAre
<1>2. ASSUME op.code \in {"insert", "update"}
      PROVE  /\ Selected(op, R) \in Row
             /\ Selected(op, R).id = op.id /\ Selected(op, R).val = op.val
  <2>1. op.id \in Id /\ op.val \in Val /\ op.rev \in Rev
    BY <1>2 DEF WellFormed
  <2>2. QED BY <2>1 DEF Selected, DocOf, Row
<1>3. ASSUME op.code \in {"insert", "update"}, op.val \in F
      PROVE  Merged(m, op, F, R) = Append(Erase(m, op.id), Selected(op, R))
  <2>1. Merged(m, op, F, R) = Add(m, Selected(op, R))
    BY <1>1, <1>3 DEF Merged
  <2>2. QED BY <1>2, <1>3, <2>1 DEF Add
<1>4. ASSUME op.code = "insert", op.val \notin F PROVE Merged(m, op, F, R) = m
  BY <1>1, <1>4 DEF Merged
<1>5. ASSUME op.code = "update", op.val \notin F PROVE Merged(m, op, F, R) = Erase(m, op.id)
  BY <1>1, <1>5 DEF Merged
<1>6. ASSUME op.code = "remove"
      PROVE  Merged(m, op, F, R)
               = IF \E i \in 1..Len(m) : m[i].id = op.id /\ m[i].rev = None THEN Failure
                 ELSE IF \E i \in 1..Len(m) : m[i].id = op.id /\ m[i].rev = op.rev
                      THEN Erase(m, op.id) ELSE m
  BY <1>1, <1>6 DEF Merged
<1>7. ASSUME op.code = "drop" PROVE Merged(m, op, F, R) = <<>>
  BY <1>1, <1>7 DEF Merged
<1>8. QED BY <1>2, <1>3, <1>4, <1>5, <1>6, <1>7

(* An operation that fits does to the documents what its request did.      *)
LEMMA MergedDocs ==
    ASSUME NEW m \in Seq(Doc), NEW op \in Operation, WellFormed(op), NEW F
    PROVE  /\ op.code \in {"insert", "update"} =>
                /\ DocOf(op) \in Doc /\ DocOf(op).id = op.id /\ DocOf(op).val = op.val
                /\ op.val \in F => Merged(m, op, F, "all") = Append(Erase(m, op.id), DocOf(op))
           /\ op.code = "insert" /\ op.val \notin F => Merged(m, op, F, "all") = m
           /\ op.code = "update" /\ op.val \notin F => Merged(m, op, F, "all") = Erase(m, op.id)
           /\ op.code = "remove" /\ Fits(m, op) => Merged(m, op, F, "all") = Erase(m, op.id)
           /\ op.code = "drop" => Merged(m, op, F, "all") = <<>>
           /\ Fits(m, op) => Merged(m, op, F, "all") \in Seq(Doc)
<1>0. PICK R : R = "all"
  OBVIOUS
<1>1. m \in Seq(Row)
  BY RowsAre
<1>2. Erase(m, op.id) \in Seq(Doc) /\ <<>> \in Seq(Doc)
  BY EraseIs, EmptySeq
<1>3. ASSUME op.code \in {"insert", "update"}
      PROVE  /\ DocOf(op) \in Doc /\ DocOf(op).id = op.id /\ DocOf(op).val = op.val
             /\ op.val \in F => Merged(m, op, F, R) = Append(Erase(m, op.id), DocOf(op))
  <2>1. op.id \in Id /\ op.val \in Val /\ op.rev \in Rev
    BY <1>3 DEF WellFormed
  <2>2. DocOf(op) \in Doc /\ DocOf(op).id = op.id /\ DocOf(op).val = op.val
    BY <2>1 DEF DocOf, Doc
  <2>3. Selected(op, R) = DocOf(op)
    <3>1. Selected(op, "all") = DocOf(op)
      BY DEF Selected, DocOf
    <3>2. QED BY <1>0, <3>1
  <2>4. op.val \in F => Merged(m, op, F, R) = Append(Erase(m, op.id), Selected(op, R))
    BY <1>1, <1>3, MergedIs
  <2>5. QED BY <2>2, <2>3, <2>4
<1>4. op.code = "insert" /\ op.val \notin F => Merged(m, op, F, R) = m
  BY <1>1, MergedIs
<1>5. op.code = "update" /\ op.val \notin F => Merged(m, op, F, R) = Erase(m, op.id)
  BY <1>1, MergedIs
<1>6. ASSUME op.code = "remove", Fits(m, op) PROVE Merged(m, op, F, R) = Erase(m, op.id)
  <2>1. Merged(m, op, F, R)
          = IF \E i \in 1..Len(m) : m[i].id = op.id /\ m[i].rev = None THEN Failure
            ELSE IF \E i \in 1..Len(m) : m[i].id = op.id /\ m[i].rev = op.rev
                 THEN Erase(m, op.id) ELSE m
    BY <1>1, <1>6, MergedIs
  <2>2. \A i \in 1..Len(m) : m[i].rev # None
    <3>1. \A i \in 1..Len(m) : m[i] \in Doc
      OBVIOUS
    <3>2. QED BY <3>1, NoneAssumption DEF Doc
  <2>3. CASE \E i \in 1..Len(m) : m[i].id = op.id
    <3>1. \E i \in 1..Len(m) : m[i].id = op.id /\ m[i].rev = op.rev
      BY <1>6, <2>3 DEF Fits
    <3>2. QED BY <2>1, <2>2, <3>1
  <2>4. CASE \A i \in 1..Len(m) : m[i].id # op.id
    <3>1. Erase(m, op.id) = m
      BY <2>4, EraseAbsent
    <3>2. QED BY <2>1, <2>4, <3>1
  <2>5. QED BY <2>3, <2>4
<1>7. op.code = "drop" => Merged(m, op, F, R) = <<>>
  BY <1>1, MergedIs
<1>8. ASSUME Fits(m, op) PROVE Merged(m, op, F, R) \in Seq(Doc)
  <2>1. op.code \in {"insert", "update", "remove", "drop"}
    BY DEF Operation
  <2>2. CASE op.code \in {"insert", "update"} /\ op.val \in F
    BY <1>2, <1>3, <2>2, AppendProperties
  <2>3. CASE ~(op.code \in {"insert", "update"} /\ op.val \in F)
    BY <1>2, <1>4, <1>5, <1>6, <1>7, <1>8, <2>1, <2>3
  <2>4. QED BY <2>2, <2>3
<1>9. QED BY <1>0, <1>3, <1>4, <1>5, <1>6, <1>7, <1>8

(* The map stays a sequence of documents.                                  *)
LEMMA LinkedMapType ==
    ASSUME NEW m \in Seq(Doc)
    PROVE  /\ \A id : Erase(m, id) \in Seq(Doc) /\ Len(Erase(m, id)) \in Nat /\ Len(Erase(m, id)) <= Len(m)
           /\ \A d \in Doc : /\ Add(m, d) \in Seq(Doc)
                             /\ Len(Add(m, d)) \in Nat /\ Len(Add(m, d)) <= Len(m) + 1
<1>1. \A id : Erase(m, id) \in Seq(Doc) /\ Len(Erase(m, id)) \in Nat /\ Len(Erase(m, id)) <= Len(m)
  BY EraseIs
<1>2. ASSUME NEW d \in Doc
      PROVE  /\ Add(m, d) \in Seq(Doc)
             /\ Len(Add(m, d)) \in Nat /\ Len(Add(m, d)) <= Len(m) + 1
  <2>1. PICK e : e = Erase(m, d.id)
    OBVIOUS
  <2>2. e \in Seq(Doc) /\ Len(e) \in Nat /\ Len(e) <= Len(m)
    BY <1>1, <2>1
  <2>3. Add(m, d) = Append(e, d)
    BY <2>1 DEF Add
  <2>4. Append(e, d) \in Seq(Doc) /\ Len(Append(e, d)) = Len(e) + 1
    BY <2>2, InMore
  <2>5. Len(m) \in Nat
    OBVIOUS
  <2>6. QED BY <2>2, <2>3, <2>4, <2>5
<1>3. QED BY <1>1, <1>2


(* What a request writes is at the end of the log.                         *)
LEMMA Written ==
    ASSUME TypeOK, Requested, NEW op \in Operation, WellFormed(op), Write(op)
    PROVE  /\ pending' \in Seq(Operation) /\ Requested' /\ Grows(op) /\ Len(pending) \in Nat
           /\ ops' \in 0..MaxOps
           /\ UNCHANGED <<data, exists, catalog, isOpen, offset, index, down, restarts, shifted>>
<1>1. pending \in Seq(Operation) /\ pending' = Append(pending, op) /\ ops < MaxOps /\ ops' = ops + 1
  BY DEF TypeOK, Operation, Write
<1>2. pending' \in Seq(Operation) /\ Grows(op) /\ Len(pending) \in Nat
  BY <1>1, AppendProperties, LenProperties DEF Grows
<1>3. Requested'
  BY <1>2 DEF Requested, Grows, WellFormed
<1>4. ops' \in 0..MaxOps
  BY <1>1, BoundsAssumption DEF TypeOK
<1>5. QED BY <1>2, <1>3, <1>4 DEF Write, fileVars

(* The monitor takes the first operation of the log.                       *)
LEMMA TakenFirst ==
    ASSUME TypeOK, Requested, NEW code, Taken(code)
    PROVE  /\ Head(pending) = pending[1] /\ pending[1] \in Operation /\ WellFormed(pending[1])
           /\ pending[1].code = code
           /\ pending' \in Seq(Operation) /\ Requested' /\ Shrinks
           /\ ~down /\ UNCHANGED <<ops, restarts, live, known, used, regular, reused, wrongRev>>
<1>1. pending \in Seq(Operation) /\ pending # <<>> /\ pending' = Tail(pending) /\ Head(pending).code = code
  BY DEF TypeOK, Operation, Taken
<1>2. Len(pending) \in Nat \ {0}
  BY <1>1, EmptySeq, LenProperties
<1>3. /\ pending' \in Seq(Operation) /\ Len(pending') = Len(pending) - 1
      /\ \A i \in 1..Len(pending') : pending'[i] = pending[i + 1]
  BY <1>1, HeadTailProperties
<1>4. Head(pending) = pending[1] /\ pending[1] \in Operation
  BY <1>1, <1>2
<1>5. 1 \in 1..Len(pending) /\ \A i \in 1..Len(pending') : i + 1 \in 1..Len(pending)
  BY <1>2, <1>3
<1>6. Requested'
  BY <1>3, <1>5 DEF Requested, WellFormed
<1>7. QED BY <1>1, <1>2, <1>3, <1>4, <1>5, <1>6 DEF Shrinks, Requested, Taken

(* Where streams are opened and records are put.                           *)
LEMMA Places ==
    ASSUME TypeOK
    PROVE  /\ Len(data) \in Nat /\ Len(index) \in Nat /\ OpenOffset \in {0, Header}
           /\ EndOfFile = Place(Len(data) + 1) /\ EndOfFile \in Nat /\ EndOfFile - OpenOffset \in Nat
           /\ \A k \in 1..Len(data) : RecordAt(Place(k)) = k
           /\ \A raw : RecordAt(raw) # 0 => RecordAt(raw) \in 1..Len(data)
           /\ \A j, k \in Nat : Place(j) = Place(k) => j = k
<1>1. data \in Seq(RecordType) /\ index \in Seq(IndexEntry)
  BY DEF TypeOK, IndexEntry
<1>2. Len(data) \in Nat /\ DOMAIN data = 1..Len(data) /\ Len(index) \in Nat
  BY <1>1, LenProperties
<1>3. OpenOffset \in {0, Header}
  BY DEF OpenOffset, TypeOK
<1>4. EndOfFile = Place(Len(data) + 1) /\ EndOfFile \in Nat /\ EndOfFile - OpenOffset \in Nat
  BY <1>2, <1>3 DEF EndOfFile, Place, Header, RecLen
<1>5. \A j, k \in Nat : Place(j) = Place(k) => j = k
  BY DEF Place, Header, RecLen
<1>6. ASSUME NEW k \in 1..Len(data) PROVE RecordAt(Place(k)) = k
  <2> DEFINE ks == {j \in DOMAIN data : Place(j) = Place(k)}
  <2>1. ks = {k}
    BY <1>2, <1>5
  <2>2. RecordAt(Place(k)) = IF ks = {} THEN 0 ELSE CHOOSE j \in ks : TRUE
    BY DEF RecordAt
  <2> HIDE DEF ks
  <2>3. QED BY <2>1, <2>2
<1>7. ASSUME NEW raw, RecordAt(raw) # 0 PROVE RecordAt(raw) \in 1..Len(data)
  BY <1>2, <1>7 DEF RecordAt
<1>8. QED BY <1>2, <1>3, <1>4, <1>5, <1>6, <1>7

(* The places of the file are fixed.                                       *)
LEMMA PlaceNext == \A k : Place(k)' = Place(k)
BY DEF Place, Header, RecLen

(* What find of the index gives: an entry with that id, if there is one.   *)
LEMMA EntryIs ==
    ASSUME TypeOK, NEW id
    PROVE  /\ Entry(id) = 0 => ~Indexed(id)
           /\ Entry(id) # 0 => Entry(id) \in 1..Len(index) /\ index[Entry(id)].id = id
<1> DEFINE is == {i \in DOMAIN index : index[i].id = id}
<1>1. DOMAIN index = 1..Len(index) /\ Len(index) \in Nat
  <2>1. index \in Seq(IndexEntry)
    BY DEF TypeOK, IndexEntry
  <2>2. QED BY <2>1, LenProperties
<1>2. Entry(id) = IF is = {} THEN 0 ELSE CHOOSE i \in is : \A j \in is : i <= j
  BY DEF Entry
<1>3. is \in SUBSET Nat /\ 0 \notin is
  BY <1>1
<1>4. is = {} => ~Indexed(id)
  BY <1>1 DEF Indexed
<1>5. \A i \in is : i \in 1..Len(index) /\ index[i].id = id
  BY <1>1
<1> HIDE DEF is
<1>6. is # {} => Entry(id) \in is
  <2> SUFFICES ASSUME is # {} PROVE Entry(id) \in is
    OBVIOUS
  <2>1. \E i \in is : \A j \in is : i <= j
    BY <1>3, Least
  <2>2. QED BY <1>2, <2>1
<1>7. QED BY <1>2, <1>3, <1>4, <1>5, <1>6

(* A record with a new status, and an entry with a new place.              *)
LEMMA MarkedIs ==
    ASSUME TypeOK, NEW k \in 1..Len(data), NEW status \in {Active, Deleted, Updated}
    PROVE  /\ Marked(k, status) \in Seq(RecordType) /\ Len(Marked(k, status)) = Len(data)
           /\ \A j \in 1..Len(data) : /\ Marked(k, status)[j].id = data[j].id
                                      /\ Marked(k, status)[j].status = IF j = k THEN status ELSE data[j].status
<1>1. data \in Seq(RecordType) /\ data[k] \in RecordType /\ \A j \in 1..Len(data) : data[j] \in RecordType
  BY DEF TypeOK
<1>2. PICK r : r = [data[k] EXCEPT !.status = status]
  OBVIOUS
<1>3. r \in RecordType /\ r.id = data[k].id /\ r.status = status
  BY <1>1, <1>2 DEF RecordType
<1>4. Marked(k, status) = [data EXCEPT ![k] = r]
  BY <1>2 DEF Marked
<1>5. /\ Marked(k, status) \in Seq(RecordType) /\ Len(Marked(k, status)) = Len(data)
      /\ \A j \in 1..Len(data) : Marked(k, status)[j] = IF j = k THEN r ELSE data[j]
  BY <1>1, <1>3, <1>4, ExceptSeq
<1>6. QED BY <1>3, <1>5

(* The entry that moves is the only one that changes.                      *)
LEMMA MovedIs ==
    ASSUME TypeOK, NEW e \in 1..Len(index)
    PROVE  /\ Moved(e) \in Seq(IndexEntry) /\ Len(Moved(e)) = Len(index)
           /\ \A d \in 1..Len(index) : /\ Moved(e)[d].id = index[d].id
                                       /\ Moved(e)[d].raw = IF d = e THEN EndOfFile ELSE index[d].raw
<1>0. index \in Seq(IndexEntry)
  BY DEF TypeOK, IndexEntry
<1>1. index \in Seq(IndexEntry) /\ index[e] \in IndexEntry
  BY <1>0
<1>2. PICK r : r = [index[e] EXCEPT !.pos = EndOfFile - OpenOffset, !.raw = EndOfFile]
  OBVIOUS
<1>3. r \in IndexEntry /\ r.id = index[e].id /\ r.raw = EndOfFile
  BY <1>1, <1>2, Places DEF IndexEntry
<1>4. Moved(e) = [index EXCEPT ![e] = r]
  BY <1>1, <1>2 DEF Moved, IndexEntry
<1>5. /\ Moved(e) \in Seq(IndexEntry) /\ Len(Moved(e)) = Len(index)
      /\ \A d \in 1..Len(index) : Moved(e)[d] = IF d = e THEN r ELSE index[d]
  BY <1>1, <1>3, <1>4, ExceptSeq
<1>6. QED BY <1>3, <1>5

----------------------------------------------------------------------------
(* The log.                                                                *)

(* What an operation will find does not depend on those behind it.         *)
LEMMA ReachedGrows ==
    ASSUME NEW op, NEW n \in Nat, n = Len(pending), Grows(op), data' = data, index' = index,
           NEW id, NEW j \in 1..(n + 1)
    PROVE  /\ Reached(id, j) => Reached(id, j)'
           /\ Unheard(id, j) => Unheard(id, j)'
           /\ op.code # "drop" /\ Reached(id, n + 1) => Reached(id, n + 2)'
           /\ op.code = "insert" /\ op.id = id => Reached(id, n + 2)'
<1>1. /\ pending'[n + 1] = op
      /\ \A i \in 1..n : pending'[i] = pending[i]
  BY DEF Grows
<1>2. \A i \in 1..n : Inserts(i, id)' <=> Inserts(i, id)
  BY <1>1 DEF Inserts
<1>3. (Stored(id)' <=> Stored(id)) /\ (Indexed(id)' <=> Indexed(id))
  BY DEF Stored, Indexed
<1>4. ASSUME Reached(id, j) PROVE Reached(id, j)'
  <2>1. CASE Stored(id) /\ \A m \in 1..(j - 1) : pending[m].code # "drop"
    <3>1. \A m \in 1..(j - 1) : pending'[m].code # "drop"
      BY <1>1, <2>1
    <3>2. QED BY <1>3, <2>1, <3>1 DEF Reached
  <2>2. ASSUME NEW i \in 1..(j - 1), Inserts(i, id), \A m \in (i + 1)..(j - 1) : pending[m].code # "drop"
        PROVE  Reached(id, j)'
    <3>1. \A m \in (i + 1)..(j - 1) : pending'[m].code # "drop"
      BY <1>1, <2>2
    <3>2. Inserts(i, id)'
      BY <1>2, <2>2
    <3>3. QED BY <3>1, <3>2 DEF Reached
  <2>3. QED BY <1>4, <2>1, <2>2 DEF Reached
<1>5. ASSUME Unheard(id, j) PROVE Unheard(id, j)'
  BY <1>2, <1>3, <1>5 DEF Unheard
<1>6. ASSUME op.code # "drop", Reached(id, n + 1) PROVE Reached(id, n + 2)'
  <2>0. (n + 1) - 1 = n /\ (n + 2) - 1 = n + 1
    OBVIOUS
  <2>1. CASE Stored(id) /\ \A m \in 1..n : pending[m].code # "drop"
    <3>1. \A m \in 1..(n + 1) : pending'[m].code # "drop"
      BY <1>1, <1>6, <2>1
    <3>2. QED BY <1>3, <2>0, <2>1, <3>1 DEF Reached
  <2>2. ASSUME NEW i \in 1..n, Inserts(i, id), \A m \in (i + 1)..n : pending[m].code # "drop"
        PROVE  Reached(id, n + 2)'
    <3>1. \A m \in (i + 1)..(n + 1) : pending'[m].code # "drop"
      BY <1>1, <1>6, <2>2
    <3>2. Inserts(i, id)' /\ i \in 1..(n + 1)
      BY <1>2, <2>2
    <3>3. QED BY <2>0, <3>1, <3>2 DEF Reached
  <2>3. QED BY <1>6, <2>0, <2>1, <2>2 DEF Reached
<1>7. ASSUME op.code = "insert", op.id = id PROVE Reached(id, n + 2)'
  <2>1. (n + 2) - 1 = n + 1 /\ n + 1 \in 1..(n + 1) /\ (n + 1 + 1)..(n + 1) = {}
    OBVIOUS
  <2>2. Inserts(n + 1, id)'
    BY <1>1, <1>7 DEF Inserts
  <2>3. QED BY <2>1, <2>2 DEF Reached
<1>8. QED BY <1>4, <1>5, <1>6, <1>7

(* An operation is found what was foreseen when those before it have been  *)
(* applied: a drop takes what was stored, an insert stores.                *)
LEMMA ReachedShrinks ==
    ASSUME NEW n \in Nat \ {0}, n = Len(pending), Shrinks,
           pending[1].code # "drop" => \A x : Stored(x) => Stored(x)',
           \A x : Inserts(1, x) => Stored(x)',
           NEW id, NEW j \in 2..(n + 1), Reached(id, j)
    PROVE  Reached(id, j - 1)'
<1>0. j \in Nat /\ j - 1 \in 1..n /\ j - 2 \in 0..(n - 1) /\ (j - 1) - 1 = j - 2
  OBVIOUS
<1>1. \A i \in 1..(n - 1) : pending'[i] = pending[i + 1]
  BY DEF Shrinks
<1>2. \A i \in 2..n : i - 1 \in 1..(n - 1) /\ (i - 1) + 1 = i
  OBVIOUS
<1>3. \A i \in 2..n : pending'[i - 1] = pending[i]
  BY <1>1, <1>2
<1>4. ASSUME NEW a \in 1..(j - 1), \A m \in (a + 1)..(j - 1) : pending[m].code # "drop"
      PROVE  \A m \in a..(j - 2) : pending'[m].code # "drop"
  <2> SUFFICES ASSUME NEW m \in a..(j - 2) PROVE pending'[m].code # "drop"
    OBVIOUS
  <2>1. m + 1 \in (a + 1)..(j - 1) /\ m \in 1..(n - 1)
    BY <1>0
  <2>2. QED BY <1>1, <1>4, <2>1
<1>5. CASE Stored(id) /\ \A m \in 1..(j - 1) : pending[m].code # "drop"
  <2>1. 1 \in 1..(j - 1) /\ \A m \in 2..(j - 1) : m \in 1..(j - 1)
    OBVIOUS
  <2>2. Stored(id)'
    BY <1>5, <2>1
  <2>a. PICK a \in 1..(j - 1) : a = 1
    BY <2>1
  <2>b. \A m \in (a + 1)..(j - 1) : pending[m].code # "drop"
    BY <1>5, <2>1, <2>a
  <2>c. \A m \in a..(j - 2) : pending'[m].code # "drop"
    BY <1>4, <2>b
  <2>3. \A m \in 1..(j - 2) : pending'[m].code # "drop"
    BY <2>a, <2>c
  <2>4. QED BY <1>0, <2>2, <2>3 DEF Reached
<1>6. ASSUME NEW i \in 1..(j - 1), Inserts(i, id), \A m \in (i + 1)..(j - 1) : pending[m].code # "drop"
      PROVE  Reached(id, j - 1)'
  <2>1. \A m \in i..(j - 2) : pending'[m].code # "drop"
    BY <1>4, <1>6
  <2>2. CASE i = 1
    <3>1. Stored(id)'
      BY <1>6, <2>2
    <3>2. QED BY <1>0, <2>1, <2>2, <3>1 DEF Reached
  <2>3. CASE i # 1
    <3>1. i - 1 \in 1..(j - 2) /\ i \in 2..n /\ (i - 1) + 1 = i
      BY <1>0, <2>3
    <3>2. Inserts(i - 1, id)'
      BY <1>3, <1>6, <3>1 DEF Inserts
    <3>3. \A m \in ((i - 1) + 1)..(j - 2) : pending'[m].code # "drop"
      BY <2>1, <3>1
    <3>4. QED BY <1>0, <3>1, <3>2, <3>3 DEF Reached
  <2>4. QED BY <2>2, <2>3
<1>7. QED BY <1>5, <1>6 DEF Reached

(* What is foreseen stays so when the first operation is applied.          *)
LEMMA ForeseenShrinks ==
    ASSUME Shrinks, Foreseen, known' = known,
           pending[1].code # "drop" => \A x : Stored(x) => Stored(x)',
           \A x : Inserts(1, x) => Stored(x)',
           \A x : Indexed(x)' => Indexed(x) \/ Inserts(1, x)
    PROVE  Foreseen'
<1>0. PICK n \in Nat \ {0} : n = Len(pending)
  BY DEF Shrinks
<1>1. Len(pending') = n - 1 /\ \A i \in 1..(n - 1) : pending'[i] = pending[i + 1]
  BY <1>0 DEF Shrinks
<1>2. ASSUME NEW id, NEW j \in 2..(n + 1), Reached(id, j) PROVE Reached(id, j - 1)'
  BY <1>0, <1>2, ReachedShrinks
<1>3. ASSUME NEW id, NEW j \in 2..(n + 1), Unheard(id, j) PROVE Unheard(id, j - 1)'
  <2>1. 1 \in 1..(j - 1) /\ \A i \in 1..((j - 1) - 1) : i \in 1..(n - 1) /\ i + 1 \in 1..(j - 1)
    OBVIOUS
  <2>2. ~Indexed(id)'
    BY <1>3, <2>1 DEF Unheard
  <2>3. \A i \in 1..((j - 1) - 1) : ~Inserts(i, id)'
    <3> SUFFICES ASSUME NEW i \in 1..((j - 1) - 1) PROVE ~Inserts(i, id)'
      OBVIOUS
    <3>1. ~Inserts(i + 1, id) /\ pending'[i] = pending[i + 1]
      BY <1>1, <1>3, <2>1 DEF Unheard
    <3>2. QED BY <3>1 DEF Inserts
  <2>4. QED BY <2>2, <2>3 DEF Unheard
<1>4. ASSUME NEW id \in known' PROVE Reached(id, n)'
  <2>1. Reached(id, n + 1) /\ n + 1 \in 2..(n + 1) /\ (n + 1) - 1 = n
    BY <1>0, <1>4 DEF Foreseen
  <2>2. Reached(id, (n + 1) - 1)'
    BY <1>2, <2>1
  <2>3. QED BY <2>1, <2>2
<1>5. ASSUME NEW i \in 1..(n - 1)
      PROVE  (/\ pending[i].code = "update" => Reached(pending[i].id, i)
              /\ pending[i].code = "remove" => Reached(pending[i].id, i) \/ Unheard(pending[i].id, i))'
  <2>1. i + 1 \in 2..(n + 1) /\ i + 1 \in 1..n /\ (i + 1) - 1 = i /\ pending'[i] = pending[i + 1]
    BY <1>1
  <2>2. PICK id : id = pending[i + 1].id /\ id = pending'[i].id
    BY <2>1
  <2>3. /\ pending[i + 1].code = "update" => Reached(id, i + 1)
        /\ pending[i + 1].code = "remove" => Reached(id, i + 1) \/ Unheard(id, i + 1)
    BY <1>0, <2>1, <2>2 DEF Foreseen
  <2>4. PICK j \in 2..(n + 1) : j = i + 1 /\ j - 1 = i
    BY <2>1
  <2>5. (Reached(id, j) => Reached(id, j - 1)') /\ (Unheard(id, j) => Unheard(id, j - 1)')
    BY <1>2, <1>3
  <2>6. (Reached(id, i + 1) => Reached(id, i)') /\ (Unheard(id, i + 1) => Unheard(id, i)')
    BY <2>4, <2>5
  <2>7. /\ pending'[i].code = "update" => Reached(id, i)'
        /\ pending'[i].code = "remove" => Reached(id, i)' \/ Unheard(id, i)'
    BY <2>1, <2>3, <2>6
  <2>8. QED BY <2>2, <2>7 DEF Reached, Unheard, Stored, Indexed, Inserts
<1>6. PICK k \in Nat : k = n - 1 /\ k + 1 = n
  OBVIOUS
<1>7. (\A id \in known : Reached(id, Len(pending) + 1))'
  BY <1>1, <1>4, <1>6 DEF Reached
<1>8. QED BY <1>1, <1>5, <1>7 DEF Foreseen

(* A request keeps what is sound: an id that is inserted is new, and one   *)
(* that is updated or removed is known, or was never inserted.             *)
LEMMA GrowsSound ==
    ASSUME Sound, NEW n \in Nat, n = Len(pending), NEW op, Grows(op), UNCHANGED <<data, index, down>>,
           op.code \in {"insert", "update", "remove", "drop"},
           op.code = "insert" => op.id \notin used,
           op.code = "update" => op.id \in known,
           op.code = "remove" => op.id \in known \/ op.id \notin used,
           used' = IF op.code = "insert" THEN used \cup {op.id} ELSE used,
           known' = IF op.code = "insert" THEN known \cup {op.id}
                    ELSE IF op.code = "drop" THEN {} ELSE known
    PROVE  Sound'
<1>1. Once /\ Latest /\ Foreseen /\ ~down'
  BY DEF Sound
<1>2. Len(pending') = n + 1 /\ pending'[n + 1] = op /\ \A i \in 1..n : pending'[i] = pending[i]
  BY DEF Grows
<1>3. \A i \in 1..(n + 1) : i \in 1..n \/ i = n + 1
  OBVIOUS
<1>4. Once'
  <2>1. \A i \in 1..n : \A x : Inserts(i, x)' <=> Inserts(i, x)
    BY <1>2 DEF Inserts
  <2>2. \A x : Inserts(n + 1, x)' <=> op.code = "insert" /\ op.id = x
    BY <1>2 DEF Inserts
  <2>3. \A i \in 1..n : \A x : Inserts(i, x) => x \in used
    BY <1>1 DEF Once, Inserts
  <2>4. (\A d, e \in 1..Len(index) : index[d].id = index[e].id => d = e)'
    BY <1>1 DEF Once
  <2>5. \A i, j \in 1..(n + 1) : \A x : Inserts(i, x)' /\ Inserts(j, x)' => i = j
    <3>1. \A i, j \in 1..n : \A x : Inserts(i, x) /\ Inserts(j, x) => i = j
      BY <1>1 DEF Once, Inserts
    <3>2. QED BY <1>3, <2>1, <2>2, <2>3, <3>1
  <2>6. (\A i, j \in 1..Len(pending) : Inserts(i, pending[i].id) /\ Inserts(j, pending[i].id) => i = j)'
    BY <1>2, <2>5 DEF Inserts
  <2>7. (\A i \in 1..Len(pending), e \in 1..Len(index) : ~Inserts(i, index[e].id))'
    <3> SUFFICES ASSUME NEW i \in 1..(n + 1), NEW e \in 1..Len(index), NEW x, x = index[e].id,
                        Inserts(i, x)'
                 PROVE  FALSE
      BY <1>2 DEF Inserts
    <3>1. ~(i \in 1..n)
      BY <1>1, <2>1 DEF Once
    <3>2. op.code = "insert" /\ op.id = x
      BY <1>3, <2>2, <3>1
    <3>3. QED BY <1>1, <3>2 DEF Once
  <2>8. (\A i \in 1..Len(pending) : pending[i].code = "insert" => pending[i].id \in used)'
    BY <1>1, <1>2, <1>3 DEF Once
  <2>9. (\A e \in 1..Len(index) : index[e].id \in used)' /\ known' \subseteq used'
    BY <1>1 DEF Once
  <2>10. QED BY <2>4, <2>6, <2>7, <2>8, <2>9 DEF Once
<1>5. Latest'
  BY <1>1 DEF Latest
<1>6. Foreseen'
  <2>1. ASSUME NEW id, NEW j \in 1..(n + 1)
        PROVE  /\ Reached(id, j) => Reached(id, j)'
               /\ Unheard(id, j) => Unheard(id, j)'
               /\ op.code # "drop" /\ Reached(id, n + 1) => Reached(id, n + 2)'
               /\ op.code = "insert" /\ op.id = id => Reached(id, n + 2)'
    BY ReachedGrows
  <2>2. ASSUME NEW id \in known' PROVE Reached(id, n + 2)'
    <3>1. n + 1 \in 1..(n + 1)
      OBVIOUS
    <3>2. op.code # "drop"
      BY <2>2
    <3>3. CASE id \in known
      <4>1. Reached(id, n + 1)
        BY <1>1, <3>3 DEF Foreseen
      <4>2. QED BY <2>1, <3>1, <3>2, <4>1
    <3>4. CASE id \notin known
      <4>1. op.code = "insert" /\ op.id = id
        BY <2>2, <3>4
      <4>2. QED BY <2>1, <3>1, <4>1
    <3>5. QED BY <3>3, <3>4
  <2>3. (\A id \in known : Reached(id, Len(pending) + 1))'
    <3>1. Len(pending') + 1 = n + 2
      BY <1>2
    <3>2. QED BY <2>2, <3>1 DEF Reached
  <2>4. ASSUME NEW i \in 1..(n + 1)
        PROVE  (/\ pending[i].code = "update" => Reached(pending[i].id, i)
                /\ pending[i].code = "remove" => Reached(pending[i].id, i) \/ Unheard(pending[i].id, i))'
    <3>1. PICK id : id = pending'[i].id
      OBVIOUS
    <3>2. /\ pending'[i].code = "update" => Reached(id, i)
          /\ pending'[i].code = "remove" => Reached(id, i) \/ Unheard(id, i)
      <4>1. CASE i \in 1..n
        BY <1>1, <1>2, <3>1, <4>1 DEF Foreseen
      <4>2. CASE i = n + 1
        <5>1. pending'[i] = op /\ id = op.id
          BY <1>2, <3>1, <4>2
        <5>2. id \in known => Reached(id, i)
          BY <1>1, <4>2 DEF Foreseen
        <5>3. id \notin used => Unheard(id, i)
          <6>1. i - 1 = n
            BY <4>2
          <6>2. \A m \in 1..n : Inserts(m, id) => id \in used
            BY <1>1 DEF Once, Inserts
          <6>3. Indexed(id) => id \in used
            BY <1>1 DEF Once, Indexed
          <6>4. QED BY <6>1, <6>2, <6>3 DEF Unheard
        <5>4. QED BY <5>1, <5>2, <5>3
      <4>3. QED BY <1>3, <4>1, <4>2
    <3>3. /\ pending'[i].code = "update" => Reached(id, i)'
          /\ pending'[i].code = "remove" => Reached(id, i)' \/ Unheard(id, i)'
      BY <2>1, <3>2
    <3>4. QED BY <3>1, <3>3 DEF Reached, Unheard, Stored, Indexed, Inserts
  <2>5. QED BY <1>2, <2>3, <2>4 DEF Foreseen
<1>7. QED BY <1>1, <1>4, <1>5, <1>6 DEF Sound

(* insert, update, remove and dropNamespace of a client.                   *)
LEMMA RequestStep ==
    ASSUME StoreInv,
           \/ \E d \in Doc : Insert(d) \/ Update(d)
           \/ \E id \in Id, rev \in Rev : RemoveDoc(id, rev)
           \/ DropNamespace
    PROVE  StoreInv'
<1>0. TypeOK /\ Requested /\ (Good => Sound)
  BY DEF StoreInv, Requested, Good, Sound
<1>1. PICK n : n = Len(pending)
  OBVIOUS
<1>2. ASSUME NEW op \in Operation, WellFormed(op), Write(op), live' \in Seq(Doc),
             regular' \in BOOLEAN, reused' \in BOOLEAN, wrongRev' \in BOOLEAN,
             Good' => Good,
             Good' => /\ op.code = "insert" => op.id \notin used
                      /\ op.code = "update" => op.id \in known
                      /\ op.code = "remove" => op.id \in known \/ op.id \notin used,
             op.code = "insert" => op.id \in Id,
             used' = IF op.code = "insert" THEN used \cup {op.id} ELSE used,
             known' = IF op.code = "insert" THEN known \cup {op.id}
                      ELSE IF op.code = "drop" THEN {} ELSE known
      PROVE  StoreInv'
  <2>1. /\ pending' \in Seq(Operation) /\ Requested' /\ Grows(op) /\ Len(pending) \in Nat
        /\ ops' \in 0..MaxOps
        /\ UNCHANGED <<data, exists, catalog, isOpen, offset, index, down, restarts, shifted>>
    BY <1>0, <1>2, Written
  <2>2. known' \subseteq Id /\ used' \subseteq Id
    BY <1>0, <1>2 DEF TypeOK
  <2>3. TypeOK'
    BY <1>0, <1>2, <2>1, <2>2 DEF TypeOK, Operation
  <2>4. ASSUME Good' PROVE Sound'
    <3>1. Sound /\ op.code \in {"insert", "update", "remove", "drop"} /\ n \in Nat
      BY <1>0, <1>1, <1>2, <2>1, <2>4 DEF Operation
    <3>2. QED BY <1>1, <1>2, <2>1, <2>4, <3>1, GrowsSound
  <2>5. QED BY <2>1, <2>3, <2>4 DEF StoreInv, Requested, Good, Sound
<1>3. live \in Seq(Doc) /\ regular \in BOOLEAN /\ reused \in BOOLEAN /\ wrongRev \in BOOLEAN
  BY <1>0 DEF TypeOK
<1>4. ASSUME NEW d \in Doc, Insert(d) PROVE StoreInv'
  <2>1. PICK op : op = [code |-> "insert", id |-> d.id, val |-> d.val, rev |-> d.rev]
    OBVIOUS
  <2>2. op \in Operation /\ op.code = "insert" /\ op.id = d.id /\ op.id \in Id /\ WellFormed(op)
    BY <2>1 DEF Operation, Doc, WellFormed
  <2>3. Write(op) /\ known' = known \cup {op.id} /\ used' = used \cup {op.id}
    BY <1>4, <2>1, <2>2 DEF Insert
  <2>4. live' \in Seq(Doc)
    BY <1>3, <1>4, LinkedMapType DEF Insert
  <2>5. /\ regular' = (regular /\ \A i \in DOMAIN live : live[i].id # d.id)
        /\ reused' = (reused \/ d.id \in used) /\ wrongRev' = wrongRev /\ shifted' = shifted
    BY <1>4 DEF Insert, Write
  <2>6. regular' \in BOOLEAN /\ reused' \in BOOLEAN /\ wrongRev' \in BOOLEAN
    BY <1>3, <2>5
  <2>7. (Good' => Good) /\ (Good' => op.id \notin used)
    BY <2>2, <2>5 DEF Good
  <2>8. QED BY <1>2, <2>2, <2>3, <2>4, <2>6, <2>7
<1>5. ASSUME NEW d \in Doc, Update(d) PROVE StoreInv'
  <2>1. PICK op : op = [code |-> "update", id |-> d.id, val |-> d.val, rev |-> d.rev]
    OBVIOUS
  <2>2. op \in Operation /\ op.code = "update" /\ op.id = d.id /\ WellFormed(op)
    BY <2>1 DEF Operation, Doc, WellFormed
  <2>3. Write(op) /\ known' = known /\ used' = used
    BY <1>5, <2>1 DEF Update
  <2>4. live' \in Seq(Doc)
    BY <1>3, <1>5, LinkedMapType DEF Update
  <2>5. /\ regular' = (regular /\ d.id \in known)
        /\ reused' = reused /\ wrongRev' = wrongRev /\ shifted' = shifted
    BY <1>5 DEF Update, Write
  <2>6. regular' \in BOOLEAN /\ reused' \in BOOLEAN /\ wrongRev' \in BOOLEAN
    BY <1>3, <2>5
  <2>7. (Good' => Good) /\ (Good' => op.id \in known)
    BY <2>2, <2>5 DEF Good
  <2>8. QED BY <1>2, <2>2, <2>3, <2>4, <2>6, <2>7
<1>6. ASSUME NEW id \in Id, NEW rev \in Rev, RemoveDoc(id, rev) PROVE StoreInv'
  <2>1. PICK op : op = [code |-> "remove", id |-> id, val |-> None, rev |-> rev]
    OBVIOUS
  <2>2. op \in Operation /\ op.code = "remove" /\ op.id = id /\ WellFormed(op)
    BY <2>1 DEF Operation, WellFormed
  <2>3. Write(op) /\ known' = known /\ used' = used
    BY <1>6, <2>1 DEF RemoveDoc
  <2>4. live' \in Seq(Doc)
    BY <1>3, <1>6, LinkedMapType DEF RemoveDoc
  <2>5. /\ regular' = regular
        /\ reused' = (reused \/ id \in used \ known) /\ shifted' = shifted
    BY <1>6 DEF RemoveDoc, Write
  <2>6. regular' \in BOOLEAN /\ reused' \in BOOLEAN /\ wrongRev' \in BOOLEAN
    BY <1>3, <1>6, <2>5 DEF RemoveDoc
  <2>7. (Good' => Good) /\ (Good' => op.id \in known \/ op.id \notin used)
    BY <2>2, <2>5 DEF Good
  <2>8. QED BY <1>2, <2>2, <2>3, <2>4, <2>6, <2>7
<1>7. CASE DropNamespace
  <2>1. PICK op : op = [code |-> "drop", id |-> None, val |-> None, rev |-> None]
    OBVIOUS
  <2>2. op \in Operation /\ op.code = "drop" /\ WellFormed(op)
    BY <2>1 DEF Operation, WellFormed
  <2>3. Write(op) /\ known' = {} /\ used' = used
    BY <1>7, <2>1 DEF DropNamespace
  <2>4. live' \in Seq(Doc)
    BY <1>7 DEF DropNamespace
  <2>5. regular' = regular /\ reused' = reused /\ wrongRev' = wrongRev /\ shifted' = shifted
    BY <1>7 DEF DropNamespace, Write
  <2>6. Good' => Good
    BY <2>5 DEF Good
  <2>7. QED BY <1>2, <1>3, <2>2, <2>3, <2>4, <2>5, <2>6
<1>8. QED BY <1>4, <1>5, <1>6, <1>7

----------------------------------------------------------------------------
(* The monitor.                                                            *)

\* Entries keep their ids; a new one is for the insert that is applied.
Indexes ==
  /\ Len(index') \in {Len(index), Len(index) + 1}
  /\ \A e \in 1..Len(index) : index'[e].id = index[e].id
  /\ Len(index') # Len(index) => Inserts(1, index'[Len(index) + 1].id)

(* An insert that leaves the log for the index is still there once.        *)
LEMMA OnceShrinks ==
    ASSUME Once, Shrinks, Indexes, Len(index) \in Nat, known' = known, used' = used
    PROVE  Once' /\ \A x : Indexed(x)' => Indexed(x) \/ Inserts(1, x)
<1>0. PICK n \in Nat \ {0} : n = Len(pending)
  BY DEF Shrinks
<1>1. Len(pending') = n - 1 /\ \A i \in 1..(n - 1) : pending'[i] = pending[i + 1]
  BY <1>0 DEF Shrinks
<1>2. PICK m \in Nat : m = Len(index)
  OBVIOUS
<1>3. PICK p \in {m, m + 1} : p = Len(index')
  BY <1>2 DEF Indexes
<1>4. \A e \in 1..p : (e \in 1..m /\ index'[e].id = index[e].id) \/ (e = m + 1 /\ Inserts(1, index'[e].id))
  BY <1>2, <1>3 DEF Indexes
<1>5. \A i \in 1..(n - 1) : i + 1 \in 1..n /\ i + 1 # 1
  OBVIOUS
<1>6. \A i \in 1..(n - 1) : \A x : Inserts(i, x)' => Inserts(i + 1, x)
  BY <1>1 DEF Inserts
<1>7. \A i, j \in 1..n : \A x : Inserts(i, x) /\ Inserts(j, x) => i = j
  BY <1>0 DEF Once, Inserts
<1>8. 1 \in 1..n /\ \A i \in 1..n : \A e \in 1..m : ~Inserts(i, index[e].id)
  BY <1>0, <1>2 DEF Once
<1>9. \A i \in 1..n : \A x : Inserts(i, x) => x \in used
  BY <1>0 DEF Once, Inserts
<1>10. \A d, e \in 1..p : index'[d].id = index'[e].id => d = e
  <2>1. \A d, e \in 1..m : index[d].id = index[e].id => d = e
    BY <1>2 DEF Once
  <2>2. QED BY <1>4, <1>8, <2>1
<1>11. \A i, j \in 1..(n - 1) : \A x : Inserts(i, x)' /\ Inserts(j, x)' => i = j
  <2> SUFFICES ASSUME NEW i \in 1..(n - 1), NEW j \in 1..(n - 1), NEW x, Inserts(i, x)', Inserts(j, x)'
               PROVE  i = j
    OBVIOUS
  <2>1. i + 1 = j + 1
    BY <1>5, <1>6, <1>7
  <2>2. QED BY <2>1
<1>12. ASSUME NEW i \in 1..(n - 1), NEW e \in 1..p, NEW x, x = index'[e].id, Inserts(i, x)'
       PROVE  FALSE
  <2>1. Inserts(i + 1, x) /\ i + 1 \in 1..n /\ i + 1 # 1
    BY <1>5, <1>6, <1>12
  <2>2. ~Inserts(1, x)
    BY <1>7, <1>8, <2>1
  <2>3. e \in 1..m /\ x = index[e].id
    BY <1>4, <1>12, <2>2
  <2>4. QED BY <1>8, <2>1, <2>3
<1>13. \A e \in 1..p : index'[e].id \in used
  <2>1. \A e \in 1..m : index[e].id \in used
    BY <1>2 DEF Once
  <2>2. QED BY <1>4, <1>8, <1>9, <2>1
<1>14. \A i \in 1..(n - 1) : pending'[i].code = "insert" => pending'[i].id \in used
  BY <1>1, <1>5, <1>0 DEF Once
<1>15. Once'
  <2>1. (\A d, e \in 1..Len(index) : index[d].id = index[e].id => d = e)'
    BY <1>3, <1>10
  <2>2. (\A i, j \in 1..Len(pending) : Inserts(i, pending[i].id) /\ Inserts(j, pending[i].id) => i = j)'
    BY <1>1, <1>11 DEF Inserts
  <2>3. (\A i \in 1..Len(pending), e \in 1..Len(index) : ~Inserts(i, index[e].id))'
    BY <1>1, <1>3, <1>12 DEF Inserts
  <2>4. (/\ \A i \in 1..Len(pending) : pending[i].code = "insert" => pending[i].id \in used
         /\ \A e \in 1..Len(index) : index[e].id \in used
         /\ known \subseteq used)'
    BY <1>1, <1>3, <1>13, <1>14 DEF Once
  <2>5. QED BY <2>1, <2>2, <2>3, <2>4 DEF Once
<1>16. \A x : Indexed(x)' => Indexed(x) \/ Inserts(1, x)
  BY <1>2, <1>3, <1>4 DEF Indexed
<1>17. QED BY <1>15, <1>16

(* What a flush has to keep.                                               *)
LEMMA FlushKeeps ==
    ASSUME StoreInv, NEW code, Taken(code), data' \in Seq(RecordType), index' \in Seq(IndexEntry),
           exists' \in BOOLEAN, catalog' \in BOOLEAN, isOpen' \in BOOLEAN, offset' \in {0, Header},
           down' \in BOOLEAN, shifted' \in BOOLEAN, shifted => shifted',
           Sound /\ Good' => /\ ~down' /\ Latest' /\ Indexes
                             /\ code # "drop" => \A x : Stored(x) => Stored(x)'
                             /\ \A x : Inserts(1, x) => Stored(x)'
    PROVE  StoreInv'
<1>0. TypeOK /\ Requested /\ (Good => Sound)
  BY DEF StoreInv, Requested, Good, Sound
<1>1. /\ pending[1].code = code /\ pending' \in Seq(Operation) /\ Requested' /\ Shrinks
      /\ UNCHANGED <<ops, restarts, live, known, used, regular, reused, wrongRev>>
  BY <1>0, TakenFirst
<1>2. TypeOK'
  BY <1>0, <1>1 DEF TypeOK, Operation, IndexEntry
<1>3. ASSUME Good' PROVE Sound'
  <2>1. Good /\ Sound
    BY <1>0, <1>1, <1>3 DEF Good
  <2>2. /\ ~down' /\ Latest' /\ Indexes
        /\ pending[1].code # "drop" => \A x : Stored(x) => Stored(x)'
        /\ \A x : Inserts(1, x) => Stored(x)'
    BY <1>1, <1>3, <2>1
  <2>3. Once' /\ \A x : Indexed(x)' => Indexed(x) \/ Inserts(1, x)
    BY <1>0, <1>1, <2>1, <2>2, OnceShrinks, Places DEF Sound
  <2>4. Foreseen'
    BY <1>1, <2>1, <2>2, <2>3, ForeseenShrinks DEF Sound
  <2>5. QED BY <2>2, <2>3, <2>4 DEF Sound
<1>4. QED BY <1>1, <1>2, <1>3 DEF StoreInv, Requested, Good, Sound

(* The stream that is opened is one of the two kinds.                      *)
LEMMA Opened ==
    ASSUME TypeOK, OpenStream
    PROVE  exists' \in BOOLEAN /\ catalog' \in BOOLEAN /\ isOpen' \in BOOLEAN /\ offset' \in {0, Header}
BY Places DEF OpenStream

(* dropNamespace in the store: no record is left.                          *)
LEMMA DropStep ==
    ASSUME StoreInv, FlushDrop
    PROVE  StoreInv'
<1>0. TypeOK /\ Requested /\ Taken("drop")
  BY DEF StoreInv, Requested, FlushDrop
<1>1. data' = <<>> /\ index' = index /\ UNCHANGED <<down, offset, shifted>>
  BY DEF FlushDrop
<1>2. data' \in Seq(RecordType) /\ index' \in Seq(IndexEntry) /\ Len(data') = 0
  BY <1>0, <1>1 DEF TypeOK, IndexEntry
<1>3. exists' \in BOOLEAN /\ catalog' \in BOOLEAN /\ isOpen' \in BOOLEAN /\ offset' \in {0, Header}
  BY <1>0, <1>1 DEF FlushDrop, TypeOK
<1>4. down' \in BOOLEAN /\ shifted' \in BOOLEAN /\ shifted' = shifted
  BY <1>0, <1>1 DEF TypeOK
<1>5. Latest'
  <2>1. 1..0 = {}
    OBVIOUS
  <2>2. QED BY <1>2, <2>1 DEF Latest
<1>6. Sound => ~down' /\ Indexes
  BY <1>0, <1>1, Places DEF Sound, Indexes
<1>7. \A x : ~Inserts(1, x)
  BY <1>0, TakenFirst DEF Inserts
<1>8. QED BY <1>0, <1>2, <1>3, <1>4, <1>5, <1>6, <1>7, FlushKeeps

(* The index leads to the last version of a document that is stored.       *)
LEMMA Found ==
    ASSUME TypeOK, Once, Latest, NEW id, Stored(id)
    PROVE  /\ Entry(id) \in 1..Len(index) /\ Entry(id) # 0 /\ index[Entry(id)].id = id
           /\ \E j \in 1..Len(data) : /\ data[j].id = id /\ data[j].status # Updated
                                      /\ index[Entry(id)].raw = Place(j)
                                      /\ RecordAt(index[Entry(id)].raw) = j
<1>1. PICK k \in 1..Len(data) : data[k].id = id
  BY DEF Stored
<1>2. PICK j \in 1..Len(data) : data[j].id = id /\ data[j].status # Updated
  BY <1>1 DEF Latest
<1>3. PICK e \in 1..Len(index) : index[e].id = id /\ index[e].raw = Place(j)
  BY <1>2 DEF Latest
<1>4. Entry(id) # 0
  BY <1>3, EntryIs DEF Indexed
<1>5. Entry(id) \in 1..Len(index) /\ index[Entry(id)].id = id
  BY <1>4, EntryIs
<1>6. Entry(id) = e
  BY <1>3, <1>5 DEF Once
<1>7. RecordAt(Place(j)) = j
  BY Places
<1>8. QED BY <1>2, <1>3, <1>4, <1>5, <1>6, <1>7

(* insert in the store: the entry leads to where the record is put.        *)
LEMMA InsertStep ==
    ASSUME StoreInv, FlushInsert
    PROVE  StoreInv'
<1>0. TypeOK /\ Requested /\ Taken("insert") /\ OpenStream
  BY DEF StoreInv, Requested, FlushInsert
<1>1. PICK op : op = pending[1] /\ op = Head(pending)
  BY <1>0, TakenFirst
<1>2. op.code = "insert" /\ op.id \in Id /\ op.val \in Val /\ op.rev \in Rev
  BY <1>0, <1>1, TakenFirst DEF WellFormed
<1>3. PICK r : r = Record(op)
  OBVIOUS
<1>4. r \in RecordType /\ r.id = op.id
  BY <1>2, <1>3 DEF Record, RecordType
<1>5. PICK x : x = [id |-> op.id, pos |-> EndOfFile - OpenOffset, raw |-> EndOfFile]
  OBVIOUS
<1>6. x \in IndexEntry /\ x.id = op.id /\ x.raw = Place(Len(data) + 1)
  BY <1>0, <1>2, <1>5, Places DEF IndexEntry
<1>7. data' = Append(data, r) /\ index' = Append(index, x) /\ down' = down /\ shifted' = shifted
  BY <1>1, <1>3, <1>5 DEF FlushInsert
<1>8. data \in Seq(RecordType) /\ index \in Seq(IndexEntry)
  BY <1>0 DEF TypeOK, IndexEntry
<1>9. PICK n \in Nat : n = Len(data)
  BY <1>0, Places
<1>10. PICK m \in Nat : m = Len(index)
  BY <1>0, Places
<1>11. /\ data' \in Seq(RecordType) /\ Len(data') = n + 1 /\ data'[n + 1] = r
       /\ \A k \in 1..n : data'[k] = data[k]
  BY <1>4, <1>7, <1>8, <1>9, AppendProperties
<1>12. /\ index' \in Seq(IndexEntry) /\ Len(index') = m + 1 /\ index'[m + 1] = x
       /\ \A e \in 1..m : index'[e] = index[e]
  BY <1>6, <1>7, <1>8, <1>10, AppendProperties
<1>13. exists' \in BOOLEAN /\ catalog' \in BOOLEAN /\ isOpen' \in BOOLEAN /\ offset' \in {0, Header}
  BY <1>0, Opened
<1>14. down' \in BOOLEAN /\ shifted' \in BOOLEAN
  BY <1>0, <1>7 DEF TypeOK
<1>15. ASSUME Sound
       PROVE  /\ ~down' /\ Latest' /\ Indexes
              /\ \A y : Stored(y) => Stored(y)'
              /\ \A y : Inserts(1, y) => Stored(y)'
  <2>1. Indexes
    BY <1>1, <1>2, <1>6, <1>10, <1>12 DEF Indexes, Inserts
  <2>2. \A k \in 1..n : k \in 1..(n + 1)
    OBVIOUS
  <2>3. n + 1 \in 1..(n + 1) /\ m + 1 \in 1..(m + 1) /\ \A e \in 1..m : e \in 1..(m + 1)
    OBVIOUS
  <2>4. ASSUME NEW k \in 1..(n + 1)
        PROVE  /\ \E j \in 1..(n + 1) : data'[j].id = data'[k].id /\ data'[j].status # Updated
               /\ data'[k].status # Updated =>
                    \E e \in 1..(m + 1) : index'[e].id = data'[k].id /\ index'[e].raw = Place(k)
    <3>1. CASE k = n + 1
      <4>1. r.status # Updated
        BY <1>3 DEF Record, Active, Updated
      <4>2. QED BY <1>4, <1>6, <1>9, <1>11, <1>12, <2>3, <3>1, <4>1
    <3>2. CASE k \in 1..n
      <4>1. /\ \E j \in 1..n : data[j].id = data[k].id /\ data[j].status # Updated
            /\ data[k].status # Updated =>
                 \E e \in 1..m : index[e].id = data[k].id /\ index[e].raw = Place(k)
        BY <1>9, <1>10, <1>15, <3>2 DEF Sound, Latest
      <4>2. QED BY <1>11, <1>12, <2>2, <2>3, <3>2, <4>1
    <3>3. QED BY <3>1, <3>2
  <2>5. Latest'
    <3>1. Len(data') = n + 1 /\ Len(index') = m + 1
      BY <1>11, <1>12
    <3>2. QED BY <2>4, <3>1, PlaceNext DEF Latest
  <2>6. \A y : Stored(y) => Stored(y)'
    BY <1>9, <1>11, <2>2 DEF Stored
  <2>7. \A y : Inserts(1, y) => Stored(y)'
    BY <1>1, <1>4, <1>11, <2>3 DEF Stored, Inserts
  <2>8. QED BY <1>7, <1>15, <2>1, <2>5, <2>6, <2>7 DEF Sound
<1>16. QED BY <1>0, <1>7, <1>11, <1>12, <1>13, <1>14, <1>15, FlushKeeps

(* The entry of the first operation's document, and the record it leads    *)
(* to.                                                                     *)
LEMMA FirstFound ==
    ASSUME TypeOK, Sound, Requested, NEW code \in {"update", "remove"}, Taken(code),
           code = "remove" => Indexed(pending[1].id)
    PROVE  Stored(pending[1].id)
<1>1. pending[1].code = code /\ Len(pending) \in Nat \ {0}
  BY TakenFirst DEF Shrinks
<1>2. PICK x : x = pending[1].id
  OBVIOUS
<1>3. 1 \in 1..Len(pending) /\ 1..(1 - 1) = {}
  BY <1>1
<1>4. Reached(x, 1) \/ Unheard(x, 1)
  BY <1>1, <1>2, <1>3 DEF Sound, Foreseen
<1>5. Reached(x, 1)
  <2>1. CASE code = "update"
    BY <1>1, <1>2, <1>3, <2>1 DEF Sound, Foreseen
  <2>2. CASE code = "remove"
    BY <1>2, <1>4, <2>2 DEF Unheard
  <2>3. QED BY <2>1, <2>2
<1>6. QED BY <1>2, <1>3, <1>5 DEF Reached

\* A version is marked and the next one appended; an entry moves to it.
Appends(j, r) ==
  /\ Len(data') = Len(data) + 1 /\ data'[Len(data) + 1] = r
  /\ \A k \in 1..Len(data) : /\ data'[k].id = data[k].id
                             /\ data'[k].status = IF k = j THEN Updated ELSE data[k].status
Moves(e) ==
  /\ Len(index') = Len(index)
  /\ \A d \in 1..Len(index) : /\ index'[d].id = index[d].id
                              /\ index'[d].raw = IF d = e THEN EndOfFile ELSE index[d].raw

(* update in the store: the entry moves from the version that is marked to *)
(* the one that is appended.                                               *)
LEMMA UpdateLatest ==
    ASSUME TypeOK, Sound, NEW id, NEW j \in 1..Len(data), data[j].id = id,
           NEW e \in 1..Len(index), index[e].id = id, index[e].raw = Place(j),
           NEW r, r.id = id, r.status = Active, Appends(j, r), Moves(e)
    PROVE  Latest' /\ \A x : Stored(x) => Stored(x)'
<1>1. PICK n \in Nat : n = Len(data)
  BY Places
<1>2. PICK m \in Nat : m = Len(index)
  BY Places
<1>3. j \in 1..n /\ e \in 1..m
  BY <1>1, <1>2
<1>4. Len(data') = n + 1 /\ data'[n + 1] = r
  BY <1>1 DEF Appends
<1>5. \A k \in 1..n : data'[k].id = data[k].id /\ data'[k].status = IF k = j THEN Updated ELSE data[k].status
  BY <1>1 DEF Appends
<1>6. Len(index') = m /\ \A d \in 1..m : /\ index'[d].id = index[d].id
                                        /\ index'[d].raw = IF d = e THEN EndOfFile ELSE index[d].raw
  BY <1>2 DEF Moves
<1>7. EndOfFile = Place(n + 1) /\ \A a, b \in Nat : Place(a) = Place(b) => a = b
  BY <1>1, Places
<1>8. n + 1 \in 1..(n + 1) /\ \A k \in 1..n : k \in 1..(n + 1) /\ k \in Nat
  OBVIOUS
<1>9. r.status # Updated
  BY DEF Active, Updated
<1>10. ASSUME NEW k \in 1..(n + 1)
       PROVE  \E i \in 1..(n + 1) : data'[i].id = data'[k].id /\ data'[i].status # Updated
  <2>1. CASE data'[k].id = id
    BY <1>4, <1>8, <1>9, <2>1
  <2>2. CASE data'[k].id # id
    <3>1. k \in 1..n
      BY <1>4, <2>2
    <3>2. PICK i \in 1..n : data[i].id = data[k].id /\ data[i].status # Updated
      BY <1>1, <3>1 DEF Sound, Latest
    <3>3. i # j
      BY <1>5, <2>2, <3>1, <3>2
    <3>4. data'[i].id = data'[k].id /\ data'[i].status # Updated
      BY <1>5, <3>1, <3>2, <3>3
    <3>5. QED BY <1>8, <3>4
  <2>3. QED BY <2>1, <2>2
<1>11. ASSUME NEW k \in 1..(n + 1), data'[k].status # Updated
       PROVE  \E d \in 1..m : index'[d].id = data'[k].id /\ index'[d].raw = Place(k)
  <2>1. CASE k = n + 1
    BY <1>2, <1>3, <1>4, <1>6, <1>7, <2>1
  <2>2. CASE k \in 1..n
    <3>1. k # j /\ data[k].status # Updated
      BY <1>5, <1>11, <2>2
    <3>2. PICK d \in 1..m : index[d].id = data[k].id /\ index[d].raw = Place(k)
      BY <1>1, <1>2, <2>2, <3>1 DEF Sound, Latest
    <3>3. d # e
      BY <1>3, <1>7, <1>8, <2>2, <3>1, <3>2
    <3>4. index'[d].id = index[d].id /\ index'[d].raw = index[d].raw
      BY <1>6, <3>3
    <3>5. data'[k].id = data[k].id
      BY <1>5, <2>2
    <3>6. QED BY <3>2, <3>4, <3>5
  <2>3. k = n + 1 \/ k \in 1..n
    OBVIOUS
  <2>4. QED BY <2>1, <2>2, <2>3
<1>12. Latest'
  <2>1. ASSUME NEW k \in 1..(n + 1)
        PROVE  /\ \E i \in 1..(n + 1) : data'[i].id = data'[k].id /\ data'[i].status # Updated
               /\ data'[k].status # Updated =>
                    \E d \in 1..m : index'[d].id = data'[k].id /\ index'[d].raw = Place(k)
    BY <1>10, <1>11
  <2>2. Len(data') = n + 1 /\ Len(index') = m
    BY <1>4, <1>6
  <2>3. QED BY <2>1, <2>2, PlaceNext DEF Latest
<1>13. \A x : Stored(x) => Stored(x)'
  BY <1>1, <1>4, <1>5, <1>8 DEF Stored
<1>14. QED BY <1>12, <1>13

(* An update that the monitor takes finds its document: the index leads to *)
(* its last version.                                                       *)
LEMMA UpdateFinds ==
    ASSUME TypeOK, Requested, Sound, FlushUpdate, Good'
    PROVE  \E e \in 1..Len(index), j \in 1..Len(data) :
             /\ index[e].id = pending[1].id /\ index[e].raw = Place(j)
             /\ data[j].id = pending[1].id /\ data[j].status # Updated
             /\ data' = Append(Marked(j, Updated), Record(pending[1]))
             /\ index' = Moved(e) /\ down' = down
<1>0. Taken("update")
  BY DEF FlushUpdate
<1>1. PICK op : op = pending[1] /\ op = Head(pending)
  BY <1>0, TakenFirst
<1>2. PICK e : e = Entry(op.id)
  OBVIOUS
<1>3. PICK k : k = RecordAt(OpenOffset + index[e].pos)
  OBVIOUS
<1>4. \/ e = 0 /\ down' = TRUE /\ UNCHANGED <<data, index, shifted>>
      \/ /\ e # 0
         /\ shifted' = (shifted \/ OpenOffset + index[e].pos # index[e].raw)
         /\ IF k = 0 THEN down' = TRUE /\ UNCHANGED <<data, index>>
            ELSE data' = Append(Marked(k, Updated), Record(op)) /\ index' = Moved(e) /\ down' = down
  BY <1>1, <1>2, <1>3 DEF FlushUpdate
<1>5. Stored(op.id)
  BY <1>0, <1>1, FirstFound
<1>6. e \in 1..Len(index) /\ e # 0 /\ index[e].id = op.id
  BY <1>2, <1>5, Found DEF Sound
<1>7. PICK j \in 1..Len(data) : /\ data[j].id = op.id /\ data[j].status # Updated
                                /\ index[e].raw = Place(j) /\ RecordAt(index[e].raw) = j
  BY <1>2, <1>5, Found DEF Sound
<1>8. OpenOffset + index[e].pos = index[e].raw
  BY <1>4, <1>6 DEF Good
<1>9. k = j /\ k # 0
  BY <1>3, <1>7, <1>8, Places
<1>10. data' = Append(Marked(j, Updated), Record(op)) /\ index' = Moved(e) /\ down' = down
  BY <1>4, <1>6, <1>9
<1>11. QED BY <1>1, <1>6, <1>7, <1>10

(* update in the store: the last version is superseded by a new record.    *)
LEMMA UpdateStep ==
    ASSUME StoreInv, FlushUpdate
    PROVE  StoreInv'
<1>0. TypeOK /\ Requested /\ Taken("update") /\ OpenStream
  BY DEF StoreInv, Requested, FlushUpdate
<1>1. PICK op : op = pending[1] /\ op = Head(pending)
  BY <1>0, TakenFirst
<1>2. op.code = "update" /\ op.id \in Id /\ op.val \in Val /\ op.rev \in Rev
  BY <1>0, <1>1, TakenFirst DEF WellFormed
<1>3. PICK r : r = Record(op)
  OBVIOUS
<1>4. r \in RecordType /\ r.id = op.id /\ r.status = Active
  BY <1>2, <1>3 DEF Record, RecordType
<1>5. PICK e : e = Entry(op.id)
  OBVIOUS
<1>6. PICK k : k = RecordAt(OpenOffset + index[e].pos)
  OBVIOUS
<1>7. \/ e = 0 /\ down' = TRUE /\ UNCHANGED <<data, index, shifted>>
      \/ /\ e # 0
         /\ shifted' = (shifted \/ OpenOffset + index[e].pos # index[e].raw)
         /\ IF k = 0 THEN down' = TRUE /\ UNCHANGED <<data, index>>
            ELSE data' = Append(Marked(k, Updated), r) /\ index' = Moved(e) /\ down' = down
  BY <1>1, <1>3, <1>5, <1>6 DEF FlushUpdate
<1>8. data \in Seq(RecordType) /\ index \in Seq(IndexEntry) /\ down \in BOOLEAN /\ shifted \in BOOLEAN
  BY <1>0 DEF TypeOK, IndexEntry
<1>9. down' \in BOOLEAN /\ shifted' \in BOOLEAN /\ (shifted => shifted')
  BY <1>7, <1>8
<1>10. exists' \in BOOLEAN /\ catalog' \in BOOLEAN /\ isOpen' \in BOOLEAN /\ offset' \in {0, Header}
  BY <1>0, Opened
<1>11. data' \in Seq(RecordType) /\ index' \in Seq(IndexEntry)
  <2>1. CASE UNCHANGED <<data, index>>
    BY <1>8, <2>1
  <2>2. CASE e # 0 /\ k # 0 /\ data' = Append(Marked(k, Updated), r) /\ index' = Moved(e)
    <3>1. e \in 1..Len(index)
      BY <1>0, <1>5, <2>2, EntryIs
    <3>2. k \in 1..Len(data)
      BY <1>0, <1>6, <2>2, Places
    <3>3. Marked(k, Updated) \in Seq(RecordType)
      BY <1>0, <3>2, MarkedIs
    <3>4. QED BY <1>0, <1>4, <2>2, <3>1, <3>3, MovedIs, AppendProperties
  <2>3. QED BY <1>7, <2>1, <2>2
<1>12. ASSUME Sound, Good'
       PROVE  /\ ~down' /\ Latest' /\ Indexes
              /\ \A x : Stored(x) => Stored(x)'
              /\ \A x : Inserts(1, x) => Stored(x)'
  <2>1. PICK h \in 1..Len(index), j \in 1..Len(data) :
          /\ index[h].id = op.id /\ index[h].raw = Place(j)
          /\ data[j].id = op.id /\ data[j].status # Updated
          /\ data' = Append(Marked(j, Updated), r)
          /\ index' = Moved(h) /\ down' = down
    BY <1>0, <1>1, <1>3, <1>12, UpdateFinds
  <2>a. PICK n \in Nat : n = Len(data)
    BY <1>0, Places
  <2>b. PICK m \in Nat : m = Len(index)
    BY <1>0, Places
  <2>c. /\ Marked(j, Updated) \in Seq(RecordType) /\ Len(Marked(j, Updated)) = n
        /\ \A i \in 1..n : /\ Marked(j, Updated)[i].id = data[i].id
                           /\ Marked(j, Updated)[i].status = IF i = j THEN Updated ELSE data[i].status
    BY <1>0, <2>a, MarkedIs
  <2>d. /\ Len(data') = n + 1 /\ data'[n + 1] = r
        /\ \A i \in 1..n : data'[i] = Marked(j, Updated)[i]
    BY <1>4, <2>1, <2>c, AppendProperties
  <2>e. \A i \in 1..n : data'[i].id = data[i].id /\ data'[i].status = IF i = j THEN Updated ELSE data[i].status
    BY <2>c, <2>d
  <2>f. /\ Len(index') = m
        /\ \A d \in 1..m : /\ index'[d].id = index[d].id
                           /\ index'[d].raw = IF d = h THEN EndOfFile ELSE index[d].raw
    BY <1>0, <2>1, <2>b, MovedIs
  <2>g. Appends(j, r) /\ Moves(h)
    BY <2>a, <2>b, <2>d, <2>e, <2>f DEF Appends, Moves
  <2>7. Latest' /\ \A x : Stored(x) => Stored(x)'
    BY <1>0, <1>4, <1>12, <2>1, <2>g, UpdateLatest
  <2>8. \A x : ~Inserts(1, x)
    BY <1>1, <1>2 DEF Inserts
  <2>9. QED BY <1>12, <2>1, <2>7, <2>8, <2>b, <2>f DEF Sound, Indexes
<1>13. QED BY <1>0, <1>9, <1>10, <1>11, <1>12, FlushKeeps

(* A remove finds the last version of its document, or the index has never *)
(* heard of it.                                                            *)
LEMMA RemoveFinds ==
    ASSUME TypeOK, Requested, Sound, FlushRemove, Good'
    PROVE  /\ index' = index /\ down' = down
           /\ \/ data' = data /\ ~Indexed(pending[1].id)
              \/ \E j \in 1..Len(data) :
                   /\ data[j].id = pending[1].id /\ data[j].status # Updated
                   /\ data' = Marked(j, Deleted)
<1>0. Taken("remove")
  BY DEF FlushRemove
<1>1. PICK op : op = pending[1] /\ op = Head(pending)
  BY <1>0, TakenFirst
<1>2. PICK e : e = Entry(op.id)
  OBVIOUS
<1>3. PICK k : k = RecordAt(OpenOffset + index[e].pos)
  OBVIOUS
<1>4. /\ \/ e = 0 /\ UNCHANGED <<data, down, shifted>>
         \/ /\ e # 0
            /\ shifted' = (shifted \/ OpenOffset + index[e].pos # index[e].raw)
            /\ IF k = 0 THEN down' = TRUE /\ UNCHANGED data
               ELSE data' = Marked(k, Deleted) /\ down' = down
      /\ index' = index
  BY <1>1, <1>2, <1>3 DEF FlushRemove
<1>5. CASE e = 0
  <2>1. ~Indexed(op.id)
    BY <1>2, <1>5, EntryIs
  <2>2. QED BY <1>1, <1>4, <1>5, <2>1
<1>6. CASE e # 0
  <2>1. Indexed(op.id)
    BY <1>2, <1>6, EntryIs DEF Indexed
  <2>2. Stored(op.id)
    BY <1>0, <1>1, <2>1, FirstFound
  <2>3. PICK j \in 1..Len(data) : /\ data[j].id = op.id /\ data[j].status # Updated
                                  /\ RecordAt(index[e].raw) = j
    BY <1>2, <2>2, Found DEF Sound
  <2>4. OpenOffset + index[e].pos = index[e].raw
    BY <1>4, <1>6 DEF Good
  <2>5. k = j /\ k # 0
    BY <1>3, <2>3, <2>4, Places
  <2>6. data' = Marked(j, Deleted) /\ down' = down
    BY <1>4, <1>6, <2>5
  <2>7. QED BY <1>1, <1>4, <2>3, <2>6
<1>7. QED BY <1>5, <1>6

(* remove in the store: the last version is marked, and the entry stays.   *)
LEMMA RemoveStep ==
    ASSUME StoreInv, FlushRemove
    PROVE  StoreInv'
<1>0. TypeOK /\ Requested /\ Taken("remove") /\ OpenStream
  BY DEF StoreInv, Requested, FlushRemove
<1>1. PICK op : op = pending[1] /\ op = Head(pending)
  BY <1>0, TakenFirst
<1>2. op.code = "remove"
  BY <1>0, <1>1, TakenFirst
<1>3. PICK e : e = Entry(op.id)
  OBVIOUS
<1>4. PICK k : k = RecordAt(OpenOffset + index[e].pos)
  OBVIOUS
<1>5. /\ \/ e = 0 /\ UNCHANGED <<data, down, shifted>>
         \/ /\ e # 0
            /\ shifted' = (shifted \/ OpenOffset + index[e].pos # index[e].raw)
            /\ IF k = 0 THEN down' = TRUE /\ UNCHANGED data
               ELSE data' = Marked(k, Deleted) /\ down' = down
      /\ index' = index
  BY <1>1, <1>3, <1>4 DEF FlushRemove
<1>6. data \in Seq(RecordType) /\ index \in Seq(IndexEntry) /\ down \in BOOLEAN /\ shifted \in BOOLEAN
  BY <1>0 DEF TypeOK, IndexEntry
<1>7. down' \in BOOLEAN /\ shifted' \in BOOLEAN /\ (shifted => shifted')
  BY <1>5, <1>6
<1>8. exists' \in BOOLEAN /\ catalog' \in BOOLEAN /\ isOpen' \in BOOLEAN /\ offset' \in {0, Header}
  BY <1>0, Opened
<1>9. k # 0 => k \in 1..Len(data)
  BY <1>0, <1>4, Places
<1>10. data' \in Seq(RecordType) /\ index' \in Seq(IndexEntry)
  <2>1. CASE UNCHANGED data
    BY <1>5, <1>6, <2>1
  <2>2. CASE k # 0 /\ data' = Marked(k, Deleted)
    BY <1>0, <1>5, <1>6, <1>9, <2>2, MarkedIs
  <2>3. QED BY <1>5, <2>1, <2>2
<1>11. PICK n \in Nat : n = Len(data)
  BY <1>0, Places
<1>12. Indexes /\ \A x : ~Inserts(1, x)
  BY <1>0, <1>1, <1>2, <1>5, Places DEF Indexes, Inserts
<1>13. ASSUME Sound, Good'
       PROVE  ~down' /\ Latest' /\ \A x : Stored(x) => Stored(x)'
  <2>0. /\ down' = down
        /\ \/ data' = data
           \/ \E h \in 1..Len(data) : data[h].status # Updated /\ data' = Marked(h, Deleted)
    BY <1>0, <1>13, RemoveFinds
  <2>1. CASE UNCHANGED data
    BY <1>5, <1>13, <2>0, <2>1, PlaceNext DEF Sound, Latest, Stored
  <2>2. ASSUME NEW j \in 1..n, data[j].status # Updated, data' = Marked(j, Deleted)
        PROVE  ~down' /\ Latest' /\ \A x : Stored(x) => Stored(x)'
    <3>1. /\ Len(data') = n
          /\ \A i \in 1..n : data'[i].id = data[i].id /\ data'[i].status = IF i = j THEN Deleted ELSE data[i].status
      BY <1>0, <1>11, <2>2, MarkedIs
    <3>2. \A i \in 1..n : data'[i].status # Updated <=> data[i].status # Updated
      BY <2>2, <3>1 DEF Deleted, Updated
    <3>3. ASSUME NEW i \in 1..n
          PROVE  /\ \E h \in 1..n : data'[h].id = data'[i].id /\ data'[h].status # Updated
                 /\ data'[i].status # Updated =>
                      \E d \in 1..Len(index) : index[d].id = data'[i].id /\ index[d].raw = Place(i)
      <4>1. /\ \E h \in 1..n : data[h].id = data[i].id /\ data[h].status # Updated
            /\ data[i].status # Updated =>
                 \E d \in 1..Len(index) : index[d].id = data[i].id /\ index[d].raw = Place(i)
        BY <1>11, <1>13 DEF Sound, Latest
      <4>2. QED BY <3>1, <3>2, <4>1
    <3>4. Latest'
      <4>1. Len(data') = n /\ index' = index
        BY <1>5, <3>1
      <4>2. QED BY <3>3, <4>1, PlaceNext DEF Latest
    <3>5. QED BY <1>11, <1>13, <2>0, <3>1, <3>4 DEF Sound, Stored
  <2>3. QED BY <1>11, <2>0, <2>1, <2>2
<1>14. QED BY <1>0, <1>7, <1>8, <1>10, <1>12, <1>13, FlushKeeps

----------------------------------------------------------------------------
(* The store.                                                              *)

(* A find that opens the stream, and a restart, leave the records, the     *)
(* index and the log as they are.                                          *)
LEMMA OtherStep ==
    ASSUME StoreInv, FindOpens \/ Restart \/ UNCHANGED vars
    PROVE  StoreInv'
<1>0. TypeOK
  BY DEF StoreInv
<1>1. UNCHANGED <<data, index, pending, down, ops, live, known, used, regular, reused, wrongRev, shifted>>
  BY DEF FindOpens, Restart, vars, fileVars, histVars
<1>2. /\ exists' \in BOOLEAN /\ catalog' \in BOOLEAN /\ isOpen' \in BOOLEAN /\ offset' \in {0, Header}
      /\ restarts' \in 0..MaxRestarts
  <2>1. CASE FindOpens
    <3>1. exists' \in BOOLEAN /\ catalog' \in BOOLEAN /\ isOpen' \in BOOLEAN /\ offset' \in {0, Header}
      BY <1>0, <2>1, Opened DEF FindOpens
    <3>2. restarts' \in 0..MaxRestarts
      BY <1>0, <2>1 DEF FindOpens, TypeOK
    <3>3. QED BY <3>1, <3>2
  <2>2. CASE Restart
    <3>1. restarts' = restarts + 1 /\ restarts < MaxRestarts /\ restarts \in 0..MaxRestarts
      BY <1>0, <2>2 DEF Restart, TypeOK
    <3>2. restarts' \in 0..MaxRestarts
      BY <3>1, BoundsAssumption
    <3>3. exists' \in BOOLEAN /\ catalog' \in BOOLEAN /\ isOpen' \in BOOLEAN
      BY <1>0, <2>2 DEF Restart, TypeOK
    <3>4. offset' \in {0, Header}
      BY <2>2 DEF Restart
    <3>5. QED BY <3>2, <3>3, <3>4
  <2>3. CASE UNCHANGED vars
    BY <1>0, <2>3 DEF TypeOK, vars, fileVars, histVars
  <2>4. QED BY <2>1, <2>2, <2>3
<1>3. TypeOK'
  BY <1>0, <1>1, <1>2 DEF TypeOK
<1>4. Requested' /\ (Good' => Good)
  BY <1>1 DEF StoreInv, Requested, WellFormed, Good
<1>5. ASSUME Good PROVE Sound'
  <2>1. Sound
    BY <1>5 DEF StoreInv, Good, Sound
  <2>2. Once' /\ ~down'
    BY <1>1, <2>1 DEF Sound, Once, Inserts
  <2>3. Latest'
    BY <1>1, <2>1, PlaceNext DEF Sound, Latest
  <2>4. Foreseen'
    BY <1>1, <2>1 DEF Sound, Foreseen, Reached, Unheard, Stored, Indexed, Inserts
  <2>5. QED BY <2>2, <2>3, <2>4 DEF Sound
<1>6. QED BY <1>3, <1>4, <1>5 DEF StoreInv, Requested, Good, Sound

(* The invariant of the store holds in every state: ids are inserted once, *)
(* each document in the data file has a last version to which the index    *)
(* leads, and what an update or a remove in the log will find is foreseen. *)
THEOREM StoreInvariance == Spec => []StoreInv
<1>1. Init => StoreInv
  <2> SUFFICES ASSUME Init PROVE StoreInv
    OBVIOUS
  <2>1. /\ data = <<>> /\ index = <<>> /\ pending = <<>> /\ down = FALSE /\ known = {} /\ used = {}
        /\ Len(data) = 0 /\ Len(index) = 0 /\ Len(pending) = 0 /\ 1..0 = {}
    BY DEF Init
  <2>2. TypeOK
    <3>1. /\ data \in Seq(RecordType) /\ index \in Seq([id : Id, pos : Nat, raw : Nat]) /\ live \in Seq(Doc)
          /\ pending \in Seq([code : {"insert", "update", "remove", "drop"}, id : Id \cup {None},
                              val : Val \cup {None}, rev : Rev \cup {None}])
      BY <2>1 DEF Init
    <3>2. ops \in 0..MaxOps /\ restarts \in 0..MaxRestarts
      BY BoundsAssumption DEF Init
    <3>3. /\ exists \in BOOLEAN /\ catalog \in BOOLEAN /\ isOpen \in BOOLEAN /\ offset \in {0, Header}
          /\ down \in BOOLEAN /\ regular \in BOOLEAN /\ reused \in BOOLEAN /\ wrongRev \in BOOLEAN
          /\ shifted \in BOOLEAN /\ known \subseteq Id /\ used \subseteq Id
      BY DEF Init
    <3>4. QED BY <3>1, <3>2, <3>3 DEF TypeOK
  <2>3. Once
    BY <2>1 DEF Once
  <2>4. Latest
    BY <2>1 DEF Latest
  <2>5. Foreseen
    BY <2>1 DEF Foreseen
  <2>6. QED BY <2>1, <2>2, <2>3, <2>4, <2>5 DEF StoreInv
<1>2. StoreInv /\ [Next]_vars => StoreInv'
  <2> SUFFICES ASSUME StoreInv, [Next]_vars PROVE StoreInv'
    OBVIOUS
  <2>1. CASE \/ \E d \in Doc : Insert(d) \/ Update(d)
             \/ \E id \in Id, rev \in Rev : RemoveDoc(id, rev)
             \/ DropNamespace
    BY <2>1, RequestStep
  <2>2. CASE FlushInsert
    BY <2>2, InsertStep
  <2>3. CASE FlushUpdate
    BY <2>3, UpdateStep
  <2>4. CASE FlushRemove
    BY <2>4, RemoveStep
  <2>5. CASE FlushDrop
    BY <2>5, DropStep
  <2>6. CASE FindOpens \/ Restart \/ UNCHANGED vars
    BY <2>6, OtherStep
  <2>7. QED BY <2>1, <2>2, <2>3, <2>4, <2>5, <2>6 DEF Next
<1>3. QED BY <1>1, <1>2, PTL DEF Spec

(* When ids are inserted once, updates are of inserted ids and the index   *)
(* leads where it was told, no document has two active records, the server *)
(* finds each document it must update, and the index leads from its id to  *)
(* the place of its active record, whatever is flushed and whenever the    *)
(* server restarts.                                                        *)
THEOREM OneVersion == Spec => []StoreSound
<1>1. StoreInv => StoreSound
  <2> SUFFICES ASSUME StoreInv PROVE StoreSound
    OBVIOUS
  <2>1. TypeOK
    BY DEF StoreInv
  <2>2. DOMAIN data = 1..Len(data)
    <3>1. data \in Seq(RecordType)
      BY <2>1 DEF TypeOK
    <3>2. QED BY <3>1, LenProperties
  <2>3. ASSUME Good, NEW k \in 1..Len(data), data[k].status = Active
        PROVE  /\ Entry(data[k].id) # 0 /\ index[Entry(data[k].id)].raw = Place(k)
    <3>1. Once /\ Latest
      BY <2>3 DEF StoreInv, Good
    <3>2. data[k].status # Updated
      BY <2>3 DEF Active, Updated
    <3>3. PICK e \in 1..Len(index) : index[e].id = data[k].id /\ index[e].raw = Place(k)
      BY <3>1, <3>2 DEF Latest
    <3>4. PICK id : id = data[k].id
      OBVIOUS
    <3>5. Stored(id)
      BY <3>4 DEF Stored
    <3>6. Entry(id) \in 1..Len(index) /\ Entry(id) # 0 /\ index[Entry(id)].id = id
      BY <2>1, <3>1, <3>5, Found
    <3>7. Entry(id) = e
      BY <3>1, <3>3, <3>4, <3>6 DEF Once
    <3>8. QED BY <3>3, <3>4, <3>6, <3>7
  <2>4. IndexLeadsToActive
    BY <2>2, <2>3 DEF IndexLeadsToActive, Good
  <2>5. ASSUME Good, NEW j \in 1..Len(data), NEW k \in 1..Len(data), data[j].id = data[k].id,
               data[j].status = Active, data[k].status = Active
        PROVE  j = k
    <3>1. Place(j) = Place(k)
      BY <2>3, <2>5
    <3>2. j \in Nat /\ k \in Nat
      BY <2>1, Places
    <3>3. QED BY <2>1, <3>1, <3>2, Places
  <2>6. Good => ~down
    BY DEF StoreInv, Good
  <2>7. OneActiveRecord
    BY <2>2, <2>5, <2>6 DEF OneActiveRecord, Good
  <2>8. QED BY <2>1, <2>4, <2>7 DEF StoreSound
<1>2. QED BY <1>1, StoreInvariance, PTL

(* Under the same conditions a find through the index, of an id inserted   *)
(* since the namespace was last dropped, reads the last version of the     *)
(* document, active or deleted, where its entry counts from behind the     *)
(* version mark.                                                           *)
THEOREM LatestRead == Spec => []IndexFindLatest
<1>1. StoreInv => IndexFindLatest
  <2> SUFFICES ASSUME StoreInv, Good, NEW found \in IndexFind(known),
                      found.entry.raw = Header + found.entry.pos
               PROVE  /\ found.record # 0 /\ data[found.record].id = found.entry.id
                      /\ data[found.record].status \in {Active, Deleted}
    BY DEF IndexFindLatest, Good
  <2>1. TypeOK /\ Once /\ Latest /\ Foreseen
    BY DEF StoreInv, Good
  <2>2. PICK x \in ToSet(index) : x.id \in known /\ found = [entry |-> x, record |-> RecordAt(Header + x.pos)]
    BY DEF IndexFind
  <2>3. found.entry = x /\ found.record = RecordAt(x.raw)
    BY <2>2
  <2>4. PICK e \in 1..Len(index) : x = index[e]
    <3>1. index \in Seq(IndexEntry)
      BY <2>1 DEF TypeOK, IndexEntry
    <3>2. QED BY <2>2, <3>1, LenProperties DEF ToSet
  <2>5. PICK id : id = x.id
    OBVIOUS
  <2>6. PICK n : n = Len(pending) + 1
    OBVIOUS
  <2>7. Len(pending) \in Nat /\ n - 1 = Len(pending)
    <3>1. pending \in Seq(Operation)
      BY <2>1 DEF TypeOK, Operation
    <3>2. Len(pending) \in Nat
      BY <3>1, LenProperties
    <3>3. QED BY <2>6, <3>2
  <2>8. Reached(id, n)
    BY <2>1, <2>2, <2>5, <2>6 DEF Foreseen
  <2>9. \A i \in 1..Len(pending) : ~Inserts(i, id)
    BY <2>1, <2>4, <2>5 DEF Once
  <2>10. Stored(id)
    BY <2>7, <2>8, <2>9 DEF Reached
  <2>11. Entry(id) \in 1..Len(index) /\ index[Entry(id)].id = id
    BY <2>1, <2>10, Found
  <2>12. Entry(id) = e
    BY <2>1, <2>4, <2>5, <2>11 DEF Once
  <2>13. PICK j \in 1..Len(data) : /\ data[j].id = id /\ data[j].status # Updated
                                   /\ RecordAt(x.raw) = j
    BY <2>1, <2>4, <2>10, <2>12, Found
  <2>14. data[j] \in RecordType /\ j # 0
    <3>1. data \in Seq(RecordType) /\ Len(data) \in Nat
      BY <2>1, Places DEF TypeOK
    <3>2. QED BY <3>1
  <2>15. data[j].status \in {Active, Deleted}
    BY <2>13, <2>14 DEF RecordType
  <2>16. QED BY <2>3, <2>5, <2>13, <2>14, <2>15
<1>2. QED BY <1>1, StoreInvariance, PTL

----------------------------------------------------------------------------
(* The documents after each operation of the log.                          *)

\* A client that removes what it sees, and nothing astray.
Exact == Good /\ ~wrongRev
Fitting == \A k \in 1..Len(pending) : Fits(Views[k - 1], pending[k])

(* A scan gives documents.                                                 *)
LEMMA ScannedType ==
    ASSUME NEW s \in Seq(RecordType), NEW F
    PROVE  Scanned(s, F) \in Seq(Doc) /\ Len(Scanned(s, F)) \in Nat /\ Len(Scanned(s, F)) <= Len(s)
<1> DEFINE G == {a \in Seq(RecordType) : Scanned(a, F) \in Seq(Doc) /\ Len(Scanned(a, F)) <= Len(a)}
<1>1. <<>> \in G
  <2>1. <<>> \in Seq(Doc) /\ <<>> \in Seq(RecordType) /\ Len(<<>>) = 0 /\ 0 <= 0
    OBVIOUS
  <2>2. QED BY <2>1, NoneOfNone
<1>2. ASSUME NEW t \in Seq(RecordType), NEW r \in RecordType, t \in G PROVE Append(t, r) \in G
  <2>1. PICK d : d = Scanned(t, F)
    OBVIOUS
  <2>2. d \in Seq(Doc) /\ Len(d) <= Len(t) /\ DocOf(r) \in Doc /\ Len(t) \in Nat
    BY <2>1, ScannedMore, DocOfType
  <2>3. /\ Append(d, DocOf(r)) \in Seq(Doc) /\ Len(Append(d, DocOf(r))) = Len(d) + 1 /\ Len(d) \in Nat
        /\ Append(t, r) \in Seq(RecordType) /\ Len(Append(t, r)) = Len(t) + 1
    BY <2>2, InMore
  <2>4. PICK e : e = Scanned(Append(t, r), F)
    OBVIOUS
  <2>5. e = Append(d, DocOf(r)) \/ e = d
    BY <2>1, <2>4, ScannedMore
  <2>6. e \in Seq(Doc) /\ Len(e) <= Len(t) + 1
    <3>1. CASE e = d
      BY <2>2, <2>3, <3>1
    <3>2. CASE e = Append(d, DocOf(r))
      <4>1. Len(e) = Len(d) + 1
        BY <2>3, <3>2
      <4>2. QED BY <2>2, <2>3, <3>2, <4>1
    <3>3. QED BY <2>5, <3>1, <3>2
  <2>7. QED BY <2>3, <2>4, <2>6
<1> HIDE DEF G
<1>3. Seq(RecordType) \subseteq G
  BY <1>1, <1>2, Sequences
<1>4. Scanned(s, F) \in Seq(Doc) /\ Len(Scanned(s, F)) <= Len(s)
  BY <1>3 DEF G
<1>5. QED BY <1>4

\* w has what is in the map after each operation of the log.
Follows(w, base, log, F, select, n) ==
  w[0] = base /\ \A k \in 1..n : w[k] = Merged(w[k - 1], log[k], F, select)

(* So does the map of a find.                                              *)
LEMMA ViewAt ==
    ASSUME NEW base, NEW log, NEW n \in Nat, n = Len(log), NEW F, NEW select
    PROVE  Follows(WithLog(base, log, F, select), base, log, F, select, n)
<1>1. WithLog(base, log, F, select)[0] = base
  BY WithLogAt
<1>2. \A k \in 1..n : WithLog(base, log, F, select)[k]
                        = Merged(WithLog(base, log, F, select)[k - 1], log[k], F, select)
  BY WithLogAt
<1>3. QED BY <1>1, <1>2, Zenon DEF Follows

(* When the log fits, what it gives are documents.                         *)
LEMMA ViewsType ==
    ASSUME TypeOK, Requested, Fitting, NEW n \in Nat, n = Len(pending), NEW v, v = Views
    PROVE  /\ v[0] = Filed /\ \A k \in 1..n : v[k] = Merged(v[k - 1], pending[k], Val, "all")
           /\ \A k \in 0..n : v[k] \in Seq(Doc)
           /\ \A k \in 1..n : Fits(v[k - 1], pending[k]) /\ pending[k] \in Operation /\ WellFormed(pending[k])
<1>1. v[0] = Filed /\ \A k \in 1..n : v[k] = Merged(v[k - 1], pending[k], Val, "all")
  <2>1. v = WithLog(Filed, pending, Val, "all")
    BY DEF Views
  <2>2. Follows(v, Filed, pending, Val, "all", n)
    BY <2>1, ViewAt
  <2>3. QED BY <2>2 DEF Follows
<1>2. \A k \in 1..n : Fits(v[k - 1], pending[k]) /\ pending[k] \in Operation /\ WellFormed(pending[k])
  <2>1. pending \in Seq(Operation)
    BY DEF TypeOK, Operation
  <2>2. \A k \in 1..n : pending[k] \in Operation
    BY <2>1
  <2>3. \A k \in 1..n : WellFormed(pending[k])
    BY DEF Requested
  <2>4. \A k \in 1..n : Fits(v[k - 1], pending[k])
    BY DEF Fitting
  <2>5. QED BY <2>2, <2>3, <2>4
<1> DEFINE N == {k \in Nat : k <= n => v[k] \in Seq(Doc)}
<1>3. 0 \in N
  <2>1. data \in Seq(RecordType)
    BY DEF TypeOK
  <2>2. Filed \in Seq(Doc)
    BY <2>1, ScannedType DEF Filed
  <2>3. QED BY <1>1, <2>2
<1>4. ASSUME NEW k \in Nat, k \in N PROVE k + 1 \in N
  <2>1. ASSUME k + 1 <= n PROVE v[k + 1] \in Seq(Doc)
    <3>1. PICK i \in 1..n : i = k + 1 /\ i - 1 = k
      BY <2>1
    <3>2. v[k] \in Seq(Doc)
      BY <1>4, <2>1
    <3>3. v[i] = Merged(v[k], pending[i], Val, "all") /\ Fits(v[k], pending[i])
      BY <1>1, <1>2, <3>1
    <3>4. PICK op : op = pending[i]
      OBVIOUS
    <3>5. op \in Operation /\ WellFormed(op) /\ Fits(v[k], op)
      BY <1>2, <3>3, <3>4
    <3>6. Merged(v[k], op, Val, "all") \in Seq(Doc)
      BY <3>2, <3>5, MergedDocs
    <3>7. QED BY <3>1, <3>3, <3>4, <3>6
  <2>2. QED BY <2>1
<1> HIDE DEF N
<1>5. Nat \subseteq N
  BY <1>3, <1>4, Numbers
<1>6. \A k \in 0..n : v[k] \in Seq(Doc)
  BY <1>5 DEF N
<1>7. QED BY <1>1, <1>2, <1>6

(* A request adds what its operation makes of the last view.               *)
LEMMA ViewsGrow ==
    ASSUME NEW n \in Nat, n = Len(pending), NEW op, Grows(op), data' = data,
           NEW v, v = Views, NEW w, w = Views'
    PROVE  /\ \A k \in 0..n : w[k] = v[k]
           /\ w[n + 1] = Merged(v[n], op, Val, "all")
<1>1. PICK q : q = pending'
  OBVIOUS
<1>2. Len(q) = n + 1 /\ q[n + 1] = op /\ \A i \in 1..n : q[i] = pending[i]
  BY <1>1 DEF Grows
<1>3. PICK b : b = Filed
  OBVIOUS
<1>4. Filed' = b
  BY <1>3 DEF Filed
<1>5. v = WithLog(b, pending, Val, "all") /\ w = WithLog(b, q, Val, "all")
  BY <1>1, <1>3, <1>4 DEF Views
<1>6. v[0] = b /\ \A k \in 1..n : v[k] = Merged(v[k - 1], pending[k], Val, "all")
  <2>1. Follows(v, b, pending, Val, "all", n)
    BY <1>5, ViewAt
  <2>2. QED BY <2>1 DEF Follows
<1>7. PICK m \in Nat : m = n + 1
  OBVIOUS
<1>8. w[0] = b /\ \A k \in 1..m : w[k] = Merged(w[k - 1], q[k], Val, "all")
  <2>1. Follows(w, b, q, Val, "all", m)
    BY <1>2, <1>5, <1>7, ViewAt
  <2>2. QED BY <2>1 DEF Follows
<1> DEFINE N == {k \in Nat : k <= n => w[k] = v[k]}
<1>9. 0 \in N
  BY <1>6, <1>8
<1>10. ASSUME NEW k \in Nat, k \in N PROVE k + 1 \in N
  <2>1. ASSUME k + 1 <= n PROVE w[k + 1] = v[k + 1]
    <3>1. PICK i \in 1..n : i = k + 1 /\ i - 1 = k /\ i \in 1..m
      BY <1>7, <2>1
    <3>2. w[k] = v[k]
      BY <1>10, <2>1
    <3>3. w[i] = Merged(w[k], q[i], Val, "all") /\ v[i] = Merged(v[k], pending[i], Val, "all")
      BY <1>6, <1>8, <3>1
    <3>4. q[i] = pending[i]
      BY <1>2
    <3>5. QED BY <3>1, <3>2, <3>3, <3>4
  <2>2. QED BY <2>1
<1> HIDE DEF N
<1>11. Nat \subseteq N
  BY <1>9, <1>10, Numbers
<1>12. \A k \in 0..n : w[k] = v[k]
  BY <1>11 DEF N
<1>13. w[m] = Merged(w[n], q[m], Val, "all")
  <2>1. m \in 1..m /\ m - 1 = n
    BY <1>7
  <2>2. QED BY <1>8, <2>1
<1>14. w[n] = v[n]
  BY <1>12
<1>15. QED BY <1>2, <1>7, <1>12, <1>13, <1>14

(* When the data file takes over the first operation, the views move up.   *)
LEMMA ViewsShrink ==
    ASSUME NEW n \in Nat \ {0}, n = Len(pending), Shrinks,
           Filed' = Merged(Filed, pending[1], Val, "all"),
           NEW v, v = Views, NEW w, w = Views'
    PROVE  \A k \in 0..(n - 1) : w[k] = v[k + 1]
<1>1. PICK q : q = pending'
  OBVIOUS
<1>2. PICK m \in Nat : m = n - 1
  OBVIOUS
<1>3. Len(q) = m /\ \A i \in 1..m : q[i] = pending[i + 1]
  BY <1>1, <1>2 DEF Shrinks
<1>4. PICK b : b = Filed
  OBVIOUS
<1>5. PICK c : c = Filed'
  OBVIOUS
<1>6. v = WithLog(b, pending, Val, "all") /\ w = WithLog(c, q, Val, "all")
  BY <1>1, <1>4, <1>5 DEF Views
<1>7. v[0] = b /\ \A k \in 1..n : v[k] = Merged(v[k - 1], pending[k], Val, "all")
  <2>1. Follows(v, b, pending, Val, "all", n)
    BY <1>6, ViewAt
  <2>2. QED BY <2>1 DEF Follows
<1>8. w[0] = c /\ \A k \in 1..m : w[k] = Merged(w[k - 1], q[k], Val, "all")
  <2>1. Follows(w, c, q, Val, "all", m)
    BY <1>3, <1>6, ViewAt
  <2>2. QED BY <2>1 DEF Follows
<1> DEFINE N == {k \in Nat : k <= m => w[k] = v[k + 1]}
<1>9. 0 \in N
  <2>1. 1 \in 1..n /\ 1 - 1 = 0 /\ 0 + 1 = 1
    OBVIOUS
  <2>2. v[1] = Merged(b, pending[1], Val, "all")
    BY <1>7, <2>1
  <2>3. w[0] = v[1]
    BY <1>4, <1>5, <1>8, <2>2
  <2>4. QED BY <2>1, <2>3
<1>10. ASSUME NEW k \in Nat, k \in N PROVE k + 1 \in N
  <2>1. ASSUME k + 1 <= m PROVE w[k + 1] = v[(k + 1) + 1]
    <3>1. PICK i \in 1..m : i = k + 1 /\ i - 1 = k
      BY <2>1
    <3>2. PICK j \in 1..n : j = i + 1 /\ j - 1 = i
      BY <1>2, <3>1
    <3>3. w[k] = v[i]
      BY <1>10, <2>1, <3>1
    <3>4. w[i] = Merged(w[k], q[i], Val, "all") /\ v[j] = Merged(v[i], pending[j], Val, "all")
      BY <1>7, <1>8, <3>1, <3>2
    <3>5. q[i] = pending[j]
      BY <1>3, <3>2
    <3>6. w[i] = v[j]
      BY <3>3, <3>4, <3>5
    <3>7. QED BY <3>1, <3>2, <3>6
  <2>2. QED BY <2>1
<1> HIDE DEF N
<1>11. Nat \subseteq N
  BY <1>9, <1>10, Numbers
<1>12. QED BY <1>2, <1>11 DEF N

(* What ViewInv says of the log is what the views are.                     *)
LEMMA ViewInvIs ==
  ViewInv <=> /\ Len(data) + Len(pending) <= ops /\ Len(live) <= ops
              /\ Exact => live = Views[Len(pending)] /\ Fitting
BY DEF ViewInv, Exact, Good, Fitting

(* The same of the next state.                                             *)
LEMMA ViewInvNext ==
    ASSUME Len(data') + Len(pending') <= ops', Len(live') <= ops',
           Exact' => live' = Views'[Len(pending')] /\ Fitting'
    PROVE  ViewInv'
BY DEF ViewInv, Exact, Good, Fitting, Fits

(* A request that fits keeps the views: its operation does at the end of   *)
(* the log what it did to the documents the client believes in.            *)
LEMMA RequestViews ==
    ASSUME TypeOK, ViewInv, NEW op, Write(op), Grows(op), Exact' => Exact,
           Len(live') \in Nat, Len(live') <= Len(live) + 1,
           Exact' => live' = Merged(live, op, Val, "all") /\ Fits(live, op)
    PROVE  ViewInv'
<1>0. PICK n \in Nat : n = Len(pending)
  <2>1. pending \in Seq(Operation)
    BY DEF TypeOK, Operation
  <2>2. QED BY <2>1
<1>1. /\ Len(pending') = n + 1 /\ pending'[n + 1] = op /\ \A i \in 1..n : pending'[i] = pending[i]
      /\ data' = data /\ ops' = ops + 1
  BY <1>0 DEF Grows, Write, fileVars
<1>2. Len(data) + n <= ops /\ Len(live) <= ops
  BY <1>0, ViewInvIs
<1>3. Len(data) \in Nat /\ Len(live) \in Nat /\ ops \in Nat
  BY DEF TypeOK
<1>4. Len(data') + Len(pending') <= ops' /\ Len(live') <= ops'
  BY <1>1, <1>2, <1>3
<1>5. ASSUME Exact' PROVE live' = Views'[Len(pending')] /\ Fitting'
  <2>1. PICK v : v = Views
    OBVIOUS
  <2>2. PICK w : w = Views'
    OBVIOUS
  <2>3. live = v[n] /\ \A k \in 1..n : Fits(v[k - 1], pending[k])
    BY <1>0, <1>5, <2>1, ViewInvIs DEF Fitting
  <2>4. (\A k \in 0..n : w[k] = v[k]) /\ w[n + 1] = Merged(v[n], op, Val, "all")
    BY <1>0, <1>1, <2>1, <2>2, ViewsGrow
  <2>5. live' = w[n + 1]
    BY <1>5, <2>3, <2>4
  <2>6. ASSUME NEW k \in 1..(n + 1) PROVE Fits(w[k - 1], pending'[k])
    <3>1. k - 1 \in 0..n
      OBVIOUS
    <3>2. w[k - 1] = v[k - 1]
      BY <2>4, <3>1
    <3>3. CASE k = n + 1
      <4>1. k - 1 = n
        BY <3>3
      <4>2. QED BY <1>1, <1>5, <2>3, <3>2, <3>3, <4>1
    <3>4. CASE k # n + 1
      <4>1. k \in 1..n
        BY <3>4
      <4>2. QED BY <1>1, <2>3, <3>2, <4>1
    <3>5. QED BY <3>3, <3>4
  <2>7. Fitting'
    BY <1>1, <2>2, <2>6 DEF Fitting, Fits
  <2>8. QED BY <1>1, <2>2, <2>5, <2>7
<1>6. QED BY <1>4, <1>5, ViewInvNext

(* So does the monitor when the data file takes over what its first        *)
(* operation makes of the documents in it.                                 *)
LEMMA FlushViews ==
    ASSUME TypeOK, ViewInv, Shrinks, UNCHANGED <<ops, live>>,
           Len(data') \in Nat, Len(data') <= Len(data) + 1,
           Exact' => Exact /\ Filed' = Merged(Filed, pending[1], Val, "all")
    PROVE  ViewInv'
<1>0. PICK n \in Nat \ {0} : n = Len(pending)
  BY DEF Shrinks
<1>1. Len(pending') = n - 1 /\ \A i \in 1..(n - 1) : pending'[i] = pending[i + 1]
  BY <1>0 DEF Shrinks
<1>2. Len(data) + n <= ops /\ Len(live) <= ops
  BY <1>0, ViewInvIs
<1>3. Len(data) \in Nat /\ ops \in Nat
  BY DEF TypeOK
<1>4. Len(data') + Len(pending') <= ops' /\ Len(live') <= ops'
  BY <1>1, <1>2, <1>3
<1>5. ASSUME Exact' PROVE live' = Views'[Len(pending')] /\ Fitting'
  <2>1. PICK v : v = Views
    OBVIOUS
  <2>2. PICK w : w = Views'
    OBVIOUS
  <2>3. live = v[n] /\ \A k \in 1..n : Fits(v[k - 1], pending[k])
    BY <1>0, <1>5, <2>1, ViewInvIs DEF Fitting
  <2>4. \A k \in 0..(n - 1) : w[k] = v[k + 1]
    BY <1>0, <1>5, <2>1, <2>2, ViewsShrink
  <2>5. n - 1 \in 0..(n - 1) /\ (n - 1) + 1 = n
    OBVIOUS
  <2>6. live' = w[n - 1]
    BY <2>3, <2>4, <2>5
  <2>7. ASSUME NEW k \in 1..(n - 1) PROVE Fits(w[k - 1], pending'[k])
    <3>1. k - 1 \in 0..(n - 1) /\ (k - 1) + 1 = k /\ k + 1 \in 1..n /\ (k + 1) - 1 = k
      OBVIOUS
    <3>2. w[k - 1] = v[k]
      BY <2>4, <3>1
    <3>3. Fits(v[k], pending[k + 1])
      BY <2>3, <3>1
    <3>4. QED BY <1>1, <3>2, <3>3
  <2>8. Fitting'
    BY <1>1, <2>2, <2>7 DEF Fitting, Fits
  <2>9. QED BY <1>1, <2>2, <2>6, <2>8
<1>6. QED BY <1>4, <1>5, ViewInvNext

(* Requests.                                                               *)
LEMMA RequestView ==
    ASSUME StoreInv, ViewInv,
           \/ \E d \in Doc : Insert(d) \/ Update(d)
           \/ \E id \in Id, rev \in Rev : RemoveDoc(id, rev)
           \/ DropNamespace
    PROVE  ViewInv'
<1>0. TypeOK /\ Requested
  BY DEF StoreInv, Requested
<1>1. live \in Seq(Doc) /\ Len(live) \in Nat /\ DOMAIN live = 1..Len(live)
  BY <1>0 DEF TypeOK
<1>2. ASSUME NEW d \in Doc, Insert(d) PROVE ViewInv'
  <2>1. PICK op : op = [code |-> "insert", id |-> d.id, val |-> d.val, rev |-> d.rev]
    OBVIOUS
  <2>2. /\ op \in Operation /\ WellFormed(op) /\ op.code = "insert" /\ op.id = d.id
        /\ op.val \in Val /\ DocOf(op) = d
    BY <2>1 DEF Operation, Doc, WellFormed, DocOf
  <2>3. Write(op) /\ live' = Add(live, d)
    BY <1>2, <2>1 DEF Insert
  <2>4. Grows(op)
    BY <1>0, <2>2, <2>3, Written
  <2>5. Len(live') \in Nat /\ Len(live') <= Len(live) + 1
    BY <1>1, <2>3, LinkedMapType
  <2>6. Merged(live, op, Val, "all") = live'
    BY <1>1, <2>2, <2>3, MergedDocs DEF Add
  <2>7. /\ regular' = (regular /\ \A i \in DOMAIN live : live[i].id # d.id)
        /\ reused' = (reused \/ d.id \in used) /\ wrongRev' = wrongRev /\ shifted' = shifted
    BY <1>2 DEF Insert, Write
  <2>8. Exact' => Exact
    BY <2>7 DEF Exact, Good
  <2>9. ASSUME Exact' PROVE Fits(live, op)
    <3>1. \A i \in 1..Len(live) : live[i].id # op.id
      BY <1>1, <2>2, <2>7, <2>9 DEF Exact, Good
    <3>2. QED BY <3>1 DEF Fits
  <2>10. QED BY <1>0, <2>3, <2>4, <2>5, <2>6, <2>8, <2>9, RequestViews
<1>3. ASSUME NEW d \in Doc, Update(d) PROVE ViewInv'
  <2>1. PICK op : op = [code |-> "update", id |-> d.id, val |-> d.val, rev |-> d.rev]
    OBVIOUS
  <2>2. /\ op \in Operation /\ WellFormed(op) /\ op.code = "update" /\ op.id = d.id
        /\ op.val \in Val /\ DocOf(op) = d
    BY <2>1 DEF Operation, Doc, WellFormed, DocOf
  <2>3. Write(op) /\ live' = Add(live, d)
    BY <1>3, <2>1 DEF Update
  <2>4. Grows(op)
    BY <1>0, <2>2, <2>3, Written
  <2>5. Len(live') \in Nat /\ Len(live') <= Len(live) + 1
    BY <1>1, <2>3, LinkedMapType
  <2>6. Merged(live, op, Val, "all") = live'
    BY <1>1, <2>2, <2>3, MergedDocs DEF Add
  <2>7. /\ regular' = (regular /\ d.id \in known)
        /\ reused' = reused /\ wrongRev' = wrongRev /\ shifted' = shifted
    BY <1>3 DEF Update, Write
  <2>8. Exact' => Exact
    BY <2>7 DEF Exact, Good
  <2>9. Fits(live, op)
    BY <2>2 DEF Fits
  <2>10. QED BY <1>0, <2>3, <2>4, <2>5, <2>6, <2>8, <2>9, RequestViews
<1>4. ASSUME NEW id \in Id, NEW rev \in Rev, RemoveDoc(id, rev) PROVE ViewInv'
  <2>1. PICK op : op = [code |-> "remove", id |-> id, val |-> None, rev |-> rev]
    OBVIOUS
  <2>2. op \in Operation /\ WellFormed(op) /\ op.code = "remove" /\ op.id = id /\ op.rev = rev
    BY <2>1 DEF Operation, WellFormed
  <2>3. Write(op) /\ live' = Erase(live, id)
    BY <1>4, <2>1 DEF RemoveDoc
  <2>4. Grows(op)
    BY <1>0, <2>2, <2>3, Written
  <2>5. Len(live') \in Nat /\ Len(live') <= Len(live) + 1
    <3>1. Len(live') \in Nat /\ Len(live') <= Len(live)
      BY <1>1, <2>3, LinkedMapType
    <3>2. QED BY <1>1, <3>1
  <2>6. /\ regular' = regular /\ shifted' = shifted
        /\ reused' = (reused \/ id \in used \ known)
        /\ wrongRev' = (wrongRev \/ \E i \in DOMAIN live : live[i].id = id /\ live[i].rev # rev)
    BY <1>4 DEF RemoveDoc, Write
  <2>7. Exact' => Exact
    BY <2>6 DEF Exact, Good
  <2>8. ASSUME Exact' PROVE Fits(live, op) /\ live' = Merged(live, op, Val, "all")
    <3>1. \A i \in 1..Len(live) : live[i].id = id => live[i].rev = rev
      BY <1>1, <2>6, <2>8 DEF Exact
    <3>2. Fits(live, op)
      BY <2>2, <3>1 DEF Fits
    <3>3. Merged(live, op, Val, "all") = Erase(live, op.id)
      BY <1>1, <2>2, <3>2, MergedDocs
    <3>4. QED BY <2>2, <2>3, <3>2, <3>3
  <2>9. QED BY <1>0, <2>3, <2>4, <2>5, <2>7, <2>8, RequestViews
<1>5. CASE DropNamespace
  <2>1. PICK op : op = [code |-> "drop", id |-> None, val |-> None, rev |-> None]
    OBVIOUS
  <2>2. op \in Operation /\ WellFormed(op) /\ op.code = "drop"
    BY <2>1 DEF Operation, WellFormed
  <2>3. Write(op) /\ live' = <<>>
    BY <1>5, <2>1 DEF DropNamespace
  <2>4. Grows(op)
    BY <1>0, <2>2, <2>3, Written
  <2>5. Len(live') \in Nat /\ Len(live') <= Len(live) + 1
    BY <1>1, <2>3, InNone
  <2>6. regular' = regular /\ reused' = reused /\ wrongRev' = wrongRev /\ shifted' = shifted
    BY <1>5 DEF DropNamespace, Write
  <2>7. Exact' => Exact
    BY <2>6 DEF Exact, Good
  <2>8. Merged(live, op, Val, "all") = live'
    BY <1>1, <2>2, <2>3, MergedDocs
  <2>9. Fits(live, op)
    BY <2>2 DEF Fits
  <2>10. QED BY <1>0, <2>3, <2>4, <2>5, <2>7, <2>8, <2>9, RequestViews
<1>6. QED BY <1>2, <1>3, <1>4, <1>5

(* The first operation of the log fits the documents in the file.          *)
LEMMA FirstFits ==
    ASSUME TypeOK, Requested, Fitting, Shrinks
    PROVE  Filed \in Seq(Doc) /\ Fits(Filed, pending[1])
<1>1. PICK n \in Nat : n = Len(pending) /\ n # 0
  BY DEF Shrinks
<1>2. PICK v : v = Views
  OBVIOUS
<1>3. v[0] = Filed /\ \A k \in 0..n : v[k] \in Seq(Doc)
  BY <1>1, <1>2, ViewsType
<1>4. \A k \in 1..n : Fits(v[k - 1], pending[k])
  BY <1>1, <1>2 DEF Fitting
<1>5. 0 \in 0..n /\ 1 \in 1..n /\ 1 - 1 = 0
  BY <1>1
<1>6. Fits(v[0], pending[1])
  BY <1>4, <1>5
<1>7. QED BY <1>3, <1>5, <1>6

(* A document has one record that no update superseded.                    *)
LEMMA LastVersion ==
    ASSUME TypeOK, Once, Latest, NEW j \in 1..Len(data), NEW k \in 1..Len(data),
           data[j].id = data[k].id, data[j].status # Updated, data[k].status # Updated
    PROVE  j = k
<1>1. PICK d \in 1..Len(index) : index[d].id = data[j].id /\ index[d].raw = Place(j)
  BY DEF Latest
<1>2. PICK e \in 1..Len(index) : index[e].id = data[k].id /\ index[e].raw = Place(k)
  BY DEF Latest
<1>3. d = e
  BY <1>1, <1>2 DEF Once
<1>4. j \in Nat /\ k \in Nat /\ Place(j) = Place(k)
  BY <1>1, <1>2, <1>3, Places
<1>5. QED BY <1>4, Places

(* When it is marked a scan finds the other documents.                     *)
LEMMA MarkedScan ==
    ASSUME TypeOK, Once, Latest, NEW j \in 1..Len(data), data[j].status # Updated,
           NEW status \in {Deleted, Updated}
    PROVE  Marked(j, status) \in Seq(RecordType) /\ Scanned(Marked(j, status), Val) = Erase(Filed, data[j].id)
<1>1. PICK n \in Nat : n = Len(data)
  BY Places
<1>2. PICK s : s = data
  OBVIOUS
<1>3. s \in Seq(RecordType)
  BY <1>2 DEF TypeOK
<1>4. PICK u : u = Marked(j, status)
  OBVIOUS
<1>5. PICK x : x = s[j].id
  OBVIOUS
<1>6. status \in {Active, Deleted, Updated} /\ status # Active
  BY DEF Active, Deleted, Updated
<1>7. /\ u \in Seq(RecordType) /\ Len(u) = n
      /\ \A i \in 1..n : u[i].status = IF i = j THEN status ELSE s[i].status
  BY <1>1, <1>2, <1>4, <1>6, MarkedIs
<1>8. ASSUME NEW i \in 1..n PROVE DocOf(u[i]) = DocOf(s[i])
  <2>1. u = [s EXCEPT ![j].status = status]
    BY <1>2, <1>4 DEF Marked
  <2>2. u[i] = IF i = j THEN [s[j] EXCEPT !.status = status] ELSE s[i]
    BY <1>1, <1>2, <1>3, <2>1
  <2>3. s[j] \in RecordType
    BY <1>2, <1>3
  <2>4. QED BY <2>2, <2>3 DEF DocOf, RecordType
<1>9. ASSUME NEW i \in 1..n PROVE u[i].status = Active <=> s[i].status = Active /\ s[i].id # x
  <2>1. CASE i = j
    BY <1>5, <1>6, <1>7, <2>1
  <2>2. CASE i # j
    <3>1. s[i].status = Active => s[i].id # x
      BY <1>1, <1>2, <1>5, <2>2, LastVersion DEF Active, Updated
    <3>2. QED BY <1>7, <2>2, <3>1
  <2>3. QED BY <2>1, <2>2
<1>10. Marks(u, s, x)
  <2>1. Len(s) = n
    BY <1>1, <1>2
  <2>2. QED BY <1>7, <1>8, <1>9, <2>1 DEF Marks
<1>11. Scanned(u, Val) = Erase(Scanned(s, Val), x)
  BY <1>3, <1>7, <1>10, ScannedMarked
<1>12. QED BY <1>2, <1>4, <1>5, <1>7, <1>11 DEF Filed

(* insert: the document is new in the file.                                *)
LEMMA InsertView ==
    ASSUME StoreInv, ViewInv, FlushInsert
    PROVE  ViewInv'
<1>0. TypeOK /\ Requested /\ Taken("insert")
  BY DEF StoreInv, Requested, FlushInsert
<1>1. PICK op : op = pending[1] /\ op = Head(pending)
  BY <1>0, TakenFirst
<1>2. op \in Operation /\ WellFormed(op) /\ op.code = "insert" /\ op.val \in Val
  BY <1>0, <1>1, TakenFirst DEF WellFormed
<1>3. Shrinks /\ UNCHANGED <<ops, live>>
  BY <1>0, TakenFirst
<1>4. PICK r : r = Record(op)
  OBVIOUS
<1>5. r \in RecordType /\ r.status = Active /\ r.val \in Val /\ DocOf(r) = DocOf(op)
  BY <1>2, <1>4 DEF Record, RecordType, DocOf, WellFormed
<1>6. data' = Append(data, r) /\ shifted' = shifted
  BY <1>1, <1>4 DEF FlushInsert
<1>7. data \in Seq(RecordType)
  BY <1>0 DEF TypeOK
<1>8. Len(data') \in Nat /\ Len(data') <= Len(data) + 1
  BY <1>5, <1>6, <1>7
<1>9. Exact' => Exact
  BY <1>0, <1>6 DEF Exact, Good, Taken
<1>10. ASSUME Exact PROVE Filed' = Merged(Filed, op, Val, "all")
  <2>1. Fitting
    BY <1>10, ViewInvIs
  <2>2. Filed \in Seq(Doc) /\ Fits(Filed, op)
    BY <1>0, <1>1, <1>3, <2>1, FirstFits
  <2>3. \A i \in 1..Len(Filed) : Filed[i].id # op.id
    BY <1>2, <2>2 DEF Fits
  <2>4. Erase(Filed, op.id) = Filed
    BY <2>2, <2>3, EraseAbsent
  <2>5. Scanned(Append(data, r), Val) = Append(Scanned(data, Val), DocOf(r))
    BY <1>5, <1>7, ScannedMore
  <2>6. Filed' = Append(Filed, DocOf(op))
    BY <1>5, <1>6, <2>5 DEF Filed
  <2>7. Merged(Filed, op, Val, "all") = Append(Erase(Filed, op.id), DocOf(op))
    BY <1>2, <2>2, MergedDocs
  <2>8. QED BY <2>4, <2>6, <2>7
<1>11. QED BY <1>0, <1>1, <1>3, <1>8, <1>9, <1>10, FlushViews

(* update: the last version is marked, and the new one is found after all  *)
(* the others.                                                             *)
LEMMA UpdateView ==
    ASSUME StoreInv, ViewInv, FlushUpdate
    PROVE  ViewInv'
<1>0. TypeOK /\ TypeOK' /\ Requested /\ Taken("update")
  BY UpdateStep DEF StoreInv, Requested, FlushUpdate
<1>1. PICK op : op = pending[1] /\ op = Head(pending)
  BY <1>0, TakenFirst
<1>2. op \in Operation /\ WellFormed(op) /\ op.code = "update" /\ op.val \in Val
  BY <1>0, <1>1, TakenFirst DEF WellFormed
<1>3. Shrinks /\ UNCHANGED <<ops, live>>
  BY <1>0, TakenFirst
<1>4. PICK r : r = Record(op)
  OBVIOUS
<1>5. r \in RecordType /\ r.status = Active /\ r.val \in Val /\ DocOf(r) = DocOf(op)
  BY <1>2, <1>4 DEF Record, RecordType, DocOf, WellFormed
<1>6. data \in Seq(RecordType) /\ data' \in Seq(RecordType) /\ Len(data') \in Nat /\ Len(data) \in Nat
  BY <1>0 DEF TypeOK
<1>7. /\ data' = data \/ \E k \in 1..Len(data) : data' = Append(Marked(k, Updated), r)
      /\ shifted => shifted'
  <2>1. PICK e : e = Entry(op.id)
    OBVIOUS
  <2>2. PICK k : k = RecordAt(OpenOffset + index[e].pos)
    OBVIOUS
  <2>3. data' = data \/ (k # 0 /\ data' = Append(Marked(k, Updated), r))
    BY <1>1, <1>4, <2>1, <2>2 DEF FlushUpdate
  <2>4. k # 0 => k \in 1..Len(data)
    BY <1>0, <2>2, Places
  <2>5. shifted' = shifted \/ shifted' = (shifted \/ OpenOffset + index[e].pos # index[e].raw)
    BY <1>1, <1>4, <2>1, <2>2 DEF FlushUpdate
  <2>6. shifted => shifted'
    BY <2>5
  <2>7. data' = data \/ \E h \in 1..Len(data) : data' = Append(Marked(h, Updated), r)
    BY <2>3, <2>4
  <2>8. QED BY <2>6, <2>7
<1>8. Len(data') <= Len(data) + 1
  <2>1. CASE data' = data
    BY <1>6, <2>1
  <2>2. ASSUME NEW k \in 1..Len(data), data' = Append(Marked(k, Updated), r)
        PROVE  Len(data') <= Len(data) + 1
    <3>1. Marked(k, Updated) \in Seq(RecordType) /\ Len(Marked(k, Updated)) = Len(data)
      BY <1>0, MarkedIs
    <3>2. Len(data') = Len(data) + 1
      BY <1>5, <2>2, <3>1, AppendProperties
    <3>3. QED BY <1>6, <3>2
  <2>3. QED BY <1>7, <2>1, <2>2
<1>9. Exact' => Exact
  BY <1>0, <1>7 DEF Exact, Good, Taken
<1>10. ASSUME Exact, Exact' PROVE Filed' = Merged(Filed, op, Val, "all")
  <2>1. Fitting
    BY <1>10, ViewInvIs
  <2>2. Filed \in Seq(Doc) /\ Fits(Filed, op)
    BY <1>0, <1>1, <1>3, <2>1, FirstFits
  <2>3. Sound /\ Good'
    BY <1>10 DEF StoreInv, Sound, Exact, Good
  <2>4. PICK j \in 1..Len(data) : /\ data[j].id = op.id /\ data[j].status # Updated
                                  /\ data' = Append(Marked(j, Updated), r)
    BY <1>0, <1>1, <1>4, <2>3, UpdateFinds
  <2>5. PICK u : u = Marked(j, Updated)
    OBVIOUS
  <2>6. u \in Seq(RecordType) /\ Scanned(u, Val) = Erase(Filed, op.id)
    BY <1>0, <2>3, <2>4, <2>5, MarkedScan DEF Sound
  <2>7. Scanned(Append(u, r), Val) = Append(Scanned(u, Val), DocOf(r))
    BY <1>5, <2>6, ScannedMore
  <2>8. Filed' = Append(Erase(Filed, op.id), DocOf(op))
    BY <1>5, <2>4, <2>5, <2>6, <2>7 DEF Filed
  <2>9. Merged(Filed, op, Val, "all") = Append(Erase(Filed, op.id), DocOf(op))
    BY <1>2, <2>2, MergedDocs
  <2>10. QED BY <2>8, <2>9
<1>11. Exact' => Exact /\ Filed' = Merged(Filed, pending[1], Val, "all")
  BY <1>1, <1>9, <1>10
<1>12. QED BY <1>0, <1>3, <1>6, <1>8, <1>11, FlushViews

(* remove: the last version is marked, or there is none.                   *)
LEMMA RemoveView ==
    ASSUME StoreInv, ViewInv, FlushRemove
    PROVE  ViewInv'
<1>0. TypeOK /\ Requested /\ Taken("remove")
  BY DEF StoreInv, Requested, FlushRemove
<1>1. PICK op : op = pending[1] /\ op = Head(pending)
  BY <1>0, TakenFirst
<1>2. op \in Operation /\ WellFormed(op) /\ op.code = "remove"
  BY <1>0, <1>1, TakenFirst
<1>3. Shrinks /\ UNCHANGED <<ops, live>>
  BY <1>0, TakenFirst
<1>4. data \in Seq(RecordType) /\ Len(data) \in Nat
  BY <1>0 DEF TypeOK
<1>5. /\ data' = data \/ \E k \in 1..Len(data) : data' = Marked(k, Deleted)
      /\ shifted => shifted'
  <2>1. PICK e : e = Entry(op.id)
    OBVIOUS
  <2>2. PICK k : k = RecordAt(OpenOffset + index[e].pos)
    OBVIOUS
  <2>3. data' = data \/ (k # 0 /\ data' = Marked(k, Deleted))
    BY <1>1, <2>1, <2>2 DEF FlushRemove
  <2>4. k # 0 => k \in 1..Len(data)
    BY <1>0, <2>2, Places
  <2>5. shifted' = shifted \/ shifted' = (shifted \/ OpenOffset + index[e].pos # index[e].raw)
    BY <1>1, <2>1, <2>2 DEF FlushRemove
  <2>6. shifted => shifted'
    BY <2>5
  <2>7. data' = data \/ \E h \in 1..Len(data) : data' = Marked(h, Deleted)
    BY <2>3, <2>4
  <2>8. QED BY <2>6, <2>7
<1>6. Len(data') = Len(data)
  BY <1>0, <1>5, MarkedIs
<1>7. Len(data') \in Nat /\ Len(data') <= Len(data) + 1
  BY <1>4, <1>6
<1>8. Exact' => Exact
  BY <1>0, <1>5 DEF Exact, Good, Taken
<1>9. ASSUME Exact, Exact' PROVE Filed' = Merged(Filed, op, Val, "all")
  <2>1. Fitting
    BY <1>9, ViewInvIs
  <2>2. Filed \in Seq(Doc) /\ Fits(Filed, op)
    BY <1>0, <1>1, <1>3, <2>1, FirstFits
  <2>3. Sound /\ Good'
    BY <1>9 DEF StoreInv, Sound, Exact, Good
  <2>4. \/ data' = data /\ ~Indexed(op.id)
        \/ \E j \in 1..Len(data) : /\ data[j].id = op.id /\ data[j].status # Updated
                                   /\ data' = Marked(j, Deleted)
    BY <1>0, <1>1, <2>3, RemoveFinds
  <2>5. Filed' = Erase(Filed, op.id)
    <3>1. CASE data' = data /\ ~Indexed(op.id)
      <4>1. ~Stored(op.id)
        BY <1>0, <2>3, <3>1, Found DEF Sound, Indexed
      <4>2. \A i \in 1..Len(Filed) : Filed[i].id # op.id
        <5> SUFFICES ASSUME NEW i \in 1..Len(Filed) PROVE Filed[i].id # op.id
          OBVIOUS
        <5>1. In(Filed[i], Filed)
          BY DEF In
        <5>2. PICK k \in 1..Len(data) : Filed[i].id = data[k].id
          BY <1>4, <5>1, ScannedIs DEF Filed
        <5>3. QED BY <4>1, <5>2 DEF Stored
      <4>3. Erase(Filed, op.id) = Filed
        BY <2>2, <4>2, EraseAbsent
      <4>4. QED BY <3>1, <4>3 DEF Filed
    <3>2. ASSUME NEW j \in 1..Len(data), data[j].id = op.id, data[j].status # Updated,
                 data' = Marked(j, Deleted)
          PROVE  Filed' = Erase(Filed, op.id)
      <4>1. Scanned(Marked(j, Deleted), Val) = Erase(Filed, op.id)
        BY <1>0, <2>3, <3>2, MarkedScan DEF Sound
      <4>2. QED BY <3>2, <4>1 DEF Filed
    <3>3. QED BY <2>4, <3>1, <3>2
  <2>6. Merged(Filed, op, Val, "all") = Erase(Filed, op.id)
    BY <1>2, <2>2, MergedDocs
  <2>7. QED BY <2>5, <2>6
<1>10. Exact' => Exact /\ Filed' = Merged(Filed, pending[1], Val, "all")
  BY <1>1, <1>8, <1>9
<1>11. QED BY <1>0, <1>3, <1>7, <1>10, FlushViews

(* dropNamespace: there is no document.                                    *)
LEMMA DropView ==
    ASSUME StoreInv, ViewInv, FlushDrop
    PROVE  ViewInv'
<1>0. TypeOK /\ Requested /\ Taken("drop")
  BY DEF StoreInv, Requested, FlushDrop
<1>1. PICK op : op = pending[1]
  OBVIOUS
<1>2. op \in Operation /\ WellFormed(op) /\ op.code = "drop"
  BY <1>0, <1>1, TakenFirst
<1>3. Shrinks /\ UNCHANGED <<ops, live>>
  BY <1>0, TakenFirst
<1>4. data' = <<>> /\ shifted' = shifted
  BY DEF FlushDrop
<1>5. data \in Seq(RecordType) /\ Len(data) \in Nat
  BY <1>0 DEF TypeOK
<1>6. Len(data') \in Nat /\ Len(data') <= Len(data) + 1
  BY <1>4, <1>5, InNone
<1>7. Exact' => Exact
  BY <1>0, <1>4 DEF Exact, Good, Taken
<1>8. Filed' = Merged(Filed, op, Val, "all")
  <2>1. Filed \in Seq(Doc)
    BY <1>5, ScannedType DEF Filed
  <2>2. Merged(Filed, op, Val, "all") = <<>>
    BY <1>2, <2>1, MergedDocs
  <2>3. Filed' = <<>>
    BY <1>4, NoneOfNone DEF Filed
  <2>4. QED BY <2>2, <2>3
<1>9. QED BY <1>0, <1>1, <1>3, <1>6, <1>7, <1>8, FlushViews

(* What ViewInv speaks of does not change.                                 *)
LEMMA OtherView ==
    ASSUME ViewInv, UNCHANGED <<data, pending, live, ops, regular, reused, wrongRev, shifted>>
    PROVE  ViewInv'
<1>1. PICK v : v = Views
  OBVIOUS
<1>2. Views' = v
  BY <1>1 DEF Views, Filed
<1>3. Len(data) + Len(pending) <= ops /\ Len(live) <= ops
  BY ViewInvIs
<1>4. ASSUME Exact' PROVE live' = Views'[Len(pending')] /\ Fitting'
  <2>1. Exact
    BY <1>4 DEF Exact, Good
  <2>2. live = v[Len(pending)] /\ \A k \in 1..Len(pending) : Fits(v[k - 1], pending[k])
    BY <1>1, <2>1, ViewInvIs DEF Fitting
  <2>3. Fitting'
    BY <1>2, <2>2 DEF Fitting, Fits
  <2>4. QED BY <1>2, <2>2, <2>3
<1>5. QED BY <1>3, <1>4, ViewInvNext

(* The log takes the documents in the data file to those the client        *)
(* believes in, in every state.                                            *)
THEOREM ViewInvariance == Spec => [](StoreInv /\ ViewInv)
<1>1. Init => ViewInv
  <2> SUFFICES ASSUME Init PROVE ViewInv
    OBVIOUS
  <2>1. data = <<>> /\ pending = <<>> /\ live = <<>> /\ ops = 0 /\ Len(<<>>) = 0 /\ 1..0 = {} /\ 0 + 0 <= 0
    BY DEF Init
  <2>2. PICK n \in Nat : n = Len(pending) /\ n = 0
    BY <2>1
  <2>3. Filed = <<>>
    BY <2>1, NoneOfNone DEF Filed
  <2>4. Follows(Views, Filed, pending, Val, "all", n)
    BY <2>2, ViewAt DEF Views
  <2>5. live = Views[Len(pending)] /\ Fitting
    BY <2>1, <2>2, <2>3, <2>4 DEF Follows, Fitting
  <2>6. QED BY <2>1, <2>5, ViewInvIs
<1>2. StoreInv /\ ViewInv /\ [Next]_vars => ViewInv'
  <2> SUFFICES ASSUME StoreInv, ViewInv, [Next]_vars PROVE ViewInv'
    OBVIOUS
  <2>1. CASE \/ \E d \in Doc : Insert(d) \/ Update(d)
             \/ \E id \in Id, rev \in Rev : RemoveDoc(id, rev)
             \/ DropNamespace
    BY <2>1, RequestView
  <2>2. CASE FlushInsert
    BY <2>2, InsertView
  <2>3. CASE FlushUpdate
    BY <2>3, UpdateView
  <2>4. CASE FlushRemove
    BY <2>4, RemoveView
  <2>5. CASE FlushDrop
    BY <2>5, DropView
  <2>6. CASE FindOpens \/ Restart \/ UNCHANGED vars
    <3>1. UNCHANGED <<data, pending, live, ops, regular, reused, wrongRev, shifted>>
      BY <2>6 DEF FindOpens, Restart, vars, fileVars, histVars
    <3>2. QED BY <3>1, OtherView
  <2>7. QED BY <2>1, <2>2, <2>3, <2>4, <2>5, <2>6 DEF Next
<1>3. QED BY <1>1, <1>2, StoreInvariance, PTL DEF Spec

----------------------------------------------------------------------------
(* The answers of a find.                                                  *)

(* An operation that fits the documents fits some of them.                 *)
LEMMA FitsLess ==
    ASSUME NEW v, NEW m, NEW op, Fits(v, op), \A d : In(d, m) => In(d, v)
    PROVE  Fits(m, op)
<1> SUFFICES ASSUME NEW i \in 1..Len(m), m[i].id = op.id
             PROVE  op.code # "insert" /\ (op.code = "remove" => m[i].rev = op.rev)
  BY DEF Fits
<1>1. In(m[i], m)
  BY DEF In
<1>2. PICK j \in 1..Len(v) : v[j] = m[i]
  BY <1>1 DEF In
<1>3. QED BY <1>2 DEF Fits

(* An insert that fits finds nothing to erase.                             *)
LEMMA NothingErased ==
    ASSUME NEW m \in Seq(Doc), NEW op, op.code = "insert", Fits(m, op)
    PROVE  Erase(m, op.id) = m
<1>1. \A i \in 1..Len(m) : m[i].id # op.id
  BY DEF Fits
<1>2. QED BY <1>1, EraseAbsent

(* Merging an operation and filtering commute: the answer of a find is     *)
(* the same whether the filter is applied before or after.                 *)
LEMMA MatchingMerged ==
    ASSUME NEW v \in Seq(Doc), NEW op \in Operation, WellFormed(op), Fits(v, op), NEW F \in SUBSET Val
    PROVE  Merged(Matching(v, F), op, F, "all") = Matching(Merged(v, op, Val, "all"), F)
<1>1. PICK m : m = Matching(v, F)
  OBVIOUS
<1>2. m \in Seq(Doc) /\ \A d : In(d, m) => In(d, v)
  BY <1>1, MatchingIs
<1>3. Fits(m, op)
  BY <1>2, FitsLess
<1>4. PICK e : e = Erase(v, op.id)
  OBVIOUS
<1>5. e \in Seq(Doc) /\ Matching(e, F) = Erase(m, op.id)
  BY <1>1, <1>4, EraseIs, MatchingErase
<1>6. CASE op.code \in {"insert", "update"}
  <2>1. PICK d \in Doc : d = DocOf(op) /\ d.val = op.val
    BY <1>6, MergedDocs
  <2>2. op.val \in Val
    BY <1>6 DEF WellFormed
  <2>3. Merged(v, op, Val, "all") = Append(e, d)
    BY <1>4, <1>6, <2>1, <2>2, MergedDocs
  <2>4. Matching(Append(e, d), F) = IF op.val \in F THEN Append(Matching(e, F), d) ELSE Matching(e, F)
    BY <1>5, <2>1, MatchingMore
  <2>5. CASE op.val \in F
    <3>1. Merged(m, op, F, "all") = Append(Erase(m, op.id), d)
      BY <1>2, <1>6, <2>1, <2>5, MergedDocs
    <3>2. QED BY <1>1, <1>5, <2>3, <2>4, <2>5, <3>1
  <2>6. CASE op.val \notin F
    <3>1. Merged(m, op, F, "all") = Erase(m, op.id)
      <4>1. CASE op.code = "insert"
        <5>1. Merged(m, op, F, "all") = m
          BY <1>2, <2>6, <4>1, MergedDocs
        <5>2. Erase(m, op.id) = m
          BY <1>2, <1>3, <4>1, NothingErased
        <5>3. QED BY <5>1, <5>2
      <4>2. CASE op.code = "update"
        BY <1>2, <2>6, <4>2, MergedDocs
      <4>3. QED BY <1>6, <4>1, <4>2
    <3>2. QED BY <1>1, <1>5, <2>3, <2>4, <2>6, <3>1
  <2>7. QED BY <2>5, <2>6
<1>7. CASE op.code = "remove"
  <2>1. Merged(v, op, Val, "all") = e
    BY <1>4, <1>7, MergedDocs
  <2>2. Merged(m, op, F, "all") = Erase(m, op.id)
    BY <1>2, <1>3, <1>7, MergedDocs
  <2>3. QED BY <1>1, <1>5, <2>1, <2>2
<1>8. CASE op.code = "drop"
  <2>1. Merged(v, op, Val, "all") = <<>>
    BY <1>8, MergedDocs
  <2>2. Merged(m, op, F, "all") = <<>>
    BY <1>2, <1>8, MergedDocs
  <2>3. QED BY <1>1, <2>1, <2>2, NoneOfNone
<1>9. op.code \in {"insert", "update", "remove", "drop"}
  BY DEF Operation
<1>10. QED BY <1>6, <1>7, <1>8, <1>9

(* A limit that is not exceeded cuts nothing.                              *)
LEMMA LimitedIs ==
    ASSUME NEW X, NEW s \in Seq(X), NEW n \in Nat, Len(s) <= n
    PROVE  Limited(s, n) = s
<1>1. PICK l \in Nat : l = IF n = 0 THEN 1 ELSE n
  OBVIOUS
<1>2. Len(s) <= l
  <2>1. Len(s) \in Nat
    OBVIOUS
  <2>2. QED BY <1>1, <2>1
<1>3. FirstOf(s, l) = s
  BY <1>2, FirstOfIs
<1>4. QED BY <1>1, <1>3 DEF Limited

(* What find has in its map before it reads the log: the first of the      *)
(* matching documents in the file.                                         *)
LEMMA LoadedScan ==
    ASSUME StoreInv, ViewInv, Exact, NEW F \in SUBSET Val, NEW limit \in Nat
    PROVE  /\ Loaded(FullScan(F, limit)) = FirstOf(Matching(Filed, F), limit)
           /\ Matching(Filed, F) \in Seq(Doc) /\ Len(Matching(Filed, F)) <= MaxOps
<1>1. TypeOK /\ Sound
  BY DEF StoreInv, Exact, Good, Sound
<1>2. data \in Seq(RecordType) /\ Len(data) \in Nat /\ Len(pending) \in Nat /\ ops \in 0..MaxOps
  BY <1>1 DEF TypeOK
<1>3. Len(data) <= MaxOps
  <2>1. Len(data) + Len(pending) <= ops
    BY ViewInvIs
  <2>2. QED BY <1>2, <2>1, BoundsAssumption
<1>4. PICK s : s = Scanned(data, F)
  OBVIOUS
<1>5. s = Matching(Filed, F)
  BY <1>2, <1>4, MatchingScanned DEF Filed
<1>6. s \in Seq(Doc) /\ Len(s) \in Nat /\ Len(s) <= Len(data)
  BY <1>2, <1>4, ScannedType
<1>7. OneActive(data)
  <2>1. Once /\ Latest
    BY <1>1 DEF Sound
  <2>2. \A j, k \in 1..Len(data) :
          data[j].id = data[k].id /\ data[j].status # Updated /\ data[k].status # Updated => j = k
    BY <1>1, <2>1, LastVersion
  <2>3. \A j \in 1..Len(data) : data[j].status = Active => data[j].status # Updated
    BY DEF Active, Updated
  <2>4. PICK r : r = data
    OBVIOUS
  <2>5. \A j, k \in 1..Len(r) :
          r[j].id = r[k].id /\ r[j].status = Active /\ r[k].status = Active => j = k
    BY <2>2, <2>3, <2>4, Zenon
  <2>6. OneActive(r)
    BY <2>5, Zenon DEF OneActive
  <2>7. QED BY <2>4, <2>6
<1>8. Distinct(s)
  BY <1>2, <1>4, <1>7, ScannedDistinct
<1>9. PICK t : t = FirstOf(s, limit)
  OBVIOUS
<1>10. t \in Seq(Doc) /\ Distinct(t)
  <2>1. t \in Seq(Doc)
    BY <1>6, <1>9, FirstOfIs
  <2>2. CASE Len(s) <= limit
    <3>1. t = s
      BY <1>6, <1>9, <2>2, FirstOfIs
    <3>2. QED BY <1>8, <2>1, <3>1
  <2>3. CASE limit < Len(s)
    <3>1. Len(t) = limit /\ \A i \in 1..limit : t[i] = s[i]
      BY <1>6, <1>9, <2>3, FirstOfIs
    <3>2. \A i \in 1..limit : i \in 1..Len(s)
      BY <1>6, <2>3
    <3>3. Distinct(t)
      BY <1>8, <3>1, <3>2 DEF Distinct
    <3>4. QED BY <2>1, <3>3
  <2>4. QED BY <1>6, <2>2, <2>3
<1>11. Loaded(t) = t
  BY <1>10, LoadedIs
<1>12. FullScan(F, limit) = t
  BY <1>4, <1>9 DEF FullScan
<1>13. Len(s) <= MaxOps
  BY <1>2, <1>3, <1>6, BoundsAssumption
<1>14. QED BY <1>5, <1>6, <1>9, <1>11, <1>12, <1>13

(* What find reads of the log: after each operation of the log the map has *)
(* what matches of the documents there are.                                *)
LEMMA FollowsMatching ==
    ASSUME TypeOK, Requested, Fitting, NEW n \in Nat, n = Len(pending), NEW v, v = Views,
           NEW F \in SUBSET Val, NEW w, Follows(w, Matching(Filed, F), pending, F, "all", n)
    PROVE  \A k \in 0..n : w[k] = Matching(v[k], F)
<1>1. /\ v[0] = Filed /\ \A k \in 1..n : v[k] = Merged(v[k - 1], pending[k], Val, "all")
      /\ \A k \in 0..n : v[k] \in Seq(Doc)
      /\ \A k \in 1..n : Fits(v[k - 1], pending[k]) /\ pending[k] \in Operation /\ WellFormed(pending[k])
  BY ViewsType
<1>2. w[0] = Matching(Filed, F) /\ \A k \in 1..n : w[k] = Merged(w[k - 1], pending[k], F, "all")
  BY DEF Follows
<1> DEFINE N == {k \in Nat : k <= n => w[k] = Matching(v[k], F)}
<1>3. 0 \in N
  BY <1>1, <1>2
<1>4. ASSUME NEW k \in Nat, k \in N PROVE k + 1 \in N
  <2>1. ASSUME k + 1 <= n PROVE w[k + 1] = Matching(v[k + 1], F)
    <3>1. PICK i \in 1..n : i = k + 1 /\ i - 1 = k /\ k \in 0..n
      BY <2>1
    <3>2. PICK op : op = pending[i]
      OBVIOUS
    <3>3. v[k] \in Seq(Doc) /\ op \in Operation /\ WellFormed(op) /\ Fits(v[k], op)
      BY <1>1, <3>1, <3>2
    <3>4. PICK x \in Seq(Doc) : x = v[k]
      BY <3>3
    <3>5. Merged(Matching(x, F), op, F, "all") = Matching(Merged(x, op, Val, "all"), F)
      BY <3>3, <3>4, MatchingMerged
    <3>6. w[k] = Matching(x, F)
      BY <1>4, <2>1, <3>4
    <3>7. w[i] = Merged(w[k], op, F, "all") /\ v[i] = Merged(x, op, Val, "all")
      BY <1>1, <1>2, <3>1, <3>2, <3>4
    <3>8. w[i] = Matching(v[i], F)
      BY <3>5, <3>6, <3>7
    <3>9. QED BY <3>1, <3>8
  <2>2. QED BY <2>1
<1> HIDE DEF N
<1>5. Nat \subseteq N
  BY <1>3, <1>4, Numbers
<1>6. QED BY <1>5 DEF N

(* A find gives, for every filter, the matching documents as the client    *)
(* left them, however much of the log has been flushed and whenever the    *)
(* server was restarted, when ids are inserted once, updates are of        *)
(* inserted ids, removes name the revision, and the index leads where it   *)
(* was told.                                                               *)
THEOREM FindsCurrent == Spec => []FindIsCurrent
<1>1. StoreInv /\ ViewInv => FindIsCurrent
  <2> SUFFICES ASSUME StoreInv, ViewInv, Exact, NEW F \in SUBSET Val PROVE Find(F) = Current(F)
    BY DEF FindIsCurrent, Answers, Exact, Good
  <2>1. TypeOK /\ Requested /\ Fitting
    BY ViewInvIs DEF StoreInv, Requested
  <2>2. PICK n \in Nat : n = Len(pending)
    <3>1. pending \in Seq(Operation)
      BY <2>1 DEF TypeOK, Operation
    <3>2. QED BY <3>1
  <2>3. PICK v : v = Views
    OBVIOUS
  <2>4. live = v[n]
    BY <2>2, <2>3, ViewInvIs
  <2>5. live \in Seq(Doc) /\ Len(live) <= MaxOps
    <3>1. live \in Seq(Doc) /\ Len(live) \in Nat /\ ops \in 0..MaxOps /\ Len(live) <= ops
      BY <2>1, ViewInvIs DEF TypeOK
    <3>2. QED BY <3>1, BoundsAssumption
  <2>6. PICK b : b = Matching(Filed, F)
    OBVIOUS
  <2>7. MaxOps \in Nat
    BY BoundsAssumption
  <2>8. Loaded(FullScan(F, MaxOps)) = b
    <3>1. Loaded(FullScan(F, MaxOps)) = FirstOf(b, MaxOps) /\ b \in Seq(Doc) /\ Len(b) <= MaxOps
      BY <2>6, <2>7, LoadedScan
    <3>2. FirstOf(b, MaxOps) = b
      BY <2>7, <3>1, FirstOfIs
    <3>3. QED BY <3>1, <3>2
  <2>9. PICK w : w = WithLog(b, pending, F, "all")
    OBVIOUS
  <2>10. Follows(w, b, pending, F, "all", n)
    BY <2>2, <2>9, ViewAt
  <2>11. \A k \in 0..n : w[k] = Matching(v[k], F)
    BY <2>1, <2>2, <2>3, <2>6, <2>10, FollowsMatching
  <2>12. w[n] = Matching(live, F)
    BY <2>4, <2>11
  <2>13. Find(F) = Limited(w[n], MaxOps)
    BY <2>2, <2>8, <2>9 DEF Find, FindSelected
  <2>14. Matching(live, F) \in Seq(Doc) /\ Len(Matching(live, F)) <= MaxOps
    <3>1. /\ Matching(live, F) \in Seq(Doc) /\ Len(Matching(live, F)) \in Nat
          /\ Len(Matching(live, F)) <= Len(live) /\ Len(live) \in Nat
      BY <2>5, MatchingIs
    <3>2. QED BY <2>5, <2>7, <3>1
  <2>15. Limited(Matching(live, F), MaxOps) = Matching(live, F)
    BY <2>7, <2>14, LimitedIs
  <2>16. QED BY <2>12, <2>13, <2>15 DEF Current
<1>2. QED BY <1>1, ViewInvariance, PTL

----------------------------------------------------------------------------
(* A find with a limit.                                                    *)

\* Documents of v that match
Within(m, v, F) == \A d : In(d, m) => In(d, v) /\ d.val \in F

\* The same list, or both have more than the limit and begin alike.
Begins(m, g, limit) ==
  \/ m = g
  \/ limit <= Len(m) /\ limit <= Len(g) /\ \A i \in 1..limit : m[i] = g[i]

(* The beginning of a list is a part of it, and no longer than asked.      *)
LEMMA FirstIn ==
    ASSUME NEW X, NEW s \in Seq(X), NEW n \in Nat
    PROVE  /\ FirstOf(s, n) \in Seq(X) /\ Len(FirstOf(s, n)) \in Nat /\ Len(FirstOf(s, n)) <= n
           /\ \A d : In(d, FirstOf(s, n)) => In(d, s)
<1>1. PICK t : t = FirstOf(s, n)
  OBVIOUS
<1>2. t \in Seq(X) /\ Len(s) \in Nat /\ Len(t) \in Nat
  <2>1. t \in Seq(X)
    BY <1>1, FirstOfIs
  <2>2. QED BY <2>1
<1>3. CASE Len(s) <= n
  <2>1. t = s
    BY <1>1, <1>3, FirstOfIs
  <2>2. QED BY <1>1, <1>2, <1>3, <2>1
<1>4. CASE n < Len(s)
  <2>1. Len(t) = n /\ \A i \in 1..n : t[i] = s[i]
    BY <1>1, <1>4, FirstOfIs
  <2>2. \A i \in 1..n : i \in 1..Len(s)
    BY <1>2, <1>4
  <2>3. \A d : In(d, t) => In(d, s)
    BY <2>1, <2>2 DEF In
  <2>4. QED BY <1>1, <1>2, <2>1, <2>3
<1>5. QED BY <1>2, <1>3, <1>4

(* Lists that begin alike have the same beginning.                         *)
LEMMA FirstAlike ==
    ASSUME NEW X, NEW m \in Seq(X), NEW g \in Seq(X), NEW n \in Nat, Begins(m, g, n)
    PROVE  FirstOf(m, n) = FirstOf(g, n)
<1>1. CASE m = g
  BY <1>1
<1>2. CASE n <= Len(m) /\ n <= Len(g) /\ \A i \in 1..n : m[i] = g[i]
  <2>1. ASSUME NEW s \in Seq(X), n <= Len(s)
        PROVE  FirstOf(s, n) \in Seq(X) /\ Len(FirstOf(s, n)) = n /\ \A i \in 1..n : FirstOf(s, n)[i] = s[i]
    <3>1. Len(s) \in Nat
      OBVIOUS
    <3>2. CASE Len(s) <= n
      <4>1. Len(s) = n
        BY <2>1, <3>1, <3>2
      <4>2. FirstOf(s, n) = s
        BY <3>2, FirstOfIs
      <4>3. QED BY <4>1, <4>2
    <3>3. CASE n < Len(s)
      BY <3>3, FirstOfIs
    <3>4. QED BY <3>1, <3>2, <3>3
  <2>2. PICK a : a = FirstOf(m, n)
    OBVIOUS
  <2>3. PICK b : b = FirstOf(g, n)
    OBVIOUS
  <2>4. a \in Seq(X) /\ Len(a) = n /\ \A i \in 1..n : a[i] = m[i]
    BY <1>2, <2>1, <2>2
  <2>5. b \in Seq(X) /\ Len(b) = n /\ \A i \in 1..n : b[i] = g[i]
    BY <1>2, <2>1, <2>3
  <2>6. \A i \in 1..n : a[i] = b[i]
    BY <1>2, <2>4, <2>5
  <2>7. a = b
    BY <2>4, <2>5, <2>6
  <2>8. QED BY <2>2, <2>3, <2>7
<1>3. QED BY <1>1, <1>2 DEF Begins

(* Merging keeps a part of the documents a part of them.                   *)
LEMMA WithinMerged ==
    ASSUME NEW v \in Seq(Doc), NEW m \in Seq(Doc), NEW op \in Operation, WellFormed(op), Fits(v, op),
           NEW F \in SUBSET Val, Within(m, v, F)
    PROVE  /\ Merged(m, op, F, "all") \in Seq(Doc)
           /\ Within(Merged(m, op, F, "all"), Merged(v, op, Val, "all"), F)
<1>1. Fits(m, op)
  <2>1. \A d : In(d, m) => In(d, v)
    BY DEF Within
  <2>2. QED BY <2>1, FitsLess
<1>2. Merged(m, op, F, "all") \in Seq(Doc)
  BY <1>1, MergedDocs
<1>3. PICK e : e = Erase(v, op.id)
  OBVIOUS
<1>4. e \in Seq(Doc) /\ \A d : In(d, e) <=> In(d, v) /\ d.id # op.id
  BY <1>3, EraseIs
<1>5. PICK f : f = Erase(m, op.id)
  OBVIOUS
<1>6. f \in Seq(Doc) /\ \A d : In(d, f) <=> In(d, m) /\ d.id # op.id
  BY <1>5, EraseIs
<1>7. \A d : In(d, f) => In(d, e) /\ d.val \in F
  BY <1>4, <1>6, Zenon DEF Within
<1>8. CASE op.code \in {"insert", "update"}
  <2>1. PICK d \in Doc : d = DocOf(op) /\ d.val = op.val
    BY <1>8, MergedDocs
  <2>2. op.val \in Val
    BY <1>8 DEF WellFormed
  <2>3. Merged(v, op, Val, "all") = Append(e, d)
    BY <1>3, <1>8, <2>1, <2>2, MergedDocs
  <2>4. \A c : In(c, Append(e, d)) <=> In(c, e) \/ c = d
    BY <1>4, <2>1, InMore
  <2>5. CASE op.val \in F
    <3>1. Merged(m, op, F, "all") = Append(f, d)
      BY <1>5, <1>8, <2>1, <2>5, MergedDocs
    <3>2. \A c : In(c, Append(f, d)) <=> In(c, f) \/ c = d
      BY <1>6, <2>1, InMore
    <3>3. Within(Append(f, d), Append(e, d), F)
      BY <1>7, <2>1, <2>4, <2>5, <3>2 DEF Within
    <3>4. QED BY <1>2, <2>3, <3>1, <3>3
  <2>6. CASE op.val \notin F
    <3>1. Merged(m, op, F, "all") = f
      <4>1. CASE op.code = "insert"
        <5>1. Merged(m, op, F, "all") = m
          BY <2>6, <4>1, MergedDocs
        <5>2. Erase(m, op.id) = m
          BY <1>1, <4>1, NothingErased
        <5>3. QED BY <1>5, <5>1, <5>2
      <4>2. CASE op.code = "update"
        BY <1>5, <2>6, <4>2, MergedDocs
      <4>3. QED BY <1>8, <4>1, <4>2
    <3>2. Within(f, Append(e, d), F)
      BY <1>7, <2>4 DEF Within
    <3>3. QED BY <1>2, <2>3, <3>1, <3>2
  <2>7. QED BY <2>5, <2>6
<1>9. CASE op.code = "remove"
  <2>1. Merged(v, op, Val, "all") = e
    BY <1>3, <1>9, MergedDocs
  <2>2. Merged(m, op, F, "all") = f
    BY <1>1, <1>5, <1>9, MergedDocs
  <2>3. Within(f, e, F)
    BY <1>7 DEF Within
  <2>4. QED BY <1>2, <2>1, <2>2, <2>3
<1>10. CASE op.code = "drop"
  <2>1. Merged(m, op, F, "all") = <<>>
    BY <1>10, MergedDocs
  <2>2. Within(<<>>, Merged(v, op, Val, "all"), F)
    BY InNone DEF Within
  <2>3. QED BY <1>2, <2>1, <2>2
<1>11. op.code \in {"insert", "update", "remove", "drop"}
  BY DEF Operation
<1>12. QED BY <1>8, <1>9, <1>10, <1>11

(* An insert lets lists that begin alike begin alike.                      *)
LEMMA BeginsMerged ==
    ASSUME NEW m \in Seq(Doc), NEW g \in Seq(Doc), NEW op \in Operation, WellFormed(op), op.code = "insert",
           Fits(m, op), Fits(g, op), NEW F, NEW limit \in Nat, Begins(m, g, limit)
    PROVE  Begins(Merged(m, op, F, "all"), Merged(g, op, F, "all"), limit)
<1>1. CASE op.val \notin F
  <2>1. Merged(m, op, F, "all") = m /\ Merged(g, op, F, "all") = g
    BY <1>1, MergedDocs
  <2>2. QED BY <2>1
<1>2. CASE op.val \in F
  <2>1. PICK d \in Doc : d = DocOf(op)
    BY MergedDocs
  <2>2. Merged(m, op, F, "all") = Append(Erase(m, op.id), d)
    BY <1>2, <2>1, MergedDocs
  <2>3. Merged(g, op, F, "all") = Append(Erase(g, op.id), d)
    BY <1>2, <2>1, MergedDocs
  <2>4. Erase(m, op.id) = m /\ Erase(g, op.id) = g
    BY NothingErased
  <2>5. CASE m = g
    <3>1. Append(m, d) = Append(g, d)
      BY <2>5
    <3>2. QED BY <2>2, <2>3, <2>4, <3>1 DEF Begins
  <2>6. CASE limit <= Len(m) /\ limit <= Len(g) /\ \A i \in 1..limit : m[i] = g[i]
    <3>1. PICK a : a = Append(m, d)
      OBVIOUS
    <3>2. PICK b : b = Append(g, d)
      OBVIOUS
    <3>3. Len(m) \in Nat /\ Len(a) = Len(m) + 1 /\ \A i \in 1..Len(m) : a[i] = m[i]
      BY <3>1
    <3>4. Len(g) \in Nat /\ Len(b) = Len(g) + 1 /\ \A i \in 1..Len(g) : b[i] = g[i]
      BY <3>2
    <3>5. limit <= Len(a) /\ limit <= Len(b)
      BY <2>6, <3>3, <3>4
    <3>6. \A i \in 1..limit : i \in 1..Len(m) /\ i \in 1..Len(g)
      BY <2>6, <3>3, <3>4
    <3>7. \A i \in 1..limit : a[i] = b[i]
      BY <2>6, <3>3, <3>4, <3>6
    <3>8. Begins(a, b, limit)
      BY <3>5, <3>7 DEF Begins
    <3>9. QED BY <2>2, <2>3, <2>4, <3>1, <3>2, <3>8
  <2>7. QED BY <2>5, <2>6 DEF Begins
<1>3. QED BY <1>1, <1>2

(* The map of a find with a limit holds current documents that match; and  *)
(* while the log holds only inserts it begins as all that match do.        *)
LEMMA FollowsWithin ==
    ASSUME TypeOK, Requested, Fitting, NEW n \in Nat, n = Len(pending), NEW v, v = Views,
           NEW F \in SUBSET Val, NEW limit \in Nat, NEW w,
           Follows(w, FirstOf(Matching(Filed, F), limit), pending, F, "all", n)
    PROVE  \A k \in 0..n :
             /\ w[k] \in Seq(Doc) /\ Within(w[k], v[k], F)
             /\ (\A i \in 1..n : pending[i].code = "insert") => Begins(w[k], Matching(v[k], F), limit)
<1>1. /\ v[0] = Filed /\ \A k \in 1..n : v[k] = Merged(v[k - 1], pending[k], Val, "all")
      /\ \A k \in 0..n : v[k] \in Seq(Doc)
      /\ \A k \in 1..n : Fits(v[k - 1], pending[k]) /\ pending[k] \in Operation /\ WellFormed(pending[k])
  BY ViewsType
<1>2. /\ w[0] = FirstOf(Matching(Filed, F), limit)
      /\ \A k \in 1..n : w[k] = Merged(w[k - 1], pending[k], F, "all")
  BY DEF Follows
<1> DEFINE Inserted == \A i \in 1..n : pending[i].code = "insert"
           Kept(k) == /\ w[k] \in Seq(Doc) /\ Within(w[k], v[k], F)
                      /\ Inserted => Begins(w[k], Matching(v[k], F), limit)
           N == {k \in Nat : k <= n => Kept(k)}
<1>3. 0 \in N
  <2>1. PICK x \in Seq(Doc) : x = v[0]
    BY <1>1
  <2>2. PICK g : g = Matching(x, F)
    OBVIOUS
  <2>3. g \in Seq(Doc) /\ \A d : In(d, g) <=> In(d, x) /\ d.val \in F
    BY <2>2, MatchingIs
  <2>4. PICK h : h = FirstOf(g, limit)
    OBVIOUS
  <2>5. h \in Seq(Doc) /\ \A d : In(d, h) => In(d, g)
    BY <2>3, <2>4, FirstIn
  <2>6. Within(h, x, F)
    BY <2>3, <2>5, Zenon DEF Within
  <2>7. Begins(h, g, limit)
    <3>1. Len(g) \in Nat
      BY <2>3
    <3>2. CASE Len(g) <= limit
      <4>1. h = g
        BY <2>3, <2>4, <3>2, FirstOfIs
      <4>2. QED BY <4>1 DEF Begins
    <3>3. CASE limit < Len(g)
      <4>1. Len(h) = limit /\ \A i \in 1..limit : h[i] = g[i]
        BY <2>3, <2>4, <3>3, FirstOfIs
      <4>2. limit <= Len(h) /\ limit <= Len(g)
        BY <3>1, <3>3, <4>1
      <4>3. QED BY <4>1, <4>2 DEF Begins
    <3>4. QED BY <3>1, <3>2, <3>3
  <2>8. w[0] = h
    BY <1>1, <1>2, <2>1, <2>2, <2>4
  <2>9. Kept(0)
    BY <2>1, <2>2, <2>5, <2>6, <2>7, <2>8
  <2>10. QED BY <2>9
<1>4. ASSUME NEW k \in Nat, k \in N PROVE k + 1 \in N
  <2>1. ASSUME k + 1 <= n PROVE Kept(k + 1)
    <3>1. PICK i \in 1..n : i = k + 1 /\ i - 1 = k /\ k \in 0..n
      BY <2>1
    <3>2. PICK op : op = pending[i]
      OBVIOUS
    <3>3. PICK x : x = v[k]
      OBVIOUS
    <3>4. x \in Seq(Doc) /\ op \in Operation /\ WellFormed(op) /\ Fits(x, op)
      BY <1>1, <3>1, <3>2, <3>3
    <3>5. PICK m : m = w[k]
      OBVIOUS
    <3>6. k <= n
      BY <3>1
    <3>7. /\ m \in Seq(Doc) /\ Within(m, x, F)
          /\ Inserted => Begins(m, Matching(x, F), limit)
      BY <1>4, <3>3, <3>5, <3>6
    <3>8. w[i] = Merged(m, op, F, "all") /\ v[i] = Merged(x, op, Val, "all")
      BY <1>1, <1>2, <3>1, <3>2, <3>3, <3>5
    <3>9. Merged(m, op, F, "all") \in Seq(Doc) /\ Within(Merged(m, op, F, "all"), Merged(x, op, Val, "all"), F)
      BY <3>4, <3>7, WithinMerged
    <3>10. ASSUME Inserted PROVE Begins(w[i], Matching(v[i], F), limit)
      <4>1. op.code = "insert"
        BY <3>2, <3>10
      <4>2. PICK g : g = Matching(x, F)
        OBVIOUS
      <4>3. g \in Seq(Doc) /\ \A d : In(d, g) => In(d, x)
        BY <3>4, <4>2, MatchingIs
      <4>4. Fits(g, op)
        BY <3>4, <4>3, FitsLess
      <4>5. \A d : In(d, m) => In(d, x)
        BY <3>7 DEF Within
      <4>6. Fits(m, op)
        BY <3>4, <4>5, FitsLess
      <4>7. Begins(m, g, limit)
        BY <3>7, <3>10, <4>2
      <4>8. Begins(Merged(m, op, F, "all"), Merged(g, op, F, "all"), limit)
        BY <3>4, <3>7, <4>1, <4>3, <4>4, <4>6, <4>7, BeginsMerged
      <4>9. Merged(g, op, F, "all") = Matching(Merged(x, op, Val, "all"), F)
        BY <3>4, <4>2, MatchingMerged
      <4>10. QED BY <3>8, <4>8, <4>9
    <3>11. Kept(i)
      BY <3>8, <3>9, <3>10
    <3>12. QED BY <3>1, <3>11
  <2>2. QED BY <2>1
<1> HIDE DEF N
<1>5. Nat \subseteq N
  BY <1>3, <1>4, Numbers
<1>6. QED BY <1>5 DEF N

(* With a limit a find gives current documents only and no more than the   *)
(* limit, and the first ones while the log holds nothing but inserts, for  *)
(* ids inserted once, updates of inserted ids, removes that name the       *)
(* revision and an index that leads where it was told.                     *)
THEOREM LimitedFinds == Spec => []LimitedFind
<1>1. StoreInv /\ ViewInv => LimitedFind
  <2> SUFFICES ASSUME StoreInv, ViewInv, Exact, NEW F \in SUBSET Val, NEW limit \in 0..2
               PROVE  LET answer == FindSelected(F, limit, "all")
                      IN  /\ ToSet(answer) \subseteq ToSet(Current(F))
                          /\ Len(answer) <= IF limit = 0 THEN 1 ELSE limit
                          /\ limit > 0 /\ (\A i \in DOMAIN pending : pending[i].code = "insert")
                               => answer = FirstOf(Current(F), limit)
    BY DEF LimitedFind, Exact, Good
  <2>1. TypeOK /\ Requested /\ Fitting
    BY ViewInvIs DEF StoreInv, Requested
  <2>2. PICK n \in Nat : n = Len(pending) /\ DOMAIN pending = 1..n
    <3>1. pending \in Seq(Operation)
      BY <2>1 DEF TypeOK, Operation
    <3>2. QED BY <3>1
  <2>3. PICK v : v = Views
    OBVIOUS
  <2>4. live = v[n]
    BY <2>2, <2>3, ViewInvIs
  <2>5. live \in Seq(Doc)
    BY <2>1 DEF TypeOK
  <2>6. limit \in Nat
    OBVIOUS
  <2>7. PICK b : b = FirstOf(Matching(Filed, F), limit)
    OBVIOUS
  <2>8. Loaded(FullScan(F, limit)) = b
    BY <2>6, <2>7, LoadedScan
  <2>9. PICK w : w = WithLog(b, pending, F, "all")
    OBVIOUS
  <2>10. Follows(w, b, pending, F, "all", n)
    BY <2>2, <2>9, ViewAt
  <2>11. \A k \in 0..n :
             /\ w[k] \in Seq(Doc) /\ Within(w[k], v[k], F)
             /\ (\A i \in 1..n : pending[i].code = "insert") => Begins(w[k], Matching(v[k], F), limit)
    BY <2>1, <2>2, <2>3, <2>6, <2>7, <2>10, FollowsWithin
  <2>12. PICK m : m = w[n]
    OBVIOUS
  <2>13. PICK g : g = Matching(live, F)
    OBVIOUS
  <2>14. /\ m \in Seq(Doc) /\ Within(m, live, F)
         /\ (\A i \in 1..n : pending[i].code = "insert") => Begins(m, g, limit)
    BY <2>4, <2>11, <2>12, <2>13
  <2>15. g \in Seq(Doc) /\ \A d : In(d, g) <=> In(d, live) /\ d.val \in F
    BY <2>5, <2>13, MatchingIs
  <2>16. PICK l \in Nat : l = IF limit = 0 THEN 1 ELSE limit
    OBVIOUS
  <2>17. PICK a : a = FirstOf(m, l)
    OBVIOUS
  <2>18. FindSelected(F, limit, "all") = a
    BY <2>2, <2>8, <2>9, <2>12, <2>16, <2>17 DEF FindSelected, Limited
  <2>19. a \in Seq(Doc) /\ Len(a) <= l /\ \A d : In(d, a) => In(d, m)
    BY <2>14, <2>16, <2>17, FirstIn
  <2>20. \A d : In(d, a) => In(d, g)
    BY <2>14, <2>15, <2>19, Zenon DEF Within
  <2>21. ToSet(a) \subseteq ToSet(g)
    <3>1. DOMAIN a = 1..Len(a) /\ DOMAIN g = 1..Len(g)
      BY <2>15, <2>19
    <3>2. QED BY <2>20, <3>1 DEF ToSet, In
  <2>22. ASSUME limit > 0, \A i \in 1..n : pending[i].code = "insert"
         PROVE  a = FirstOf(g, limit)
    <3>1. l = limit
      BY <2>16, <2>22
    <3>2. Begins(m, g, limit)
      BY <2>14, <2>22
    <3>3. FirstOf(m, limit) = FirstOf(g, limit)
      BY <2>6, <2>14, <2>15, <3>2, FirstAlike
    <3>4. QED BY <2>17, <3>1, <3>3
  <2>23. Current(F) = g
    BY <2>13 DEF Current
  <2>24. QED BY <2>2, <2>16, <2>18, <2>19, <2>21, <2>22, <2>23
<1>2. QED BY <1>1, ViewInvariance, PTL
----------------------------------------------------------------------------
(* A find whose select leaves the revision out.                            *)

SameIds(s, t) == Len(s) = Len(t) /\ \A i \in 1..Len(s) : s[i].id = t[i].id

\* The rows that have a revision are documents of x.
Revised(m, x) == \A d : In(d, m) /\ d.rev # None => In(d, x)

\* A remove meets a row that has lost its revision.
Misses(m, op) == op.code = "remove" /\ \E i \in 1..Len(m) : m[i].id = op.id /\ m[i].rev = None

(* Lists of the same ids, one item more.                                   *)
LEMMA SameIdsMore ==
    ASSUME NEW X, NEW Y, NEW s \in Seq(X), NEW t \in Seq(Y), NEW x \in X, NEW y \in Y,
           SameIds(s, t), x.id = y.id
    PROVE  SameIds(Append(s, x), Append(t, y))
<1>1. PICK n \in Nat : n = Len(s) /\ n = Len(t)
  <2>1. Len(s) \in Nat
    OBVIOUS
  <2>2. QED BY <2>1 DEF SameIds
<1>2. PICK a : a = Append(s, x)
  OBVIOUS
<1>3. PICK b : b = Append(t, y)
  OBVIOUS
<1>4. /\ a \in Seq(X) /\ Len(a) = n + 1 /\ a[n + 1] = x
      /\ \A i \in 1..n : a[i] = s[i]
  <2>1. n = Len(s)
    BY <1>1
  <2>2. QED BY <1>2, <2>1
<1>5. /\ b \in Seq(Y) /\ Len(b) = n + 1 /\ b[n + 1] = y
      /\ \A i \in 1..n : b[i] = t[i]
  <2>1. n = Len(t)
    BY <1>1
  <2>2. QED BY <1>3, <2>1
<1>6. \A i \in 1..n : a[i].id = b[i].id
  BY <1>1, <1>4, <1>5 DEF SameIds
<1>7. \A i \in 1..(n + 1) : a[i].id = b[i].id
  BY <1>4, <1>5, <1>6
<1>8. SameIds(a, b)
  BY <1>4, <1>5, <1>7 DEF SameIds
<1>9. QED BY <1>2, <1>3, <1>8

(* LinkedMap::erase depends on the ids alone.                              *)
LEMMA EraseSame ==
    ASSUME NEW X, NEW Y, NEW s \in Seq(X), NEW t \in Seq(Y), NEW id, SameIds(s, t)
    PROVE  SameIds(Erase(s, id), Erase(t, id))
<1> DEFINE G == {a \in Seq(X) : \A b \in Seq(Y) : SameIds(a, b) => SameIds(Erase(a, id), Erase(b, id))}
<1>1. <<>> \in G
  <2>1. ASSUME NEW b \in Seq(Y), SameIds(<<>>, b) PROVE b = <<>>
    BY <2>1, EmptySeq, InNone DEF SameIds
  <2>2. SameIds(Erase(<<>>, id), Erase(<<>>, id))
    BY NoneOfNone, InNone DEF SameIds
  <2>3. QED BY <2>1, <2>2, EmptySeq
<1>2. ASSUME NEW a \in Seq(X), NEW x \in X, a \in G PROVE Append(a, x) \in G
  <2>1. PICK n \in Nat : n = Len(a)
    OBVIOUS
  <2>2. PICK c : c = Append(a, x)
    OBVIOUS
  <2>3. /\ c \in Seq(X) /\ Len(c) = n + 1 /\ c[n + 1] = x
        /\ \A i \in 1..n : c[i] = a[i]
    BY <2>1, <2>2
  <2>4. ASSUME NEW b \in Seq(Y), SameIds(c, b)
        PROVE  SameIds(Erase(c, id), Erase(b, id))
    <3>1. Len(b) = n + 1
      BY <2>3, <2>4 DEF SameIds
    <3>2. PICK e \in Seq(Y), y \in Y : b = Append(e, y) /\ Len(e) = n
      BY <3>1, LastOf
    <3>3. b[n + 1] = y /\ \A i \in 1..n : b[i] = e[i]
      BY <3>2
    <3>4. \A i \in 1..(n + 1) : c[i].id = b[i].id
      BY <2>3, <2>4 DEF SameIds
    <3>5. SameIds(a, e) /\ x.id = y.id
      <4>1. \A i \in 1..n : a[i].id = e[i].id
        BY <2>3, <3>3, <3>4
      <4>2. x.id = y.id
        BY <2>3, <3>3, <3>4
      <4>3. QED BY <2>1, <3>2, <4>1, <4>2 DEF SameIds
    <3>6. PICK f : f = Erase(a, id)
      OBVIOUS
    <3>7. PICK h : h = Erase(e, id)
      OBVIOUS
    <3>8. SameIds(f, h)
      BY <1>2, <3>2, <3>5, <3>6, <3>7
    <3>9. f \in Seq(X) /\ h \in Seq(Y)
      <4>1. f \in Seq(X)
        BY <3>6, EraseIs
      <4>2. h \in Seq(Y)
        BY <3>7, EraseIs
      <4>3. QED BY <4>1, <4>2
    <3>10. Erase(c, id) = IF x.id # id THEN Append(f, x) ELSE f
      BY <2>2, <3>6, EraseMore
    <3>11. Erase(b, id) = IF y.id # id THEN Append(h, y) ELSE h
      BY <3>2, <3>7, EraseMore
    <3>12. SameIds(Append(f, x), Append(h, y))
      BY <3>5, <3>8, <3>9, SameIdsMore
    <3>13. QED BY <3>5, <3>8, <3>10, <3>11, <3>12
  <2>5. QED BY <2>2, <2>3, <2>4
<1> HIDE DEF G
<1>3. Seq(X) \subseteq G
  BY <1>1, <1>2, Sequences
<1>4. QED BY <1>3 DEF G

(* Merging goes the same way whether the documents of the log keep their   *)
(* revision or not, as long as no remove meets one that lost it.           *)
LEMMA FieldsMerged ==
    ASSUME NEW x \in Seq(Doc), NEW m \in Seq(Row), NEW g \in Seq(Doc), NEW F \in SUBSET Val,
           NEW op \in Operation, WellFormed(op), Fits(x, op), Fits(g, op),
           SameIds(m, g), Revised(m, x), ~Misses(m, op)
    PROVE  /\ Merged(m, op, F, "fields") \in Seq(Row)
           /\ SameIds(Merged(m, op, F, "fields"), Merged(g, op, F, "all"))
           /\ Revised(Merged(m, op, F, "fields"), Merged(x, op, Val, "all"))
           /\ \A d : In(d, Merged(m, op, F, "fields")) =>
                In(d, m) \/ (op.code \in {"insert", "update"} /\ d.id = op.id)
<1>1. PICK e : e = Erase(x, op.id)
  OBVIOUS
<1>2. e \in Seq(Doc) /\ \A d : In(d, e) <=> In(d, x) /\ d.id # op.id
  BY <1>1, EraseIs
<1>3. PICK f : f = Erase(m, op.id)
  OBVIOUS
<1>4. f \in Seq(Row) /\ \A d : In(d, f) <=> In(d, m) /\ d.id # op.id
  BY <1>3, EraseIs
<1>5. PICK h : h = Erase(g, op.id)
  OBVIOUS
<1>6. h \in Seq(Doc) /\ SameIds(f, h)
  <2>1. h \in Seq(Doc)
    BY <1>5, EraseIs
  <2>2. SameIds(f, h)
    BY <1>3, <1>5, EraseSame
  <2>3. QED BY <2>1, <2>2
<1>7. Revised(f, e)
  BY <1>2, <1>4, Zenon DEF Revised
<1>8. CASE op.code \in {"insert", "update"}
  <2>1. PICK d \in Doc : d = DocOf(op) /\ d.id = op.id
    BY <1>8, MergedDocs
  <2>2. PICK r \in Row : r = Selected(op, "fields") /\ r.id = op.id
    <3>1. Selected(op, "fields") \in Row /\ Selected(op, "fields").id = op.id
      BY <1>8, MergedIs
    <3>2. QED BY <3>1
  <2>3. r.rev = None
    <3>1. DocOf(op).rev = op.rev /\ DOMAIN DocOf(op) = {"id", "val", "rev"}
      BY DEF DocOf
    <3>2. QED BY <2>2, <3>1 DEF Selected
  <2>4. op.val \in Val
    BY <1>8 DEF WellFormed
  <2>5. PICK y : y = Append(e, d)
    OBVIOUS
  <2>6. Merged(x, op, Val, "all") = y
    BY <1>1, <1>8, <2>1, <2>4, <2>5, MergedDocs
  <2>7. \A c : In(c, e) => In(c, y)
    BY <1>2, <2>1, <2>5, InMore
  <2>8. CASE op.val \in F
    <3>1. PICK p : p = Append(f, r)
      OBVIOUS
    <3>2. Merged(m, op, F, "fields") = p
      BY <1>3, <1>8, <2>2, <2>8, <3>1, MergedIs
    <3>3. p \in Seq(Row) /\ \A c : In(c, p) <=> In(c, f) \/ c = r
      BY <1>4, <2>2, <3>1, InMore
    <3>4. Merged(g, op, F, "all") = Append(h, d)
      BY <1>5, <1>8, <2>1, <2>8, MergedDocs
    <3>5. SameIds(p, Append(h, d))
      BY <1>4, <1>6, <2>1, <2>2, <3>1, SameIdsMore
    <3>6. Revised(p, y)
      BY <1>7, <2>3, <2>7, <3>3, Zenon DEF Revised
    <3>7. \A c : In(c, p) => In(c, m) \/ (op.code \in {"insert", "update"} /\ c.id = op.id)
      BY <1>4, <1>8, <2>2, <3>3, Zenon
    <3>8. QED BY <2>6, <3>2, <3>3, <3>4, <3>5, <3>6, <3>7
  <2>9. CASE op.val \notin F
    <3>1. Revised(f, y)
      BY <1>7, <2>7, Zenon DEF Revised
    <3>2. Merged(m, op, F, "fields") = f
      <4>1. CASE op.code = "insert"
        <5>1. Merged(m, op, F, "fields") = m
          BY <2>9, <4>1, MergedIs
        <5>2. \A i \in 1..Len(m) : m[i].id # op.id
          <6>1. \A i \in 1..Len(g) : g[i].id # op.id
            BY <4>1 DEF Fits
          <6>2. QED BY <6>1 DEF SameIds
        <5>3. f = m
          BY <1>3, <5>2, EraseAbsent
        <5>4. QED BY <5>1, <5>3
      <4>2. CASE op.code = "update"
        BY <1>3, <2>9, <4>2, MergedIs
      <4>3. QED BY <1>8, <4>1, <4>2
    <3>3. Merged(g, op, F, "all") = h
      <4>1. CASE op.code = "insert"
        <5>1. Merged(g, op, F, "all") = g
          BY <2>9, <4>1, MergedDocs
        <5>2. h = g
          BY <1>5, <4>1, NothingErased
        <5>3. QED BY <5>1, <5>2
      <4>2. CASE op.code = "update"
        BY <1>5, <2>9, <4>2, MergedDocs
      <4>3. QED BY <1>8, <4>1, <4>2
    <3>4. QED BY <1>4, <1>6, <2>6, <3>1, <3>2, <3>3
  <2>10. QED BY <2>8, <2>9
<1>9. CASE op.code = "remove"
  <2>1. Merged(x, op, Val, "all") = e
    BY <1>1, <1>9, MergedDocs
  <2>2. Merged(g, op, F, "all") = h
    BY <1>5, <1>9, MergedDocs
  <2>3. ~\E i \in 1..Len(m) : m[i].id = op.id /\ m[i].rev = None
    BY <1>9 DEF Misses
  <2>4. Merged(m, op, F, "fields") = IF \E i \in 1..Len(m) : m[i].id = op.id /\ m[i].rev = op.rev
                                     THEN f ELSE m
    <3>1. Merged(m, op, F, "fields")
            = IF \E i \in 1..Len(m) : m[i].id = op.id /\ m[i].rev = None THEN Failure
              ELSE IF \E i \in 1..Len(m) : m[i].id = op.id /\ m[i].rev = op.rev
                   THEN Erase(m, op.id) ELSE m
      BY <1>9, MergedIs
    <3>2. QED BY <1>3, <2>3, <3>1
  <2>5. ASSUME NEW i \in 1..Len(m), m[i].id = op.id PROVE m[i].rev = op.rev
    <3>1. m[i].rev # None
      BY <2>3, <2>5
    <3>2. In(m[i], m)
      BY DEF In
    <3>3. In(m[i], x)
      BY <3>1, <3>2 DEF Revised
    <3>4. PICK j \in 1..Len(x) : x[j] = m[i]
      BY <3>3 DEF In
    <3>5. QED BY <1>9, <2>5, <3>4 DEF Fits
  <2>6. Merged(m, op, F, "fields") = f
    <3>1. CASE \E i \in 1..Len(m) : m[i].id = op.id
      BY <2>4, <2>5, <3>1
    <3>2. CASE \A i \in 1..Len(m) : m[i].id # op.id
      <4>1. f = m
        BY <1>3, <3>2, EraseAbsent
      <4>2. QED BY <2>4, <4>1
    <3>3. QED BY <3>1, <3>2
  <2>7. QED BY <1>4, <1>6, <1>7, <2>1, <2>2, <2>6
<1>10. CASE op.code = "drop"
  <2>1. Merged(m, op, F, "fields") = <<>>
    BY <1>10, MergedIs
  <2>2. Merged(g, op, F, "all") = <<>>
    BY <1>10, MergedDocs
  <2>3. SameIds(<<>>, <<>>)
    BY DEF SameIds
  <2>4. Revised(<<>>, Merged(x, op, Val, "all")) /\ <<>> \in Seq(Row)
    BY InNone, EmptySeq DEF Revised
  <2>5. QED BY <2>1, <2>2, <2>3, <2>4, InNone
<1>11. op.code \in {"insert", "update", "remove", "drop"}
  BY DEF Operation
<1>12. QED BY <1>8, <1>9, <1>10, <1>11

\* An insert or update in the log up to k wrote id.
WrittenUpTo(id, k) ==
  \E i \in 1..k : pending[i].code \in {"insert", "update"} /\ pending[i].id = id

\* A remove in the log up to k is of a document that the log holds.
Unmade(k) ==
  \E i, j \in 1..k :
    /\ i < j /\ pending[j].code = "remove"
    /\ pending[i].code \in {"insert", "update"} /\ pending[i].id = pending[j].id

\* The map m after k operations of the log
Listed(m, x, F, k) ==
  /\ m \in Seq(Row) /\ SameIds(m, Matching(x, F)) /\ Revised(m, x)
  /\ \A d : In(d, m) /\ d.rev = None => WrittenUpTo(d.id, k)

(* The map of a find that leaves the revision out fails where the log      *)
(* holds a document and its remove, or lists the documents that match.     *)
LEMMA FollowsFields ==
    ASSUME TypeOK, Requested, Fitting, NEW n \in Nat, n = Len(pending), NEW v, v = Views,
           NEW F \in SUBSET Val, NEW w, Follows(w, Matching(Filed, F), pending, F, "fields", n)
    PROVE  \A k \in 0..n : (w[k] = Failure /\ Unmade(k)) \/ Listed(w[k], v[k], F, k)
<1>1. /\ v[0] = Filed /\ \A k \in 1..n : v[k] = Merged(v[k - 1], pending[k], Val, "all")
      /\ \A k \in 0..n : v[k] \in Seq(Doc)
      /\ \A k \in 1..n : Fits(v[k - 1], pending[k]) /\ pending[k] \in Operation /\ WellFormed(pending[k])
  BY ViewsType
<1>2. w[0] = Matching(Filed, F) /\ \A k \in 1..n : w[k] = Merged(w[k - 1], pending[k], F, "fields")
  BY DEF Follows
<1> DEFINE Kept(k) == (w[k] = Failure /\ Unmade(k)) \/ Listed(w[k], v[k], F, k)
           N == {k \in Nat : k <= n => Kept(k)}
<1>3. 0 \in N
  <2>1. PICK x \in Seq(Doc) : x = v[0]
    BY <1>1
  <2>2. PICK g : g = Matching(x, F)
    OBVIOUS
  <2>3. g \in Seq(Doc) /\ \A d : In(d, g) <=> In(d, x) /\ d.val \in F
    BY <2>2, MatchingIs
  <2>4. g \in Seq(Row)
    BY <2>3, RowsAre
  <2>5. SameIds(g, g)
    BY DEF SameIds
  <2>6. Revised(g, x)
    BY <2>3 DEF Revised
  <2>7. ASSUME NEW d, In(d, g) PROVE d.rev # None
    <3>1. PICK i \in 1..Len(g) : g[i] = d
      BY <2>7 DEF In
    <3>2. g[i] \in Doc
      BY <2>3
    <3>3. d.rev \in Rev
      BY <3>1, <3>2 DEF Doc
    <3>4. QED BY <3>3, NoneAssumption
  <2>8. Listed(g, x, F, 0)
    BY <2>2, <2>4, <2>5, <2>6, <2>7 DEF Listed
  <2>9. w[0] = g
    BY <1>1, <1>2, <2>1, <2>2
  <2>10. Kept(0)
    BY <2>1, <2>8, <2>9
  <2>11. QED BY <2>10
<1>4. ASSUME NEW k \in Nat, k \in N PROVE k + 1 \in N
  <2>1. ASSUME k + 1 <= n PROVE Kept(k + 1)
    <3>1. PICK i \in 1..n : i = k + 1 /\ i - 1 = k /\ k \in 0..n
      BY <2>1
    <3>2. PICK op : op = pending[i]
      OBVIOUS
    <3>3. PICK x : x = v[k]
      OBVIOUS
    <3>4. x \in Seq(Doc) /\ op \in Operation /\ WellFormed(op) /\ Fits(x, op)
      BY <1>1, <3>1, <3>2, <3>3
    <3>5. PICK m : m = w[k]
      OBVIOUS
    <3>6. k <= n
      BY <3>1
    <3>7. (m = Failure /\ Unmade(k)) \/ Listed(m, x, F, k)
      BY <1>4, <3>3, <3>5, <3>6
    <3>8. w[i] = Merged(m, op, F, "fields") /\ v[i] = Merged(x, op, Val, "all")
      BY <1>1, <1>2, <3>1, <3>2, <3>3, <3>5
    <3>9. i \in Nat /\ k < i /\ i \in 1..i /\ \A j \in 1..k : j \in 1..i /\ j < i
      BY <3>1
    <3>10. CASE m = Failure /\ Unmade(k)
      <4>1. w[i] = Failure
        BY <3>8, <3>10 DEF Merged
      <4>2. Unmade(i)
        BY <3>9, <3>10 DEF Unmade
      <4>3. QED BY <3>1, <4>1, <4>2
    <3>11. CASE Listed(m, x, F, k)
      <4>1. PICK g : g = Matching(x, F)
        OBVIOUS
      <4>2. g \in Seq(Doc) /\ \A d : In(d, g) => In(d, x)
        BY <3>4, <4>1, MatchingIs
      <4>3. Fits(g, op)
        BY <3>4, <4>2, FitsLess
      <4>4. m \in Seq(Row) /\ SameIds(m, g) /\ Revised(m, x)
        BY <3>11, <4>1 DEF Listed
      <4>5. \A d : In(d, m) /\ d.rev = None => WrittenUpTo(d.id, k)
        BY <3>11 DEF Listed
      <4>6. CASE Misses(m, op)
        <5>1. PICK j \in 1..Len(m) : m[j].id = op.id /\ m[j].rev = None
          BY <4>6 DEF Misses
        <5>2. In(m[j], m)
          BY DEF In
        <5>3. WrittenUpTo(op.id, k)
          BY <4>5, <5>1, <5>2
        <5>4. PICK l \in 1..k : pending[l].code \in {"insert", "update"} /\ pending[l].id = op.id
          BY <5>3 DEF WrittenUpTo
        <5>5. op.code = "remove"
          BY <4>6 DEF Misses
        <5>6. Unmade(i)
          <6>1. l \in 1..i /\ i \in 1..i /\ l < i
            BY <3>9, <5>4
          <6>2. QED BY <3>2, <5>4, <5>5, <6>1 DEF Unmade
        <5>7. w[i] = Failure
          <6>1. Merged(m, op, F, "fields")
                  = IF \E q \in 1..Len(m) : m[q].id = op.id /\ m[q].rev = None THEN Failure
                    ELSE IF \E q \in 1..Len(m) : m[q].id = op.id /\ m[q].rev = op.rev
                         THEN Erase(m, op.id) ELSE m
            BY <3>4, <4>4, <5>5, MergedIs
          <6>2. QED BY <3>8, <5>1, <6>1
        <5>8. QED BY <3>1, <5>6, <5>7
      <4>7. CASE ~Misses(m, op)
        <5>1. PICK p : p = Merged(m, op, F, "fields")
          OBVIOUS
        <5>2. /\ p \in Seq(Row) /\ SameIds(p, Merged(g, op, F, "all"))
              /\ Revised(p, Merged(x, op, Val, "all"))
              /\ \A d : In(d, p) => In(d, m) \/ (op.code \in {"insert", "update"} /\ d.id = op.id)
          <6>1. /\ Merged(m, op, F, "fields") \in Seq(Row)
                /\ SameIds(Merged(m, op, F, "fields"), Merged(g, op, F, "all"))
                /\ Revised(Merged(m, op, F, "fields"), Merged(x, op, Val, "all"))
                /\ \A d : In(d, Merged(m, op, F, "fields")) =>
                     In(d, m) \/ (op.code \in {"insert", "update"} /\ d.id = op.id)
            <7>1. g \in Seq(Doc)
              BY <4>2
            <7>2. x \in Seq(Doc) /\ op \in Operation /\ WellFormed(op) /\ Fits(x, op)
              BY <3>4
            <7>3. m \in Seq(Row) /\ SameIds(m, g) /\ Revised(m, x) /\ Fits(g, op) /\ ~Misses(m, op)
              BY <4>3, <4>4, <4>7
            <7>4. Merged(m, op, F, "fields") \in Seq(Row)
              BY <7>1, <7>2, <7>3, FieldsMerged
            <7>5. SameIds(Merged(m, op, F, "fields"), Merged(g, op, F, "all"))
              BY <7>1, <7>2, <7>3, FieldsMerged
            <7>6. Revised(Merged(m, op, F, "fields"), Merged(x, op, Val, "all"))
              BY <7>1, <7>2, <7>3, FieldsMerged
            <7>7. \A d : In(d, Merged(m, op, F, "fields")) =>
                     In(d, m) \/ (op.code \in {"insert", "update"} /\ d.id = op.id)
              BY <7>1, <7>2, <7>3, FieldsMerged
            <7>8. QED BY <7>4, <7>5, <7>6, <7>7
          <6>2. QED BY <5>1, <6>1
        <5>3. Merged(g, op, F, "all") = Matching(Merged(x, op, Val, "all"), F)
          BY <3>4, <4>1, MatchingMerged
        <5>4. ASSUME NEW d, In(d, p), d.rev = None PROVE WrittenUpTo(d.id, i)
          <6>1. CASE In(d, m)
            <7>1. WrittenUpTo(d.id, k)
              BY <4>5, <5>4, <6>1
            <7>2. QED BY <3>9, <7>1 DEF WrittenUpTo
          <6>2. CASE op.code \in {"insert", "update"} /\ d.id = op.id
            BY <3>2, <3>9, <6>2 DEF WrittenUpTo
          <6>3. QED BY <5>2, <5>4, <6>1, <6>2
        <5>5. Listed(p, Merged(x, op, Val, "all"), F, i)
          BY <5>2, <5>3, <5>4 DEF Listed
        <5>6. Listed(w[i], v[i], F, i)
          BY <3>8, <5>1, <5>5
        <5>7. QED BY <3>1, <5>6
      <4>8. QED BY <4>6, <4>7
    <3>12. QED BY <3>7, <3>10, <3>11
  <2>2. QED BY <2>1
<1> HIDE DEF N
<1>5. Nat \subseteq N
  BY <1>3, <1>4, Numbers
<1>6. QED BY <1>5 DEF N

(* A find that leaves the revision out fails only where the log holds a    *)
(* document and its remove, and otherwise lists the documents that match,  *)
(* in their order, for ids inserted once, updates of inserted ids, removes *)
(* that name the revision and an index that leads where it was told.       *)
THEOREM SelectedFinds == Spec => []SelectedFind
<1>1. StoreInv /\ ViewInv => SelectedFind
  <2> DEFINE Ids(docs) == [i \in DOMAIN docs |-> docs[i].id]
  <2> SUFFICES ASSUME StoreInv, ViewInv, Exact, NEW F \in SUBSET Val
               PROVE  IF FindSelected(F, MaxOps, "fields") = Failure
                      THEN \E i, j \in DOMAIN pending :
                             /\ i < j /\ pending[j].code = "remove"
                             /\ pending[i].code \in {"insert", "update"} /\ pending[i].id = pending[j].id
                      ELSE Ids(FindSelected(F, MaxOps, "fields")) = Ids(Current(F))
    BY DEF SelectedFind, Exact, Good
  <2>1. TypeOK /\ Requested /\ Fitting
    BY ViewInvIs DEF StoreInv, Requested
  <2>2. PICK n \in Nat : n = Len(pending) /\ DOMAIN pending = 1..n
    <3>1. pending \in Seq(Operation)
      BY <2>1 DEF TypeOK, Operation
    <3>2. QED BY <3>1
  <2>3. PICK v : v = Views
    OBVIOUS
  <2>4. live = v[n]
    BY <2>2, <2>3, ViewInvIs
  <2>5. live \in Seq(Doc) /\ Len(live) <= MaxOps
    <3>1. live \in Seq(Doc) /\ Len(live) \in Nat /\ ops \in 0..MaxOps /\ Len(live) <= ops
      BY <2>1, ViewInvIs DEF TypeOK
    <3>2. QED BY <3>1, BoundsAssumption
  <2>6. PICK b : b = Matching(Filed, F)
    OBVIOUS
  <2>7. MaxOps \in Nat
    BY BoundsAssumption
  <2>8. Loaded(FullScan(F, MaxOps)) = b
    <3>1. Loaded(FullScan(F, MaxOps)) = FirstOf(b, MaxOps) /\ b \in Seq(Doc) /\ Len(b) <= MaxOps
      BY <2>6, <2>7, LoadedScan
    <3>2. FirstOf(b, MaxOps) = b
      BY <2>7, <3>1, FirstOfIs
    <3>3. QED BY <3>1, <3>2
  <2>9. PICK w : w = WithLog(b, pending, F, "fields")
    OBVIOUS
  <2>10. Follows(w, b, pending, F, "fields", n)
    BY <2>2, <2>9, ViewAt
  <2>11. \A k \in 0..n : (w[k] = Failure /\ Unmade(k)) \/ Listed(w[k], v[k], F, k)
    BY <2>1, <2>2, <2>3, <2>6, <2>10, FollowsFields
  <2>12. PICK m : m = w[n]
    OBVIOUS
  <2>13. FindSelected(F, MaxOps, "fields") = Limited(m, MaxOps)
    BY <2>2, <2>8, <2>9, <2>12 DEF FindSelected
  <2>14. CASE m = Failure /\ Unmade(n)
    <3>1. \E i, j \in DOMAIN pending :
            /\ i < j /\ pending[j].code = "remove"
            /\ pending[i].code \in {"insert", "update"} /\ pending[i].id = pending[j].id
      BY <2>2, <2>14 DEF Unmade
    <3>2. Limited(m, MaxOps) = Failure
      <4>1. PICK l \in Nat : l = (IF MaxOps = 0 THEN 1 ELSE MaxOps) /\ 1 <= l
        BY <2>7
      <4>2. Failure \in Seq({None}) /\ Len(Failure) = 1
        BY DEF Failure
      <4>3. FirstOf(Failure, l) = Failure
        BY <4>1, <4>2, FirstOfIs
      <4>4. QED BY <2>14, <4>1, <4>3 DEF Limited
    <3>3. QED BY <2>13, <3>1, <3>2
  <2>15. CASE Listed(m, live, F, n)
    <3>1. PICK g : g = Matching(live, F)
      OBVIOUS
    <3>2. m \in Seq(Row) /\ SameIds(m, g)
      BY <2>15, <3>1 DEF Listed
    <3>3. g \in Seq(Doc) /\ Len(g) \in Nat /\ Len(g) <= Len(live) /\ Len(live) \in Nat
      BY <2>5, <3>1, MatchingIs
    <3>4. Len(m) = Len(g) /\ Len(m) <= MaxOps
      <4>1. Len(m) = Len(g)
        BY <3>2 DEF SameIds
      <4>2. QED BY <2>5, <2>7, <3>3, <4>1
    <3>5. Limited(m, MaxOps) = m
      BY <2>7, <3>2, <3>4, LimitedIs
    <3>6. m # Failure
      BY <3>2, RowsAre
    <3>7. Ids(m) = Ids(g)
      <4>1. DOMAIN m = 1..Len(m) /\ DOMAIN g = 1..Len(m)
        BY <3>2, <3>3, <3>4
      <4>2. \A i \in 1..Len(m) : m[i].id = g[i].id
        BY <3>2 DEF SameIds
      <4>3. QED BY <4>1, <4>2
    <3>8. Current(F) = g
      BY <3>1 DEF Current
    <3>9. QED BY <2>13, <3>5, <3>6, <3>7, <3>8
  <2>16. n \in 0..n
    OBVIOUS
  <2>17. QED BY <2>4, <2>11, <2>12, <2>14, <2>15, <2>16
<1>2. QED BY <1>1, ViewInvariance, PTL
=============================================================================
