----------------------- MODULE TxLogRefinementProofs -----------------------
(***************************************************************************)
(* The write-ahead log implements the queue of TxLog: buffers, locks and   *)
(* two threads, for every number of transactions, buffers and operations.  *)
(***************************************************************************)
EXTENDS TxLogRefinement, TxLogTheorems, WellFoundedInduction

----------------------------------------------------------------------------
(* FlattenSeq, which puts the operations of several buffers in a row.      *)

\* The first k elements of s and t are the same.
Agree(s, t, k) == \A i \in 1..k : s[i] = t[i]

\* f[i] is what the first i sequences of s make, up to n
Flattens(f, s, n) ==
  f = [i \in 1..n |-> IF i = 1 THEN s[i] ELSE f[i - 1] \o s[i]]

(* A nonempty set of naturals has a least element; the least counterexample *)
(* takes the place of induction below.                                     *)
LEMMA Least ==
    ASSUME NEW S \in SUBSET Nat, S # {}
    PROVE  \E x \in S : \A y \in S : x <= y
<1>1. PICK x \in S : \A y \in S : ~(<<y, x>> \in OpToRel(<, Nat))
  BY NatLessThanWellFounded, WFMin, Zenon
<1>2. \A y \in S : x <= y
  <2> SUFFICES ASSUME NEW y \in S, y < x PROVE FALSE
    OBVIOUS
  <2>1. <<y, x>> \in Nat \X Nat /\ <<y, x>>[1] = y /\ <<y, x>>[2] = x
    OBVIOUS
  <2>2. <<y, x>> \in OpToRel(<, Nat)
    BY <2>1, Zenon DEF OpToRel
  <2>3. QED BY <1>1, <2>2, Zenon
<1>3. QED BY <1>2

(* The recursion that defines a flattened sequence, at one place.          *)
LEMMA FlattenAt ==
  ASSUME NEW f, NEW s, NEW n \in Nat, Flattens(f, s, n), NEW i \in 1..n
  PROVE  f[i] = IF i = 1 THEN s[i] ELSE f[i - 1] \o s[i]
<1>1. f = [j \in 1..n |-> IF j = 1 THEN s[j] ELSE f[j - 1] \o s[j]]
  BY Zenon DEF Flattens
<1>2. [j \in 1..n |-> IF j = 1 THEN s[j] ELSE f[j - 1] \o s[j]][i]
        = IF i = 1 THEN s[i] ELSE f[i - 1] \o s[i]
  OBVIOUS
<1> QED BY <1>1, <1>2

(* The recursion has a solution, and it is made of sequences.              *)
LEMMA FlattenExists ==
  ASSUME NEW S, NEW s \in Seq(Seq(S)), NEW n \in 0..Len(s)
  PROVE  \E f : Flattens(f, s, n) /\ \A i \in 1..n : f[i] \in Seq(S)
<1> DEFINE Good(m) == \E f : Flattens(f, s, m) /\ \A i \in 1..m : f[i] \in Seq(S)
<1> DEFINE Bad == {m \in 0..Len(s) : ~Good(m)}
<1>0. Len(s) \in Nat /\ \A i \in 1..Len(s) : s[i] \in Seq(S)
  BY LenProperties
<1> SUFFICES ASSUME Bad # {} PROVE FALSE
  OBVIOUS
<1>1. Bad \in SUBSET Nat
  BY <1>0
<1>2. PICK m \in Bad : \A y \in Bad : m <= y
  BY <1>1, Least
<1>3. m \in 0..Len(s) /\ ~Good(m)
  OBVIOUS
<1>4. CASE m = 0
  <2> DEFINE g == [i \in 1..0 |-> <<>>]
  <2>1. Flattens(g, s, 0)
    BY DEF Flattens
  <2>2. \A i \in 1..0 : g[i] \in Seq(S)
    OBVIOUS
  <2> QED BY <2>1, <2>2, <1>3, <1>4
<1>5. CASE m # 0
  <2>1. m - 1 \in 0..Len(s) /\ m - 1 \notin Bad /\ m \in 1..Len(s)
    <3> HIDE DEF Bad, Good
    <3>1. m - 1 \in 0..Len(s) /\ m \in 1..Len(s) /\ ~(m <= m - 1)
      BY <1>0, <1>3, <1>5
    <3> QED BY <1>2, <3>1
  <2>2. PICK f : Flattens(f, s, m - 1) /\ \A i \in 1..(m - 1) : f[i] \in Seq(S)
    BY <2>1
  <2> DEFINE e == IF m = 1 THEN s[m] ELSE f[m - 1] \o s[m]
             g == [i \in 1..m |-> IF i = m THEN e ELSE f[i]]
  <2>3. e \in Seq(S)
    <3>1. CASE m = 1
      BY <3>1, <1>0, <2>1
    <3>2. CASE m # 1
      <4>1. f[m - 1] \in Seq(S) /\ s[m] \in Seq(S)
        BY <3>2, <1>0, <2>1, <2>2
      <4> QED BY <4>1, <3>2, ConcatProperties
    <3> QED BY <3>1, <3>2
  <2>4. \A i \in 1..m : g[i] \in Seq(S)
    <3> HIDE DEF e
    <3> QED BY <2>1, <2>2, <2>3
  <2>5. Flattens(g, s, m)
    <3>1. ASSUME NEW i \in 1..m
          PROVE  g[i] = IF i = 1 THEN s[i] ELSE g[i - 1] \o s[i]
      <4>1. CASE i = m
        <5>1. g[i] = e
          BY <4>1, <2>1
        <5>2. m # 1 => g[m - 1] = f[m - 1]
          BY <2>1
        <5> QED BY <5>1, <5>2, <4>1
      <4>2. CASE i # m
        <5>1. i \in 1..(m - 1) /\ m - 1 \in Nat
          BY <4>2, <2>1
        <5>2. f[i] = IF i = 1 THEN s[i] ELSE f[i - 1] \o s[i]
          BY <5>1, <2>2, FlattenAt
        <5>3. g[i] = f[i] /\ (i # 1 => g[i - 1] = f[i - 1])
          BY <4>2, <2>1
        <5> QED BY <5>2, <5>3
      <4> QED BY <4>1, <4>2
    <3>2. DOMAIN g = 1..m /\ g = [i \in 1..m |-> g[i]]
      OBVIOUS
    <3> HIDE DEF g
    <3>3. [i \in 1..m |-> g[i]]
            = [i \in 1..m |-> IF i = 1 THEN s[i] ELSE g[i - 1] \o s[i]]
      BY <3>1
    <3> QED BY <3>2, <3>3, Zenon DEF Flattens
  <2> HIDE DEF g
  <2> QED BY <2>4, <2>5, <1>3
<1> QED BY <1>4, <1>5

(* Solutions for sequences that begin alike begin alike.                   *)
LEMMA FlattenAgree ==
  ASSUME NEW s, NEW t, NEW f, NEW g, NEW m \in Nat, NEW n \in Nat,
         Flattens(f, s, m), Flattens(g, t, n),
         NEW k \in Nat, k <= m, k <= n, Agree(s, t, k)
  PROVE  Agree(f, g, k)
<1> DEFINE Bad == {j \in 1..k : f[j] # g[j]}
<1> SUFFICES ASSUME Bad # {} PROVE FALSE
  BY DEF Agree
<1>1. Bad \in SUBSET Nat
  OBVIOUS
<1>2. PICK j \in Bad : \A y \in Bad : j <= y
  BY <1>1, Least
<1>3. j \in 1..m /\ j \in 1..n /\ j \in 1..k /\ f[j] # g[j]
  OBVIOUS
<1>4. f[j] = IF j = 1 THEN s[j] ELSE f[j - 1] \o s[j]
  BY <1>3, FlattenAt
<1>5. g[j] = IF j = 1 THEN t[j] ELSE g[j - 1] \o t[j]
  BY <1>3, FlattenAt
<1>6. j # 1 => f[j - 1] = g[j - 1]
  BY <1>2, <1>3
<1>7. s[j] = t[j]
  BY <1>3 DEF Agree
<1> QED BY <1>3, <1>4, <1>5, <1>6, <1>7

(* FlattenSeq is the last value of such a solution.                        *)
LEMMA FlattenChosen ==
  ASSUME NEW S, NEW s \in Seq(Seq(S)), s # <<>>
  PROVE  \E f : /\ Flattens(f, s, Len(s))
                /\ FlattenSeq(s) = f[Len(s)] /\ f[Len(s)] \in Seq(S)
<1>0. Len(s) \in Nat \ {0} /\ Len(s) \in 0..Len(s) /\ Len(s) \in 1..Len(s)
  BY EmptySeq
<1>1. PICK f : Flattens(f, s, Len(s)) /\ \A i \in 1..Len(s) : f[i] \in Seq(S)
  BY <1>0, FlattenExists
<1> DEFINE g == CHOOSE h : Flattens(h, s, Len(s))
<1>2. Flattens(g, s, Len(s))
  BY <1>1, Zenon
<1>3. FlattenSeq(s) = g[Len(s)]
  BY <1>0 DEF FlattenSeq, Flattens
<1> HIDE DEF g
<1>4. g[Len(s)] = f[Len(s)]
  <2>1. Agree(s, s, Len(s)) /\ Len(s) \in Nat /\ Len(s) <= Len(s)
    BY <1>0 DEF Agree
  <2>2. Agree(g, f, Len(s))
    BY <1>1, <1>2, <2>1, FlattenAgree
  <2> QED BY <2>2, <1>0 DEF Agree
<1> QED BY <1>0, <1>1, <1>3, <1>4

(* The operations of a sequence of buffers are a sequence of operations.   *)
LEMMA FlattenType ==
  ASSUME NEW S, NEW s \in Seq(Seq(S))
  PROVE  FlattenSeq(s) \in Seq(S)
<1>1. CASE s = <<>>
  BY <1>1 DEF FlattenSeq
<1>2. CASE s # <<>>
  BY <1>2, FlattenChosen
<1> QED BY <1>1, <1>2

(* An empty queue holds nothing.                                           *)
LEMMA FlattenEmpty == FlattenSeq(<<>>) = <<>>
  BY DEF FlattenSeq

(* A buffer at the end adds its operations at the end.                     *)
LEMMA FlattenAppend ==
  ASSUME NEW S, NEW s \in Seq(Seq(S)), NEW x \in Seq(S)
  PROVE  FlattenSeq(Append(s, x)) = FlattenSeq(s) \o x
<1> DEFINE t == Append(s, x)
           n == Len(s)
<1>0. /\ t \in Seq(Seq(S)) /\ t # <<>> /\ n \in Nat /\ Len(t) = n + 1
      /\ (\A i \in 1..n : t[i] = s[i]) /\ t[n + 1] = x
  BY AppendProperties, LenProperties
<1> HIDE DEF t
<1>1. PICK g : Flattens(g, t, n + 1) /\ FlattenSeq(t) = g[n + 1]
  BY <1>0, FlattenChosen
<1>2. g[n + 1] = IF n + 1 = 1 THEN x ELSE g[n] \o x
  <2>1. n + 1 \in Nat /\ n + 1 \in 1..(n + 1) /\ (n + 1) - 1 = n
    BY <1>0
  <2> HIDE DEF n
  <2> QED BY <2>1, <1>0, <1>1, FlattenAt
<1>3. CASE n = 0
  <2>1. s = <<>>
    BY <1>3, EmptySeq
  <2> QED BY <2>1, <1>0, <1>1, <1>2, <1>3, FlattenEmpty, ConcatEmptySeq DEF t
<1>4. CASE n # 0
  <2>1. s # <<>>
    BY <1>4, EmptySeq
  <2>2. PICK f : Flattens(f, s, n) /\ FlattenSeq(s) = f[n]
    BY <2>1, FlattenChosen
  <2>3. f[n] = g[n]
    <3>1. n + 1 \in Nat /\ n <= n /\ n <= n + 1 /\ n \in 1..n
      BY <1>0, <1>4
    <3>2. Agree(s, t, n)
      BY <1>0 DEF Agree
    <3>3. Agree(f, g, n)
      <4> HIDE DEF n
      <4> QED BY <1>0, <1>1, <2>2, <3>1, <3>2, FlattenAgree
    <3> QED BY <3>1, <3>3 DEF Agree
  <2>4. n + 1 # 1
    BY <1>0, <1>4
  <2> QED BY <1>1, <1>2, <2>2, <2>3, <2>4 DEF t
<1> QED BY <1>3, <1>4

(* Concatenation puts the second sequence's last item last.                *)
LEMMA ConcatLast ==
  ASSUME NEW T, NEW s \in Seq(T), NEW a \in Seq(T), NEW x \in T
  PROVE  s \o Append(a, x) = Append(s \o a, x)
<1>1. <<x>> \in Seq(T) /\ s \o a \in Seq(T)
  BY ConcatProperties
<1>2. Append(a, x) = a \o <<x>> /\ Append(s \o a, x) = (s \o a) \o <<x>>
  BY <1>1, AppendIsConcat
<1>3. (s \o a) \o <<x>> = s \o (a \o <<x>>)
  BY <1>1, ConcatAssociative
<1> QED BY <1>2, <1>3

(* The buffers of a commit add their operations after those of the queue.  *)
LEMMA FlattenConcat ==
  ASSUME NEW S, NEW s \in Seq(Seq(S)), NEW t \in Seq(Seq(S))
  PROVE  FlattenSeq(s \o t) = FlattenSeq(s) \o FlattenSeq(t)
<1> DEFINE u(k) == SubSeq(t, 1, k)
           Bad == {k \in 0..Len(t) : FlattenSeq(s \o u(k)) # FlattenSeq(s) \o FlattenSeq(u(k))}
<1>0. Len(t) \in Nat /\ u(Len(t)) = t /\ Len(t) \in 0..Len(t)
  BY LenProperties, SubSeqFull
<1> SUFFICES ASSUME Bad # {} PROVE FALSE
  <2>1. ASSUME Bad = {} PROVE FlattenSeq(s \o u(Len(t))) = FlattenSeq(s) \o FlattenSeq(u(Len(t)))
    <3> HIDE DEF u
    <3> QED BY <1>0, <2>1
  <2> QED BY <2>1, <1>0
<1>1. Bad \in SUBSET Nat
  BY <1>0
<1>2. PICK k \in Bad : \A y \in Bad : k <= y
  BY <1>1, Least
<1>3. k \in 0..Len(t) /\ FlattenSeq(s \o u(k)) # FlattenSeq(s) \o FlattenSeq(u(k))
  OBVIOUS
<1>4. CASE k = 0
  <2>1. u(k) = <<>>
    BY <1>4, SubSeqEmpty
  <2>2. FlattenSeq(s) \in Seq(S)
    BY FlattenType
  <2> QED BY <1>3, <2>1, <2>2, FlattenEmpty, ConcatEmptySeq
<1>5. CASE k # 0
  <2>1. k - 1 \in 0..Len(t) /\ k - 1 \notin Bad /\ k \in 1..Len(t) /\ 1 \in 1..Len(t)
    <3> HIDE DEF Bad, u
    <3>1. k - 1 \in 0..Len(t) /\ k \in 1..Len(t) /\ 1 \in 1..Len(t) /\ ~(k <= k - 1)
      BY <1>0, <1>3, <1>5
    <3> QED BY <1>2, <3>1
  <2>2. FlattenSeq(s \o u(k - 1)) = FlattenSeq(s) \o FlattenSeq(u(k - 1))
    BY <2>1
  <2>3. t[k] \in Seq(S)
    BY <2>1, ElementOfSeq
  <2>4. u(k) \in Seq(Seq(S)) /\ u(k - 1) \in Seq(Seq(S))
    <3>1. \A i \in 1..Len(t) : t[i] \in Seq(S)
      BY ElementOfSeq
    <3>2. 1 \in Int /\ k \in Int /\ k - 1 \in Int /\ k <= Len(t)
      BY <2>1, <1>0
    <3>3. \A i \in 1..k : i \in 1..Len(t)
      BY <3>2, <1>0
    <3>4. \A i \in 1..(k - 1) : i \in 1..Len(t)
      BY <3>2, <1>0
    <3>5. \A i \in 1..k : t[i] \in Seq(S)
      BY <3>1, <3>3
    <3>6. \A i \in 1..(k - 1) : t[i] \in Seq(S)
      BY <3>1, <3>4
    <3> QED BY <3>2, <3>5, <3>6, SubSeqProperties
  <2>5. u(k) = u(k - 1) \o <<t[k]>>
    BY <2>1, SubSeqRecursiveSecond
  <2> HIDE DEF u, Bad
  <2>6. u(k) = Append(u(k - 1), t[k])
    BY <2>3, <2>4, <2>5, AppendIsConcat
  <2>7. s \o u(k) = Append(s \o u(k - 1), t[k])
    <3>1. PICK T : T = Seq(S)
      OBVIOUS
    <3>2. PICK a : a = u(k - 1)
      OBVIOUS
    <3>3. PICK x : x = t[k]
      OBVIOUS
    <3>4. s \in Seq(T)
      BY <3>1
    <3>5. a \in Seq(T)
      BY <2>4, <3>1, <3>2
    <3>6. x \in T
      BY <2>3, <3>1, <3>3
    <3>7. s \o Append(a, x) = Append(s \o a, x)
      BY <3>4, <3>5, <3>6, ConcatLast, SMTT(30)
    <3> QED BY <2>6, <3>2, <3>3, <3>7, Zenon
  <2>8. FlattenSeq(u(k)) = FlattenSeq(u(k - 1)) \o t[k]
    BY <2>3, <2>4, <2>6, FlattenAppend
  <2>9. FlattenSeq(s \o u(k)) = FlattenSeq(s \o u(k - 1)) \o t[k]
    <3>1. s \o u(k - 1) \in Seq(Seq(S))
      BY <2>4, ConcatProperties
    <3> QED BY <3>1, <2>3, <2>7, FlattenAppend
  <2>10. FlattenSeq(s) \in Seq(S) /\ FlattenSeq(u(k - 1)) \in Seq(S)
    BY <2>4, FlattenType
  <2>11. (FlattenSeq(s) \o FlattenSeq(u(k - 1))) \o t[k]
           = FlattenSeq(s) \o (FlattenSeq(u(k - 1)) \o t[k])
    <3>1. PICK a \in Seq(S), b \in Seq(S), c \in Seq(S) :
            a = FlattenSeq(s) /\ b = FlattenSeq(u(k - 1)) /\ c = t[k]
      BY <2>3, <2>10
    <3>2. (a \o b) \o c = a \o (b \o c)
      BY ConcatAssociative
    <3> QED BY <3>1, <3>2
  <2> QED BY <1>3, <2>2, <2>8, <2>9, <2>11
<1> QED BY <1>4, <1>5

----------------------------------------------------------------------------
(* The operations of a sequence of buffers.                                *)

Value == Op \cup {None}
Chunks(s) == [i \in DOMAIN s |-> Contents(s[i])]

(* Each buffer gives the operations read from its mapped file.             *)
LEMMA ChunksType ==
  ASSUME ObjType, NEW s \in Seq(BufIds)
  PROVE  /\ Chunks(s) \in Seq(Seq(Value)) /\ Len(Chunks(s)) = Len(s)
         /\ \A i \in 1..Len(s) : Chunks(s)[i] = Contents(s[i])
         /\ QueueContents(s) = FlattenSeq(Chunks(s))
<1>1. \A b \in BufIds : Contents(b) \in Seq(Value)
  BY ContentsLemma DEF Value
<1>2. Len(s) \in Nat /\ DOMAIN s = 1..Len(s) /\ \A i \in 1..Len(s) : s[i] \in BufIds
  BY LenProperties
<1> DEFINE c == [i \in 1..Len(s) |-> Contents(s[i])]
<1>3. Chunks(s) = c
  BY <1>2 DEF Chunks
<1>4. c \in [1..Len(s) -> Seq(Value)]
  BY <1>1, <1>2
<1>5. \A i \in 1..Len(s) : c[i] = Contents(s[i])
  OBVIOUS
<1> HIDE DEF c
<1>6. c \in Seq(Seq(Value)) /\ Len(c) = Len(s)
  BY <1>2, <1>4
<1>7. QueueContents(s) = FlattenSeq(Chunks(s))
  BY DEF QueueContents, Chunks
<1> QED BY <1>3, <1>5, <1>6, <1>7

(* What the queue of the abstract log is made of.                          *)
LEMMA QueueType ==
  ASSUME ObjType, NEW s \in Seq(BufIds)
  PROVE  QueueContents(s) \in Seq(Value)
  BY ChunksType, FlattenType

(* No buffers, no operations.                                              *)
LEMMA QueueEmpty == QueueContents(<<>>) = <<>>
<1>1. [i \in DOMAIN <<>> |-> Contents(<<>>[i])] = <<>>
  OBVIOUS
<1> QED BY <1>1, FlattenEmpty DEF QueueContents

\* One buffer more at the end, two queues in a row, and the first buffer
QueueRules ==
  /\ \A s \in Seq(BufIds), b \in BufIds :
       QueueContents(Append(s, b)) = QueueContents(s) \o Contents(b)
  /\ \A s, t \in Seq(BufIds) :
       QueueContents(s \o t) = QueueContents(s) \o QueueContents(t)
  /\ \A s \in Seq(BufIds) : QueueContents(s) \in Seq(Value)
  /\ \A b \in BufIds : Contents(b) \in Seq(Value)

(* The operations of queues that grow or are put in a row.                 *)
LEMMA QueueGrows == ObjType => QueueRules
<1> SUFFICES ASSUME ObjType PROVE QueueRules
  OBVIOUS
<1>1. ASSUME NEW s \in Seq(BufIds), NEW b \in BufIds
      PROVE  QueueContents(Append(s, b)) = QueueContents(s) \o Contents(b)
  <2> DEFINE t == Append(s, b)
  <2>1. /\ t \in Seq(BufIds) /\ Len(t) = Len(s) + 1 /\ Len(s) \in Nat
        /\ (\A i \in 1..Len(s) : t[i] = s[i]) /\ t[Len(s) + 1] = b
    BY AppendProperties, LenProperties
  <2> HIDE DEF t
  <2>2. Contents(b) \in Seq(Value)
    BY ContentsLemma DEF Value
  <2> DEFINE c == Chunks(s)
             d == Append(c, Contents(b))
             e == Chunks(t)
  <2>3. /\ c \in Seq(Seq(Value)) /\ Len(c) = Len(s)
        /\ \A i \in 1..Len(s) : c[i] = Contents(s[i])
    BY ChunksType
  <2>4. /\ e \in Seq(Seq(Value)) /\ Len(e) = Len(t)
        /\ \A i \in 1..Len(t) : e[i] = Contents(t[i])
    BY <2>1, ChunksType
  <2> HIDE DEF c, e
  <2>5. /\ d \in Seq(Seq(Value)) /\ Len(d) = Len(s) + 1
        /\ \A i \in 1..Len(s) : d[i] = c[i]
        /\ d[Len(s) + 1] = Contents(b)
    BY <2>2, <2>3, AppendProperties
  <2> HIDE DEF d
  <2>6. \A i \in 1..Len(d) : d[i] = e[i]
    <3> SUFFICES ASSUME NEW i \in 1..Len(d) PROVE d[i] = e[i]
      OBVIOUS
    <3>1. i \in 1..Len(t) /\ (i \in 1..Len(s) \/ i = Len(s) + 1)
      BY <2>1, <2>5
    <3>2. CASE i \in 1..Len(s)
      BY <3>1, <3>2, <2>1, <2>3, <2>4, <2>5
    <3>3. CASE i = Len(s) + 1
      BY <3>1, <3>3, <2>1, <2>4, <2>5
    <3> QED BY <3>1, <3>2, <3>3
  <2>7. d = e
    BY <2>1, <2>4, <2>5, <2>6, SeqEqual
  <2>8. FlattenSeq(d) = FlattenSeq(c) \o Contents(b)
    BY <2>2, <2>3, FlattenAppend DEF d
  <2>9. QueueContents(t) = FlattenSeq(e) /\ QueueContents(s) = FlattenSeq(c)
    BY <2>1, ChunksType DEF c, e
  <2> QED BY <2>7, <2>8, <2>9 DEF t
<1>2. ASSUME NEW s \in Seq(BufIds), NEW t \in Seq(BufIds)
      PROVE  QueueContents(s \o t) = QueueContents(s) \o QueueContents(t)
  <2> DEFINE u == s \o t
             c == Chunks(s)
             d == Chunks(t)
             e == Chunks(u)
             g == c \o d
  <2>1. /\ u \in Seq(BufIds) /\ Len(u) = Len(s) + Len(t)
        /\ Len(s) \in Nat /\ Len(t) \in Nat
        /\ \A i \in 1..(Len(s) + Len(t)) :
             u[i] = IF i <= Len(s) THEN s[i] ELSE t[i - Len(s)]
    BY ConcatProperties, LenProperties
  <2> HIDE DEF u
  <2>2. /\ c \in Seq(Seq(Value)) /\ Len(c) = Len(s)
        /\ \A i \in 1..Len(s) : c[i] = Contents(s[i])
    BY ChunksType
  <2>3. /\ d \in Seq(Seq(Value)) /\ Len(d) = Len(t)
        /\ \A i \in 1..Len(t) : d[i] = Contents(t[i])
    BY ChunksType
  <2>4. /\ e \in Seq(Seq(Value)) /\ Len(e) = Len(u)
        /\ \A i \in 1..Len(u) : e[i] = Contents(u[i])
    BY <2>1, ChunksType
  <2> HIDE DEF c, d, e
  <2>5. /\ g \in Seq(Seq(Value)) /\ Len(g) = Len(c) + Len(d)
        /\ \A i \in 1..(Len(c) + Len(d)) :
             g[i] = IF i <= Len(c) THEN c[i] ELSE d[i - Len(c)]
    <3>1. PICK T : T = Seq(Value)
      OBVIOUS
    <3>2. c \in Seq(T) /\ d \in Seq(T)
      BY <3>1, <2>2, <2>3
    <3>3. /\ c \o d \in Seq(T) /\ Len(c \o d) = Len(c) + Len(d)
          /\ \A i \in 1..(Len(c) + Len(d)) :
               (c \o d)[i] = IF i <= Len(c) THEN c[i] ELSE d[i - Len(c)]
      BY <3>2, ConcatProperties
    <3> QED BY <3>1, <3>3
  <2> HIDE DEF g
  <2>6. \A i \in 1..Len(g) : g[i] = e[i]
    <3> SUFFICES ASSUME NEW i \in 1..Len(g) PROVE g[i] = e[i]
      OBVIOUS
    <3>1. i \in 1..(Len(s) + Len(t)) /\ i \in 1..Len(u) /\ i \in 1..(Len(c) + Len(d))
      BY <2>1, <2>2, <2>3, <2>5
    <3>2. e[i] = Contents(u[i])
      BY <3>1, <2>4
    <3>3. CASE i <= Len(s)
      <4>1. i \in 1..Len(s) /\ u[i] = s[i] /\ g[i] = c[i]
        BY <3>1, <3>3, <2>1, <2>2, <2>5
      <4> QED BY <4>1, <3>2, <2>2
    <3>4. CASE ~(i <= Len(s))
      <4>1. i - Len(s) \in 1..Len(t) /\ u[i] = t[i - Len(s)] /\ g[i] = d[i - Len(s)]
        BY <3>1, <3>4, <2>1, <2>2, <2>5
      <4> QED BY <4>1, <3>2, <2>3
    <3> QED BY <3>3, <3>4
  <2>7. g = e
    <3>1. Len(g) = Len(e)
      BY <2>1, <2>2, <2>3, <2>4, <2>5
    <3> QED BY <3>1, <2>4, <2>5, <2>6, SeqEqual
  <2>8. FlattenSeq(g) = FlattenSeq(c) \o FlattenSeq(d)
    BY <2>2, <2>3, FlattenConcat DEF g
  <2>9. /\ QueueContents(u) = FlattenSeq(e) /\ QueueContents(s) = FlattenSeq(c)
        /\ QueueContents(t) = FlattenSeq(d)
    BY <2>1, ChunksType DEF c, d, e
  <2> QED BY <2>7, <2>8, <2>9 DEF u
<1>3. \A s \in Seq(BufIds) : QueueContents(s) \in Seq(Value)
  BY QueueType
<1>4. \A b \in BufIds : Contents(b) \in Seq(Value)
  BY ContentsLemma DEF Value
<1> QED BY <1>1, <1>2, <1>3, <1>4 DEF QueueRules

----------------------------------------------------------------------------
(* The variables of the abstract log, and its steps in terms of them.      *)

TxOps == [t \in Tx |-> QueueContents(txBuffers[t])]
Pending == InFlight \o QueueContents(activeBuffers \o netAdd)

(* Nothing the abstract log shows has changed.                             *)
LEMMA StutterMaps ==
  ASSUME TxOps' = TxOps, Pending' = Pending, applied' = applied, clash' = clash
  PROVE  UNCHANGED Log!vars
  BY DEF Log!vars, TxOps, Pending

(* A write outside a transaction.                                          *)
LEMMA WriteMaps ==
  ASSUME ~clash, ~clash', NEW op \in Op, op.tx = Main,
         Pending' = Append(Pending, op), TxOps' = TxOps, applied' = applied
  PROVE  Log!Next
  BY DEF Log!Next, Log!Promised, Log!Write, TxOps, Pending

(* A write in a transaction.                                               *)
LEMMA TxWriteMaps ==
  ASSUME ~clash, ~clash', NEW op \in Op, op.tx \in Tx,
         TxOps' = [TxOps EXCEPT ![op.tx] = Append(@, op)],
         Pending' = Pending, applied' = applied
  PROVE  Log!Next
  BY DEF Log!Next, Log!Promised, Log!TxWrite, TxOps, Pending

(* A commit.                                                               *)
LEMMA CommitMaps ==
  ASSUME ~clash, ~clash', NEW t \in Tx, Pending' = Pending \o TxOps[t],
         TxOps' = [TxOps EXCEPT ![t] = <<>>], applied' = applied
  PROVE  Log!Next
  BY DEF Log!Next, Log!Promised, Log!Commit, TxOps, Pending

(* A rollback.                                                             *)
LEMMA RollbackMaps ==
  ASSUME ~clash, ~clash', NEW t \in Tx, Pending' = Pending,
         TxOps' = [TxOps EXCEPT ![t] = <<>>], applied' = applied
  PROVE  Log!Next
  BY DEF Log!Next, Log!Promised, Log!Rollback, TxOps, Pending

(* The monitor hands the oldest operation to the controller.               *)
LEMMA ApplyMaps ==
  ASSUME ~clash, ~clash', Pending # <<>>, applied' = Append(applied, Head(Pending)),
         Pending' = Tail(Pending), TxOps' = TxOps
  PROVE  Log!Next
  BY DEF Log!Next, Log!Promised, Log!Apply, TxOps, Pending

\* The buffer reads as before.
Same(b) == Contents(b)' = Contents(b)
SameIn(s) == \A i \in 1..Len(s) : Same(s[i])
\* So does every buffer that exists, but for x.
OthersSame(x) == \A b \in BufIds : Live(b) /\ b # x => Same(b)

(* A queue reads as before when its buffers do.                            *)
LEMMA QueueFrame ==
  ASSUME NEW s \in Seq(BufIds), SameIn(s)
  PROVE  QueueContents(s)' = QueueContents(s)
<1>1. DOMAIN s = 1..Len(s)
  BY LenProperties
<1>2. [i \in DOMAIN s |-> Contents(s[i])'] = [i \in DOMAIN s |-> Contents(s[i])]
  BY <1>1, Zenon DEF SameIn, Same
<1> HIDE DEF Contents
<1>3. QueueContents(s)' = FlattenSeq([i \in DOMAIN s |-> Contents(s[i])'])
  BY DEF QueueContents
<1>4. QueueContents(s) = FlattenSeq([i \in DOMAIN s |-> Contents(s[i])])
  BY DEF QueueContents
<1> QED BY <1>2, <1>3, <1>4, Zenon

(* A buffer reads as before when it maps the same place with the same      *)
(* length and nobody wrote there.                                          *)
LEMMA SameBuffer ==
  ASSUME NEW b \in BufIds, buf'[b].len = buf[b].len,
         \/ buf[b].len = 0
         \/ /\ buf'[b].file = buf[b].file /\ buf'[b].slot = buf[b].slot
            /\ disk'[buf[b].file][buf[b].slot] = disk[buf[b].file][buf[b].slot]
  PROVE  Same(b)
<1>1. CASE buf[b].len = 0
  <2>1. \A i \in 1..buf[b].len : FALSE
    BY <1>1
  <2> QED BY <2>1 DEF Same, Contents
<1>2. CASE /\ buf'[b].file = buf[b].file /\ buf'[b].slot = buf[b].slot
           /\ disk'[buf[b].file][buf[b].slot] = disk[buf[b].file][buf[b].slot]
  BY <1>2 DEF Same, Contents
<1> QED BY <1>1, <1>2

(* The buffers of a container that x is not in read as before.             *)
LEMMA HeldSame ==
  ASSUME NEW s \in Seq(BufIds), NEW o, o \notin {"free", "deleted"}, Holds(s, o),
         NEW x, OthersSame(x), \A i \in 1..Len(s) : s[i] # x
  PROVE  SameIn(s)
<1> SUFFICES ASSUME NEW i \in 1..Len(s) PROVE Same(s[i])
  BY DEF SameIn
<1>1. s[i] \in BufIds /\ owner[s[i]] = o
  BY DEF Holds
<1>2. Live(s[i])
  BY <1>1 DEF Live
<1> QED BY <1>1, <1>2 DEF OthersSame

(* What a transaction wrote, in a step that does not touch its buffers.    *)
LEMMA TxOpsFrame ==
  ASSUME IndInv, NEW x, OthersSame(x), txBuffers' = txBuffers,
         x \in BufIds => owner[x] # "tx"
  PROVE  TxOps' = TxOps
<1> DEFINE F(t) == QueueContents(txBuffers[t])
<1>1. ASSUME NEW t \in Tx PROVE F(t)' = F(t)
  <2>1. PICK s \in Seq(BufIds) : s = txBuffers[t]
    BY FileFacts
  <2>2. Holds(s, "tx")
    BY <2>1 DEF IndInv, Containers
  <2>3. \A i \in 1..Len(s) : s[i] # x
    <3>1. \A i \in 1..Len(s) : s[i] \in BufIds /\ owner[s[i]] = "tx"
      BY <2>2 DEF Holds
    <3> QED BY <3>1
  <2>4. QueueContents(s)' = QueueContents(s)
    BY <2>2, <2>3, HeldSame, QueueFrame
  <2>5. txBuffers'[t] = s
    BY <2>1
  <2> QED BY <2>1, <2>4, <2>5
<1>2. TxOps' = [t \in Tx |-> F(t)'] /\ TxOps = [t \in Tx |-> F(t)]
  BY DEF TxOps
<1> HIDE DEF F
<1> QED BY <1>1, <1>2

(* What the monitor has in its hands, in a step of the network thread.     *)
LEMMA InFlightFrame ==
  ASSUME monVars' = monVars, NEW m, m = monBuf,
         monPc = "flush" => /\ Same(m) /\ buf'[m].pos = buf[m].pos
                            /\ buf'[m].len = buf[m].len
  PROVE  InFlight' = InFlight
<1>1. monPc' = monPc /\ monBuf' = monBuf
  BY DEF monVars
<1>2. CASE monPc # "flush"
  BY <1>1, <1>2 DEF InFlight
<1>3. CASE monPc = "flush"
  <2>1. Contents(m)' = Contents(m) /\ buf'[m].pos = buf[m].pos /\ buf'[m].len = buf[m].len
    BY <1>3 DEF Same
  <2>2. InFlight = SubSeq(Contents(m), buf[m].pos + 1, buf[m].len)
    BY <1>3 DEF InFlight
  <2>3. InFlight' = SubSeq(Contents(m)', buf'[m].pos + 1, buf'[m].len)
    BY <1>1, <1>3 DEF InFlight
  <2> QED BY <2>1, <2>2, <2>3
<1> QED BY <1>2, <1>3

(* The queue and the buffers on their way into it, in a step that leaves   *)
(* both alone.                                                             *)
LEMMA QueuedFrame ==
  ASSUME IndInv, NEW x, OthersSame(x),
         x \in BufIds => owner[x] \notin {"active", "writer"},
         NEW A, NEW N, A = activeBuffers, N = netAdd
  PROVE  QueueContents(A \o N)' = QueueContents(A \o N)
<1>1. A \in Seq(BufIds) /\ N \in Seq(BufIds)
  BY FileFacts
<1>2. Holds(A, "active") /\ Holds(N, "writer")
  BY DEF IndInv, Containers
<1>3. \A i \in 1..Len(A) : A[i] # x
  <2>1. \A i \in 1..Len(A) : A[i] \in BufIds /\ owner[A[i]] = "active"
    BY <1>1, <1>2 DEF Holds
  <2> QED BY <2>1
<1>4. \A i \in 1..Len(N) : N[i] # x
  <2>1. \A i \in 1..Len(N) : N[i] \in BufIds /\ owner[N[i]] = "writer"
    BY <1>1, <1>2 DEF Holds
  <2> QED BY <2>1
<1>5. SameIn(A)
  BY <1>1, <1>2, <1>3, HeldSame
<1>6. SameIn(N)
  BY <1>1, <1>2, <1>4, HeldSame
<1>7. SameIn(A \o N)
  <2> SUFFICES ASSUME NEW i \in 1..Len(A \o N) PROVE Same((A \o N)[i])
    BY DEF SameIn
  <2>1. /\ Len(A \o N) = Len(A) + Len(N) /\ Len(A) \in Nat /\ Len(N) \in Nat
        /\ \A k \in 1..(Len(A) + Len(N)) :
             (A \o N)[k] = IF k <= Len(A) THEN A[k] ELSE N[k - Len(A)]
    BY <1>1, ConcatProperties, LenProperties
  <2>2. CASE i <= Len(A)
    <3>1. (A \o N)[i] = A[i] /\ i \in 1..Len(A)
      BY <2>1, <2>2
    <3> QED BY <3>1, <1>5 DEF SameIn
  <2>3. CASE ~(i <= Len(A))
    <3>1. (A \o N)[i] = N[i - Len(A)] /\ i - Len(A) \in 1..Len(N)
      BY <2>1, <2>3
    <3> QED BY <3>1, <1>6 DEF SameIn
  <2> QED BY <2>2, <2>3
<1>8. A \o N \in Seq(BufIds)
  BY <1>1, ConcatProperties
<1> QED BY <1>7, <1>8, QueueFrame

(* A step that neither moves a buffer of the queue nor touches what is in  *)
(* one, nor what the monitor or a transaction holds.                       *)
LEMMA StillStep ==
  ASSUME IndInv, NEW x, OthersSame(x),
         x \in BufIds => owner[x] \notin {"active", "writer", "tx"},
         activeBuffers' = activeBuffers, netAdd' = netAdd, txBuffers' = txBuffers,
         InFlight' = InFlight, applied' = applied, clash' = clash
  PROVE  UNCHANGED Log!vars
<1>1. TxOps' = TxOps
  BY TxOpsFrame
<1>2. PICK A, N : A = activeBuffers /\ N = netAdd
  OBVIOUS
<1>3. QueueContents(A \o N)' = QueueContents(A \o N)
  BY <1>2, QueuedFrame
<1>4. /\ Pending = InFlight \o QueueContents(A \o N)
      /\ Pending' = InFlight' \o QueueContents(A \o N)'
  BY <1>2 DEF Pending
<1>5. Pending' = Pending
  BY <1>3, <1>4
<1> QED BY <1>1, <1>5, StutterMaps

(* A step that only changes where a thread stands.                         *)
LEMMA QuietStep ==
  ASSUME UNCHANGED <<activeBuffers, netAdd, buf, disk, monVars, txBuffers, applied, clash>>
  PROVE  UNCHANGED Log!vars
<1>1. TxOps' = TxOps
  BY DEF TxOps, QueueContents, Contents
<1>2. Pending' = Pending
  BY DEF Pending, InFlight, QueueContents, Contents, monVars
<1> QED BY <1>1, <1>2, StutterMaps

(* Nobody wrote and no buffer was reset.                                   *)
LEMMA AllSame ==
  ASSUME buf' = buf, disk' = disk
  PROVE  OthersSame(0) /\ \A b \in BufIds : Same(b)
<1>1. \A b \in BufIds : Same(b)
  BY SameBuffer
<1> QED BY <1>1 DEF OthersSame

(* One buffer changes, keeps its place and its length or is empty.         *)
LEMMA OneSame ==
  ASSUME ObjType, NEW x \in BufIds, NEW r, buf' = [buf EXCEPT ![x] = r], disk' = disk,
         r.len = buf[x].len,
         buf[x].len = 0 \/ (r.file = buf[x].file /\ r.slot = buf[x].slot)
  PROVE  OthersSame(0) /\ \A b \in BufIds : Same(b)
<1>0. buf \in [BufIds -> BufferRec]
  BY DEF ObjType
<1>1. ASSUME NEW b \in BufIds PROVE Same(b)
  <2>1. CASE b = x
    <3>1. buf'[b] = r
      BY <1>0, <2>1
    <3> QED BY <2>1, <3>1, SameBuffer
  <2>2. CASE b # x
    <3>1. buf'[b] = buf[b]
      BY <1>0, <2>2
    <3> QED BY <3>1, SameBuffer
  <2> QED BY <2>1, <2>2
<1> QED BY <1>1 DEF OthersSame

(* One buffer changes in whatever way.                                     *)
LEMMA OneOther ==
  ASSUME ObjType, NEW x \in BufIds, NEW r, buf' = [buf EXCEPT ![x] = r], disk' = disk
  PROVE  OthersSame(x)
<1>0. buf \in [BufIds -> BufferRec]
  BY DEF ObjType
<1>1. ASSUME NEW b \in BufIds, b # x PROVE Same(b)
  <2>1. buf'[b] = buf[b]
    BY <1>0, <1>1
  <2> QED BY <2>1, SameBuffer
<1> QED BY <1>1 DEF OthersSame

(* What the monitor has in its hands when another buffer changes.          *)
LEMMA InFlightOther ==
  ASSUME IndInv, NEW x, OthersSame(x), monVars' = monVars,
         x \in BufIds => owner[x] # "monitor",
         \A b \in BufIds : owner[b] = "monitor" => buf'[b] = buf[b]
  PROVE  InFlight' = InFlight
<1>1. PICK m : m = monBuf
  OBVIOUS
<1>2. ASSUME monPc = "flush" PROVE Same(m) /\ buf'[m] = buf[m]
  <2>1. m \in BufIds /\ owner[m] = "monitor"
    BY <1>1, <1>2, WorkFacts
  <2>2. Live(m) /\ m # x
    BY <2>1 DEF Live
  <2> QED BY <2>1, <2>2 DEF OthersSame
<1> QED BY <1>1, <1>2, InFlightFrame

(* The end of getBuffer finds its buffer empty and leaves it so.           *)
LEMMA RegisterQuiet == ASSUME IndInv, Register PROVE UNCHANGED Log!vars
<1>1. PICK x \in BufIds : x = netBuf /\ owner[x] = "active"
  BY WorkFacts DEF Register
<1>2. buf[x].len = 0 /\ ObjType
  BY <1>1 DEF IndInv, Cursors, Register, TypeOK
<1>3. PICK r : /\ buf' = [buf EXCEPT ![x] = r] /\ r.len = 0
  <2>1. buf \in [BufIds -> BufferRec]
    BY <1>2 DEF ObjType
  <2> DEFINE r == IF netNew THEN [buf[x] EXCEPT !.ctl = Len(control.recs) + 1]
                  ELSE Reset(buf[x])
  <2>2. buf[x] \in BufferRec
    BY <2>1
  <2>3. r.len = 0
    BY <1>2, <2>2 DEF Reset, BufferRec
  <2>4. buf' = [buf EXCEPT ![x] = r]
    BY <1>1 DEF Register
  <2> QED BY <2>3, <2>4
<1>4. OthersSame(0)
  <2>1. disk' = disk
    BY DEF Register
  <2> QED BY <1>2, <1>3, <2>1, OneSame
<1>5. \A b \in BufIds : owner[b] = "monitor" => buf'[b] = buf[b]
  <2>1. buf \in [BufIds -> BufferRec]
    BY <1>2 DEF ObjType
  <2> QED BY <1>1, <1>3, <2>1
<1>6. 0 \notin BufIds
  BY DEF BufIds
<1>7. /\ activeBuffers' = activeBuffers /\ netAdd' = netAdd /\ txBuffers' = txBuffers
      /\ applied' = applied /\ clash' = clash /\ monVars' = monVars
  BY DEF Register, mgrVars, txVars, histVars
<1>8. InFlight' = InFlight
  BY <1>4, <1>5, <1>6, <1>7, InFlightOther
<1> QED BY <1>4, <1>6, <1>7, <1>8, StillStep

(* flushBuffer resets the recycled buffer once more: it was empty.         *)
LEMMA FlushRegisterQuiet == ASSUME IndInv, FlushRegister PROVE UNCHANGED Log!vars
<1>1. PICK x \in BufIds : x = monBuf
  BY WorkFacts DEF FlushRegister
<1>2. buf[x].len = 0 /\ ObjType /\ buf[x] \in BufferRec
  BY <1>1 DEF IndInv, Cursors, FlushRegister, TypeOK, ObjType
<1>3. buf' = [buf EXCEPT ![x] = Reset(buf[x])] /\ Reset(buf[x]).len = 0
  BY <1>1, <1>2 DEF FlushRegister, Reset, BufferRec
<1>4. OthersSame(0)
  <2>1. disk' = disk
    BY DEF FlushRegister
  <2> QED BY <1>2, <1>3, <2>1, OneSame
<1>6. 0 \notin BufIds
  BY DEF BufIds
<1>7. /\ activeBuffers' = activeBuffers /\ netAdd' = netAdd /\ txBuffers' = txBuffers
      /\ applied' = applied /\ clash' = clash
  BY DEF FlushRegister, mgrVars, txVars, histVars, netVars
<1>8. InFlight' = InFlight
  BY DEF FlushRegister, InFlight
<1> QED BY <1>4, <1>6, <1>7, <1>8, StillStep

(* A buffer from the reusable list is empty.                               *)
LEMMA ReuseQuiet == ASSUME IndInv, GetBufferReuse PROVE UNCHANGED Log!vars
<1>1. PICK x \in BufIds : x = Head(reusableBuffers) /\ owner[x] = "reusable"
  <2>1. reusableBuffers \in Seq(BufIds) /\ reusableBuffers # <<>>
    BY FileFacts DEF GetBufferReuse
  <2>2. Head(reusableBuffers) = reusableBuffers[1] /\ 1 \in 1..Len(reusableBuffers)
    BY <2>1
  <2>3. reusableBuffers[1] \in BufIds /\ owner[reusableBuffers[1]] = "reusable"
    BY <2>1, <2>2 DEF IndInv, Containers, Holds
  <2> QED BY <2>2, <2>3
<1>2. buf[x].len = 0 /\ ObjType /\ buf[x] \in BufferRec
  BY <1>1 DEF IndInv, Cursors, TypeOK, ObjType
<1>3. buf' = [buf EXCEPT ![x] = Reset(buf[x])] /\ Reset(buf[x]).len = 0
  BY <1>1, <1>2 DEF GetBufferReuse, Reset, BufferRec
<1>4. OthersSame(0)
  <2>1. disk' = disk
    BY DEF GetBufferReuse
  <2> QED BY <1>2, <1>3, <2>1, OneSame
<1>5. \A b \in BufIds : owner[b] = "monitor" => buf'[b] = buf[b]
  <2>1. buf \in [BufIds -> BufferRec]
    BY <1>2 DEF ObjType
  <2> QED BY <1>1, <1>3, <2>1
<1>6. 0 \notin BufIds
  BY DEF BufIds
<1>7. /\ activeBuffers' = activeBuffers /\ netAdd' = netAdd /\ txBuffers' = txBuffers
      /\ applied' = applied /\ clash' = clash /\ monVars' = monVars
  BY DEF GetBufferReuse, txVars
<1>8. InFlight' = InFlight
  BY <1>4, <1>5, <1>6, <1>7, InFlightOther
<1> QED BY <1>4, <1>6, <1>7, <1>8, StillStep

(* A new buffer does not show before it is put in the queue.               *)
LEMMA CreateQuiet ==
  ASSUME IndInv, GetBufferCreate, ~clash, ~clash'
  PROVE  UNCHANGED Log!vars
<1>1. PICK x \in BufIds : x = created + 1 /\ owner[x] = "free"
  BY WorkFacts DEF GetBufferCreate
<1>2. ObjType /\ buf \in [BufIds -> BufferRec]
  BY DEF IndInv, TypeOK, ObjType
<1>3. buf' = [buf EXCEPT ![x] = NewBuffer(Main, NewSlot)] /\ disk' = disk
  BY <1>1 DEF GetBufferCreate
<1>4. OthersSame(x)
  BY <1>2, <1>3, OneOther
<1>5. \A b \in BufIds : owner[b] = "monitor" => buf'[b] = buf[b]
  BY <1>1, <1>2, <1>3
<1>7. /\ activeBuffers' = activeBuffers /\ netAdd' = netAdd /\ txBuffers' = txBuffers
      /\ applied' = applied /\ clash' = clash /\ monVars' = monVars
  <2>1. clash \in BOOLEAN /\ clash' \in BOOLEAN
    BY DEF IndInv, TypeOK, HistType, GetBufferCreate
  <2> QED BY <2>1 DEF GetBufferCreate, mgrVars, txVars
<1>8. InFlight' = InFlight
  BY <1>1, <1>4, <1>5, <1>7, InFlightOther
<1> QED BY <1>1, <1>4, <1>7, <1>8, StillStep

(* The monitor is done with its buffer: nothing of it is left.             *)
LEMMA RecycleQuiet ==
  ASSUME IndInv, FlushRecycle \/ FlushDrop
  PROVE  UNCHANGED Log!vars
<1>1. PICK x \in BufIds : x = monBuf /\ owner[x] = "monitor" /\ monPc = "flush" /\ Eof(buf[x])
  BY WorkFacts DEF FlushRecycle, FlushDrop
<1>2. ObjType /\ buf[x] \in BufferRec
  BY DEF IndInv, TypeOK, ObjType
<1>3. OthersSame(x)
  <2>1. CASE FlushRecycle
    BY <1>1, <1>2, <2>1, OneOther DEF FlushRecycle
  <2>2. CASE FlushDrop
    <3>1. OthersSame(0) /\ \A b \in BufIds : Same(b)
      BY <2>2, AllSame DEF FlushDrop
    <3> QED BY <3>1 DEF OthersSame
  <2> QED BY <2>1, <2>2
<1>4. InFlight = <<>>
  <2>1. /\ buf[x].len \in Int /\ buf[x].pos + 1 \in Int
        /\ buf[x].len < buf[x].pos + 1
    BY <1>1, <1>2 DEF Eof, BufferRec
  <2> QED BY <1>1, <2>1, SubSeqEmpty DEF InFlight
<1>5. InFlight' = <<>>
  BY DEF FlushRecycle, FlushDrop, InFlight
<1>6. /\ activeBuffers' = activeBuffers /\ netAdd' = netAdd /\ txBuffers' = txBuffers
      /\ applied' = applied /\ clash' = clash
  BY DEF FlushRecycle, FlushDrop, mgrVars, txVars, netVars
<1>7. InFlight' = InFlight
  BY <1>4, <1>5
<1> QED BY <1>1, <1>3, <1>6, <1>7, StillStep

(* When no commit is under way the queue is that of the active buffers.    *)
LEMMA NoneOnTheWay ==
  ASSUME IndInv, netPc \notin {"addBuffers", "addBuffersLoop"}
  PROVE  netAdd = <<>> /\ activeBuffers \o netAdd = activeBuffers
<1>1. netAdd = <<>>
  BY DEF IndInv, Control
<1>2. activeBuffers \in Seq(BufIds)
  BY FileFacts
<1> QED BY <1>1, <1>2, ConcatEmptySeq

(* addBuffer puts an empty buffer at the end of the queue.                 *)
LEMMA AddBufferQuiet ==
  ASSUME IndInv, ObjType', AddBuffer
  PROVE  UNCHANGED Log!vars
<1>1. PICK x \in BufIds : x = netBuf
  BY WorkFacts DEF AddBuffer
<1>2. Contents(x) = <<>>
  <2>1. buf[x].len = 0
    BY <1>1 DEF IndInv, Cursors, AddBuffer
  <2>2. \A i \in 1..buf[x].len : FALSE
    BY <2>1
  <2> QED BY <2>2 DEF Contents
<1>3. buf' = buf /\ disk' = disk /\ txBuffers' = txBuffers /\ netAdd' = netAdd
  BY DEF AddBuffer, objVars, txVars
<1>4. OthersSame(0) /\ Same(x) /\ 0 \notin BufIds
  BY <1>3, AllSame DEF BufIds
<1>5. PICK A \in Seq(BufIds) : A = activeBuffers
  BY FileFacts
<1>6. netAdd = <<>> /\ activeBuffers \o netAdd = A
  BY <1>5, NoneOnTheWay DEF AddBuffer
<1>7. QueueContents(A)' = QueueContents(A)
  <2>1. A \o <<>> = A
    BY <1>5, ConcatEmptySeq
  <2>2. QueueContents(A \o <<>>)' = QueueContents(A \o <<>>)
    BY <1>4, <1>5, <1>6, QueuedFrame
  <2> QED BY <2>1, <2>2
<1>8. PICK B \in Seq(BufIds) : B = Append(A, x)
  BY AppendProperties
<1>9. QueueContents(B)' = QueueContents(A)
  <2>1. QueueRules /\ QueueRules'
    <3>1. ObjType
      BY DEF IndInv, TypeOK
    <3>2. (ObjType => QueueRules)'
      BY QueueGrows, PTL
    <3> QED BY <3>1, <3>2, QueueGrows
  <2>2. QueueContents(Append(A, x))' = QueueContents(A)' \o Contents(x)'
    BY <2>1 DEF QueueRules
  <2>3. Contents(x)' = <<>> /\ QueueContents(A) \in Seq(Value)
    BY <1>2, <1>4, <2>1 DEF Same, QueueRules
  <2> QED BY <1>7, <1>8, <2>2, <2>3, ConcatEmptySeq
<1>10. (activeBuffers \o netAdd)' = B
  <2>1. activeBuffers' = B /\ netAdd' = <<>>
    BY <1>1, <1>3, <1>5, <1>6, <1>8 DEF AddBuffer
  <2> QED BY <2>1, ConcatEmptySeq
<1>11. InFlight' = InFlight
  <2>1. monVars' = monVars
    BY DEF AddBuffer
  <2> QED BY <1>3, <1>4, <2>1, InFlightOther
<1>12. Pending' = Pending
  <2>1. Pending = InFlight \o QueueContents(A)
    BY <1>6 DEF Pending
  <2>2. Pending' = InFlight' \o QueueContents(B)'
    BY <1>10 DEF Pending
  <2> QED BY <2>1, <2>2, <1>9, <1>11
<1>13. TxOps' = TxOps
  BY <1>3, <1>4, TxOpsFrame
<1>14. applied' = applied /\ clash' = clash
  BY DEF AddBuffer
<1> QED BY <1>12, <1>13, <1>14, StutterMaps

(* addBuffers moves the next buffer of the commit into the queue.          *)
LEMMA AddBuffersNextQuiet ==
  ASSUME IndInv, AddBuffersNext
  PROVE  UNCHANGED Log!vars
<1>0. PICK A \in Seq(BufIds), N \in Seq(BufIds) : A = activeBuffers /\ N = netAdd /\ N # <<>>
  BY FileFacts DEF AddBuffersNext
<1>1. PICK x \in BufIds : x = Head(N)
  BY <1>0, HeadTailProperties
<1>2. ObjType /\ buf[x] \in BufferRec /\ owner[x] = "writer"
  <2>1. Holds(N, "writer") /\ Head(N) = N[1] /\ 1 \in 1..Len(N)
    BY <1>0 DEF IndInv, Containers
  <2> QED BY <1>1, <2>1 DEF IndInv, TypeOK, ObjType, Holds
<1>3. PICK r : /\ buf' = [buf EXCEPT ![x] = r] /\ r.len = buf[x].len
               /\ r.file = buf[x].file /\ r.slot = buf[x].slot
  <2> DEFINE r == [buf[x] EXCEPT !.ctl = Len(control.recs) + 1]
  <2>1. buf' = [buf EXCEPT ![x] = r]
    BY <1>0, <1>1 DEF AddBuffersNext
  <2>2. r.len = buf[x].len /\ r.file = buf[x].file /\ r.slot = buf[x].slot
    BY <1>2 DEF BufferRec
  <2> QED BY <2>1, <2>2
<1>4. disk' = disk /\ txBuffers' = txBuffers /\ applied' = applied /\ clash' = clash
      /\ monVars' = monVars
  BY DEF AddBuffersNext, txVars
<1>5. OthersSame(0) /\ 0 \notin BufIds
  <2>1. OthersSame(0)
    BY <1>2, <1>3, <1>4, OneSame
  <2> QED BY <2>1 DEF BufIds
<1>6. (activeBuffers \o netAdd)' = A \o N
  <2>1. activeBuffers' = Append(A, x) /\ netAdd' = Tail(N)
    BY <1>0, <1>1 DEF AddBuffersNext
  <2>2. Append(A, x) = A \o <<x>> /\ <<x>> \in Seq(BufIds)
    BY AppendIsConcat
  <2>3. PICK T \in Seq(BufIds) : T = Tail(N)
    BY <1>0, HeadTailProperties
  <2>4. N = <<x>> \o T
    BY <1>0, <1>1, <2>3
  <2>5. (A \o <<x>>) \o T = A \o (<<x>> \o T)
    BY <2>2, ConcatAssociative
  <2> QED BY <2>1, <2>2, <2>3, <2>4, <2>5
<1>7. QueueContents(A \o N)' = QueueContents(A \o N)
  BY <1>0, <1>5, QueuedFrame
<1>8. InFlight' = InFlight
  <2>1. \A b \in BufIds : owner[b] = "monitor" => buf'[b] = buf[b]
    BY <1>2, <1>3 DEF ObjType
  <2> QED BY <1>4, <1>5, <2>1, InFlightOther
<1>9. Pending' = Pending
  <2>1. Pending = InFlight \o QueueContents(A \o N)
    BY <1>0 DEF Pending
  <2>2. Pending' = InFlight' \o QueueContents(A \o N)'
    BY <1>6 DEF Pending
  <2> QED BY <2>1, <2>2, <1>7, <1>8
<1>10. TxOps' = TxOps
  BY <1>4, <1>5, TxOpsFrame
<1> QED BY <1>4, <1>9, <1>10, StutterMaps

(* Operations in a row, however they are grouped.                          *)
LEMMA ValueConcat ==
  \A a, b, c \in Seq(Value) : a \o (b \o c) = (a \o b) \o c
<1> SUFFICES ASSUME NEW a \in Seq(Value), NEW b \in Seq(Value), NEW c \in Seq(Value)
             PROVE  a \o (b \o c) = (a \o b) \o c
  OBVIOUS
<1> QED BY ConcatAssociative

(* What the monitor has in its hands is a sequence of operations.          *)
LEMMA InFlightType == ASSUME IndInv PROVE InFlight \in Seq(Value)
<1>1. CASE monPc = "flush"
  <2>1. PICK m \in BufIds : m = monBuf
    BY <1>1, WorkFacts
  <2>2. Contents(m) \in Seq(Value) /\ Len(Contents(m)) = buf[m].len
    BY ContentsLemma DEF Value, IndInv, TypeOK
  <2>3. buf[m].len \in Nat /\ buf[m].pos \in Nat
    BY LogFacts
  <2>4. \A k \in (buf[m].pos + 1)..buf[m].len : Contents(m)[k] \in Value
    BY <2>2, <2>3
  <2>5. SubSeq(Contents(m), buf[m].pos + 1, buf[m].len) \in Seq(Value)
    BY <2>3, <2>4, SubSeqProperties
  <2> QED BY <1>1, <2>1, <2>5 DEF InFlight
<1>2. CASE monPc # "flush"
  BY <1>2 DEF InFlight
<1> QED BY <1>1, <1>2

(* Any queue reads as before when every buffer does.                       *)
LEMMA QueueAll ==
  ASSUME \A b \in BufIds : Same(b), NEW s \in Seq(BufIds)
  PROVE  QueueContents(s)' = QueueContents(s)
<1>1. \A i \in 1..Len(s) : s[i] \in BufIds
  BY ElementOfSeq
<1>2. SameIn(s)
  BY <1>1 DEF SameIn
<1> QED BY <1>2, QueueFrame

(* The rules hold before and after a step.                                 *)
LEMMA RulesBoth == ASSUME IndInv, ObjType' PROVE QueueRules /\ QueueRules'
<1>1. ObjType
  BY DEF IndInv, TypeOK
<1>2. (ObjType => QueueRules)'
  BY QueueGrows, PTL
<1> QED BY <1>1, <1>2, QueueGrows

(* A transaction that has ended holds nothing.                             *)
LEMMA TxOpsCleared ==
  ASSUME IndInv, buf' = buf, disk' = disk, NEW t \in Tx,
         txBuffers' = [txBuffers EXCEPT ![t] = <<>>]
  PROVE  TxOps' = [TxOps EXCEPT ![t] = <<>>]
<1>0. txBuffers \in [Tx -> Seq(BufIds)]
  BY FileFacts
<1> DEFINE F(u) == QueueContents(txBuffers[u])
<1>1. ASSUME NEW u \in Tx PROVE F(u)' = IF u = t THEN <<>> ELSE F(u)
  <2>1. CASE u = t
    <3>1. txBuffers'[u] = <<>>
      BY <1>0, <2>1
    <3>2. (QueueContents(<<>>) = <<>>)'
      BY QueueEmpty, PTL
    <3> QED BY <2>1, <3>1, <3>2
  <2>2. CASE u # t
    <3>1. PICK s \in Seq(BufIds) : s = txBuffers[u]
      BY <1>0
    <3>2. txBuffers'[u] = s
      BY <1>0, <2>2, <3>1
    <3>3. QueueContents(s)' = QueueContents(s)
      BY AllSame, QueueAll
    <3> QED BY <2>2, <3>1, <3>2, <3>3
  <2> QED BY <2>1, <2>2
<1>2. TxOps' = [u \in Tx |-> F(u)'] /\ TxOps = [u \in Tx |-> F(u)]
  BY DEF TxOps
<1> HIDE DEF F
<1> QED BY <1>1, <1>2

(* dropAllBuffers.                                                         *)
LEMMA RollbackStep ==
  ASSUME IndInv, NEW t \in Tx, Rollback(t), ~clash, ~clash'
  PROVE  Log!Next
<1>1. /\ buf' = buf /\ disk' = disk /\ txBuffers' = [txBuffers EXCEPT ![t] = <<>>]
      /\ applied' = applied /\ activeBuffers' = activeBuffers /\ netAdd' = netAdd
      /\ monVars' = monVars
  BY DEF Rollback, mgrVars, netVars
<1>2. TxOps' = [TxOps EXCEPT ![t] = <<>>]
  BY <1>1, TxOpsCleared
<1>3. Pending' = Pending
  BY <1>1 DEF Pending, InFlight, QueueContents, Contents, monVars
<1> QED BY <1>1, <1>2, <1>3, RollbackMaps

(* popAll: from here on the transaction's buffers count as queued.         *)
LEMMA CommitStep ==
  ASSUME IndInv, ObjType', NEW t \in Tx, Commit(t), ~clash, ~clash'
  PROVE  Log!Next
<1>1. /\ buf' = buf /\ disk' = disk /\ txBuffers' = [txBuffers EXCEPT ![t] = <<>>]
      /\ applied' = applied /\ activeBuffers' = activeBuffers /\ netAdd' = txBuffers[t]
      /\ monVars' = monVars
  BY DEF Commit, mgrVars, objVars
<1>2. TxOps' = [TxOps EXCEPT ![t] = <<>>]
  BY <1>1, TxOpsCleared
<1>3. PICK A \in Seq(BufIds), B \in Seq(BufIds) : A = activeBuffers /\ B = txBuffers[t]
  BY FileFacts
<1>4. netAdd = <<>> /\ activeBuffers \o netAdd = A
  BY <1>3, NoneOnTheWay DEF Commit
<1>5. QueueContents(A \o B)' = QueueContents(A) \o QueueContents(B)
  <2>1. QueueRules /\ QueueRules'
    BY RulesBoth
  <2>2. QueueContents(A \o B)' = QueueContents(A)' \o QueueContents(B)'
    BY <2>1 DEF QueueRules
  <2>3. QueueContents(A)' = QueueContents(A) /\ QueueContents(B)' = QueueContents(B)
    BY <1>1, AllSame, QueueAll
  <2> QED BY <2>2, <2>3
<1>6. InFlight' = InFlight
  BY <1>1 DEF InFlight, Contents, monVars
<1>7. Pending' = Pending \o TxOps[t]
  <2>1. Pending = InFlight \o QueueContents(A) /\ TxOps[t] = QueueContents(B)
    BY <1>3, <1>4 DEF Pending, TxOps
  <2>2. Pending' = InFlight' \o QueueContents(A \o B)'
    BY <1>1, <1>3 DEF Pending
  <2>3. PICK i \in Seq(Value), q \in Seq(Value), r \in Seq(Value) :
          i = InFlight /\ q = QueueContents(A) /\ r = QueueContents(B)
    <3>1. InFlight \in Seq(Value)
      BY InFlightType
    <3>2. QueueContents(A) \in Seq(Value) /\ QueueContents(B) \in Seq(Value)
      BY QueueType DEF IndInv, TypeOK
    <3> QED BY <3>1, <3>2
  <2>4. i \o (q \o r) = (i \o q) \o r
    BY ValueConcat
  <2> QED BY <1>5, <1>6, <2>1, <2>2, <2>3, <2>4
<1> QED BY <1>1, <1>2, <1>7, CommitMaps

(* pop takes the first buffer; everything in it is still to be applied.    *)
LEMMA FlushPopQuiet ==
  ASSUME IndInv, ObjType', FlushPop
  PROVE  UNCHANGED Log!vars
<1>0. PICK A \in Seq(BufIds), N \in Seq(BufIds) :
        A = activeBuffers /\ N = netAdd /\ A # <<>>
  BY FileFacts, WorkFacts DEF FlushPop
<1>1. PICK x \in BufIds, T \in Seq(BufIds) : x = Head(A) /\ T = Tail(A)
  BY <1>0, HeadTailProperties
<1>2. ObjType /\ buf[x] \in BufferRec /\ buf \in [BufIds -> BufferRec]
  BY DEF IndInv, TypeOK, ObjType
<1>3. PICK r : /\ buf' = [buf EXCEPT ![x] = r] /\ r.len = buf[x].len /\ r.pos = 0
               /\ r.file = buf[x].file /\ r.slot = buf[x].slot
  <2> DEFINE r == [buf[x] EXCEPT !.pos = 0]
  <2>1. buf' = [buf EXCEPT ![x] = r]
    BY <1>0, <1>1 DEF FlushPop
  <2>2. r.len = buf[x].len /\ r.pos = 0 /\ r.file = buf[x].file /\ r.slot = buf[x].slot
    BY <1>2 DEF BufferRec
  <2> QED BY <2>1, <2>2
<1>4. /\ disk' = disk /\ txBuffers' = txBuffers /\ applied' = applied /\ clash' = clash
      /\ activeBuffers' = T /\ netAdd' = N /\ monPc' = "flush" /\ monBuf' = x
      /\ monPc = "pop"
  BY <1>0, <1>1 DEF FlushPop, txVars, netVars
<1>5. OthersSame(0) /\ \A b \in BufIds : Same(b)
  BY <1>2, <1>3, <1>4, OneSame
<1>6. QueueRules /\ QueueRules'
  BY RulesBoth
<1>7. PICK e \in Seq(BufIds), U \in Seq(BufIds) : e = <<x>> /\ U = T \o N
  <2>1. <<x>> \in Seq(BufIds)
    OBVIOUS
  <2>2. T \o N \in Seq(BufIds)
    BY ConcatProperties
  <2> QED BY <2>1, <2>2, Zenon
<1>8. A \o N = e \o U
  <2>1. A = e \o T
    BY <1>0, <1>1, <1>7
  <2>2. (e \o T) \o N = e \o (T \o N)
    BY ConcatAssociative
  <2> QED BY <1>7, <2>1, <2>2
<1>9. QueueContents(A \o N) = Contents(x) \o QueueContents(U)
  <2>1. e = Append(<<>>, x) /\ <<>> \in Seq(BufIds)
    BY <1>7
  <2>2. QueueContents(e) = <<>> \o Contents(x)
    <3>1. PICK z \in Seq(BufIds) : z = <<>>
      BY <2>1
    <3>2. QueueContents(Append(z, x)) = QueueContents(z) \o Contents(x)
      BY <1>6 DEF QueueRules
    <3> QED BY <2>1, <3>1, <3>2, QueueEmpty
  <2>3. Contents(x) \in Seq(Value)
    BY <1>6 DEF QueueRules
  <2>4. QueueContents(e) = Contents(x)
    BY <2>2, <2>3, ConcatEmptySeq
  <2>5. QueueContents(e \o U) = QueueContents(e) \o QueueContents(U)
    BY <1>6 DEF QueueRules
  <2> QED BY <1>8, <2>4, <2>5
<1>10. QueueContents(U)' = QueueContents(U)
  BY <1>5, QueueAll
<1>11. InFlight = <<>>
  BY <1>4 DEF InFlight
<1>12. InFlight' = Contents(x)
  <2>1. InFlight' = SubSeq(Contents(x)', buf'[x].pos + 1, buf'[x].len)
    BY <1>4 DEF InFlight
  <2>2. buf'[x].pos = 0 /\ buf'[x].len = buf[x].len
    BY <1>2, <1>3
  <2>3. Contents(x)' = Contents(x)
    BY <1>5 DEF Same
  <2>4. Len(Contents(x)) = buf[x].len /\ Contents(x) \in Seq(Value)
    BY <1>2, ContentsLemma DEF Value
  <2>5. SubSeq(Contents(x), 1, Len(Contents(x))) = Contents(x)
    BY <2>4, SubSeqFull
  <2>6. 0 + 1 = 1
    OBVIOUS
  <2> QED BY <2>1, <2>2, <2>3, <2>4, <2>5, <2>6
<1>13. Pending' = Pending
  <2>1. Pending = <<>> \o (Contents(x) \o QueueContents(U))
    BY <1>0, <1>9, <1>11 DEF Pending
  <2>2. Pending' = InFlight' \o QueueContents(U)'
    BY <1>4, <1>7 DEF Pending
  <2>3. Contents(x) \o QueueContents(U) \in Seq(Value)
    BY <1>6, ConcatProperties DEF QueueRules
  <2>4. Pending = Contents(x) \o QueueContents(U)
    BY <2>1, <2>3, ConcatEmptySeq
  <2> QED BY <2>2, <2>4, <1>10, <1>12
<1>14. TxOps' = TxOps
  <2>1. 0 \notin BufIds
    BY DEF BufIds
  <2> QED BY <1>4, <1>5, <2>1, TxOpsFrame
<1> QED BY <1>4, <1>13, <1>14, StutterMaps

(* One operation followed by others.                                       *)
LEMMA FirstOfSeveral ==
  ASSUME NEW v \in Value, NEW a \in Seq(Value), NEW q \in Seq(Value)
  PROVE  /\ (<<v>> \o a) \o q # <<>>
         /\ Head((<<v>> \o a) \o q) = v
         /\ Tail((<<v>> \o a) \o q) = a \o q
<1>1. PICK e \in Seq(Value) : e = <<v>>
  <2>1. <<v>> \in Seq(Value)
    OBVIOUS
  <2> QED BY <2>1, Zenon
<1>2. PICK w \in Seq(Value) : w = a \o q
  BY ConcatProperties
<1>3. (<<v>> \o a) \o q = <<v>> \o w
  BY <1>1, <1>2, ValueConcat
<1>4. <<v>> \o w # <<>> /\ Head(<<v>> \o w) = v /\ Tail(<<v>> \o w) = w
  OBVIOUS
<1> QED BY <1>2, <1>3, <1>4

(* readOperationFromRegister takes the operation at the cursor.            *)
LEMMA FlushApplyStep ==
  ASSUME IndInv, FlushApply, ~clash, ~clash'
  PROVE  Log!Next
<1>1. PICK x \in BufIds : x = monBuf /\ owner[x] = "monitor" /\ monPc = "flush" /\ ~Eof(buf[x])
  BY WorkFacts DEF FlushApply
<1>2. ObjType /\ buf[x] \in BufferRec /\ buf \in [BufIds -> BufferRec]
  BY DEF IndInv, TypeOK, ObjType
<1>3. PICK p \in Nat, l \in Nat : p = buf[x].pos /\ l = buf[x].len /\ p < l
  BY <1>1, <1>2 DEF Eof, BufferRec
<1>4. PICK r : /\ buf' = [buf EXCEPT ![x] = r] /\ r.len = l /\ r.pos = p + 1
               /\ r.file = buf[x].file /\ r.slot = buf[x].slot
  <2> DEFINE r == [buf[x] EXCEPT !.pos = p + 1]
  <2>1. buf' = [buf EXCEPT ![x] = r]
    BY <1>1, <1>3 DEF FlushApply
  <2>2. r.len = l /\ r.pos = p + 1 /\ r.file = buf[x].file /\ r.slot = buf[x].slot
    BY <1>2, <1>3 DEF BufferRec
  <2> QED BY <2>1, <2>2
<1>5. /\ disk' = disk /\ txBuffers' = txBuffers /\ activeBuffers' = activeBuffers
      /\ netAdd' = netAdd /\ monPc' = "flush" /\ monBuf' = x
  BY <1>1 DEF FlushApply, txVars, mgrVars, netVars, monVars
<1>6. OthersSame(0) /\ (\A b \in BufIds : Same(b)) /\ 0 \notin BufIds
  <2>1. OthersSame(0) /\ \A b \in BufIds : Same(b)
    BY <1>2, <1>3, <1>4, <1>5, OneSame
  <2> QED BY <2>1 DEF BufIds
<1>7. PICK C \in Seq(Value) : C = Contents(x) /\ Len(C) = l
  BY <1>2, <1>3, ContentsLemma DEF Value
<1>8. C[p + 1] = disk[buf[x].file][buf[x].slot][p + 1]
  <2>1. p + 1 \in 1..buf[x].len
    BY <1>3
  <2> QED BY <1>2, <1>7, <2>1, ContentsLemma
<1>9. PICK v \in Value : v = C[p + 1] /\ applied' = Append(applied, v)
  <2>1. p + 1 \in 1..Len(C)
    BY <1>3, <1>7
  <2>2. C[p + 1] \in Value
    BY <2>1, ElementOfSeq
  <2> QED BY <1>1, <1>3, <1>8, <2>2 DEF FlushApply
<1>10. PICK a \in Seq(Value) : a = SubSeq(C, p + 2, l) /\ InFlight = <<v>> \o a
  <2>1. p + 1 \in 1..Len(C) /\ l \in (p + 1)..Len(C) /\ (p + 1) + 1 = p + 2
    BY <1>3, <1>7
  <2>2. SubSeq(C, p + 1, l) = <<C[p + 1]>> \o SubSeq(C, p + 2, l)
    BY <2>1, SubSeqRecursiveFirst
  <2>3. SubSeq(C, p + 2, l) \in Seq(Value)
    <3>1. \A k \in (p + 2)..l : C[k] \in Value
      BY <1>3, <1>7
    <3> QED BY <1>3, <3>1, SubSeqProperties
  <2>4. InFlight = SubSeq(C, p + 1, l)
    BY <1>1, <1>3, <1>7 DEF InFlight
  <2> QED BY <1>9, <2>2, <2>3, <2>4
<1>11. InFlight' = a
  <2>1. InFlight' = SubSeq(Contents(x)', buf'[x].pos + 1, buf'[x].len)
    BY <1>5 DEF InFlight
  <2>2. buf'[x].pos = p + 1 /\ buf'[x].len = l /\ (p + 1) + 1 = p + 2
    BY <1>2, <1>3, <1>4
  <2>3. Contents(x)' = C
    BY <1>6, <1>7 DEF Same
  <2> QED BY <1>10, <2>1, <2>2, <2>3
<1>12. PICK A \in Seq(BufIds), N \in Seq(BufIds) : A = activeBuffers /\ N = netAdd
  BY FileFacts
<1>13. PICK q \in Seq(Value) : q = QueueContents(A \o N) /\ QueueContents(A \o N)' = q
  <2>1. PICK u \in Seq(BufIds) : u = A \o N
    BY ConcatProperties
  <2>2. QueueContents(u)' = QueueContents(u) /\ QueueContents(u) \in Seq(Value)
    BY <1>2, <1>6, QueueAll, QueueType
  <2> QED BY <2>1, <2>2
<1>14. Pending = (<<v>> \o a) \o q /\ Pending' = a \o q
  <2>1. Pending = InFlight \o QueueContents(A \o N)
    BY <1>12 DEF Pending
  <2>2. Pending' = InFlight' \o QueueContents(A \o N)'
    BY <1>5, <1>12 DEF Pending
  <2> QED BY <2>1, <2>2, <1>10, <1>11, <1>13
<1>15. Pending # <<>> /\ Head(Pending) = v /\ Pending' = Tail(Pending)
  BY <1>14, FirstOfSeveral
<1>16. TxOps' = TxOps
  BY <1>5, <1>6, TxOpsFrame
<1> QED BY <1>9, <1>15, <1>16, ApplyMaps

(* An operation after several, however they are grouped.                   *)
LEMMA ValueAppend ==
  ASSUME NEW a \in Seq(Value), NEW c \in Seq(Value), NEW v \in Value
  PROVE  a \o Append(c, v) = Append(a \o c, v)
<1>1. <<v>> \in Seq(Value)
  OBVIOUS
<1>2. PICK e \in Seq(Value) : e = <<v>>
  BY <1>1, Zenon
<1>3. PICK d \in Seq(Value) : d = a \o c
  BY ConcatProperties
<1>4. Append(c, v) = c \o e /\ Append(d, v) = d \o e
  BY <1>2, AppendIsConcat
<1>5. a \o (c \o e) = (a \o c) \o e
  BY ValueConcat
<1> QED BY <1>3, <1>4, <1>5

\* No live buffer other than x maps this place.
Alone(x, f, s) == \A b \in BufIds : Live(b) /\ b # x => ~SameRegion(b, f, s)

(* A write at the end of a buffer adds one operation to it, and only to it *)
(* when no other live buffer maps its place.                               *)
LEMMA WriteContents ==
  ASSUME ObjType, NEW x \in BufIds, NEW r \in BufferRec, NEW op \in Op,
         r.pos = r.len, r.len < BufCap, Alone(x, r.file, r.slot),
         disk' = WrittenDisk(r, op), buf' = [buf EXCEPT ![x] = Written(r)]
  PROVE  /\ OthersSame(x)
         /\ Contents(x)' = Append([i \in 1..r.len |-> disk[r.file][r.slot][i]], op)
<1>0. /\ buf \in [BufIds -> BufferRec]
      /\ disk \in [File -> [Slots -> [1..BufCap -> Op \cup {None}]]]
  BY DEF ObjType
<1>1. /\ disk' \in [File -> [Slots -> [1..BufCap -> Op \cup {None}]]]
      /\ disk'[r.file][r.slot][r.pos + 1] = op
      /\ \A f \in File, s \in Slots, i \in 1..BufCap :
           f # r.file \/ s # r.slot \/ i # r.pos + 1 => disk'[f][s][i] = disk[f][s][i]
  BY WrittenDiskLemma
<1>2. /\ r.file \in File /\ r.slot \in Slots /\ r.pos \in 0..BufCap /\ r.len \in 0..BufCap
  BY DEF BufferRec
<1>3. ASSUME NEW b \in BufIds, Live(b), b # x PROVE Same(b)
  <2>1. buf'[b] = buf[b]
    BY <1>0, <1>3
  <2>2. PICK f \in File, s \in Slots : f = buf[b].file /\ s = buf[b].slot
    BY <1>0 DEF BufferRec
  <2>3. f # r.file \/ s # r.slot
    BY <1>3, <2>2 DEF Alone, SameRegion
  <2>4. \A i \in 1..BufCap : disk'[f][s][i] = disk[f][s][i]
    BY <1>1, <2>3
  <2>5. /\ disk'[f][s] \in [1..BufCap -> Op \cup {None}]
        /\ disk[f][s] \in [1..BufCap -> Op \cup {None}]
    BY <1>0, <1>1
  <2>6. disk'[f][s] = disk[f][s]
    <3>1. /\ disk'[f][s] = [i \in 1..BufCap |-> disk'[f][s][i]]
          /\ disk[f][s] = [i \in 1..BufCap |-> disk[f][s][i]]
      BY <2>5, Zenon
    <3>2. [i \in 1..BufCap |-> disk'[f][s][i]] = [i \in 1..BufCap |-> disk[f][s][i]]
      BY <2>4, Zenon
    <3> QED BY <3>1, <3>2, Zenon
  <2> QED BY <2>1, <2>2, <2>6, SameBuffer
<1>4. OthersSame(x)
  BY <1>3 DEF OthersSame
<1> DEFINE c == [i \in 1..r.len |-> disk[r.file][r.slot][i]]
           d == [i \in 1..(r.len + 1) |-> disk'[r.file][r.slot][i]]
<1>5. Contents(x)' = d
  <2>1. buf'[x] = Written(r)
    BY <1>0
  <2>2. Written(r).len = r.len + 1 /\ Written(r).file = r.file /\ Written(r).slot = r.slot
    BY <1>2 DEF Written, BufferRec
  <2>3. buf'[x].len = r.len + 1 /\ buf'[x].file = r.file /\ buf'[x].slot = r.slot
    BY <2>1, <2>2
  <2>4. Contents(x)' = [i \in 1..buf'[x].len |-> disk'[buf'[x].file][buf'[x].slot][i]]
    BY DEF Contents
  <2> QED BY <2>3, <2>4
<1>6. c \in Seq(Value) /\ Len(c) = r.len /\ \A i \in 1..r.len : c[i] = disk[r.file][r.slot][i]
  <2>1. \A i \in 1..r.len : disk[r.file][r.slot][i] \in Value
    <3>1. disk[r.file][r.slot] \in [1..BufCap -> Op \cup {None}]
      BY <1>0, <1>2
    <3> QED BY <1>2, <3>1, BufCapAssumption DEF Value
  <2>2. c \in [1..r.len -> Value] /\ r.len \in Nat
    BY <1>2, <2>1
  <2> QED BY <2>2
<1>7. d \in Seq(Value) /\ Len(d) = r.len + 1
      /\ \A i \in 1..(r.len + 1) : d[i] = disk'[r.file][r.slot][i]
  <2>1. \A i \in 1..(r.len + 1) : disk'[r.file][r.slot][i] \in Value
    <3>1. disk'[r.file][r.slot] \in [1..BufCap -> Op \cup {None}]
      BY <1>1, <1>2
    <3> QED BY <1>2, <3>1, BufCapAssumption DEF Value
  <2>2. d \in [1..(r.len + 1) -> Value] /\ r.len + 1 \in Nat
    BY <1>2, <2>1
  <2> QED BY <2>2
<1> HIDE DEF c, d
<1>8. op \in Value
  BY DEF Value
<1> DEFINE e == Append(c, op)
<1>9. /\ e \in Seq(Value) /\ Len(e) = r.len + 1 /\ e[r.len + 1] = op
      /\ \A i \in 1..r.len : e[i] = c[i]
  BY <1>6, <1>8, AppendProperties
<1> HIDE DEF e
<1>10. \A i \in 1..Len(d) : d[i] = e[i]
  <2> SUFFICES ASSUME NEW i \in 1..(r.len + 1) PROVE d[i] = e[i]
    BY <1>7
  <2>1. CASE i = r.len + 1
    BY <2>1, <1>1, <1>7, <1>9
  <2>2. CASE i # r.len + 1
    <3>1. i \in 1..r.len /\ i \in 1..BufCap /\ i # r.pos + 1
      BY <2>2, <1>2, BufCapAssumption
    <3>2. disk'[r.file][r.slot][i] = disk[r.file][r.slot][i]
      BY <3>1, <1>1, <1>2
    <3> QED BY <3>1, <3>2, <1>6, <1>7, <1>9
  <2> QED BY <2>1, <2>2
<1>11. d = e
  BY <1>7, <1>9, <1>10, SeqEqual
<1> QED BY <1>4, <1>5, <1>11 DEF c, e

(* The last buffer of a queue grows by one operation.                      *)
LEMMA LastGrows ==
  ASSUME QueueRules, QueueRules', NEW A \in Seq(BufIds), A # <<>>, NEW o,
         o \notin {"free", "deleted"}, Holds(A, o), NEW op \in Op,
         OthersSame(Last(A)), Contents(Last(A))' = Append(Contents(Last(A)), op)
  PROVE  QueueContents(A)' = Append(QueueContents(A), op)
<1>1. PICK F \in Seq(BufIds), x \in BufIds : A = Append(F, x)
  BY SequenceEmptyOrAppend
<1>2. /\ Last(A) = x /\ Len(A) = Len(F) + 1 /\ Len(F) \in Nat /\ A[Len(F) + 1] = x
      /\ \A i \in 1..Len(F) : A[i] = F[i]
  BY <1>1, AppendLast, AppendProperties
<1>3. Holds(F, o) /\ \A i \in 1..Len(F) : F[i] # x
  BY <1>2 DEF Holds
<1>4. OthersSame(x) /\ Contents(x)' = Append(Contents(x), op)
  BY <1>2
<1>5. QueueContents(F)' = QueueContents(F)
  BY <1>3, <1>4, HeldSame, QueueFrame
<1>6. QueueContents(Append(F, x)) = QueueContents(F) \o Contents(x)
  BY DEF QueueRules
<1>7. QueueContents(Append(F, x))' = QueueContents(F)' \o Contents(x)'
  BY DEF QueueRules
<1>8. QueueContents(F) \in Seq(Value) /\ Contents(x) \in Seq(Value) /\ op \in Value
  BY DEF QueueRules, Value
<1>9. QueueContents(F) \o Append(Contents(x), op) = Append(QueueContents(F) \o Contents(x), op)
  BY <1>8, ValueAppend
<1> QED BY <1>1, <1>4, <1>5, <1>6, <1>7, <1>9

(* The network thread writes an operation, and only when it has one.       *)
HasOperation == netPc = "write" => netOp # None

(* HasOperation is kept: getBuffer is left for the write only with one.    *)
LEMMA OperationStep ==
  ASSUME HasOperation, [Next]_vars PROVE HasOperation'
<1>1. CASE UNCHANGED <<netPc, netOp>>
  BY <1>1 DEF HasOperation
<1>2. CASE netPc' # "write"
  BY <1>2 DEF HasOperation
<1>3. CASE netOp' # None
  BY <1>3 DEF HasOperation
<1>4. CASE UNCHANGED vars
  BY <1>1, <1>4 DEF vars, netVars
<1>5. CASE Request
  <2>1. RequestWrite => netPc' # "write"
    BY DEF RequestWrite
  <2>2. ASSUME NEW t \in Tx, TxWrite(t) \/ TxWriteNewBuffer(t) \/ Rollback(t)
        PROVE  UNCHANGED <<netPc, netOp>>
    BY <2>2 DEF TxWrite, TxWriteNewBuffer, Rollback, netVars
  <2>3. ASSUME NEW t \in Tx, Commit(t) PROVE netPc' # "write"
    BY <2>3 DEF Commit
  <2> QED BY <1>1, <1>2, <1>5, <2>1, <2>2, <2>3 DEF Request
<1>6. CASE NetStep
  <2>1. GetBufferTail => netOp' # None
    BY DEF GetBufferTail, TailFits
  <2>2. Register => netOp' # None \/ netPc' # "write"
    BY DEF Register
  <2>3. GetBufferReuse \/ GetBufferCreate \/ AddBuffer \/ AddBufferNotify \/ WriteOperation
          => netPc' # "write"
    BY DEF GetBufferReuse, GetBufferCreate, AddBuffer, AddBufferNotify, WriteOperation
  <2>4. AddBuffersLock \/ AddBuffersNext \/ AddBuffersUnlock \/ FinishCommit
          => netPc' # "write"
    BY DEF AddBuffersLock, AddBuffersNext, AddBuffersUnlock, FinishCommit
  <2> QED BY <1>2, <1>3, <1>6, <2>1, <2>2, <2>3, <2>4 DEF NetStep
<1>7. CASE MonStep
  BY <1>1, <1>7 DEF MonStep, FlushWake, FlushPop, FlushApply, FlushRecycle, FlushRegister,
     FlushDrop, netVars
<1> QED BY <1>4, <1>5, <1>6, <1>7 DEF Next

(* A write outside a transaction goes to the end of the queue.             *)
LEMMA WriteStep ==
  ASSUME LogInv, HasOperation, ObjType', WriteOperation, ~clash, ~clash'
  PROVE  Log!Next
<1>0. IndInv /\ OwnOperations
  BY DEF LogInv, FileInv
<1>1. PICK x \in BufIds : x = netBuf /\ owner[x] = "active"
  BY <1>0, WorkFacts DEF WriteOperation
<1>2. ObjType /\ buf[x] \in BufferRec /\ buf \in [BufIds -> BufferRec]
  BY <1>0 DEF IndInv, TypeOK, ObjType
<1>3. PICK op \in Op : op = netOp /\ op.tx = Main
  BY <1>0 DEF IndInv, TypeOK, NetType, HasOperation, OwnOperations, WriteOperation
<1>4. PICK A \in Seq(BufIds) : A = activeBuffers /\ A # <<>> /\ Last(A) = x
  BY <1>0, <1>1, FileFacts DEF IndInv, Control, WriteOperation
<1>5. Holds(A, "active")
  BY <1>0, <1>4 DEF IndInv, Containers
<1>6. buf[x].pos = buf[x].len /\ buf[x].len < BufCap /\ Live(x)
  BY <1>0, <1>1 DEF IndInv, Cursors, WriteOperation, Live
<1>7. Alone(x, buf[x].file, buf[x].slot)
  BY <1>0, <1>6 DEF IndInv, Intact, Alone
<1>8. disk' = WrittenDisk(buf[x], op) /\ buf' = [buf EXCEPT ![x] = Written(buf[x])]
  BY <1>1, <1>3 DEF WriteOperation
<1>9. OthersSame(x) /\ Contents(x)' = Append(Contents(x), op)
  <2>1. /\ OthersSame(x)
        /\ Contents(x)' = Append([i \in 1..buf[x].len |-> disk[buf[x].file][buf[x].slot][i]], op)
    BY <1>2, <1>6, <1>7, <1>8, WriteContents
  <2> QED BY <2>1 DEF Contents
<1>10. QueueContents(A)' = Append(QueueContents(A), op)
  <2>1. QueueRules /\ QueueRules'
    BY <1>0, RulesBoth
  <2>2. OthersSame(Last(A)) /\ Contents(Last(A))' = Append(Contents(Last(A)), op)
    BY <1>4, <1>9
  <2> QED BY <1>4, <1>5, <2>1, <2>2, LastGrows
<1>11. netAdd = <<>> /\ activeBuffers \o netAdd = A /\ (activeBuffers \o netAdd)' = A
  <2>1. netAdd = <<>> /\ activeBuffers \o netAdd = A
    BY <1>0, <1>4, NoneOnTheWay DEF WriteOperation
  <2> QED BY <2>1 DEF WriteOperation, mgrVars
<1>12. InFlight' = InFlight
  <2>1. monVars' = monVars
    BY DEF WriteOperation
  <2>2. \A b \in BufIds : owner[b] = "monitor" => buf'[b] = buf[b]
    BY <1>1, <1>2, <1>8
  <2> QED BY <1>0, <1>1, <1>9, <2>1, <2>2, InFlightOther
<1>13. Pending' = Append(Pending, op)
  <2>1. Pending = InFlight \o QueueContents(A) /\ Pending' = InFlight' \o QueueContents(A)'
    BY <1>11 DEF Pending
  <2>2. InFlight \in Seq(Value) /\ QueueContents(A) \in Seq(Value) /\ op \in Value
    BY <1>0, <1>2, InFlightType, QueueType DEF Value
  <2>3. InFlight \o Append(QueueContents(A), op) = Append(InFlight \o QueueContents(A), op)
    BY <2>2, ValueAppend
  <2> QED BY <1>10, <1>12, <2>1, <2>3
<1>14. TxOps' = TxOps
  <2>1. txBuffers' = txBuffers
    BY DEF WriteOperation, txVars
  <2> QED BY <1>0, <1>1, <1>9, <2>1, TxOpsFrame
<1>15. applied' = applied
  BY DEF WriteOperation
<1> QED BY <1>3, <1>13, <1>14, <1>15, WriteMaps

(* A write of a transaction shows in what this transaction wrote only.     *)
LEMMA TxOpsWritten ==
  ASSUME IndInv, NEW t \in Tx, NEW op \in Op, NEW x, OthersSame(x),
         x \in BufIds => owner[x] # "tx" \/ buf[x].file = t,
         NEW B, NEW D, B = txBuffers[t], D = txBuffers'[t],
         QueueContents(D)' = Append(QueueContents(B), op),
         \A u \in Tx : u # t => txBuffers'[u] = txBuffers[u]
  PROVE  TxOps' = [TxOps EXCEPT ![t] = Append(@, op)]
<1> DEFINE F(u) == QueueContents(txBuffers[u])
<1>1. ASSUME NEW u \in Tx PROVE F(u)' = IF u = t THEN Append(F(u), op) ELSE F(u)
  <2>1. CASE u = t
    BY <2>1
  <2>2. CASE u # t
    <3>1. PICK s \in Seq(BufIds) : s = txBuffers[u]
      BY FileFacts
    <3>2. txBuffers'[u] = s
      BY <2>2, <3>1
    <3>3. Holds(s, "tx") /\ \A i \in 1..Len(s) : buf[s[i]].file = u
      BY <3>1 DEF IndInv, Containers
    <3>4. \A i \in 1..Len(s) : s[i] # x
      <4>1. \A i \in 1..Len(s) : s[i] \in BufIds /\ owner[s[i]] = "tx"
        BY <3>3 DEF Holds
      <4> QED BY <2>2, <3>3, <4>1
    <3>5. QueueContents(s)' = QueueContents(s)
      BY <3>3, <3>4, HeldSame, QueueFrame
    <3> QED BY <2>2, <3>1, <3>2, <3>5
  <2> QED BY <2>1, <2>2
<1>2. TxOps' = [u \in Tx |-> F(u)'] /\ TxOps = [u \in Tx |-> F(u)]
  BY DEF TxOps
<1> HIDE DEF F
<1>3. [TxOps EXCEPT ![t] = Append(@, op)] = [u \in Tx |-> IF u = t THEN Append(F(u), op) ELSE F(u)]
  BY <1>2
<1> QED BY <1>1, <1>2, <1>3

(* Neither shows in the queue.                                             *)
LEMMA TxWritePending ==
  ASSUME IndInv, NEW x \in BufIds, OthersSame(x), owner[x] \in {"tx", "free"},
         NEW r, buf' = [buf EXCEPT ![x] = r],
         activeBuffers' = activeBuffers, netAdd' = netAdd, monVars' = monVars
  PROVE  Pending' = Pending
<1>1. PICK A, N : A = activeBuffers /\ N = netAdd
  OBVIOUS
<1>2. QueueContents(A \o N)' = QueueContents(A \o N)
  BY <1>1, QueuedFrame
<1>3. InFlight' = InFlight
  <2>1. \A b \in BufIds : owner[b] = "monitor" => buf'[b] = buf[b]
    BY FileFacts
  <2> QED BY <2>1, InFlightOther
<1>4. Pending = InFlight \o QueueContents(A \o N) /\ Pending' = InFlight' \o QueueContents(A \o N)'
  BY <1>1 DEF Pending
<1> QED BY <1>2, <1>3, <1>4

(* A transaction writes to the last of its buffers ...                     *)
LEMMA TxWriteStep ==
  ASSUME IndInv, ObjType', NEW t \in Tx, TxWrite(t), ~clash, ~clash'
  PROVE  Log!Next
<1>1. PICK B \in Seq(BufIds) : B = txBuffers[t] /\ B # <<>> /\ BufCap - buf[Last(B)].pos >= 1
  BY FileFacts DEF TxWrite, HasRoom
<1>2. Holds(B, "tx") /\ \A i \in 1..Len(B) : buf[B[i]].file = t
  BY <1>1 DEF IndInv, Containers
<1>3. PICK x \in BufIds : x = Last(B) /\ owner[x] = "tx" /\ buf[x].file = t
  <2>1. Last(B) = B[Len(B)] /\ Len(B) \in 1..Len(B)
    BY <1>1 DEF Last
  <2>2. B[Len(B)] \in BufIds
    BY <1>1, <2>1
  <2> QED BY <1>2, <2>1, <2>2 DEF Holds
<1>4. ObjType /\ buf[x] \in BufferRec /\ buf \in [BufIds -> BufferRec]
  BY DEF IndInv, TypeOK, ObjType
<1>5. PICK op \in Op : op = [n |-> issued + 1, tx |-> t]
  <2>1. issued + 1 \in 1..MaxOps
    BY BoundsAssumption DEF IndInv, TypeOK, TxWrite
  <2> QED BY <2>1 DEF Op, File
<1>6. Live(x) /\ buf[x].pos = buf[x].len
  BY <1>3 DEF Live, IndInv, Cursors
<1>7. buf[x].len < BufCap
  BY <1>1, <1>3, <1>4, <1>6, BufCapAssumption DEF BufferRec
<1>8. Alone(x, buf[x].file, buf[x].slot)
  BY <1>6 DEF IndInv, Intact, Alone
<1>9. disk' = WrittenDisk(buf[x], op) /\ buf' = [buf EXCEPT ![x] = Written(buf[x])]
  BY <1>1, <1>3, <1>5 DEF TxWrite
<1>10. OthersSame(x) /\ Contents(x)' = Append(Contents(x), op)
  <2>1. /\ OthersSame(x)
        /\ Contents(x)' = Append([i \in 1..buf[x].len |-> disk[buf[x].file][buf[x].slot][i]], op)
    BY <1>4, <1>6, <1>7, <1>8, <1>9, WriteContents
  <2> QED BY <2>1 DEF Contents
<1>11. QueueContents(B)' = Append(QueueContents(B), op)
  <2>1. QueueRules /\ QueueRules'
    BY RulesBoth
  <2>2. OthersSame(Last(B)) /\ Contents(Last(B))' = Append(Contents(Last(B)), op)
    BY <1>3, <1>10
  <2> QED BY <1>1, <1>2, <2>1, <2>2, LastGrows
<1>12. /\ txBuffers' = txBuffers /\ applied' = applied /\ activeBuffers' = activeBuffers
       /\ netAdd' = netAdd /\ monVars' = monVars
  BY DEF TxWrite, mgrVars, netVars, histVars
<1>13. TxOps' = [TxOps EXCEPT ![t] = Append(@, op)]
  BY <1>1, <1>3, <1>10, <1>11, <1>12, TxOpsWritten
<1>14. Pending' = Pending
  BY <1>3, <1>9, <1>10, <1>12, TxWritePending
<1>15. op.tx = t
  BY <1>5
<1> QED BY <1>12, <1>13, <1>14, <1>15, TxWriteMaps

(* ... or to a new one.                                                    *)
LEMMA TxWriteNewStep ==
  ASSUME IndInv, ObjType', NEW t \in Tx, TxWriteNewBuffer(t), ~clash, ~clash'
  PROVE  Log!Next
<1>1. PICK B \in Seq(BufIds) : B = txBuffers[t]
  BY FileFacts
<1>2. PICK x \in BufIds : x = created + 1 /\ owner[x] = "free"
  BY WorkFacts DEF TxWriteNewBuffer
<1>3. PICK r \in BufferRec : r = NewBuffer(t, Len(B)) /\ r.len = 0 /\ r.pos = 0
                             /\ r.file = t /\ r.slot = Len(B)
  BY <1>1, BufCapAssumption DEF TxWriteNewBuffer, NewBuffer, BufferRec, File
<1>4. PICK op \in Op : op = [n |-> issued + 1, tx |-> t]
  <2>1. issued + 1 \in 1..MaxOps
    BY BoundsAssumption DEF IndInv, TypeOK, TxWriteNewBuffer
  <2> QED BY <2>1 DEF Op, File
<1>5. disk' = WrittenDisk(r, op) /\ buf' = [buf EXCEPT ![x] = Written(r)]
  BY <1>1, <1>2, <1>3, <1>4 DEF TxWriteNewBuffer
<1>6. Alone(x, r.file, r.slot)
  <2>1. ~\E c \in BufIds : Live(c) /\ SameRegion(c, t, r.slot)
    BY <1>1, <1>3 DEF TxWriteNewBuffer
  <2> QED BY <1>3, <2>1 DEF Alone
<1>7. ObjType /\ buf \in [BufIds -> BufferRec]
  BY DEF IndInv, TypeOK, ObjType
<1>8. OthersSame(x) /\ Contents(x)' = Append([i \in 1..r.len |-> disk[r.file][r.slot][i]], op)
  <2>1. r.pos = r.len /\ r.len < BufCap
    BY <1>3, BufCapAssumption
  <2> QED BY <1>5, <1>6, <1>7, <2>1, WriteContents
<1>9. Contents(x)' = <<op>>
  <2>1. \A i \in 1..r.len : FALSE
    BY <1>3
  <2>2. [i \in 1..r.len |-> disk[r.file][r.slot][i]] = <<>>
    BY <2>1
  <2>3. Append(<<>>, op) = <<op>>
    OBVIOUS
  <2> QED BY <1>8, <2>2, <2>3
<1>10. PICK D \in Seq(BufIds) : D = Append(B, x)
  BY AppendProperties
<1>11. /\ txBuffers' = [txBuffers EXCEPT ![t] = D] /\ applied' = applied
       /\ activeBuffers' = activeBuffers /\ netAdd' = netAdd /\ monVars' = monVars
  BY <1>1, <1>2, <1>10 DEF TxWriteNewBuffer, mgrVars, netVars
<1>12. txBuffers'[t] = D /\ \A u \in Tx : u # t => txBuffers'[u] = txBuffers[u]
  BY <1>11, FileFacts
<1>13. QueueContents(D)' = Append(QueueContents(B), op)
  <2>1. QueueRules /\ QueueRules'
    BY RulesBoth
  <2>2. QueueContents(Append(B, x))' = QueueContents(B)' \o Contents(x)'
    BY <2>1 DEF QueueRules
  <2>3. QueueContents(B)' = QueueContents(B)
    <3>1. Holds(B, "tx")
      BY <1>1 DEF IndInv, Containers
    <3>2. \A i \in 1..Len(B) : B[i] # x
      BY <1>2, <3>1 DEF Holds
    <3> QED BY <1>8, <3>1, <3>2, HeldSame, QueueFrame
  <2>4. QueueContents(B) \in Seq(Value) /\ op \in Value
    BY <2>1 DEF QueueRules, Value
  <2>5. QueueContents(B) \o <<op>> = Append(QueueContents(B), op)
    BY <2>4, AppendIsConcat
  <2> QED BY <1>9, <1>10, <2>2, <2>3, <2>5
<1>14. TxOps' = [TxOps EXCEPT ![t] = Append(@, op)]
  <2>1. x \in BufIds => owner[x] # "tx" \/ buf[x].file = t
    BY <1>2
  <2>2. B = txBuffers[t] /\ D = txBuffers'[t] /\ OthersSame(x)
    BY <1>1, <1>8, <1>12
  <2>3. \A u \in Tx : u # t => txBuffers'[u] = txBuffers[u]
    BY <1>12
  <2> QED BY <1>13, <2>1, <2>2, <2>3, TxOpsWritten
<1>15. Pending' = Pending
  BY <1>2, <1>5, <1>8, <1>11, TxWritePending
<1>16. op.tx = t
  BY <1>4
<1> QED BY <1>11, <1>14, <1>15, <1>16, TxWriteMaps

----------------------------------------------------------------------------
(* A buffer once mapped over a live one stays so.                          *)
LEMMA ClashKept == ASSUME [Next]_vars, ~clash' PROVE ~clash
<1>1. CASE clash' = clash
  BY <1>1
<1>2. ASSUME GetBufferCreate \/ \E t \in Tx : TxWriteNewBuffer(t) PROVE ~clash
  BY <1>2 DEF GetBufferCreate, TxWriteNewBuffer
<1> QED
  BY <1>1, <1>2 DEF Next, Request, NetStep, MonStep, vars, histVars, RequestWrite,
     GetBufferTail, GetBufferReuse, AddBuffer, AddBufferNotify, Register, WriteOperation,
     AddBuffersLock, AddBuffersNext, AddBuffersUnlock, FinishCommit, TxWrite, Rollback,
     Commit, FlushWake, FlushPop, FlushApply, FlushRecycle, FlushRegister, FlushDrop

(* Every step of the two threads is one of the abstract log, or nothing of *)
(* it shows there.                                                         *)
LEMMA StepMaps ==
  ASSUME LogInv, LogInv', HasOperation, [Next]_vars
  PROVE  [Log!Next]_(Log!vars)
<1>0. IndInv /\ IndInv' /\ ObjType'
  BY DEF LogInv, IndInv, TypeOK
<1>1. CASE clash'
  BY <1>1 DEF Log!Next
<1>2. CASE ~clash'
  <2>1. ~clash
    BY <1>2, ClashKept
  <2>2. ASSUME RequestWrite \/ GetBufferTail \/ AddBufferNotify \/ AddBuffersLock
               \/ AddBuffersUnlock \/ FinishCommit \/ FlushWake \/ UNCHANGED vars
        PROVE  UNCHANGED Log!vars
    <3>1. UNCHANGED <<activeBuffers, netAdd, buf, disk, monPc, monBuf, txBuffers, applied, clash>>
          \/ FlushWake
      BY <2>2 DEF RequestWrite, GetBufferTail, AddBufferNotify, AddBuffersLock,
         AddBuffersUnlock, FinishCommit, vars, mgrVars, objVars, netVars, monVars,
         txVars, histVars
    <3>2. CASE FlushWake
      <4>1. /\ UNCHANGED <<activeBuffers, netAdd, buf, disk, txBuffers, applied, clash>>
            /\ InFlight' = InFlight
        BY <3>2 DEF FlushWake, mgrVars, objVars, netVars, txVars, histVars, InFlight
      <4>2. OthersSame(0) /\ 0 \notin BufIds
        BY <4>1, AllSame DEF BufIds
      <4> QED BY <1>0, <4>1, <4>2, StillStep
    <3> QED BY <3>1, <3>2, QuietStep DEF monVars
  <2>3. Register \/ FlushRegister \/ GetBufferReuse \/ GetBufferCreate
          => UNCHANGED Log!vars
    BY <1>0, <1>2, <2>1, RegisterQuiet, FlushRegisterQuiet, ReuseQuiet, CreateQuiet
  <2>4. FlushRecycle \/ FlushDrop \/ AddBuffer \/ AddBuffersNext \/ FlushPop
          => UNCHANGED Log!vars
    BY <1>0, RecycleQuiet, AddBufferQuiet, AddBuffersNextQuiet, FlushPopQuiet
  <2>5. WriteOperation \/ FlushApply => Log!Next
    BY <1>0, <1>2, <2>1, WriteStep, FlushApplyStep
  <2>6. ASSUME NEW t \in Tx, TxWrite(t) \/ TxWriteNewBuffer(t) \/ Rollback(t) \/ Commit(t)
        PROVE  Log!Next
    BY <1>0, <1>2, <2>1, <2>6, TxWriteStep, TxWriteNewStep, RollbackStep, CommitStep
  <2> QED BY <2>2, <2>3, <2>4, <2>5, <2>6 DEF Next, Request, NetStep, MonStep
<1> QED BY <1>1, <1>2

(* The log starts as an empty queue.                                       *)
LEMMA InitMaps == Init => Log!Init
<1> SUFFICES ASSUME Init PROVE Log!Init
  OBVIOUS
<1>1. TxOps = [t \in Tx |-> <<>>]
  <2>1. \A t \in Tx : QueueContents(txBuffers[t]) = <<>>
    BY QueueEmpty DEF Init
  <2> QED BY <2>1 DEF TxOps
<1>2. Pending = <<>>
  <2>1. InFlight = <<>> /\ activeBuffers \o netAdd = <<>>
    BY DEF Init, InFlight
  <2> QED BY <2>1, QueueEmpty DEF Pending
<1> QED BY <1>1, <1>2 DEF Init, Log!Init, TxOps, Pending

(* The write-ahead log implements the queue of TxLog: for any number of    *)
(* transactions, buffers of any size and any interleaving of the network   *)
(* and the monitor thread, every step of TxBufferManager appends one       *)
(* operation, appends all of a transaction's in one step, forgets a        *)
(* transaction's, or takes the head, or shows nothing.                     *)
THEOREM Refinement == Spec => ImplementsLog
<1>1. Init => Log!Init /\ HasOperation
  BY InitMaps DEF Init, HasOperation
<1>2. HasOperation /\ [Next]_vars => HasOperation'
  BY OperationStep
<1>3. LogInv /\ LogInv' /\ HasOperation /\ [Next]_vars => [Log!Next]_(Log!vars)
  BY StepMaps
<1>4. Spec => []LogInv
  BY LogInvariance
<1> QED BY <1>1, <1>2, <1>3, <1>4, PTL DEF Spec, ImplementsLog, Log!Spec

=============================================================================
