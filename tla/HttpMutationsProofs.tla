------------------------ MODULE HttpMutationsProofs ------------------------
(* Theorems of HttpMutations, for any requests, keys, limits and faults.   *)
EXTENDS HttpMutations, NaturalExtremes, SequenceTheorems, FiniteSetTheorems

-----------------------------------------------------------------------------
(* Lists *)

Upto(S, j) == {k \in S : k <= j}

LEMMA UptoSteps ==
  ASSUME NEW S, S \subseteq Nat, NEW m \in Nat \ {0}
  PROVE  /\ m \notin S => Upto(S, m) = Upto(S, m - 1)
         /\ m \in S => Upto(S, m) = Upto(S, m - 1) \cup {m} /\ m \notin Upto(S, m - 1)
<1>1. \A k \in S : k \in Nat /\ (k <= m <=> k <= m - 1 \/ k = m)
  OBVIOUS
<1>2. ~(m <= m - 1)
  OBVIOUS
<1> QED
  BY <1>1, <1>2 DEF Upto

\* Every rank up to the number of places is some place's.
LEMMA RankTaken ==
  ASSUME NEW n \in Nat, NEW S, S \subseteq 1..n, NEW i \in 1..Cardinality(S)
  PROVE  \E j \in S : Rank(S, j) = i
<1> DEFINE T == {j \in 1..n : Cardinality(Upto(S, j)) >= i}
<1>1. IsFiniteSet(S) /\ S \subseteq Nat
  <2>1. 1 \in Int /\ n \in Int
    OBVIOUS
  <2>2. IsFiniteSet(1..n)
    BY <2>1, FS_Interval
  <2>3. S \subseteq Nat
    OBVIOUS
  <2> QED
    BY <2>2, <2>3, FS_Subset
<1>2. ASSUME NEW j
      PROVE  IsFiniteSet(Upto(S, j)) /\ Cardinality(Upto(S, j)) \in Nat
  <2>1. Upto(S, j) \subseteq S
    BY DEF Upto
  <2> QED
    BY <2>1, <1>1, FS_Subset, FS_CardinalityType
<1>3. Cardinality(S) \in Nat /\ i \in Nat \ {0} /\ i <= Cardinality(S)
  BY <1>1, FS_CardinalityType
<1>4. Upto(S, 0) = {} /\ Cardinality(Upto(S, 0)) = 0
  <2>1. \A k \in S : ~(k <= 0)
    OBVIOUS
  <2>2. Upto(S, 0) = {}
    BY <2>1 DEF Upto
  <2> QED
    BY <2>2, FS_EmptySet
<1>5. Upto(S, n) = S
  <2>1. \A k \in S : k <= n
    OBVIOUS
  <2> QED
    BY <2>1 DEF Upto
<1>6. n \in T
  <2>1. CASE n = 0
    BY <2>1, <1>3, <1>4, <1>5
  <2>2. CASE n # 0
    BY <2>2, <1>3, <1>5
  <2> QED
    BY <2>1, <2>2
<1>7. T \subseteq Nat
  OBVIOUS
<1>8. \A j : j \in T <=> j \in 1..n /\ Cardinality(Upto(S, j)) >= i
  OBVIOUS
<1> HIDE DEF T
<1>9. PICK m \in T : \A j \in T : m <= j
  BY <1>6, <1>7, LeastOf
<1>10. m \in 1..n /\ m \in Nat \ {0} /\ Cardinality(Upto(S, m)) >= i
  BY <1>8
<1>11. Cardinality(Upto(S, m - 1)) < i
  <2>1. CASE m = 1
    BY <2>1, <1>3, <1>4
  <2>2. CASE m # 1
    <3>1. m - 1 \in 1..n /\ ~(m <= m - 1)
      BY <2>2, <1>10
    <3>2. m - 1 \notin T
      BY <3>1, <1>9
    <3>3. ~(Cardinality(Upto(S, m - 1)) >= i)
      BY <3>1, <3>2, <1>8
    <3> QED
      BY <3>3, <1>2, <1>3
  <2> QED
    BY <2>1, <2>2
<1>12. m \in S
  <2>1. ASSUME m \notin S PROVE FALSE
    <3>1. Upto(S, m) = Upto(S, m - 1)
      BY <2>1, <1>1, <1>10, UptoSteps
    <3> QED
      BY <3>1, <1>2, <1>3, <1>10, <1>11
  <2> QED
    BY <2>1
<1>13. Cardinality(Upto(S, m)) = Cardinality(Upto(S, m - 1)) + 1
  <2>1. Upto(S, m) = Upto(S, m - 1) \cup {m} /\ m \notin Upto(S, m - 1)
    BY <1>1, <1>10, <1>12, UptoSteps
  <2>2. IsFiniteSet(Upto(S, m - 1))
    BY <1>2
  <2> QED
    BY <2>1, <2>2, FS_AddElement
<1>14. Cardinality(Upto(S, m)) = i
  <2>1. Cardinality(Upto(S, m)) \in Nat /\ Cardinality(Upto(S, m - 1)) \in Nat
    BY <1>2
  <2> QED
    BY <2>1, <1>3, <1>10, <1>11, <1>13
<1> QED
  BY <1>12, <1>14 DEF Rank, Upto

\* Keeping some places of a list leaves a list of entries it had, no longer.
LEMMA OnlyIs ==
  ASSUME NEW T, NEW s \in Seq(T), NEW S, S \subseteq DOMAIN s
  PROVE  /\ Only(s, S) \in Seq(T) /\ Len(Only(s, S)) <= Len(s)
         /\ \A i \in DOMAIN Only(s, S) : \E j \in DOMAIN s : Only(s, S)[i] = s[j]
<1> DEFINE at(i) == CHOOSE j \in S : Rank(S, j) = i
           n == Cardinality(S)
<1>1. Len(s) \in Nat /\ DOMAIN s = 1..Len(s) /\ \A j \in 1..Len(s) : s[j] \in T
  BY ElementOfSeq
<1>2. S \subseteq 1..Len(s)
  BY <1>1
<1>3. IsFiniteSet(1..Len(s)) /\ Cardinality(1..Len(s)) = Len(s)
  <2>1. 1 \in Int /\ Len(s) \in Int
    BY <1>1
  <2>2. IsFiniteSet(1..Len(s))
        /\ Cardinality(1..Len(s)) = IF 1 > Len(s) THEN 0 ELSE Len(s) - 1 + 1
    BY <2>1, FS_Interval
  <2> QED
    BY <2>2, <1>1
<1>4. n \in Nat /\ n <= Len(s)
  BY <1>2, <1>3, FS_Subset, FS_CardinalityType
<1>5. ASSUME NEW i \in 1..n PROVE at(i) \in S
  <2>1. \E j \in S : Rank(S, j) = i
    BY <1>1, <1>2, RankTaken
  <2> QED
    BY <2>1
<1>6. Only(s, S) = [i \in 1..n |-> s[at(i)]]
  BY DEF Only
<1> HIDE DEF at, n
<1>7. \A i \in 1..n : s[at(i)] \in T
  BY <1>1, <1>2, <1>5
<1>8. Only(s, S) \in Seq(T)
  BY <1>4, <1>6, <1>7, IsASeq
<1>9. Len(Only(s, S)) = n /\ DOMAIN Only(s, S) = 1..n
  <2>1. DOMAIN Only(s, S) = 1..n
    BY <1>6
  <2>2. DOMAIN Only(s, S) = 1..Len(Only(s, S)) /\ Len(Only(s, S)) \in Nat
    BY <1>8
  <2> QED
    BY <2>1, <2>2, <1>4
<1> QED
  BY <1>1, <1>2, <1>4, <1>5, <1>6, <1>8, <1>9

\* Map.set and the size bound: a list no longer than the bound, whose entries are
\* the new one and those of other places.
LEMMA PutIs ==
  ASSUME NEW T, NEW s \in Seq(T), NEW S, S \subseteq DOMAIN s, NEW e \in T
  PROVE  /\ Put(s, S, e) \in Seq(T)
         /\ Len(Put(s, S, e)) = IF S = {} THEN Len(s) + 1 ELSE Len(s)
         /\ \A i \in DOMAIN Put(s, S, e) :
              \/ Put(s, S, e)[i] = e /\ (i \in S \/ (S = {} /\ i = Len(s) + 1))
              \/ i \in (DOMAIN s) \ S /\ Put(s, S, e)[i] = s[i]
<1>1. Len(s) \in Nat /\ DOMAIN s = 1..Len(s) /\ \A j \in 1..Len(s) : s[j] \in T
  BY ElementOfSeq
<1>2. CASE S = {}
  <2>1. Put(s, S, e) = Append(s, e)
    BY <1>2 DEF Put
  <2>2. /\ Append(s, e) \in Seq(T) /\ Len(Append(s, e)) = Len(s) + 1
        /\ \A i \in 1..Len(s) : Append(s, e)[i] = s[i]
        /\ Append(s, e)[Len(s) + 1] = e
        /\ DOMAIN Append(s, e) = 1..(Len(s) + 1)
    BY <1>1
  <2>3. \A i \in 1..(Len(s) + 1) : i \in 1..Len(s) \/ i = Len(s) + 1
    BY <1>1
  <2> QED
    BY <1>1, <1>2, <2>1, <2>2, <2>3
<1>3. CASE S # {}
  <2>1. Put(s, S, e) = [i \in 1..Len(s) |-> IF i \in S THEN e ELSE s[i]]
    BY <1>1, <1>3 DEF Put
  <2>2. \A i \in 1..Len(s) : (IF i \in S THEN e ELSE s[i]) \in T
    BY <1>1
  <2>3. Put(s, S, e) \in Seq(T)
    BY <1>1, <2>1, <2>2, IsASeq
  <2>4. Len(Put(s, S, e)) = Len(s)
    BY <1>1, <2>1, <2>3
  <2> QED
    BY <1>1, <1>3, <2>1, <2>3, <2>4
<1> QED
  BY <1>2, <1>3

\* Map.set loses no place, and the entry has one.
LEMMA PutHolds ==
  ASSUME NEW T, NEW s \in Seq(T), NEW S, S \subseteq DOMAIN s, NEW e \in T
  PROVE  /\ \E m \in DOMAIN Put(s, S, e) : Put(s, S, e)[m] = e
         /\ DOMAIN s \subseteq DOMAIN Put(s, S, e)
<1>1. Len(s) \in Nat /\ DOMAIN s = 1..Len(s)
  OBVIOUS
<1>2. CASE S = {}
  <2>1. Put(s, S, e) = Append(s, e)
    BY <1>2 DEF Put
  <2>2. DOMAIN Append(s, e) = 1..(Len(s) + 1) /\ Append(s, e)[Len(s) + 1] = e
    BY <1>1
  <2>3. Len(s) + 1 \in 1..(Len(s) + 1) /\ 1..Len(s) \subseteq 1..(Len(s) + 1)
    BY <1>1
  <2> QED
    BY <1>1, <2>1, <2>2, <2>3
<1>3. CASE S # {}
  <2>1. PICK m \in S : TRUE
    BY <1>3
  <2>2. Put(s, S, e) = [i \in DOMAIN s |-> IF i \in S THEN e ELSE s[i]]
    BY <1>3 DEF Put
  <2> QED
    BY <2>1, <2>2
<1> QED
  BY <1>2, <1>3

LEMMA CappedIs ==
  ASSUME NEW T, NEW s \in Seq(T), NEW max \in Nat, Len(s) <= max + 1
  PROVE  /\ Capped(s, max) \in Seq(T) /\ Len(Capped(s, max)) <= max
         /\ \A i \in DOMAIN Capped(s, max) : \E j \in DOMAIN s : Capped(s, max)[i] = s[j]
         /\ Len(s) <= max => Capped(s, max) = s
<1>1. Len(s) \in Nat /\ DOMAIN s = 1..Len(s)
  OBVIOUS
<1>2. CASE Len(s) > max
  <2>1. Capped(s, max) = Tail(s) /\ s # <<>>
    BY <1>1, <1>2 DEF Capped
  <2>2. /\ Tail(s) \in Seq(T) /\ Len(Tail(s)) = Len(s) - 1
        /\ DOMAIN Tail(s) = 1..(Len(s) - 1)
        /\ \A i \in 1..(Len(s) - 1) : Tail(s)[i] = s[i + 1]
    BY <1>1, <2>1
  <2>3. \A i \in 1..(Len(s) - 1) : i + 1 \in 1..Len(s)
    BY <1>1
  <2>4. \A i \in DOMAIN Tail(s) : \E j \in DOMAIN s : Tail(s)[i] = s[j]
    BY <1>1, <2>2, <2>3
  <2>5. Len(Tail(s)) <= max /\ ~(Len(s) <= max)
    BY <1>1, <1>2, <2>2
  <2> QED
    BY <2>1, <2>2, <2>4, <2>5
<1>3. CASE ~(Len(s) > max)
  BY <1>1, <1>3 DEF Capped
<1> QED
  BY <1>2, <1>3

LEMMA CappedPut ==
  ASSUME NEW T, NEW s \in Seq(T), NEW S, S \subseteq DOMAIN s, NEW e \in T,
         NEW max \in Nat, Len(s) <= max
  PROVE  /\ Capped(Put(s, S, e), max) \in Seq(T)
         /\ Len(Capped(Put(s, S, e), max)) <= max
         /\ \A i \in DOMAIN Capped(Put(s, S, e), max) :
              \/ Capped(Put(s, S, e), max)[i] = e
              \/ \E j \in DOMAIN s : Capped(Put(s, S, e), max)[i] = s[j]
         /\ Len(Put(s, S, e)) <= max => Capped(Put(s, S, e), max) = Put(s, S, e)
<1> DEFINE p == Put(s, S, e)
<1>1. /\ p \in Seq(T) /\ Len(p) = (IF S = {} THEN Len(s) + 1 ELSE Len(s))
      /\ \A i \in DOMAIN p : p[i] = e \/ (i \in DOMAIN s /\ p[i] = s[i])
  <2>1. p \in Seq(T)
    BY PutIs
  <2>2. Len(p) = IF S = {} THEN Len(s) + 1 ELSE Len(s)
    BY PutIs
  <2>3. \A i \in DOMAIN p :
           \/ p[i] = e /\ (i \in S \/ (S = {} /\ i = Len(s) + 1))
           \/ i \in (DOMAIN s) \ S /\ p[i] = s[i]
    BY PutIs
  <2> HIDE DEF p
  <2> QED
    BY <2>1, <2>2, <2>3
<1> HIDE DEF p
<1>2. Len(p) <= max + 1
  <2>1. Len(s) \in Nat
    OBVIOUS
  <2> QED
    BY <1>1, <2>1
<1>3. /\ Capped(p, max) \in Seq(T) /\ Len(Capped(p, max)) <= max
      /\ \A i \in DOMAIN Capped(p, max) : \E j \in DOMAIN p : Capped(p, max)[i] = p[j]
      /\ Len(p) <= max => Capped(p, max) = p
  BY <1>1, <1>2, CappedIs
<1> QED
  BY <1>1, <1>3 DEF p

-----------------------------------------------------------------------------
(* The connection *)

Mark == [name : Int, saved : SUBSET Request]

FileTyped ==
  /\ records \subseteq Request /\ disk \subseteq Request /\ mixed \subseteq Request
  /\ stack \in Seq(Mark)
  /\ depth \in Int /\ level \in [Request -> Int]

\* A request's way out of its tenant transaction.
Leaves(r) == Commit(r) \/ CommitFails(r) \/ CommitLost(r)

Acts(r) == \/ Arrive(r) \/ ArriveRefused(r) \/ Lookup(r) \/ Handle(r) \/ Save(r)
           \/ Leaves(r)

\* Cutting a list short leaves a list.
LEMMA CutIsList ==
  ASSUME NEW S, NEW s \in Seq(S), NEW k \in 0..Len(s)
  PROVE  /\ SubSeq(s, 1, k) \in Seq(S) /\ Len(SubSeq(s, 1, k)) = k
         /\ \A i \in 1..k : SubSeq(s, 1, k)[i] = s[i]
BY SubSeqProperties

\* The entry a closing statement acts on is on the stack.
LEMMA EntryIs ==
  ASSUME stack \in Seq(Mark), NEW n, Conn!Known(n)
  PROVE  /\ Conn!Entry(n) \in 1..Len(stack) /\ stack[Conn!Entry(n)] \in Mark
         /\ n # 1 => stack[Conn!Entry(n)].name = n
<1>1. Len(stack) \in Nat /\ DOMAIN stack = 1..Len(stack)
  OBVIOUS
<1>2. CASE n = 1
  <2>1. stack # <<>> /\ Conn!Entry(n) = 1
    BY <1>2 DEF Conn!Known, Conn!Entry
  <2>2. 1 \in 1..Len(stack)
    BY <1>1, <2>1, EmptySeq
  <2> QED
    BY <1>2, <2>1, <2>2, ElementOfSeq
<1>3. CASE n # 1
  <2> DEFINE S == Conn!Named(n)
  <2>1. S \subseteq 1..Len(stack) /\ S # {}
        /\ \A i \in S : stack[i].name = n
    BY <1>1, <1>3 DEF Conn!Named, Conn!Known
  <2>2. Conn!Entry(n) = CHOOSE i \in S : \A j \in S : j <= i
    BY <1>3 DEF Conn!Entry
  <2> HIDE DEF S
  <2>3. S \subseteq Nat /\ \A i \in S : i <= Len(stack)
    BY <1>1, <2>1
  <2>4. \E i \in S : \A j \in S : j <= i
    BY <1>1, <2>1, <2>3, GreatestOf
  <2>5. Conn!Entry(n) \in S
    BY <2>2, <2>4
  <2> QED
    BY <1>3, <2>1, <2>5, ElementOfSeq
<1> QED
  BY <1>2, <1>3

\* A closing statement leaves the bottom of the stack, and a commit at the bottom
\* leaves nothing of it.
LEMMA ClosedIs ==
  ASSUME stack \in Seq(Mark), NEW n, Conn!Known(n),
         Conn!SqlCommit(n) \/ Conn!SqlRollback(n)
  PROVE  /\ stack' \in Seq(Mark)
         /\ \A i \in 1..Len(stack') : i \in 1..Len(stack) /\ stack'[i] = stack[i]
         /\ Conn!SqlCommit(n) /\ Conn!Entry(n) = 1 => stack' = <<>>
<1> DEFINE e == Conn!Entry(n)
<1>1. e \in 1..Len(stack) /\ Len(stack) \in Nat
  BY EntryIs
<1>2. e \in 0..Len(stack) /\ e - 1 \in 0..Len(stack)
  BY <1>1
<1>3. ASSUME NEW k \in 0..Len(stack), stack' = SubSeq(stack, 1, k)
      PROVE  /\ stack' \in Seq(Mark) /\ Len(stack') = k
             /\ \A i \in 1..Len(stack') : i \in 1..Len(stack) /\ stack'[i] = stack[i]
  <2>1. /\ SubSeq(stack, 1, k) \in Seq(Mark) /\ Len(SubSeq(stack, 1, k)) = k
        /\ \A i \in 1..k : SubSeq(stack, 1, k)[i] = stack[i]
    BY CutIsList
  <2>2. \A i \in 1..k : i \in 1..Len(stack)
    BY <1>1
  <2> QED
    BY <1>3, <2>1, <2>2
<1>4. CASE Conn!SqlCommit(n)
  <2>1. stack' = SubSeq(stack, 1, e - 1)
    BY <1>4 DEF Conn!SqlCommit
  <2> HIDE DEF e
  <2>2. /\ stack' \in Seq(Mark) /\ Len(stack') = e - 1
        /\ \A i \in 1..Len(stack') : i \in 1..Len(stack) /\ stack'[i] = stack[i]
    BY <1>2, <1>3, <2>1
  <2>3. e = 1 => stack' = <<>>
    BY <2>2, EmptySeq
  <2> QED
    BY <2>2, <2>3 DEF e
<1>5. CASE Conn!SqlRollback(n) /\ ~Conn!SqlCommit(n)
  <2>1. stack' = IF n = 1 THEN <<>> ELSE SubSeq(stack, 1, e)
    BY <1>5 DEF Conn!SqlRollback
  <2> HIDE DEF e
  <2>2. CASE n = 1
    <3>1. stack' = <<>> /\ <<>> \in Seq(Mark) /\ \A i \in 1..Len(<<>>) : FALSE
      BY <2>1, <2>2
    <3> QED
      BY <1>5, <3>1
  <2>3. CASE n # 1
    BY <1>2, <1>3, <1>5, <2>1, <2>3
  <2> QED
    BY <2>2, <2>3
<1> QED
  BY <1>4, <1>5

\* The connection's variables keep their types.
LEMMA FileStep == TypeOK /\ [Next]_vars => FileTyped'
<1> SUFFICES ASSUME TypeOK, [Next]_vars PROVE FileTyped'
  OBVIOUS
<1>a. FileTyped
  BY DEF TypeOK, FileTyped, Mark
<1>b. UNCHANGED <<file, transactions>> => FileTyped'
  BY <1>a DEF FileTyped, file, transactions
<1>c. ASSUME NEW n \in Int, Conn!SqlOpen(n)
      PROVE  records' \subseteq Request /\ disk' \subseteq Request /\ stack' \in Seq(Mark)
  <2> DEFINE new == [name |-> n, saved |-> records]
  <2>1. new \in Mark /\ stack \in Seq(Mark) /\ stack' = Append(stack, new)
    BY <1>a, <1>c DEF FileTyped, Mark, Conn!SqlOpen
  <2> HIDE DEF new
  <2>2. stack' \in Seq(Mark)
    BY <2>1
  <2> QED
    BY <1>a, <1>c, <2>2 DEF FileTyped, Conn!SqlOpen
<1>1. ASSUME NEW r \in Request, OpenTx(r) PROVE FileTyped'
  <2>1. CASE SharedTx
    <3>1. depth + 1 \in Int /\ Conn!SqlOpen(depth + 1)
      BY <1>1, <1>a, <2>1 DEF OpenTx, FileTyped
    <3>2. /\ depth' = depth + 1 /\ level' = [level EXCEPT ![r] = depth + 1]
          /\ mixed' = mixed \/ mixed' = mixed \cup Opened \cup {r}
      BY <1>1, <2>1 DEF OpenTx
    <3>3. mixed' \subseteq Request
      BY <1>a, <3>2 DEF FileTyped, Opened
    <3>4. records' \subseteq Request /\ disk' \subseteq Request /\ stack' \in Seq(Mark)
      BY <1>c, <3>1
    <3> QED
      BY <1>a, <3>1, <3>2, <3>3, <3>4 DEF FileTyped
  <2>2. CASE ~SharedTx
    BY <1>1, <1>b, <2>2 DEF OpenTx
  <2> QED
    BY <2>1, <2>2
<1>2. ASSUME NEW r \in Request, Handle(r) PROVE FileTyped'
  <2>1. UNCHANGED <<depth, level, mixed>>
    BY <1>2 DEF Handle, transactions
  <2>2. Create(r) \/ Undo
    BY <1>2 DEF Handle
  <2>3. CASE Create(r)
    BY <1>a, <2>1, <2>3 DEF Create, Conn!SqlWrite, FileTyped
  <2>4. CASE UNCHANGED file
    BY <1>b, <2>1, <2>4 DEF transactions
  <2>5. CASE Conn!SqlOpen(depth + 1)
    <3>1. depth + 1 \in Int
      BY <1>a DEF FileTyped
    <3> QED
      BY <1>a, <1>c, <2>1, <2>5, <3>1 DEF FileTyped
  <2> QED
    BY <2>2, <2>3, <2>4, <2>5 DEF Undo
<1>3. ASSUME NEW r \in Request, Leaves(r) PROVE FileTyped'
  <2>1. /\ depth' = (IF SharedTx THEN depth - 1 ELSE depth) /\ UNCHANGED <<level, mixed>>
    BY <1>3 DEF Leaves, Commit, CommitFails, CommitLost, LeaveTx
  <2>2. depth' \in Int
    BY <1>a, <2>1 DEF FileTyped
  <2>3. CASE UNCHANGED file
    BY <1>a, <2>1, <2>2, <2>3 DEF FileTyped, file
  <2>4. CASE ~UNCHANGED file
    <3>1. SharedTx /\ TxKnown(r) /\ (Conn!SqlCommit(level[r]) \/ Conn!SqlRollback(level[r]))
      BY <1>3, <2>4 DEF Leaves, Commit, CommitFails, CommitLost
    <3>2. PICK n : n = level[r]
      OBVIOUS
    <3>3. stack \in Seq(Mark) /\ Conn!Known(n) /\ (Conn!SqlCommit(n) \/ Conn!SqlRollback(n))
      BY <1>a, <3>1, <3>2 DEF FileTyped, TxKnown
    <3>4. stack' \in Seq(Mark)
      BY <3>3, ClosedIs
    <3>5. records' \subseteq Request /\ disk' \subseteq Request
      <4>1. CASE Conn!SqlCommit(n)
        BY <1>a, <4>1 DEF FileTyped, Conn!SqlCommit
      <4>2. CASE Conn!SqlRollback(n)
        <5>1. stack[Conn!Entry(n)].saved \subseteq Request
          BY <3>3, EntryIs DEF Mark
        <5> QED
          BY <1>a, <4>2, <5>1 DEF FileTyped, Conn!SqlRollback
      <4> QED
        BY <3>3, <4>1, <4>2
    <3> QED
      BY <1>a, <2>1, <2>2, <3>4, <3>5 DEF FileTyped
  <2> QED
    BY <2>3, <2>4
<1>4. CASE Restart
  <2>1. records' = disk /\ disk' = disk /\ stack' = <<>> /\ depth' = 0 /\ UNCHANGED <<level, mixed>>
    BY <1>4 DEF Restart, Conn!SqlLost
  <2> QED
    BY <1>a, <2>1 DEF FileTyped
<1>5. CASE Tick \/ UNCHANGED vars \/ \E r \in Request : ArriveRefused(r) \/ Lookup(r) \/ Save(r)
  BY <1>5, <1>b DEF Tick, vars, ArriveRefused, Lookup, Save
<1>6. CASE \E r \in Request : Arrive(r)
  BY <1>1, <1>6 DEF Arrive
<1> QED
  BY <1>2, <1>3, <1>4, <1>5, <1>6 DEF Next, Leaves

-----------------------------------------------------------------------------
(* Types *)

Bucket == [key : ApiKey, tokens : Int, lastRefill : 0..MaxTime]

\* A request that has been sent asks one of the inputs.
Asking == \A r \in Request : pc[r] # "idle" => req[r] \in Inputs

Typed == TypeOK /\ Asking

LEMMA RefilledIs ==
  ASSUME Typed, NEW k \in ApiKey
  PROVE  Refilled(k) \in Seq(Bucket) /\ Len(Refilled(k)) <= MaxBuckets
<1>1. buckets \in Seq(Bucket) /\ Len(buckets) <= MaxBuckets /\ now \in 0..MaxTime
  BY DEF Typed, TypeOK, Bucket
<1>2. MaxBuckets \in Nat /\ Limit \in Int
  BY ConstantsAssumption
<1>3. CASE Expired(k)
  <2> DEFINE fresh == [key |-> k, tokens |-> Limit, lastRefill |-> now]
  <2>1. fresh \in Bucket
    BY <1>1, <1>2 DEF Bucket
  <2>2. Mine(k) \subseteq DOMAIN buckets
    BY DEF Mine
  <2>3. Refilled(k) = Capped(Put(buckets, Mine(k), fresh), MaxBuckets)
    BY <1>3 DEF Refilled
  <2> HIDE DEF fresh
  <2>4. /\ Capped(Put(buckets, Mine(k), fresh), MaxBuckets) \in Seq(Bucket)
        /\ Len(Capped(Put(buckets, Mine(k), fresh), MaxBuckets)) <= MaxBuckets
    <3> HIDE DEF Bucket
    <3> QED
      BY <1>1, <1>2, <2>1, <2>2, CappedPut, Zenon
  <2> QED
    BY <2>3, <2>4, Zenon
<1>4. CASE ~Expired(k)
  BY <1>1, <1>4 DEF Refilled
<1> QED
  BY <1>3, <1>4

\* The limiter takes a token from one bucket and leaves the list as it is.
LEMMA TakenIs ==
  ASSUME NEW s \in Seq(Bucket), NEW k
  PROVE  LET t == [j \in DOMAIN s |-> IF s[j].key = k THEN [s[j] EXCEPT !.tokens = @ - 1]
                                      ELSE s[j]]
         IN  t \in Seq(Bucket) /\ Len(t) = Len(s)
<1> DEFINE e(j) == IF s[j].key = k THEN [s[j] EXCEPT !.tokens = @ - 1] ELSE s[j]
           t == [j \in DOMAIN s |-> e(j)]
<1>1. Len(s) \in Nat /\ DOMAIN s = 1..Len(s) /\ \A j \in 1..Len(s) : s[j] \in Bucket
  BY ElementOfSeq
<1>2. \A j \in 1..Len(s) : e(j) \in Bucket
  BY <1>1 DEF Bucket
<1> HIDE DEF e
<1>3. t \in Seq(Bucket)
  BY <1>1, <1>2, IsASeq
<1>4. Len(t) = Len(s)
  BY <1>1, <1>3
<1> QED
  BY <1>3, <1>4 DEF e

\* The entry a request stores has its type.
LEMMA SavedEntryIs ==
  ASSUME NEW r \in Request, req[r] \in Inputs, now \in 0..MaxTime
  PROVE  [route |-> RouteOf(r), body |-> req[r].body, by |-> r, at |-> now] \in Entry
<1>1. OrgOf[req[r].apiKey] \in Org /\ req[r].idemKey \in IdemKey /\ req[r].body \in Body
  BY ConstantsAssumption
<1>2. RouteOf(r) \in Seq(Org \cup IdemKey)
  BY <1>1 DEF RouteOf
<1> QED
  BY <1>1, <1>2 DEF Entry

LEMMA TypedStep == Typed /\ [Next]_vars => Typed'
<1> SUFFICES ASSUME Typed, [Next]_vars PROVE Typed'
  OBVIOUS
<1>a. /\ now \in 0..MaxTime /\ MaxTime \in Nat
      /\ buckets \in Seq(Bucket) /\ Len(buckets) <= MaxBuckets
      /\ store \in Seq(Entry) /\ Len(store) <= MaxStore
      /\ pc \in [Request -> Steps]
      /\ req \in [Request -> Inputs \cup {NoRequest}]
      /\ result \in [Request -> {"none", "created", "refused"}]
      /\ answer \in [Request -> [kind : Kinds, by : Request] \cup {NoAnswer}]
      /\ before \in [Request -> SUBSET Request]
      /\ admitted \in [Request -> 0..MaxTime \cup {Never}]
      /\ log \in Seq([by : Request, at : 0..MaxTime])
      /\ Asking
  BY ConstantsAssumption DEF Typed, TypeOK, Bucket
<1>b. ASSUME /\ now' \in 0..MaxTime
             /\ buckets' \in Seq(Bucket) /\ Len(buckets') <= MaxBuckets
             /\ store' \in Seq(Entry) /\ Len(store') <= MaxStore
             /\ pc' \in [Request -> Steps]
             /\ req' \in [Request -> Inputs \cup {NoRequest}]
             /\ result' \in [Request -> {"none", "created", "refused"}]
             /\ answer' \in [Request -> [kind : Kinds, by : Request] \cup {NoAnswer}]
             /\ before' \in [Request -> SUBSET Request]
             /\ admitted' \in [Request -> 0..MaxTime \cup {Never}]
             /\ log' \in Seq([by : Request, at : 0..MaxTime])
             /\ Asking'
      PROVE  Typed'
  <2>1. FileTyped'
    BY FileStep DEF Typed
  <2> QED
    BY <1>b, <2>1 DEF Typed, TypeOK, Bucket, FileTyped, Mark
<1>c. ASSUME NEW r \in Request, NEW step \in Steps, Goto(r, step)
      PROVE  pc' \in [Request -> Steps]
             /\ \A q \in Request : pc'[q] = IF q = r THEN step ELSE pc[q]
  BY <1>a, <1>c DEF Goto
<1>d. ASSUME NEW r \in Request, NEW kind \in Kinds, NEW q \in Request, Answer(r, kind, q)
      PROVE  answer' \in [Request -> [kind : Kinds, by : Request] \cup {NoAnswer}]
  BY <1>a, <1>d DEF Answer
<1>e. ASSUME NEW r \in Request, NEW step \in Steps, Goto(r, step), req' = req, pc[r] # "idle"
      PROVE  Asking'
  BY <1>a, <1>e, <1>c DEF Asking
<1>1. ASSUME NEW r \in Request, Arrive(r) PROVE Typed'
  <2>1. PICK input \in Inputs : LET k == input.apiKey IN
          /\ req' = [req EXCEPT ![r] = input]
          /\ buckets' = [j \in DOMAIN Refilled(k) |->
                           IF Refilled(k)[j].key = k
                             THEN [Refilled(k)[j] EXCEPT !.tokens = @ - 1] ELSE Refilled(k)[j]]
          /\ IF Tokens(k) > 0
               THEN /\ Goto(r, "lookup") /\ UNCHANGED answer
                    /\ admitted' = [admitted EXCEPT ![r] = now]
               ELSE /\ Goto(r, "commit") /\ Answer(r, "limited", r)
                    /\ UNCHANGED admitted
    BY <1>1 DEF Arrive
  <2>2. input.apiKey \in ApiKey
    BY ConstantsAssumption
  <2>3. Refilled(input.apiKey) \in Seq(Bucket) /\ Len(Refilled(input.apiKey)) <= MaxBuckets
    BY <2>2, RefilledIs
  <2>4. buckets' \in Seq(Bucket) /\ Len(buckets') <= MaxBuckets
    BY <2>1, <2>3, TakenIs
  <2>5. PICK step \in Steps : Goto(r, step)
    BY <2>1 DEF Steps
  <2>6. pc' \in [Request -> Steps] /\ \A q \in Request : q # r => pc'[q] = pc[q]
    BY <2>5, <1>c
  <2>7. answer' \in [Request -> [kind : Kinds, by : Request] \cup {NoAnswer}]
    BY <2>1, <1>a, <1>d DEF Kinds
  <2>8. admitted' \in [Request -> 0..MaxTime \cup {Never}]
    BY <2>1, <1>a
  <2>9. req' \in [Request -> Inputs \cup {NoRequest}] /\ Asking'
    BY <2>1, <2>6, <1>a DEF Asking
  <2>10. before' \in [Request -> SUBSET Request]
    BY <1>1, <1>a DEF Arrive
  <2> QED
    BY <1>1, <1>a, <1>b, <2>4, <2>6, <2>7, <2>8, <2>9, <2>10 DEF Arrive
<1>2. ASSUME NEW r \in Request, Lookup(r) PROVE Typed'
  <2>1. Fresh \subseteq DOMAIN store
    BY DEF Fresh
  <2>2. /\ Only(store, Fresh) \in Seq(Entry) /\ Len(Only(store, Fresh)) <= Len(store)
    BY <2>1, <1>a, OnlyIs
  <2>3. store' \in Seq(Entry) /\ Len(store') <= MaxStore
    <3>1. MaxStore \in Nat /\ Len(store) \in Nat /\ Len(Only(store, Fresh)) \in Nat
      BY <1>a, <2>2, ConstantsAssumption
    <3>2. store' = store \/ store' = Only(store, Fresh)
      BY <1>2, Zenon DEF Lookup
    <3> QED
      BY <3>1, <3>2, <2>2, <1>a
  <2>4. ASSUME NEW s \in Seq(Entry), Decide(r, s)
        PROVE  /\ \E step \in Steps : Goto(r, step)
               /\ answer' \in [Request -> [kind : Kinds, by : Request] \cup {NoAnswer}]
    <3>1. \A e \in Hits(r, s) : e.by \in Request
      <4>1. \A i \in DOMAIN s : s[i] \in Entry
        BY ElementOfSeq
      <4>2. \A e \in Hits(r, s) : e \in Entry
        BY <4>1 DEF Hits
      <4> QED
        BY <4>2 DEF Entry
    <3>2. CASE Goto(r, "handle") /\ UNCHANGED answer
      BY <3>2, <1>a DEF Steps
    <3>3. ASSUME NEW e \in Hits(r, s), Goto(r, "commit"),
                 Answer(r, "conflict", e.by) \/ Answer(r, "replay", e.by)
          PROVE  /\ \E step \in Steps : Goto(r, step)
                 /\ answer' \in [Request -> [kind : Kinds, by : Request] \cup {NoAnswer}]
      <4>1. "commit" \in Steps /\ "conflict" \in Kinds /\ "replay" \in Kinds
        BY DEF Steps, Kinds
      <4> QED
        BY <3>1, <3>3, <4>1, <1>d
    <3> QED
      BY <2>4, <3>2, <3>3 DEF Decide
  <2>5. /\ \E step \in Steps : Goto(r, step)
        /\ answer' \in [Request -> [kind : Kinds, by : Request] \cup {NoAnswer}]
    <3>1. CASE Decide(r, Only(store, Fresh))
      BY <3>1, <2>2, <2>4
    <3>2. CASE Decide(r, store)
      BY <3>2, <1>a, <2>4
    <3>3. CASE UNCHANGED answer /\ Goto(r, "bypass")
      BY <3>3, <1>a DEF Steps
    <3> QED
      BY <3>1, <3>2, <3>3, <1>2 DEF Lookup
  <2>6. pc' \in [Request -> Steps] /\ Asking'
    BY <2>5, <1>2, <1>c, <1>e DEF Lookup
  <2> QED
    BY <1>2, <1>a, <1>b, <2>3, <2>5, <2>6 DEF Lookup, history
<1>3. ASSUME NEW r \in Request, Handle(r) PROVE Typed'
  <2>1. PICK step \in Steps : Goto(r, step)
    BY <1>3 DEF Handle, Steps
  <2>2. pc' \in [Request -> Steps] /\ Asking'
    BY <2>1, <1>3, <1>c, <1>e DEF Handle
  <2>3. answer' \in [Request -> [kind : Kinds, by : Request] \cup {NoAnswer}]
    BY <1>3, <1>a, <1>d DEF Handle, Kinds
  <2>4. result' \in [Request -> {"none", "created", "refused"}]
    BY <1>3, <1>a DEF Handle
  <2> QED
    BY <1>3, <1>a, <1>b, <2>2, <2>3, <2>4 DEF Handle, history, server
<1>4. ASSUME NEW r \in Request, Save(r) PROVE Typed'
  <2> DEFINE e == [route |-> RouteOf(r), body |-> req[r].body, by |-> r, at |-> now]
  <2>1. pc[r] = "save" /\ req[r] \in Inputs
    BY <1>4, <1>a DEF Save, Asking
  <2>2. e \in Entry
    BY <2>1, <1>a, SavedEntryIs
  <2>3. Saved(r) \in Seq(Entry) /\ Len(Saved(r)) <= MaxStore
    <3>1. Known(r) \subseteq DOMAIN store
      BY DEF Known
    <3>2. MaxStore \in Nat
      BY ConstantsAssumption
    <3>3. Saved(r) = Capped(Put(store, Known(r), e), MaxStore)
      BY DEF Saved
    <3>4. store \in Seq(Entry) /\ Len(store) <= MaxStore
      BY <1>a
    <3> HIDE DEF e
    <3>5. /\ Capped(Put(store, Known(r), e), MaxStore) \in Seq(Entry)
          /\ Len(Capped(Put(store, Known(r), e), MaxStore)) <= MaxStore
      BY <2>2, <3>1, <3>2, <3>4, CappedPut
    <3> QED
      BY <3>3, <3>5
  <2>4. store' \in Seq(Entry) /\ Len(store') <= MaxStore
    BY <2>3, <1>4, <1>a DEF Save
  <2>5. log' \in Seq([by : Request, at : 0..MaxTime])
    <3>1. [by |-> r, at |-> now] \in [by : Request, at : 0..MaxTime]
      BY <1>a
    <3>2. log' = Append(log, [by |-> r, at |-> now]) \/ log' = log
      BY <1>4 DEF Save
    <3> DEFINE new == [by |-> r, at |-> now]
               Stamp == [by : Request, at : 0..MaxTime]
    <3>3. new \in Stamp /\ log \in Seq(Stamp) /\ (log' = Append(log, new) \/ log' = log)
      BY <3>1, <3>2, <1>a
    <3> HIDE DEF new, Stamp
    <3>4. log' \in Seq(Stamp)
      BY <3>3
    <3> QED
      BY <3>4 DEF Stamp
  <2>6. pc' \in [Request -> Steps] /\ Asking'
    <3>1. "commit" \in Steps
      BY DEF Steps
    <3> QED
      BY <3>1, <2>1, <1>4, <1>c, <1>e DEF Save
  <2>7. answer' \in [Request -> [kind : Kinds, by : Request] \cup {NoAnswer}]
    BY <1>4, <1>d DEF Save, Kinds
  <2> QED
    BY <1>4, <1>a, <1>b, <2>4, <2>5, <2>6, <2>7 DEF Save
<1>5. ASSUME NEW r \in Request, Leaves(r) PROVE Typed'
  <2>1. "done" \in Steps /\ Goto(r, "done") /\ pc[r] # "idle" /\ req' = req
    BY <1>5 DEF Leaves, Commit, CommitFails, CommitLost, Steps
  <2>2. pc' \in [Request -> Steps] /\ Asking'
    BY <2>1, <1>c, <1>e
  <2>3. answer' \in [Request -> [kind : Kinds, by : Request] \cup {NoAnswer}]
    BY <1>5, <1>a, <1>d DEF Leaves, Commit, CommitFails, CommitLost, Kinds
  <2>4. UNCHANGED <<now, server, result, history>>
    BY <1>5 DEF Leaves, Commit, CommitFails, CommitLost
  <2> QED
    BY <2>4, <1>a, <1>b, <2>1, <2>2, <2>3 DEF history, server
<1>6. ASSUME Tick PROVE Typed'
  <2>1. now' \in 0..MaxTime
    BY <1>6, <1>a DEF Tick
  <2>2. Asking'
    BY <1>6, <1>a DEF Tick, Asking
  <2> QED
    BY <1>6, <1>a, <1>b, <2>1, <2>2 DEF Tick, history, server
<1>7. ASSUME Restart PROVE Typed'
  <2>1. /\ buckets' = <<>> /\ store' = <<>> /\ log' = <<>>
        /\ admitted' = [r \in Request |-> Never]
        /\ pc' = [r \in Request |-> IF r \in Opened THEN "done" ELSE pc[r]]
        /\ answer' = [r \in Request |-> IF r \in Opened THEN [kind |-> "cut", by |-> r] ELSE answer[r]]
        /\ UNCHANGED <<now, req, result, before>>
    BY <1>7 DEF Restart
  <2>2. Len(buckets') <= MaxBuckets /\ Len(store') <= MaxStore
    BY <2>1, ConstantsAssumption
  <2>3. pc' \in [Request -> Steps]
    BY <2>1, <1>a DEF Steps
  <2>4. answer' \in [Request -> [kind : Kinds, by : Request] \cup {NoAnswer}]
    BY <2>1, <1>a DEF Kinds
  <2>5. Asking'
    BY <2>1, <1>a DEF Asking, Opened
  <2> QED
    BY <2>1, <2>2, <2>3, <2>4, <2>5, <1>a, <1>b
<1>8. ASSUME UNCHANGED vars PROVE Typed'
  BY <1>8, <1>a, <1>b DEF vars, server, history, Asking
<1>9. ASSUME NEW r \in Request, ArriveRefused(r) PROVE Typed'
  <2>1. /\ \E input \in Inputs : req' = [req EXCEPT ![r] = input]
        /\ Goto(r, "done") /\ Answer(r, "failed", r)
        /\ before' = [before EXCEPT ![r] = {q \in Request : pc[q] = "done"}]
        /\ UNCHANGED <<now, buckets, store, result, admitted, log>>
    BY <1>9 DEF ArriveRefused, server
  <2>2. pc' \in [Request -> Steps] /\ \A q \in Request : q # r => pc'[q] = pc[q]
    <3>1. "done" \in Steps
      BY DEF Steps
    <3> QED
      BY <2>1, <3>1, <1>c
  <2>3. answer' \in [Request -> [kind : Kinds, by : Request] \cup {NoAnswer}]
    BY <2>1, <1>d DEF Kinds
  <2>4. req' \in [Request -> Inputs \cup {NoRequest}] /\ Asking'
    BY <2>1, <2>2, <1>a DEF Asking
  <2>5. before' \in [Request -> SUBSET Request]
    BY <2>1, <1>a
  <2> QED
    BY <1>a, <1>b, <2>1, <2>2, <2>3, <2>4, <2>5
<1> QED
  BY <1>1, <1>2, <1>3, <1>4, <1>5, <1>6, <1>7, <1>8, <1>9 DEF Next, Leaves

LEMMA TypedInit == Init => Typed
<1> SUFFICES ASSUME Init PROVE Typed
  OBVIOUS
<1>1. /\ <<>> \in Seq([key : ApiKey, tokens : Int, lastRefill : 0..MaxTime])
      /\ <<>> \in Seq(Entry) /\ <<>> \in Seq([by : Request, at : 0..MaxTime])
      /\ Len(<<>>) = 0
  OBVIOUS
<1> QED
  BY <1>1, ConstantsAssumption DEF Init, Typed, TypeOK, Asking, Steps, Kinds

LEMMA TypedAlways == Spec => []Typed
BY TypedInit, TypedStep, PTL DEF Spec

\* Every state of the middleware has its type, and neither Map outgrows its bound.
THEOREM MiddlewareTyped == Spec => []TypeOK
<1>1. Typed => TypeOK
  BY DEF Typed
<1> QED
  BY <1>1, TypedAlways, PTL
-----------------------------------------------------------------------------
(* The shared connection.  The depth counts the requests whose tenant         *)
(* transaction is open, so one that opens alone is at level 1 and begins the  *)
(* transaction; while no other opens beside it nothing but its own end ends   *)
(* that.  What is in the file is in every view of it.                         *)

ConnInv ==
  /\ IsFiniteSet(Opened)
  /\ SharedTx => depth = Cardinality(Opened)
  /\ disk \subseteq records
  /\ \A i \in 1..Len(stack) : disk \subseteq stack[i].saved
  /\ SharedTx => \A q \in Opened \ mixed : Opened = {q} /\ level[q] = 1 /\ stack # <<>>
  /\ ~SharedTx => records \subseteq disk /\ stack = <<>>

\* Who has a transaction open after a request's step.
LEMMA OpenedSteps ==
  ASSUME Typed, NEW r \in Request
  PROVE  /\ Arrive(r) => r \notin Opened /\ Opened' = Opened \cup {r}
         /\ ArriveRefused(r) => Opened' = Opened
         /\ Lookup(r) \/ Handle(r) \/ Save(r) => r \in Opened /\ Opened' = Opened
         /\ Leaves(r) => r \in Opened /\ Opened' = Opened \ {r} /\ pc[r] = "commit"
<1>1. pc \in [Request -> Steps]
  BY DEF Typed, TypeOK
<1>2. ASSUME NEW step, Goto(r, step) PROVE \A q \in Request : pc'[q] = IF q = r THEN step ELSE pc[q]
  BY <1>1, <1>2 DEF Goto
<1>3. ASSUME Arrive(r) PROVE r \notin Opened /\ Opened' = Opened \cup {r}
  <2>1. pc[r] = "idle" /\ (Goto(r, "lookup") \/ Goto(r, "commit"))
    BY <1>3 DEF Arrive
  <2> QED
    BY <2>1, <1>2 DEF Opened
<1>4. ASSUME ArriveRefused(r) PROVE Opened' = Opened
  BY <1>2, <1>4 DEF ArriveRefused, Opened
<1>5. ASSUME Lookup(r) \/ Handle(r) \/ Save(r) PROVE r \in Opened /\ Opened' = Opened
  <2>1. ASSUME NEW s, Decide(r, s) PROVE Goto(r, "handle") \/ Goto(r, "commit")
    BY <2>1 DEF Decide
  <2>2. /\ pc[r] \in {"lookup", "handle", "bypass", "save"}
        /\ \E step \in {"handle", "bypass", "save", "commit"} : Goto(r, step)
    BY <1>5, <2>1 DEF Lookup, Handle, Save
  <2> QED
    BY <2>2, <1>2 DEF Opened
<1>6. ASSUME Leaves(r) PROVE r \in Opened /\ Opened' = Opened \ {r} /\ pc[r] = "commit"
  <2>1. pc[r] = "commit" /\ Goto(r, "done")
    BY <1>6 DEF Leaves, Commit, CommitFails, CommitLost
  <2> QED
    BY <2>1, <1>2 DEF Opened
<1> QED
  BY <1>3, <1>4, <1>5, <1>6

\* What a request's way out does to the file: nothing, or on SQLite one closing
\* statement that finds its transaction.
LEMMA LeavesFile ==
  ASSUME NEW r \in Request, Leaves(r)
  PROVE  /\ depth' = (IF SharedTx THEN depth - 1 ELSE depth) /\ level' = level /\ mixed' = mixed
         /\ \/ UNCHANGED <<records, disk, stack>> /\ (Commit(r) => ~SharedTx)
            \/ /\ SharedTx /\ Conn!Known(level[r])
               /\ \/ Conn!SqlCommit(level[r])
                  \/ CommitFails(r) /\ Conn!SqlRollback(level[r]) /\ Conn!Entry(level[r]) = 1
BY DEF Leaves, Commit, CommitFails, CommitLost, LeaveTx, TxKnown, Commits, file

\* What is in the file stays in every view of it.
LEMMA SavedStays ==
  ASSUME Typed, ConnInv, [Next]_vars
  PROVE  disk' \subseteq records' /\ \A i \in 1..Len(stack') : disk' \subseteq stack'[i].saved
<1>a. /\ disk \subseteq records /\ stack \in Seq(Mark) /\ depth \in Int /\ level \in [Request -> Int]
      /\ \A i \in 1..Len(stack) : disk \subseteq stack[i].saved
  BY DEF ConnInv, Typed, TypeOK, Mark
<1>1. ASSUME UNCHANGED <<records, disk, stack>>
      PROVE  disk' \subseteq records' /\ \A i \in 1..Len(stack') : disk' \subseteq stack'[i].saved
  BY <1>a, <1>1
<1>2. ASSUME NEW n \in Int, Conn!SqlOpen(n)
      PROVE  disk' \subseteq records' /\ \A i \in 1..Len(stack') : disk' \subseteq stack'[i].saved
  <2> DEFINE new == [name |-> n, saved |-> records]
  <2>1. /\ stack' = Append(stack, new) /\ disk' = disk /\ records' = records /\ disk \subseteq new.saved
        /\ new \in [name : {n}, saved : {records}]
    BY <1>a, <1>2 DEF Conn!SqlOpen
  <2> HIDE DEF new
  <2>2. \A i \in 1..Len(stack') : stack'[i] = new \/ (i \in 1..Len(stack) /\ stack'[i] = stack[i])
    BY <1>a, <2>1
  <2> QED
    BY <1>a, <2>1, <2>2
<1>3. ASSUME NEW r \in Request, Handle(r)
      PROVE  disk' \subseteq records' /\ \A i \in 1..Len(stack') : disk' \subseteq stack'[i].saved
  <2>1. Create(r) \/ Undo
    BY <1>3 DEF Handle
  <2>2. CASE SharedTx /\ Conn!SqlWrite(r)
    <3>1. /\ records' = records \cup {r} /\ stack' = stack
          /\ disk' = IF stack = <<>> THEN disk \cup {r} ELSE disk
      BY <2>2 DEF Conn!SqlWrite
    <3>2. stack = <<>> => \A i \in 1..Len(stack) : FALSE
      OBVIOUS
    <3> QED
      BY <1>a, <3>1, <3>2
  <2>3. CASE ~SharedTx /\ Create(r)
    <3>1. /\ records' = records \cup {r} /\ stack' = stack /\ disk' = disk \cup {r} 
      BY <2>3 DEF Create
    <3>2. stack = <<>> /\ \A i \in 1..Len(<<>>) : FALSE
      BY <2>3 DEF ConnInv
    <3> QED
      BY <1>a, <3>1, <3>2
  <2>4. CASE Undo
    <3>1. depth + 1 \in Int
      BY <1>a
    <3> QED
      BY <1>1, <1>2, <2>4, <3>1 DEF Undo, file
  <2> QED
    BY <2>1, <2>2, <2>3, <2>4 DEF Create
<1>4. ASSUME NEW r \in Request, Leaves(r)
      PROVE  disk' \subseteq records' /\ \A i \in 1..Len(stack') : disk' \subseteq stack'[i].saved
  <2>1. PICK n \in Int : n = level[r]
    BY <1>a
  <2>2. CASE UNCHANGED <<records, disk, stack>>
    BY <1>1, <2>2
  <2>3. CASE Conn!Known(n) /\ (Conn!SqlCommit(n) \/ Conn!SqlRollback(n))
    <3>1. /\ \A i \in 1..Len(stack') : i \in 1..Len(stack) /\ stack'[i] = stack[i]
          /\ Conn!SqlCommit(n) /\ Conn!Entry(n) = 1 => stack' = <<>>
      BY <1>a, <2>3, ClosedIs
    <3>2. CASE Conn!SqlCommit(n) /\ Conn!Entry(n) = 1
      <4>1. disk' = records /\ records' = records /\ stack' = <<>> /\ \A i \in 1..Len(<<>>) : FALSE
        BY <3>1, <3>2 DEF Conn!SqlCommit
      <4> QED
        BY <4>1
    <3>3. CASE Conn!SqlCommit(n) /\ Conn!Entry(n) # 1
      <4>1. disk' = disk /\ records' = records
        BY <3>3 DEF Conn!SqlCommit
      <4> QED
        BY <1>a, <3>1, <4>1
    <3>4. CASE Conn!SqlRollback(n)
      <4>1. disk' = disk /\ records' = stack[Conn!Entry(n)].saved
        BY <3>4 DEF Conn!SqlRollback
      <4>2. Conn!Entry(n) \in 1..Len(stack)
        BY <1>a, <2>3, EntryIs
      <4> QED
        BY <1>a, <3>1, <4>1, <4>2
    <3> QED
      BY <2>3, <3>2, <3>3, <3>4
  <2> QED
    BY <1>4, <2>1, <2>2, <2>3, LeavesFile
<1>5. ASSUME NEW r \in Request, Arrive(r)
      PROVE  disk' \subseteq records' /\ \A i \in 1..Len(stack') : disk' \subseteq stack'[i].saved
  <2>1. OpenTx(r) /\ depth + 1 \in Int
    BY <1>a, <1>5 DEF Arrive
  <2> QED
    BY <1>1, <1>2, <2>1 DEF OpenTx, file
<1>6. ASSUME Restart
      PROVE  disk' \subseteq records' /\ \A i \in 1..Len(stack') : disk' \subseteq stack'[i].saved
  <2>1. disk' = disk /\ records' = disk /\ stack' = <<>> /\ \A i \in 1..Len(<<>>) : FALSE
    BY <1>6 DEF Restart, Conn!SqlLost
  <2> QED
    BY <2>1
<1>7. CASE Tick \/ UNCHANGED vars \/ \E r \in Request : ArriveRefused(r) \/ Lookup(r) \/ Save(r)
  BY <1>1, <1>7 DEF Tick, vars, ArriveRefused, Lookup, Save, file
<1> QED
  BY <1>3, <1>4, <1>5, <1>6, <1>7 DEF Next, Leaves

\* A request's step leaves what the file holds, and what another request that is
\* alone on its connection has made.
LEMMA RecordsStay ==
  ASSUME Typed, ConnInv, NEW r \in Request, Acts(r)
  PROVE  /\ disk \subseteq disk' /\ mixed \subseteq mixed'
         /\ \A q \in Opened \ mixed' : q # r /\ q \in records => q \in records'
<1>a. /\ disk \subseteq records
      /\ SharedTx => \A q \in Opened \ mixed : Opened = {q} /\ level[q] = 1 /\ stack # <<>>
  BY DEF ConnInv
<1>1. CASE UNCHANGED <<records, disk>> /\ mixed \subseteq mixed'
  BY <1>1
<1>2. CASE Arrive(r)
  <2>1. OpenTx(r)
    BY <1>2 DEF Arrive
  <2> QED
    BY <1>1, <2>1 DEF OpenTx, file, transactions, Conn!SqlOpen
<1>3. CASE ArriveRefused(r) \/ Lookup(r) \/ Save(r)
  BY <1>1, <1>3 DEF ArriveRefused, Lookup, Save, file, transactions
<1>4. CASE Handle(r)
  <2>1. mixed' = mixed /\ (Create(r) \/ Undo)
    BY <1>4 DEF Handle, transactions
  <2> QED
    BY <1>1, <2>1 DEF Create, Undo, file, Conn!SqlOpen, Conn!SqlWrite
<1>5. CASE Leaves(r)
  <2>1. r \in Opened /\ mixed' = mixed
    BY <1>5, OpenedSteps, LeavesFile
  <2>2. CASE UNCHANGED <<records, disk>>
    BY <1>1, <2>1, <2>2
  <2>3. CASE SharedTx /\ disk \subseteq disk'
    BY <1>a, <2>1, <2>3
  <2>4. ASSUME NEW n, Conn!SqlCommit(n) \/ Conn!SqlRollback(n) PROVE disk \subseteq disk'
    BY <1>a, <2>4 DEF Conn!SqlCommit, Conn!SqlRollback
  <2> QED
    BY <1>5, <2>2, <2>3, <2>4, LeavesFile
<1> QED
  BY <1>2, <1>3, <1>4, <1>5 DEF Acts

LEMMA ConnStep == Typed /\ ConnInv /\ [Next]_vars => ConnInv'
<1> SUFFICES ASSUME Typed, ConnInv, [Next]_vars PROVE ConnInv'
  OBVIOUS
<1>a. /\ IsFiniteSet(Opened) /\ (SharedTx => depth = Cardinality(Opened))
      /\ SharedTx => \A q \in Opened \ mixed : Opened = {q} /\ level[q] = 1 /\ stack # <<>>
      /\ ~SharedTx => records \subseteq disk /\ stack = <<>>
      /\ pc \in [Request -> Steps] /\ level \in [Request -> Int] /\ stack \in Seq(Mark)
  BY DEF ConnInv, Typed, TypeOK, Mark
<1>b. ASSUME /\ IsFiniteSet(Opened') /\ (SharedTx => depth' = Cardinality(Opened'))
             /\ SharedTx => \A q \in Opened' \ mixed' : Opened' = {q} /\ level'[q] = 1 /\ stack' # <<>>
             /\ ~SharedTx => records' \subseteq disk' /\ stack' = <<>>
      PROVE  ConnInv'
  BY <1>b, SavedStays DEF ConnInv
<1>1. ASSUME UNCHANGED <<depth, level, mixed>>, Opened' = Opened,
             SharedTx /\ stack # <<>> => stack' # <<>>,
             ~SharedTx => records' \subseteq disk' /\ stack' = <<>>
      PROVE  ConnInv'
  BY <1>1, <1>a, <1>b
<1>c. ASSUME NEW n, Conn!SqlOpen(n) PROVE stack' # <<>>
  <2> DEFINE new == [name |-> n, saved |-> records]
  <2>1. stack' = Append(stack, new)
    BY <1>c DEF Conn!SqlOpen
  <2> HIDE DEF new
  <2>2. Len(stack') = Len(stack) + 1 /\ Len(stack) \in Nat /\ Len(<<>>) = 0
    BY <1>a, <2>1
  <2> QED
    BY <2>2
<1>2. ASSUME NEW r \in Request, Arrive(r) PROVE ConnInv'
  <2>1. r \notin Opened /\ Opened' = Opened \cup {r}
    BY <1>2, OpenedSteps
  <2>2. IsFiniteSet(Opened') /\ Cardinality(Opened') = Cardinality(Opened) + 1
    BY <1>a, <2>1, FS_AddElement
  <2>3. OpenTx(r)
    BY <1>2 DEF Arrive
  <2>4. CASE ~SharedTx
    BY <1>a, <1>b, <2>2, <2>3, <2>4 DEF OpenTx, file
  <2>5. CASE SharedTx
    <3>1. /\ depth' = depth + 1 /\ level' = [level EXCEPT ![r] = depth + 1]
          /\ mixed' = (IF Opened = {} THEN mixed ELSE mixed \cup Opened \cup {r})
          /\ stack' # <<>>
      BY <1>c, <2>3, <2>5 DEF OpenTx
    <3>2. CASE Opened = {}
      <4>1. depth = 0
        BY <1>a, <2>5, <3>2, FS_EmptySet
      <4>2. Opened' = {r} /\ level'[r] = 1
        BY <1>a, <2>1, <3>1, <3>2, <4>1
      <4> QED
        BY <1>a, <1>b, <2>2, <2>5, <3>1, <4>2
    <3>3. CASE Opened # {}
      <4>1. Opened' \ mixed' = {}
        BY <2>1, <3>1, <3>3
      <4> QED
        BY <1>a, <1>b, <2>2, <2>5, <3>1, <4>1
    <3> QED
      BY <3>2, <3>3
  <2> QED
    BY <2>4, <2>5
<1>3. ASSUME NEW r \in Request, Handle(r) PROVE ConnInv'
  <2>1. Opened' = Opened /\ UNCHANGED <<depth, level, mixed>> /\ (Create(r) \/ Undo)
    BY <1>3, OpenedSteps DEF Handle, transactions
  <2>2. SharedTx /\ stack # <<>> => stack' # <<>>
    BY <1>c, <2>1 DEF Create, Undo, file, Conn!SqlWrite
  <2>3. ~SharedTx => records' \subseteq disk' /\ stack' = <<>>
    BY <1>a, <2>1 DEF Create, Undo, file
  <2> QED
    BY <1>1, <2>1, <2>2, <2>3
<1>4. ASSUME NEW r \in Request, Leaves(r) PROVE ConnInv'
  <2>1. r \in Opened /\ Opened' = Opened \ {r}
    BY <1>4, OpenedSteps
  <2>2. IsFiniteSet(Opened') /\ Cardinality(Opened') = Cardinality(Opened) - 1
    BY <1>a, <2>1, FS_RemoveElement
  <2>3. /\ depth' = (IF SharedTx THEN depth - 1 ELSE depth) /\ mixed' = mixed
        /\ ~SharedTx => UNCHANGED <<records, disk, stack>>
    BY <1>4, LeavesFile
  <2>4. SharedTx => \A q \in Opened' \ mixed' : FALSE
    BY <1>a, <2>1, <2>3
  <2> QED
    BY <1>a, <1>b, <2>2, <2>3, <2>4
<1>5. ASSUME Restart PROVE ConnInv'
  <2>1. Opened' = {}
    <3>1. pc' = [r \in Request |-> IF r \in Opened THEN "done" ELSE pc[r]]
      BY <1>5 DEF Restart
    <3> QED
      BY <1>a, <3>1 DEF Opened
  <2>2. records' = disk' /\ stack' = <<>> /\ depth' = 0
    BY <1>5 DEF Restart, Conn!SqlLost
  <2> QED
    BY <1>b, <2>1, <2>2, FS_EmptySet
<1>6. ASSUME NEW r \in Request, ArriveRefused(r) \/ Lookup(r) \/ Save(r) PROVE ConnInv'
  <2>1. Opened' = Opened /\ UNCHANGED <<depth, level, mixed, records, disk, stack>>
    BY <1>6, OpenedSteps DEF ArriveRefused, Lookup, Save, file, transactions
  <2> QED
    BY <1>1, <1>a, <2>1
<1>7. ASSUME Tick \/ UNCHANGED vars PROVE ConnInv'
  <2>1. Opened' = Opened /\ UNCHANGED <<depth, level, mixed, records, disk, stack>>
    BY <1>7 DEF Tick, vars, file, transactions, Opened
  <2> QED
    BY <1>1, <1>a, <2>1
<1> QED
  BY <1>2, <1>3, <1>4, <1>5, <1>6, <1>7 DEF Next, Leaves

LEMMA ConnInit == Init => ConnInv
<1> SUFFICES ASSUME Init PROVE ConnInv
  OBVIOUS
<1>1. Opened = {} /\ depth = 0 /\ records = {} /\ disk = {} /\ stack = <<>>
  BY DEF Init, Opened
<1>2. \A i \in 1..Len(<<>>) : FALSE
  OBVIOUS
<1> QED
  BY <1>1, <1>2, FS_EmptySet DEF ConnInv

-----------------------------------------------------------------------------
(* Replays.  A stored response is that of a request whose handler ran, under  *)
(* the route and body it is stored with; the request is on its way out and    *)
(* never asks anything else, so what was true when it was stored stays true   *)
(* until the response is replayed.  Its record, where its transaction was     *)
(* alone and committed, is in the file, which never loses one.                *)

\* Request q ran its handler and is on its way out.
Made(q) == pc[q] \in {"commit", "done"} /\ result[q] # "none"

\* What each await says of the request suspended there.
InPlace(r) ==
  /\ pc[r] \in {"idle", "lookup", "handle", "bypass"} => result[r] = "none"
  /\ pc[r] = "save" => result[r] # "none"
  /\ pc[r] \in {"save", "commit"} /\ result[r] = "created" => r \in records \cup mixed
  /\ pc[r] = "done" /\ result[r] = "created" =>
       r \in disk \cup mixed \/ answer[r].kind \in {"failed", "cut"}
  /\ answer[r].kind \in {"conflict", "replay"} => pc[r] \in {"commit", "done"}

\* What the store says of an entry, and an answer of the response it repeats.
StoredRight(e) == Made(e.by) /\ e.route = RouteOf(e.by) /\ e.body = req[e.by].body
AnsweredRight(r) ==
  LET q == answer[r].by IN
  /\ answer[r].kind = "replay" =>
       Made(q) /\ SameRoute(q, r) /\ req[q].body = req[r].body
  /\ answer[r].kind = "conflict" =>
       Made(q) /\ SameRoute(q, r) /\ req[q].body # req[r].body

ReplayInv ==
  /\ Typed /\ ConnInv
  /\ \A r \in Request : InPlace(r)
  /\ \A i \in DOMAIN store : StoredRight(store[i])
  /\ \A r \in Request : AnsweredRight(r)


\* A request's step leaves the other requests alone.
LEMMA OthersStay ==
  ASSUME Typed, NEW r \in Request, Acts(r), NEW q \in Request, q # r
  PROVE  /\ pc'[q] = pc[q] /\ req'[q] = req[q] /\ result'[q] = result[q]
         /\ answer'[q] = answer[q]
<1>1. /\ pc \in [Request -> Steps] /\ req \in [Request -> Inputs \cup {NoRequest}]
      /\ result \in [Request -> {"none", "created", "refused"}]
      /\ answer \in [Request -> [kind : Kinds, by : Request] \cup {NoAnswer}]
  BY DEF Typed, TypeOK
<1>2. ASSUME NEW step, Goto(r, step) PROVE pc'[q] = pc[q]
  BY <1>1, <1>2 DEF Goto
<1>3. ASSUME NEW kind, NEW by, Answer(r, kind, by) PROVE answer'[q] = answer[q]
  BY <1>1, <1>3 DEF Answer
<1>4. CASE Arrive(r)
  BY <1>1, <1>2, <1>3, <1>4 DEF Arrive
<1>5. CASE ArriveRefused(r)
  BY <1>1, <1>2, <1>3, <1>5 DEF ArriveRefused
<1>6. CASE Lookup(r)
  <2>1. ASSUME NEW s, Decide(r, s) PROVE pc'[q] = pc[q] /\ answer'[q] = answer[q]
    BY <1>2, <1>3, <2>1 DEF Decide
  <2> QED
    BY <1>2, <1>6, <2>1 DEF Lookup
<1>7. CASE Handle(r)
  BY <1>1, <1>2, <1>3, <1>7 DEF Handle
<1>8. CASE Save(r)
  BY <1>2, <1>3, <1>8 DEF Save
<1>9. CASE Leaves(r)
  BY <1>2, <1>3, <1>9 DEF Leaves, Commit, CommitFails, CommitLost
<1> QED
  BY <1>4, <1>5, <1>6, <1>7, <1>8, <1>9 DEF Acts

\* A request alone on its connection has its record in the file once its
\* transaction has committed.
LEMMA CommitsRecord ==
  ASSUME Typed, ConnInv, NEW r \in Request, Leaves(r), answer' = answer, r \in records \ mixed,
         answer[r].kind # "failed"
  PROVE  r \in disk'
<1>1. Commit(r)
  <2>1. answer \in [Request -> [kind : Kinds, by : Request] \cup {NoAnswer}]
    BY DEF Typed, TypeOK
  <2> QED
    BY <2>1 DEF Leaves, CommitFails, CommitLost, Answer
<1>2. r \in Opened
  BY OpenedSteps
<1>3. CASE ~SharedTx
  BY <1>3, LeavesFile DEF ConnInv
<1>4. CASE SharedTx
  <2>1. level[r] = 1
    BY <1>2, <1>4 DEF ConnInv
  <2>2. Conn!SqlCommit(1)
    BY <1>1, <1>4, <2>1 DEF Commit
  <2> QED
    BY <2>2 DEF Conn!SqlCommit, Conn!Entry
<1> QED
  BY <1>3, <1>4

\* The request that steps stands where InPlace says, and answers with another's
\* response only at its lookup.
LEMMA ActorInPlace ==
  ASSUME Typed, ConnInv, NEW r \in Request, Acts(r), InPlace(r)
  PROVE  /\ InPlace(r)' /\ pc[r] # "done"
         /\ pc[r] # "idle" => req'[r] = req[r]
         /\ Made(r) => Made(r)'
         /\ answer'[r].kind \in {"replay", "conflict"} => Lookup(r) \/ answer' = answer
<1>1. /\ pc \in [Request -> Steps] /\ req \in [Request -> Inputs \cup {NoRequest}]
      /\ result \in [Request -> {"none", "created", "refused"}]
      /\ answer \in [Request -> [kind : Kinds, by : Request] \cup {NoAnswer}]
  BY DEF Typed, TypeOK
<1>2. ASSUME NEW step, Goto(r, step) PROVE pc'[r] = step
  BY <1>1, <1>2 DEF Goto
<1>3. ASSUME NEW kind, NEW by, Answer(r, kind, by) PROVE answer'[r].kind = kind
  BY <1>1, <1>3 DEF Answer
<1>4. CASE Arrive(r)
  <2>1. /\ pc[r] = "idle" /\ result' = result
        /\ \/ pc'[r] = "lookup" /\ answer' = answer
           \/ pc'[r] = "commit" /\ answer'[r].kind = "limited"
    BY <1>2, <1>3, <1>4 DEF Arrive
  <2> QED
    BY <2>1 DEF InPlace, Made
<1>5. CASE ArriveRefused(r)
  <2>1. pc[r] = "idle" /\ result' = result /\ pc'[r] = "done" /\ answer'[r].kind = "failed"
    BY <1>2, <1>3, <1>5 DEF ArriveRefused
  <2> QED
    BY <2>1 DEF InPlace, Made
<1>6. CASE Lookup(r)
  <2>1. ASSUME NEW s, Decide(r, s)
        PROVE  \/ pc'[r] = "handle" /\ answer' = answer
               \/ pc'[r] = "commit" /\ answer'[r].kind \in {"conflict", "replay"}
    BY <1>2, <1>3, <2>1 DEF Decide
  <2>2. /\ pc[r] = "lookup" /\ result' = result /\ req' = req
        /\ \/ pc'[r] \in {"handle", "bypass"} /\ answer' = answer
           \/ pc'[r] = "commit" /\ answer'[r].kind \in {"conflict", "replay"}
    BY <1>2, <1>6, <2>1 DEF Lookup
  <2> QED
    BY <1>6, <2>2 DEF InPlace, Made
<1>7. CASE Handle(r)
  <2>1. /\ pc[r] \in {"handle", "bypass"} /\ req' = req /\ mixed' = mixed
        /\ result'[r] # "none"
        /\ \/ pc'[r] = "save" /\ answer' = answer
           \/ pc'[r] = "commit" /\ answer'[r].kind = "ran"
    BY <1>1, <1>2, <1>3, <1>7 DEF Handle, transactions
  <2>2. result'[r] = "created" => r \in records'
    BY <1>1, <1>7 DEF Handle, Create, Conn!SqlWrite
  <2> QED
    BY <2>1, <2>2 DEF InPlace, Made
<1>8. CASE Save(r)
  <2>1. /\ pc[r] = "save" /\ pc'[r] = "commit" /\ answer'[r].kind = "ran"
        /\ UNCHANGED <<req, result, records, mixed>>
    BY <1>2, <1>3, <1>8 DEF Save, file, transactions
  <2> QED
    BY <2>1 DEF InPlace, Made
<1>9. CASE Leaves(r)
  <2>1. /\ pc[r] = "commit" /\ pc'[r] = "done" /\ UNCHANGED <<req, result>>
        /\ answer' = answer \/ answer'[r].kind = "failed"
    BY <1>2, <1>3, <1>9 DEF Leaves, Commit, CommitFails, CommitLost
  <2>2. mixed' = mixed
    BY <1>9, LeavesFile
  <2>3. ASSUME result[r] = "created", answer' = answer, answer[r].kind # "failed", r \notin mixed
        PROVE  r \in disk'
    BY <1>9, <2>1, <2>3, CommitsRecord DEF InPlace
  <2> QED
    BY <2>1, <2>2, <2>3 DEF InPlace, Made
<1> QED
  BY <1>4, <1>5, <1>6, <1>7, <1>8, <1>9 DEF Acts

\* A request that ran stays so through a request's step, and asks what it asked.
LEMMA MadeStays ==
  ASSUME ReplayInv, NEW r \in Request, Acts(r), NEW q \in Request
  PROVE  /\ Made(q) => Made(q)' /\ req'[q] = req[q]
         /\ InPlace(q)'
         /\ pc[q] # "idle" => req'[q] = req[q]
<1>1. Typed /\ ConnInv /\ InPlace(r) /\ InPlace(q)
  BY DEF ReplayInv
<1>2. CASE q = r
  BY <1>1, <1>2, ActorInPlace DEF Made
<1>3. CASE q # r
  <2>1. /\ pc'[q] = pc[q] /\ req'[q] = req[q] /\ result'[q] = result[q]
        /\ answer'[q] = answer[q]
    BY <1>1, <1>3, OthersStay
  <2>2. /\ disk \subseteq disk' /\ mixed \subseteq mixed'
        /\ pc[q] \in {"save", "commit"} /\ q \in records => q \in records' \cup mixed'
    BY <1>1, <1>3, RecordsStay DEF Opened
  <2> QED
    BY <1>1, <2>1, <2>2 DEF Made, InPlace
<1> QED
  BY <1>2, <1>3

\* The same of a restart, which cuts off the requests in flight.
LEMMA MadeSurvives ==
  ASSUME ReplayInv, Restart, NEW q \in Request
  PROVE  /\ Made(q) => Made(q)' /\ req'[q] = req[q]
         /\ InPlace(q)' /\ (answer'[q] = answer[q] \/ answer'[q].kind = "cut")
<1>1. InPlace(q) /\ pc[q] \in Steps
  BY DEF ReplayInv, Typed, TypeOK
<1>2. /\ pc'[q] = (IF q \in Opened THEN "done" ELSE pc[q])
      /\ answer'[q] = (IF q \in Opened THEN [kind |-> "cut", by |-> q] ELSE answer[q])
      /\ disk' = disk /\ mixed' = mixed
      /\ req' = req /\ result' = result
  BY DEF Restart, Conn!SqlLost
<1>3. CASE q \in Opened
  <2>1. pc'[q] = "done" /\ answer'[q].kind = "cut" /\ pc[q] \notin {"idle", "done"}
    BY <1>2, <1>3 DEF Opened
  <2> QED
    BY <1>1, <1>2, <2>1 DEF Made, InPlace
<1>4. CASE q \notin Opened
  <2>1. /\ pc'[q] = pc[q] /\ answer'[q] = answer[q] /\ pc[q] \in {"idle", "done"}
    BY <1>2, <1>4 DEF Opened
  <2> QED
    BY <1>1, <1>2, <2>1 DEF Made, InPlace
<1> QED
  BY <1>3, <1>4

LEMMA SameRouteIs ==
  ASSUME NEW q, NEW r
  PROVE  RouteOf(q) = RouteOf(r) <=> SameRoute(q, r)
BY DEF RouteOf, SameRoute

\* What the lookup answers is right, when the entries it looks at are.
LEMMA DecidedRight ==
  ASSUME ReplayInv, NEW r \in Request, Lookup(r), NEW s \in Seq(Entry), Decide(r, s),
         \A i \in DOMAIN s : StoredRight(s[i])
  PROVE  AnsweredRight(r)'
<1>1. /\ pc \in [Request -> Steps] /\ pc[r] = "lookup" /\ req' = req
      /\ answer \in [Request -> [kind : Kinds, by : Request] \cup {NoAnswer}]
      /\ InPlace(r) /\ Acts(r)
  BY DEF ReplayInv, Typed, TypeOK, Lookup, Acts
<1>2. CASE UNCHANGED answer
  BY <1>1, <1>2 DEF InPlace, AnsweredRight
<1>3. ASSUME NEW e \in Hits(r, s), NEW kind \in {"conflict", "replay"},
             Answer(r, kind, e.by), e.body = req[r].body <=> kind = "replay"
      PROVE  AnsweredRight(r)'
  <2>1. e \in Entry /\ StoredRight(e) /\ e.route = RouteOf(r)
    <3>1. PICK i \in DOMAIN s : e = s[i]
      BY DEF Hits
    <3> QED
      BY <3>1, ElementOfSeq DEF Hits
  <2>2. e.by \in Request
    BY <2>1 DEF Entry
  <2>3. answer'[r].by = e.by /\ answer'[r].kind = kind
    BY <1>1, <1>3 DEF Answer
  <2>4. Made(e.by)' /\ SameRoute(e.by, r) /\ e.body = req[e.by].body
    BY <1>1, <2>1, <2>2, MadeStays, SameRouteIs DEF StoredRight
  <2> QED
    BY <1>1, <1>3, <2>3, <2>4 DEF AnsweredRight, SameRoute
<1> QED
  BY <1>2, <1>3 DEF Decide

LEMMA ReplayStep == ReplayInv /\ [Next]_vars => ReplayInv'
<1> SUFFICES ASSUME ReplayInv, [Next]_vars PROVE ReplayInv'
  OBVIOUS
<1>a. /\ Typed /\ Typed' /\ store \in Seq(Entry)
      /\ answer \in [Request -> [kind : Kinds, by : Request] \cup {NoAnswer}]
      /\ pc \in [Request -> Steps]
  BY TypedStep DEF ReplayInv, Typed, TypeOK
<1>e. ConnInv /\ ConnInv'
  BY ConnStep DEF ReplayInv
<1>b. /\ \A r \in Request : InPlace(r)
      /\ \A i \in DOMAIN store : StoredRight(store[i])
      /\ \A r \in Request : AnsweredRight(r)
  BY DEF ReplayInv
<1>c. \A i \in DOMAIN store : store[i] \in Entry
  <2>1. store \in Seq(Entry)
    BY <1>a
  <2> QED
    BY <2>1, ElementOfSeq
<1>d. \A r \in Request : answer[r].kind \in {"replay", "conflict"} => answer[r].by \in Request
  BY <1>a DEF NoAnswer
<1>1. ASSUME NEW r \in Request, Acts(r) PROVE ReplayInv'
  <2>1. \A q \in Request : InPlace(q)'
    BY <1>1, MadeStays
  <2>2. ASSUME NEW q \in Request, Made(q) PROVE Made(q)' /\ req'[q] = req[q]
    BY <1>1, <2>2, MadeStays
  <2>3. ASSUME NEW e \in Entry, StoredRight(e) PROVE StoredRight(e)'
    <3>1. e.by \in Request
      BY DEF Entry
    <3> QED
      BY <2>2, <2>3, <3>1 DEF StoredRight, RouteOf
  <2>4. ASSUME NEW j \in DOMAIN store, NEW e, e = store[j] PROVE e \in Entry /\ StoredRight(e)'
    <3>1. e \in Entry
      BY <1>c, <2>4
    <3>2. StoredRight(e)
      BY <1>b, <2>4
    <3> QED
      BY <2>3, <3>1, <3>2
  <2>5. ASSUME NEW i \in DOMAIN store' PROVE StoredRight(store[i])'
    <3>1. ASSUME NEW e, e = store'[i], StoredRight(e)' PROVE StoredRight(store[i])'
      BY <3>1 DEF StoredRight, Made, RouteOf
    <3>2. ASSUME NEW j \in DOMAIN store, store'[i] = store[j] PROVE StoredRight(store[i])'
      <4>1. PICK e : e = store[j]
        OBVIOUS
      <4> QED
        BY <2>4, <3>1, <3>2, <4>1
    <3>3. CASE Lookup(r)
      <4>1. Fresh \subseteq DOMAIN store
        BY DEF Fresh
      <4>2. \A k \in DOMAIN Only(store, Fresh) :
              \E j \in DOMAIN store : Only(store, Fresh)[k] = store[j]
        BY <1>a, <4>1, OnlyIs
      <4>3. store' = store \/ store' = Only(store, Fresh)
        BY <3>3, Zenon DEF Lookup
      <4>4. CASE store' = store
        BY <3>2, <4>4
      <4>5. CASE store' = Only(store, Fresh)
        <5>1. \E j \in DOMAIN store : store'[i] = store[j]
          BY <4>2, <4>5
        <5> QED
          BY <3>2, <5>1
      <4> QED
        BY <4>3, <4>4, <4>5
    <3>4. CASE Save(r)
      <4> DEFINE e == [route |-> RouteOf(r), body |-> req[r].body, by |-> r, at |-> now]
      <4>1. pc[r] = "save" /\ req[r] \in Inputs /\ now \in 0..MaxTime /\ Len(store) <= MaxStore
        BY <3>4, <1>a DEF Save, Typed, TypeOK, Asking
      <4>2. PICK d : d = e
        OBVIOUS
      <4>3. d \in Entry
        BY <4>1, <4>2, SavedEntryIs
      <4>4. StoredRight(d)'
        <5>1. Made(r)'
          <6>1. pc'[r] = "commit" /\ result' = result
            BY <3>4, <1>a DEF Save, Goto
          <6>2. result[r] # "none"
            BY <1>b, <4>1 DEF InPlace
          <6> QED
            BY <6>1, <6>2 DEF Made
        <5>2. req' = req
          BY <3>4 DEF Save
        <5>3. d.by = r /\ d.route = RouteOf(r) /\ d.body = req[r].body
          BY <4>2
        <5> QED
          BY <5>1, <5>2, <5>3 DEF StoredRight, RouteOf
      <4>5. Saved(r) = Capped(Put(store, Known(r), d), MaxStore)
        BY <4>2 DEF Saved
      <4>6. Known(r) \subseteq DOMAIN store /\ MaxStore \in Nat
        BY ConstantsAssumption DEF Known
      <4>7. \A k \in DOMAIN Saved(r) :
              Saved(r)[k] = d \/ \E j \in DOMAIN store : Saved(r)[k] = store[j]
        <5>1. \A k \in DOMAIN Capped(Put(store, Known(r), d), MaxStore) :
                \/ Capped(Put(store, Known(r), d), MaxStore)[k] = d
                \/ \E j \in DOMAIN store :
                     Capped(Put(store, Known(r), d), MaxStore)[k] = store[j]
          BY <1>a, <4>1, <4>3, <4>6, CappedPut
        <5> QED
          BY <5>1, <4>5
      <4>8. CASE store' = store
        BY <3>2, <4>8
      <4>9. CASE store' = Saved(r)
        <5>1. store'[i] = d \/ \E j \in DOMAIN store : store'[i] = store[j]
          BY <4>7, <4>9
        <5> QED
          BY <3>1, <3>2, <4>4, <5>1
      <4> QED
        BY <3>4, <4>8, <4>9 DEF Save
    <3>5. CASE store' = store
      BY <3>2, <3>5
    <3> QED
      BY <1>1, <3>3, <3>4, <3>5
         DEF Acts, Arrive, ArriveRefused, Handle, Leaves, Commit, CommitFails, CommitLost, server
  <2>6. ASSUME NEW q \in Request, answer'[q] = answer[q],
               answer[q].kind \in {"replay", "conflict"} => req'[q] = req[q]
        PROVE  AnsweredRight(q)'
    <3>1. AnsweredRight(q)
      BY <1>b
    <3>2. CASE answer[q].kind \in {"replay", "conflict"}
      <4>1. PICK b \in Request : b = answer[q].by
        BY <1>d, <3>2
      <4>2. Made(b)
        BY <3>1, <3>2, <4>1 DEF AnsweredRight
      <4>3. Made(b)' /\ req'[q] = req[q] /\ req'[b] = req[b]
        BY <2>2, <2>6, <3>2, <4>2
      <4>4. answer'[q].by = b /\ answer'[q].kind = answer[q].kind
        BY <2>6, <4>1
      <4> QED
        BY <3>1, <4>1, <4>3, <4>4 DEF AnsweredRight, SameRoute, Made
    <3>3. CASE answer[q].kind \notin {"replay", "conflict"}
      BY <2>6, <3>3 DEF AnsweredRight
    <3> QED
      BY <3>2, <3>3
  <2>7. ASSUME NEW q \in Request, q # r PROVE AnsweredRight(q)'
    BY <1>1, <1>a, <2>6, <2>7, OthersStay
  <2>8. AnsweredRight(r)'
    <3>1. ASSUME Lookup(r) PROVE AnsweredRight(r)'
      <4>1. Fresh \subseteq DOMAIN store
        BY DEF Fresh
      <4>2. /\ Only(store, Fresh) \in Seq(Entry)
            /\ \A i \in DOMAIN Only(store, Fresh) :
                 \E j \in DOMAIN store : Only(store, Fresh)[i] = store[j]
        BY <1>a, <4>1, OnlyIs
      <4>3. \A i \in DOMAIN Only(store, Fresh) : StoredRight(Only(store, Fresh)[i])
        BY <1>b, <4>2
      <4>4. CASE Decide(r, Only(store, Fresh))
        BY <3>1, <4>2, <4>3, <4>4, DecidedRight
      <4>5. CASE Decide(r, store)
        BY <3>1, <1>a, <1>b, <4>5, DecidedRight
      <4>6. CASE UNCHANGED answer
        BY <3>1, <2>6, <4>6 DEF Lookup
      <4> QED
        BY <3>1, <4>4, <4>5, <4>6, Zenon DEF Lookup
    <3>2. ASSUME ~Lookup(r) PROVE AnsweredRight(r)'
      <4>1. CASE answer'[r].kind \notin {"replay", "conflict"}
        BY <4>1 DEF AnsweredRight
      <4>2. CASE answer'[r].kind \in {"replay", "conflict"}
        <5>1. answer' = answer
          BY <1>1, <1>a, <1>b, <1>e, <3>2, <4>2, ActorInPlace
        <5>2. pc[r] # "idle"
          BY <1>b, <4>2, <5>1 DEF InPlace
        <5> QED
          BY <1>1, <2>6, <5>1, <5>2, MadeStays
      <4> QED
        BY <4>1, <4>2
    <3> QED
      BY <3>1, <3>2
  <2> QED
    BY <1>a, <1>e, <2>1, <2>5, <2>7, <2>8 DEF ReplayInv
<1>2. ASSUME Restart PROVE ReplayInv'
  <2>1. \A q \in Request : InPlace(q)'
    BY <1>2, MadeSurvives
  <2>2. ASSUME NEW i \in DOMAIN store' PROVE StoredRight(store[i])'
    BY <1>2, <2>2 DEF Restart
  <2>3. ASSUME NEW q \in Request PROVE AnsweredRight(q)'
    <3>1. CASE answer'[q].kind = "cut"
      BY <3>1 DEF AnsweredRight
    <3>2. CASE answer'[q] = answer[q] /\ answer[q].kind \in {"replay", "conflict"}
      <4>1. PICK b \in Request : b = answer[q].by
        BY <1>d, <3>2
      <4>2. AnsweredRight(q) /\ req' = req
        BY <1>2, <1>b DEF Restart
      <4>3. Made(b)
        BY <3>2, <4>1, <4>2 DEF AnsweredRight
      <4>4. Made(b)'
        BY <1>2, <4>3, MadeSurvives
      <4>5. answer'[q].by = b /\ answer'[q].kind = answer[q].kind
        BY <3>2, <4>1
      <4> QED
        BY <4>1, <4>2, <4>4, <4>5 DEF AnsweredRight, SameRoute, Made
    <3>3. CASE answer'[q] = answer[q] /\ answer[q].kind \notin {"replay", "conflict"}
      BY <3>3 DEF AnsweredRight
    <3> QED
      BY <1>2, <3>1, <3>2, <3>3, MadeSurvives
  <2> QED
    BY <1>a, <1>e, <2>1, <2>2, <2>3 DEF ReplayInv
<1>3. ASSUME Tick \/ UNCHANGED vars PROVE ReplayInv'
  <2>1. UNCHANGED <<store, pc, req, result, answer, records, disk, mixed>>
    BY <1>3 DEF Tick, vars, server, file, transactions
  <2> QED
    BY <1>a, <1>b, <1>e, <2>1 DEF ReplayInv, InPlace, StoredRight, AnsweredRight, Made, RouteOf, SameRoute
<1> QED
  BY <1>1, <1>2, <1>3 DEF Next, Acts, Leaves

LEMMA ReplayInit == Init => ReplayInv
<1> SUFFICES ASSUME Init PROVE ReplayInv
  OBVIOUS
<1>1. Typed /\ store = <<>> /\ \A r \in Request : answer[r].kind = "none" /\ result[r] = "none"
                                                  /\ pc[r] = "idle"
  BY TypedInit DEF Init, NoAnswer
<1>2. \A r \in Request : InPlace(r) /\ AnsweredRight(r)
  BY <1>1 DEF InPlace, AnsweredRight
<1> QED
  BY <1>1, <1>2, ConnInit DEF ReplayInv

\* A replay repeats the response of the same organization's request with the same
\* key and body, whose handler ran; a conflict names a request with another body; a
\* replayed success names a record, unless its transaction failed or was not alone
\* on its connection.
THEOREM ReplaysAreTrue == Spec => []ReplayIsTrue
<1>1. ReplayInv => ReplayIsTrue
  <2> SUFFICES ASSUME ReplayInv, NEW r \in Request,
                      answer[r].kind \in {"replay", "conflict"}
               PROVE  LET q == answer[r].by IN
                      /\ answer[r].kind = "replay" =>
                           /\ SameRoute(q, r) /\ req[q].body = req[r].body /\ result[q] # "none"
                           /\ result[q] = "created" =>
                                q \in records \/ answer[q].kind \in {"failed", "cut"} \/ q \in mixed
                      /\ answer[r].kind = "conflict" =>
                           SameRoute(q, r) /\ req[q].body # req[r].body /\ result[q] # "none"
    BY DEF ReplayIsTrue
  <2>1. AnsweredRight(r) /\ disk \subseteq records
    BY DEF ReplayInv, ConnInv
  <2>2. PICK q \in Request : q = answer[r].by
    <3>1. answer[r] \in [kind : Kinds, by : Request] \cup {NoAnswer}
      BY DEF ReplayInv, Typed, TypeOK
    <3> QED
      BY <3>1 DEF NoAnswer
  <2>3. InPlace(q)
    BY DEF ReplayInv
  <2> QED
    BY <2>1, <2>2, <2>3 DEF AnsweredRight, Made, InPlace
<1> QED
  BY <1>1, ReplayInit, ReplayStep, PTL DEF Spec

-----------------------------------------------------------------------------
(* Windows.  While no bucket is evicted, every request the limiter let pass   *)
(* has its key's bucket, in a window that is over no sooner than the one it   *)
(* passed in; in each bucket's window the requests that passed and the tokens *)
(* left together are no more than Limit.                                      *)

Admitted == {r \in Request : admitted[r] # Never}

\* A list of buckets that could serve as the limiter's.
Windows(s) ==
  /\ \A i, j \in DOMAIN s : s[i].key = s[j].key => i = j
  /\ \A i \in DOMAIN s : s[i].lastRefill <= now
  /\ \A r \in Admitted : \E i \in DOMAIN s :
       s[i].key = req[r].apiKey /\ admitted[r] < s[i].lastRefill + Window
  /\ \A i \in DOMAIN s :
       /\ Cardinality(InWindow(s[i])) <= Limit
       /\ Cardinality(InWindow(s[i])) + s[i].tokens <= Limit

WindowInv ==
  /\ Typed
  /\ IsFiniteSet(Admitted)
  /\ \A r \in Request : pc[r] = "idle" => admitted[r] = Never
  /\ \A r \in Admitted : admitted[r] <= now
  /\ Cardinality(ApiKey) <= MaxBuckets => Windows(buckets)

LEMMA InWindowFinite ==
  ASSUME WindowInv, NEW b
  PROVE  /\ InWindow(b) \subseteq Admitted /\ IsFiniteSet(InWindow(b))
         /\ Cardinality(InWindow(b)) \in Nat
<1>1. InWindow(b) \subseteq Admitted
  BY DEF InWindow, Admitted
<1>2. IsFiniteSet(Admitted)
  BY DEF WindowInv
<1> QED
  BY <1>1, <1>2, FS_Subset, FS_CardinalityType

\* Buckets of different keys, none of them k's, are fewer than the keys.
LEMMA RoomForOne ==
  ASSUME NEW s \in Seq(Bucket), NEW k \in ApiKey,
         \A i, j \in DOMAIN s : s[i].key = s[j].key => i = j,
         \A i \in DOMAIN s : s[i].key # k
  PROVE  Len(s) + 1 <= Cardinality(ApiKey)
<1> DEFINE n == Len(s)
           f == [i \in 1..n |-> s[i].key]
           Rest == ApiKey \ {k}
<1>1. n \in Nat /\ DOMAIN s = 1..n
  OBVIOUS
<1>2. \A i \in 1..n : s[i] \in Bucket
  <2>1. s \in Seq(Bucket)
    OBVIOUS
  <2> QED
    BY <2>1, ElementOfSeq
<1>3. f \in [1..n -> Rest]
  BY <1>1, <1>2 DEF Bucket
<1>4. IsFiniteSet(1..n) /\ Cardinality(1..n) = n
  <2>1. 1 \in Int /\ n \in Int
    BY <1>1
  <2>2. IsFiniteSet(1..n) /\ Cardinality(1..n) = IF 1 > n THEN 0 ELSE n - 1 + 1
    BY <2>1, FS_Interval
  <2> QED
    BY <1>1, <2>2
<1>5. /\ IsFiniteSet(Rest) /\ Cardinality(Rest) = Cardinality(ApiKey) - 1
      /\ Cardinality(Rest) \in Nat /\ Cardinality(ApiKey) \in Nat
  BY ConstantsAssumption, FS_RemoveElement, FS_CardinalityType
<1>6. \A i, j \in 1..n : f[i] = f[j] => i = j
  BY <1>1
<1> HIDE DEF n, f, Rest
<1>7. ~(Cardinality(Rest) < Cardinality(1..n))
  <2> DEFINE I == 1..n
  <2>1. IsFiniteSet(I) /\ IsFiniteSet(Rest) /\ f \in [I -> Rest]
        /\ \A i, j \in I : f[i] = f[j] => i = j
    BY <1>3, <1>4, <1>5, <1>6
  <2> HIDE DEF I
  <2>2. ASSUME Cardinality(Rest) < Cardinality(I) PROVE FALSE
    <3>1. \E i, j \in I : i # j /\ f[i] = f[j]
      BY <2>1, <2>2, FS_PigeonHole
    <3> QED
      BY <2>1, <3>1
  <2> QED
    BY <2>2 DEF I
<1>8. n <= Cardinality(Rest)
  BY <1>1, <1>4, <1>5, <1>7
<1> QED
  BY <1>1, <1>5, <1>8 DEF n

\* The limiter's buckets, refilled for a key, still could serve: it evicts none,
\* and the key's own has its window open.
LEMMA RefilledWindows ==
  ASSUME WindowInv, Cardinality(ApiKey) <= MaxBuckets, NEW k \in ApiKey
  PROVE  /\ Windows(Refilled(k))
         /\ \E i \in DOMAIN Refilled(k) :
              Refilled(k)[i].key = k /\ now < Refilled(k)[i].lastRefill + Window
<1>a. /\ Typed /\ buckets \in Seq(Bucket) /\ Len(buckets) <= MaxBuckets
      /\ now \in 0..MaxTime /\ admitted \in [Request -> 0..MaxTime \cup {Never}]
      /\ Windows(buckets)
  BY DEF WindowInv, Typed, TypeOK, Bucket
<1>b. /\ MaxBuckets \in Nat /\ Limit \in Nat \ {0} /\ Window \in Nat \ {0} /\ MaxTime \in Nat
      /\ IsFiniteSet(ApiKey) /\ Cardinality(ApiKey) \in Nat
  BY ConstantsAssumption, FS_CardinalityType
<1>c. Len(buckets) \in Nat /\ DOMAIN buckets = 1..Len(buckets)
  BY <1>a
<1>d. \A i \in DOMAIN buckets : buckets[i] \in Bucket
  <2>1. buckets \in Seq(Bucket)
    BY <1>a
  <2> QED
    BY <2>1, ElementOfSeq
<1>e. \A i \in DOMAIN buckets : buckets[i].lastRefill \in 0..MaxTime /\ buckets[i].key \in ApiKey
  BY <1>d DEF Bucket
<1>1. CASE ~Expired(k)
  <2>1. PICK i \in Mine(k) : ~(now - buckets[i].lastRefill >= Window)
    BY <1>1 DEF Expired
  <2>2. i \in DOMAIN buckets /\ buckets[i].key = k
    BY DEF Mine
  <2>3. now < buckets[i].lastRefill + Window
    BY <1>a, <1>b, <1>e, <2>1, <2>2
  <2>4. Refilled(k) = buckets
    BY <1>1 DEF Refilled
  <2> QED
    BY <1>a, <2>2, <2>3, <2>4
<1>2. CASE Expired(k)
  <2> DEFINE new == [key |-> k, tokens |-> Limit, lastRefill |-> now]
  <2>0. new \in Bucket
    BY <1>a, <1>b DEF Bucket
  <2>1. PICK fresh \in Bucket : fresh = new
    BY <2>0
  <2>2. fresh.key = k /\ fresh.tokens = Limit /\ fresh.lastRefill = now
    BY <2>1
  <2>3. PICK S \in SUBSET DOMAIN buckets : S = Mine(k)
    BY DEF Mine
  <2>4. PICK p : p = Put(buckets, S, fresh)
    OBVIOUS
  <2>5. /\ p \in Seq(Bucket) /\ Len(p) = (IF S = {} THEN Len(buckets) + 1 ELSE Len(buckets))
        /\ \A i \in DOMAIN p :
             \/ p[i] = fresh /\ (i \in S \/ (S = {} /\ i = Len(buckets) + 1))
             \/ i \in (DOMAIN buckets) \ S /\ p[i] = buckets[i]
    <3>1. p \in Seq(Bucket)
      BY <1>a, <2>4, PutIs
    <3>2. Len(p) = IF S = {} THEN Len(buckets) + 1 ELSE Len(buckets)
      BY <1>a, <2>4, PutIs
    <3>3. \A i \in DOMAIN p :
             \/ p[i] = fresh /\ (i \in S \/ (S = {} /\ i = Len(buckets) + 1))
             \/ i \in (DOMAIN buckets) \ S /\ p[i] = buckets[i]
      BY <1>a, <2>4, PutIs
    <3> QED
      BY <3>1, <3>2, <3>3
  <2>6. DOMAIN p = 1..Len(p) /\ Len(p) \in Nat
    BY <2>5
  <2>7. \A i, j \in DOMAIN buckets : buckets[i].key = buckets[j].key => i = j
    BY <1>a DEF Windows
  <2>8. \A i \in DOMAIN buckets : i \in S <=> buckets[i].key = k
    BY <2>3 DEF Mine
  <2>9. Len(p) <= MaxBuckets
    <3>1. CASE S = {}
      <4>1. \A i \in DOMAIN buckets : buckets[i].key # k
        BY <2>8, <3>1
      <4>2. Len(buckets) + 1 <= Cardinality(ApiKey)
        BY <1>a, <2>7, <4>1, RoomForOne
      <4> QED
        BY <1>b, <1>c, <2>5, <3>1, <4>2
    <3>2. CASE S # {}
      BY <1>a, <2>5, <3>2
    <3> QED
      BY <3>1, <3>2
  <2>10. Refilled(k) = p
    <3>1. Refilled(k) = Capped(p, MaxBuckets)
      BY <1>2, <2>1, <2>3, <2>4 DEF Refilled
    <3>2. ~(Len(p) > MaxBuckets)
      BY <1>b, <2>6, <2>9
    <3> QED
      BY <3>1, <3>2 DEF Capped
  <2>11. \E m \in DOMAIN p : p[m] = fresh
    <3>1. buckets \in Seq(Bucket) /\ S \subseteq DOMAIN buckets
      BY <1>a
    <3>2. /\ \E m \in DOMAIN Put(buckets, S, fresh) : Put(buckets, S, fresh)[m] = fresh
          /\ DOMAIN buckets \subseteq DOMAIN Put(buckets, S, fresh)
      <4> HIDE DEF new
      <4> QED
        BY <3>1, PutHolds, Zenon
    <3> QED
      BY <2>4, <3>2
  <2>12. now < now + Window
    BY <1>a, <1>b
  <2>13. ASSUME NEW r \in Admitted, req[r].apiKey = k PROVE admitted[r] < now
    <3>1. PICK i \in DOMAIN buckets :
            buckets[i].key = k /\ admitted[r] < buckets[i].lastRefill + Window
      BY <1>a, <2>13 DEF Windows
    <3>2. now - buckets[i].lastRefill >= Window
      BY <1>2, <3>1 DEF Expired, Mine
    <3>3. admitted[r] \in Int
      BY <1>a DEF Admitted, Never
    <3> QED
      BY <1>a, <1>b, <1>e, <3>1, <3>2, <3>3
  <2>14. Cardinality(InWindow(fresh)) = 0
    <3>1. ASSUME NEW r \in InWindow(fresh) PROVE FALSE
      <4>1. r \in Admitted /\ req[r].apiKey = k /\ admitted[r] >= now
        BY <2>2 DEF InWindow, Admitted
      <4>2. admitted[r] < now /\ admitted[r] \in Int
        BY <1>a, <2>13, <4>1 DEF Admitted, Never
      <4> QED
        BY <1>a, <4>1, <4>2
    <3>2. InWindow(fresh) = {}
      BY <3>1
    <3> QED
      BY <3>2, FS_EmptySet
  <2>15. Windows(p)
    <3>1. ASSUME NEW i \in DOMAIN p, NEW j \in DOMAIN p, p[i].key = p[j].key PROVE i = j
      <4>1. CASE p[i] = fresh /\ (i \in S \/ (S = {} /\ i = Len(buckets) + 1))
        <5>1. CASE p[j] = fresh /\ (j \in S \/ (S = {} /\ j = Len(buckets) + 1))
          BY <2>7, <2>8, <4>1, <5>1
        <5>2. CASE j \in (DOMAIN buckets) \ S /\ p[j] = buckets[j]
          BY <2>2, <2>8, <3>1, <4>1, <5>2
        <5> QED
          BY <2>5, <5>1, <5>2
      <4>2. CASE i \in (DOMAIN buckets) \ S /\ p[i] = buckets[i]
        <5>1. CASE p[j] = fresh
          BY <2>2, <2>8, <3>1, <4>2, <5>1
        <5>2. CASE j \in (DOMAIN buckets) \ S /\ p[j] = buckets[j]
          BY <2>7, <3>1, <4>2, <5>2
        <5> QED
          BY <2>5, <5>1, <5>2
      <4> QED
        BY <2>5, <4>1, <4>2
    <3>2. \A i \in DOMAIN p : p[i] = fresh \/ (i \in DOMAIN buckets /\ p[i] = buckets[i])
      BY <2>5
    <3>3. ASSUME NEW i \in DOMAIN p
          PROVE  /\ p[i].lastRefill <= now
                 /\ Cardinality(InWindow(p[i])) <= Limit
                 /\ Cardinality(InWindow(p[i])) + p[i].tokens <= Limit
      <4>1. CASE p[i] = fresh
        BY <1>a, <1>b, <2>2, <2>14, <4>1
      <4>2. CASE i \in DOMAIN buckets /\ p[i] = buckets[i]
        BY <1>a, <4>2 DEF Windows
      <4> QED
        BY <3>2, <4>1, <4>2
    <3>4. ASSUME NEW r \in Admitted
          PROVE  \E i \in DOMAIN p :
                   p[i].key = req[r].apiKey /\ admitted[r] < p[i].lastRefill + Window
      <4>1. CASE req[r].apiKey = k
        <5>1. admitted[r] < now + Window
          <6>1. admitted[r] \in Int
            BY <1>a DEF Admitted, Never
          <6> QED
            BY <1>a, <1>b, <2>13, <4>1, <6>1
        <5> QED
          BY <2>2, <2>11, <4>1, <5>1
      <4>2. CASE req[r].apiKey # k
        <5>1. PICK i \in DOMAIN buckets :
                /\ buckets[i].key = req[r].apiKey
                /\ admitted[r] < buckets[i].lastRefill + Window
          BY <1>a DEF Windows
        <5>2. i \notin S /\ i \in DOMAIN p
          BY <1>c, <2>5, <2>6, <2>8, <4>2, <5>1
        <5>3. ~(i \in S \/ (S = {} /\ i = Len(buckets) + 1))
          BY <1>c, <5>1, <5>2
        <5>4. p[i] = buckets[i]
          BY <2>5, <5>2, <5>3
        <5> QED
          BY <5>1, <5>2, <5>4
      <4> QED
        BY <4>1, <4>2
    <3> QED
      BY <3>1, <3>3, <3>4 DEF Windows
  <2> QED
    BY <2>2, <2>10, <2>11, <2>12, <2>15
<1> QED
  BY <1>1, <1>2

\* The limiter takes a token of the arriving request's key: while one is left the
\* request passes, otherwise its window is full.
LEMMA ArriveWindows ==
  ASSUME WindowInv, Cardinality(ApiKey) <= MaxBuckets, NEW r \in Request, Arrive(r)
  PROVE  Windows(buckets)'
<1>1. PICK input \in Inputs : LET k == input.apiKey IN
        /\ req' = [req EXCEPT ![r] = input]
        /\ buckets' = [j \in DOMAIN Refilled(k) |->
                         IF Refilled(k)[j].key = k
                           THEN [Refilled(k)[j] EXCEPT !.tokens = @ - 1] ELSE Refilled(k)[j]]
        /\ IF Tokens(k) > 0
             THEN /\ Goto(r, "lookup") /\ UNCHANGED answer
                  /\ admitted' = [admitted EXCEPT ![r] = now]
             ELSE /\ Goto(r, "commit") /\ Answer(r, "limited", r)
                  /\ UNCHANGED admitted
  BY DEF Arrive
<1>2. PICK k \in ApiKey : k = input.apiKey
  BY ConstantsAssumption
<1>3. Refilled(k) \in Seq(Bucket)
  BY RefilledIs DEF WindowInv
<1>4. PICK s \in Seq(Bucket) : s = Refilled(k)
  BY <1>3
<1>5. Windows(s) /\ \E m \in DOMAIN s : s[m].key = k /\ now < s[m].lastRefill + Window
  BY <1>4, RefilledWindows
<1>6. PICK m \in DOMAIN s : s[m].key = k /\ now < s[m].lastRefill + Window
  BY <1>5
<1>7. \A i \in DOMAIN s : s[i].key = k => i = m
  BY <1>5, <1>6 DEF Windows
<1>8. Tokens(k) = s[m].tokens
  <2> DEFINE kept == {i \in DOMAIN s : s[i].key = k}
  <2>1. kept = {m}
    BY <1>6, <1>7
  <2>2. Tokens(k) = IF kept = {} THEN Limit ELSE s[CHOOSE i \in kept : TRUE].tokens
    BY <1>4 DEF Tokens
  <2>3. (CHOOSE i \in {m} : TRUE) = m
    OBVIOUS
  <2> QED
    BY <2>1, <2>2, <2>3
<1>9. \A i \in DOMAIN s : s[i] \in Bucket
  BY ElementOfSeq
<1>10. /\ now \in Int /\ Limit \in Nat \ {0} /\ Window \in Nat \ {0} /\ MaxTime \in Nat
       /\ admitted \in [Request -> 0..MaxTime \cup {Never}] /\ now \in 0..MaxTime
       /\ req \in [Request -> Inputs \cup {NoRequest}]
  BY ConstantsAssumption DEF WindowInv, Typed, TypeOK
<1>11. r \notin Admitted
  BY DEF Arrive, WindowInv, Admitted
<1>12. req' = [req EXCEPT ![r] = input] /\ now' = now
  BY <1>1 DEF Arrive
<1>13. PICK t : t = [j \in DOMAIN s |-> IF s[j].key = k THEN [s[j] EXCEPT !.tokens = @ - 1] ELSE s[j]]
  OBVIOUS
<1>14. buckets' = t
  BY <1>1, <1>2, <1>4, <1>13
<1>15. DOMAIN t = DOMAIN s
  BY <1>13
<1>16. \A i \in DOMAIN s :
         /\ t[i].key = s[i].key /\ t[i].lastRefill = s[i].lastRefill
         /\ t[i].tokens = IF i = m THEN s[i].tokens - 1 ELSE s[i].tokens
  BY <1>6, <1>7, <1>9, <1>13 DEF Bucket
<1>17. \A i \in DOMAIN s : s[i].tokens \in Int /\ s[i].lastRefill \in Int
  BY <1>9, <1>10 DEF Bucket
<1>18. req'[r].apiKey = k /\ \A q \in Request : q # r => req'[q] = req[q] /\ admitted'[q] = admitted[q]
  BY <1>1, <1>2, <1>10, <1>12
<1>19. \/ s[m].tokens > 0 /\ admitted'[r] = now
       \/ ~(s[m].tokens > 0) /\ admitted' = admitted
  BY <1>1, <1>2, <1>8, <1>10
<1>20. Never \notin 0..MaxTime
  BY <1>10 DEF Never
<1>21. ASSUME NEW q \in Request, admitted'[q] # Never
       PROVE  \E i \in DOMAIN t : /\ t[i].key = req'[q].apiKey
                                  /\ admitted'[q] < t[i].lastRefill + Window
  <2>1. CASE q = r
    <3>1. admitted'[r] = now
      BY <1>11, <1>19, <1>21, <2>1 DEF Admitted
    <3> QED
      BY <1>6, <1>15, <1>16, <1>18, <2>1, <3>1
  <2>2. CASE q # r
    <3>1. q \in Admitted /\ req'[q] = req[q] /\ admitted'[q] = admitted[q]
      BY <1>18, <1>21, <2>2 DEF Admitted
    <3>2. PICK i \in DOMAIN s : s[i].key = req[q].apiKey /\ admitted[q] < s[i].lastRefill + Window
      BY <1>5, <3>1 DEF Windows
    <3> QED
      BY <1>15, <1>16, <3>1, <3>2
  <2> QED
    BY <2>1, <2>2
<1>22. ASSUME NEW i \in DOMAIN s, NEW b, b = t[i]
       PROVE  Cardinality(InWindow(b)') <= Limit /\ Cardinality(InWindow(b)') + b.tokens <= Limit
  <2>1. /\ Cardinality(InWindow(s[i])) <= Limit
        /\ Cardinality(InWindow(s[i])) + s[i].tokens <= Limit
    BY <1>5 DEF Windows
  <2>2. IsFiniteSet(InWindow(s[i])) /\ Cardinality(InWindow(s[i])) \in Nat
    BY InWindowFinite
  <2>3. b.key = s[i].key /\ b.lastRefill = s[i].lastRefill
    BY <1>16, <1>22
  <2>4. r \notin InWindow(s[i])
    BY <1>11, InWindowFinite
  <2>5. \A q \in Request : q # r => (q \in InWindow(b)' <=> q \in InWindow(s[i]))
    BY <1>18, <2>3 DEF InWindow
  <2>6. InWindow(b)' \subseteq Request /\ InWindow(s[i]) \subseteq Request
    BY DEF InWindow
  <2>7. CASE i = m /\ s[m].tokens > 0
    <3>1. InWindow(b)' \subseteq InWindow(s[i]) \cup {r}
      BY <2>5, <2>6
    <3>2. /\ IsFiniteSet(InWindow(s[i]) \cup {r})
          /\ Cardinality(InWindow(s[i]) \cup {r}) = Cardinality(InWindow(s[i])) + 1
      BY <2>2, <2>4, FS_AddElement
    <3>3. /\ Cardinality(InWindow(b)') <= Cardinality(InWindow(s[i]) \cup {r})
          /\ Cardinality(InWindow(b)') \in Nat
      BY <3>1, <3>2, FS_Subset, FS_CardinalityType
    <3>4. b.tokens = s[i].tokens - 1 /\ s[i].tokens \in Int /\ s[i].tokens > 0
      BY <1>16, <1>17, <1>22, <2>7
    <3> QED
      BY <1>10, <2>1, <2>2, <3>2, <3>3, <3>4
  <2>8. CASE ~(i = m /\ s[m].tokens > 0)
    <3>1. r \notin InWindow(b)'
      <4>1. CASE i # m
        <5>1. b.key # k
          BY <1>7, <2>3, <4>1
        <5> QED
          BY <1>18, <5>1 DEF InWindow
      <4>2. CASE ~(s[m].tokens > 0)
        <5>1. admitted'[r] = Never
          BY <1>11, <1>19, <4>2 DEF Admitted
        <5> QED
          BY <5>1 DEF InWindow
      <4> QED
        BY <2>8, <4>1, <4>2
    <3>2. InWindow(b)' = InWindow(s[i])
      <4>1. \A q \in Request : q \in InWindow(b)' <=> q \in InWindow(s[i])
        BY <2>4, <2>5, <3>1
      <4> DEFINE A == InWindow(b)'
                 B == InWindow(s[i])
      <4>2. A \subseteq Request /\ B \subseteq Request /\ \A q \in Request : q \in A <=> q \in B
        BY <2>6, <4>1
      <4> HIDE DEF A, B
      <4>3. A = B
        BY <4>2
      <4> QED
        BY <4>3 DEF A, B
    <3>3. b.tokens \in Int /\ s[i].tokens \in Int /\ b.tokens <= s[i].tokens
      BY <1>16, <1>17, <1>22
    <3> QED
      BY <1>10, <2>1, <2>2, <3>2, <3>3
  <2> QED
    BY <2>7, <2>8
<1>23. ASSUME NEW i \in DOMAIN buckets'
       PROVE  (/\ Cardinality(InWindow(buckets[i])) <= Limit
               /\ Cardinality(InWindow(buckets[i])) + buckets[i].tokens <= Limit)'
  <2>1. PICK b : b = t[i]
    OBVIOUS
  <2>2. i \in DOMAIN s /\ buckets'[i] = b
    BY <1>14, <1>15, <1>23, <2>1
  <2>3. Cardinality(InWindow(b)') <= Limit /\ Cardinality(InWindow(b)') + b.tokens <= Limit
    BY <1>22, <2>1, <2>2
  <2>4. InWindow(buckets[i])' = InWindow(b)'
    BY <2>2 DEF InWindow
  <2> QED
    BY <2>2, <2>3, <2>4
<1>24. ASSUME NEW i \in DOMAIN buckets', NEW j \in DOMAIN buckets', (buckets[i].key = buckets[j].key)'
       PROVE  i = j
  <2>1. i \in DOMAIN s /\ j \in DOMAIN s /\ t[i].key = t[j].key
    BY <1>14, <1>15, <1>24
  <2>2. s[i].key = s[j].key
    BY <1>16, <2>1
  <2> QED
    BY <1>5, <2>1, <2>2 DEF Windows
<1>25. \A i \in DOMAIN buckets' : buckets'[i].lastRefill <= now'
  BY <1>5, <1>12, <1>14, <1>15, <1>16 DEF Windows
<1>26. \A q \in Admitted' : \E i \in DOMAIN buckets' :
         buckets'[i].key = req'[q].apiKey /\ admitted'[q] < buckets'[i].lastRefill + Window
  BY <1>14, <1>21 DEF Admitted
<1> QED
  BY <1>23, <1>24, <1>25, <1>26 DEF Windows

LEMMA WindowStep == WindowInv /\ [Next]_vars => WindowInv'
<1> SUFFICES ASSUME WindowInv, [Next]_vars PROVE WindowInv'
  OBVIOUS
<1>a. /\ Typed /\ Typed' /\ pc \in [Request -> Steps] /\ IsFiniteSet(Admitted)
      /\ admitted \in [Request -> 0..MaxTime \cup {Never}]
      /\ now \in 0..MaxTime /\ MaxTime \in Nat /\ Window \in Nat
      /\ \A r \in Request : pc[r] = "idle" => admitted[r] = Never
      /\ \A r \in Admitted : admitted[r] <= now
  BY TypedStep, ConstantsAssumption DEF WindowInv, Typed, TypeOK
\* A step that leaves the limiter and the requests it let pass alone.
<1>b. ASSUME UNCHANGED <<buckets, admitted>>, now' \in Int, now <= now',
             \A r \in Admitted : req'[r] = req[r],
             \A r \in Request : pc'[r] = "idle" => pc[r] = "idle"
      PROVE  WindowInv'
  <2>1. Admitted' = Admitted
    BY <1>b DEF Admitted
  <2>6. ASSUME NEW b PROVE InWindow(b)' = InWindow(b)
    BY <1>b DEF Admitted, InWindow
  <2>2. IsFiniteSet(Admitted') /\ \A r \in Request : pc'[r] = "idle" => admitted'[r] = Never
    BY <1>a, <1>b, <2>1
  <2>3. \A r \in Admitted : admitted[r] \in Int
    BY <1>a DEF Admitted, Never
  <2>4. \A r \in Admitted' : admitted'[r] <= now'
    BY <1>a, <1>b, <2>1, <2>3
  <2>5. ASSUME Cardinality(ApiKey) <= MaxBuckets PROVE Windows(buckets)'
    <3>1. Windows(buckets) /\ buckets \in Seq(Bucket)
      BY <1>a, <2>5 DEF WindowInv, Typed, TypeOK, Bucket
    <3>2. \A i \in DOMAIN buckets : buckets[i] \in Bucket
      <4>1. buckets \in Seq(Bucket)
        BY <3>1
      <4> QED
        BY <4>1, ElementOfSeq
    <3>3. \A i \in DOMAIN buckets : buckets[i].lastRefill \in 0..MaxTime
      BY <3>2 DEF Bucket
    <3>4. \A i \in DOMAIN buckets : buckets[i].lastRefill <= now
      BY <3>1 DEF Windows
    <3>5. \A i \in DOMAIN buckets : buckets[i].lastRefill <= now'
      BY <1>a, <1>b, <3>3, <3>4
    <3>6. \A r \in Admitted' : \E i \in DOMAIN buckets :
            buckets[i].key = req'[r].apiKey /\ admitted[r] < buckets[i].lastRefill + Window
      BY <1>b, <2>1, <3>1 DEF Windows
    <3> QED
      BY <1>b, <2>6, <3>1, <3>5, <3>6 DEF Windows
  <2> QED
    BY <1>a, <2>2, <2>4, <2>5 DEF WindowInv
<1>c. ASSUME NEW r \in Request, NEW step \in Steps \ {"idle"}, Goto(r, step)
      PROVE  \A q \in Request : pc'[q] = "idle" => q # r /\ pc[q] = "idle"
  BY <1>a, <1>c DEF Goto
<1>1. ASSUME NEW r \in Request, Arrive(r) PROVE WindowInv'
  <2>1. /\ now' = now
        /\ admitted' = admitted \/ admitted' = [admitted EXCEPT ![r] = now]
    BY <1>1 DEF Arrive
  <2>2. \A q \in Request : pc'[q] = "idle" => q # r /\ pc[q] = "idle"
    BY <1>1, <1>c DEF Arrive, Steps
  <2>3. \A q \in Request : q # r => admitted'[q] = admitted[q]
    BY <1>a, <2>1
  <2>4. IsFiniteSet(Admitted')
    <3>1. Admitted' \subseteq Admitted \cup {r}
      BY <2>3 DEF Admitted
    <3>2. IsFiniteSet(Admitted \cup {r})
      BY <1>a, FS_AddElement
    <3> QED
      BY <3>1, <3>2, FS_Subset
  <2>5. \A q \in Admitted' : admitted'[q] <= now'
    <3>1. ASSUME NEW q \in Request, admitted'[q] # Never PROVE admitted'[q] <= now
      <4>1. admitted[q] = admitted'[q] \/ admitted'[q] = now
        BY <1>a, <2>1
      <4>2. CASE admitted[q] = admitted'[q]
        BY <1>a, <3>1, <4>2 DEF Admitted
      <4>3. CASE admitted'[q] = now
        BY <1>a, <4>3
      <4> QED
        BY <4>1, <4>2, <4>3
    <3> QED
      BY <2>1, <3>1 DEF Admitted
  <2>6. Cardinality(ApiKey) <= MaxBuckets => Windows(buckets)'
    BY <1>1, ArriveWindows
  <2>7. \A q \in Request : pc'[q] = "idle" => admitted'[q] = Never
    BY <1>a, <2>2, <2>3
  <2> QED
    BY <1>a, <2>4, <2>5, <2>6, <2>7 DEF WindowInv
<1>2. ASSUME NEW r \in Request, Lookup(r) \/ Handle(r) \/ Save(r) \/ Leaves(r)
      PROVE  WindowInv'
  <2>1. UNCHANGED <<now, buckets, admitted, req>>
    BY <1>2 DEF Lookup, Handle, Save, Leaves, Commit, CommitFails, CommitLost, server, history
  <2>2. \E step \in Steps \ {"idle"} : Goto(r, step)
    <3>1. ASSUME NEW s, Decide(r, s) PROVE \E step \in Steps \ {"idle"} : Goto(r, step)
      BY <3>1 DEF Decide, Steps
    <3>2. CASE Lookup(r)
      BY <3>1, <3>2 DEF Lookup, Steps
    <3>3. CASE Handle(r)
      BY <3>3 DEF Handle, Steps
    <3>4. CASE Save(r) \/ Leaves(r)
      BY <3>4 DEF Save, Leaves, Commit, CommitFails, CommitLost, Steps
    <3> QED
      BY <1>2, <3>2, <3>3, <3>4
  <2>3. \A q \in Request : pc'[q] = "idle" => pc[q] = "idle"
    BY <1>c, <2>2
  <2> QED
    BY <1>a, <1>b, <2>1, <2>3
<1>3. ASSUME Tick PROVE WindowInv'
  <2>1. UNCHANGED <<buckets, admitted, req, pc>> /\ now' = now + 1
    BY <1>3 DEF Tick, server, history
  <2> QED
    BY <1>a, <1>b, <2>1
<1>4. ASSUME Restart PROVE WindowInv'
  <2>1. /\ buckets' = <<>> /\ admitted' = [r \in Request |-> Never]
    BY <1>4 DEF Restart
  <2>2. Admitted' = {} /\ \A r \in Request : admitted'[r] = Never
    BY <2>1 DEF Admitted
  <2>3. IsFiniteSet(Admitted')
    BY <2>2, FS_EmptySet
  <2>4. Windows(buckets)'
    BY <2>1, <2>2 DEF Windows
  <2> QED
    BY <1>a, <2>2, <2>3, <2>4 DEF WindowInv
<1>5. ASSUME UNCHANGED vars PROVE WindowInv'
  <2>1. UNCHANGED <<now, buckets, admitted, req, pc>>
    BY <1>5 DEF vars, server, history
  <2> QED
    BY <1>a, <1>b, <2>1
<1>6. ASSUME NEW r \in Request, ArriveRefused(r) PROVE WindowInv'
  <2>1. /\ UNCHANGED <<now, buckets, admitted>> /\ pc[r] = "idle"
        /\ \E input \in Inputs : req' = [req EXCEPT ![r] = input]
        /\ Goto(r, "done")
    BY <1>6 DEF ArriveRefused, server
  <2>2. r \notin Admitted
    BY <1>a, <2>1 DEF Admitted
  <2>3. req \in [Request -> Inputs \cup {NoRequest}]
    BY <1>a DEF Typed, TypeOK
  <2>4. \A q \in Admitted : req'[q] = req[q]
    BY <2>1, <2>2, <2>3 DEF Admitted
  <2>5. \A q \in Request : pc'[q] = "idle" => pc[q] = "idle"
    BY <1>c, <2>1 DEF Steps
  <2> QED
    BY <1>a, <1>b, <2>1, <2>4, <2>5
<1> QED
  BY <1>1, <1>2, <1>3, <1>4, <1>5, <1>6 DEF Next, Leaves

LEMMA WindowInit == Init => WindowInv
<1> SUFFICES ASSUME Init PROVE WindowInv
  OBVIOUS
<1>1. Typed /\ buckets = <<>> /\ \A r \in Request : admitted[r] = Never
  BY TypedInit DEF Init
<1>2. Admitted = {}
  BY <1>1 DEF Admitted
<1>3. IsFiniteSet(Admitted)
  BY <1>2, FS_EmptySet
<1>4. Windows(buckets)
  BY <1>1, <1>2 DEF Windows
<1> QED
  BY <1>1, <1>2, <1>3, <1>4 DEF WindowInv

\* Where there are no more API keys than buckets, at most Limit requests of a key
\* pass the limiter in the window of its bucket.
THEOREM LimiterHolds == Spec => []WindowHoldsLimit
<1>1. WindowInv => WindowHoldsLimit
  BY DEF WindowInv, Windows, WindowHoldsLimit
<1> QED
  BY <1>1, WindowInit, WindowStep, PTL DEF Spec
-----------------------------------------------------------------------------
(* Retries.  The store lists routes in an order the log explains: of two      *)
(* entries, the later one's route was stored at or after some storing of the  *)
(* earlier one's.  So an entry that is first when the store overflows has had *)
(* MaxStore other routes stored since its own first was, and a response the   *)
(* server should remember is neither evicted nor expired: a retry finds it.   *)

Stamp == [by : Request, at : 0..MaxTime]
RouteAt(l) == RouteOf(log[l].by)

\* A list of entries in an order the log explains, each no older than any
\* response stored for its route.
Lists(s) ==
  /\ \A i, j \in DOMAIN s : s[i].route = s[j].route => i = j
  /\ \A i \in DOMAIN s, l \in DOMAIN log : RouteAt(l) = s[i].route => log[l].at <= s[i].at
  /\ \A i, j \in DOMAIN s : i <= j =>
       \E f, l \in DOMAIN log : f <= l /\ RouteAt(f) = s[i].route /\ RouteAt(l) = s[j].route

Recalls(s) ==
  \A q \in Request : Remembered(q) => \E i \in DOMAIN s : s[i].route = RouteOf(q)

OnceInv ==
  /\ Typed
  /\ \A l \in DOMAIN log : pc[log[l].by] \in {"commit", "done"} /\ log[l].at <= now
  /\ Lists(store) /\ Recalls(store)
  /\ \A r \in Request : \A q \in before[r] :
       /\ pc[q] = "done"
       /\ pc[r] = "handle" /\ SameRoute(q, r) => ~Remembered(q)

\* A later place has the higher rank.
LEMMA RankGrows ==
  ASSUME NEW n \in Nat, NEW S, S \subseteq 1..n, NEW a \in S, NEW b \in S, a < b
  PROVE  Rank(S, a) < Rank(S, b)
<1>1. IsFiniteSet(S)
  <2>1. 1 \in Int /\ n \in Int
    OBVIOUS
  <2>2. IsFiniteSet(1..n)
    BY <2>1, FS_Interval
  <2> QED
    BY <2>2, FS_Subset
<1>2. Upto(S, b) \subseteq S /\ Upto(S, a) \cup {b} \subseteq Upto(S, b) /\ b \notin Upto(S, a)
  <2>1. \A k \in S : k \in Int /\ a \in Int /\ b \in Int /\ (k <= a => k <= b)
        /\ ~(b <= a) /\ b <= b
    OBVIOUS
  <2> QED
    BY <2>1 DEF Upto
<1>3. IsFiniteSet(Upto(S, b)) /\ Cardinality(Upto(S, b)) \in Nat
  BY <1>1, <1>2, FS_Subset, FS_CardinalityType
<1>4. IsFiniteSet(Upto(S, a)) /\ Cardinality(Upto(S, a)) \in Nat
  <2>1. Upto(S, a) \subseteq S
    BY DEF Upto
  <2> QED
    BY <1>1, <2>1, FS_Subset, FS_CardinalityType
<1>5. Cardinality(Upto(S, a) \cup {b}) = Cardinality(Upto(S, a)) + 1
  BY <1>2, <1>4, FS_AddElement
<1>6. Cardinality(Upto(S, a) \cup {b}) <= Cardinality(Upto(S, b))
  BY <1>2, <1>3, FS_Subset
<1>7. Cardinality(Upto(S, a)) < Cardinality(Upto(S, b))
  BY <1>3, <1>4, <1>5, <1>6
<1> QED
  BY <1>7 DEF Rank, Upto

\* Keeping some places of a list keeps every one of them, in order.
LEMMA OnlyKeeps ==
  ASSUME NEW T, NEW s \in Seq(T), NEW S, S \subseteq DOMAIN s
  PROVE  \E at \in [DOMAIN Only(s, S) -> S] :
           /\ \A i \in DOMAIN Only(s, S) : Only(s, S)[i] = s[at[i]]
           /\ \A i, j \in DOMAIN Only(s, S) : i <= j => at[i] <= at[j]
           /\ \A i, j \in DOMAIN Only(s, S) : at[i] = at[j] => i = j
           /\ \A j \in S : \E i \in DOMAIN Only(s, S) : at[i] = j
<1> DEFINE n == Cardinality(S)
           at == [i \in 1..n |-> CHOOSE j \in S : Rank(S, j) = i]
<1>1. Len(s) \in Nat /\ DOMAIN s = 1..Len(s) /\ S \subseteq 1..Len(s) /\ S \subseteq Nat
  OBVIOUS
<1>2. IsFiniteSet(S) /\ n \in Nat
  <2>1. 1 \in Int /\ Len(s) \in Int
    BY <1>1
  <2>2. IsFiniteSet(1..Len(s))
    BY <2>1, FS_Interval
  <2> QED
    BY <1>1, <2>2, FS_Subset, FS_CardinalityType
<1>3. ASSUME NEW i \in 1..n PROVE at[i] \in S /\ Rank(S, at[i]) = i
  <2>1. \E j \in S : Rank(S, j) = i
    BY <1>1, RankTaken
  <2> QED
    BY <2>1
<1>4. Only(s, S) = [i \in 1..n |-> s[at[i]]]
  BY DEF Only
<1>5. ASSUME NEW j \in S PROVE Rank(S, j) \in 1..n
  <2>1. Upto(S, j) \subseteq S /\ j \in Upto(S, j)
    BY <1>1 DEF Upto
  <2>2. IsFiniteSet(Upto(S, j)) /\ Cardinality(Upto(S, j)) \in Nat /\ Cardinality(Upto(S, j)) <= n
    BY <1>2, <2>1, FS_Subset, FS_CardinalityType
  <2>3. Cardinality(Upto(S, j)) # 0
    BY <2>1, <2>2, FS_EmptySet
  <2>4. Cardinality(Upto(S, j)) \in 1..n
    BY <1>2, <2>2, <2>3
  <2> QED
    BY <2>4 DEF Rank, Upto
<1>6. at \in [1..n -> S]
  BY <1>3
<1> HIDE DEF at, n
<1>7. ASSUME NEW a \in S, NEW b \in S, a < b PROVE Rank(S, a) < Rank(S, b)
  BY <1>1, <1>7, RankGrows
<1>8. ASSUME NEW i \in 1..n, NEW j \in 1..n, i <= j PROVE at[i] <= at[j]
  <2>1. at[i] \in S /\ at[j] \in S /\ Rank(S, at[i]) = i /\ Rank(S, at[j]) = j
    BY <1>3
  <2>2. ~(at[j] < at[i])
    BY <1>2, <1>7, <1>8, <2>1
  <2>3. at[i] \in Nat /\ at[j] \in Nat
    BY <1>1, <2>1
  <2> QED
    BY <2>2, <2>3
<1>9. ASSUME NEW j \in S PROVE \E i \in 1..n : at[i] = j
  <2>1. PICK i \in 1..n : i = Rank(S, j)
    BY <1>5
  <2>2. at[i] \in S /\ Rank(S, at[i]) = Rank(S, j)
    BY <1>3, <2>1
  <2>3. Rank(S, j) \in Nat
    BY <1>2, <1>5
  <2>4. ~(at[i] < j) /\ ~(j < at[i])
    BY <1>7, <2>2, <2>3
  <2>5. at[i] \in Nat /\ j \in Nat
    BY <1>1, <2>2
  <2>6. at[i] = j
    BY <2>4, <2>5
  <2> QED
    BY <2>6
<1>10. DOMAIN Only(s, S) = 1..n
  BY <1>4
<1>11. \A i, j \in 1..n : at[i] = at[j] => i = j
  BY <1>3
<1>12. \A i \in 1..n : Only(s, S)[i] = s[at[i]]
  BY <1>4
<1>13. at \in [DOMAIN Only(s, S) -> S]
  BY <1>6, <1>10
<1>14. \A i, j \in 1..n : i <= j => at[i] <= at[j]
  BY <1>8
<1>15. \A j \in S : \E i \in 1..n : at[i] = j
  BY <1>9
<1> WITNESS at \in [DOMAIN Only(s, S) -> S]
<1> QED
  BY <1>10, <1>11, <1>12, <1>14, <1>15

LEMMA FirstPlace ==
  ASSUME NEW n \in Nat, NEW S, S \subseteq 1..n, NEW i \in S
  PROVE  \E m \in S : m <= i /\ \A j \in 1..(m - 1) : j \notin S
<1>1. PICK m \in S : \A j \in S : m <= j
  <2>1. S \subseteq Nat
    OBVIOUS
  <2> QED
    BY <2>1, LeastOf
<1>2. \A j \in 1..(m - 1) : ~(m <= j)
  OBVIOUS
<1> QED
  BY <1>1, <1>2

\* Where q's route first was stored.
LEMMA FirstIs ==
  ASSUME log \in Seq(Stamp), NEW q, NEW i \in DOMAIN log, RouteAt(i) = RouteOf(q)
  PROVE  /\ First(q) \in DOMAIN log /\ RouteAt(First(q)) = RouteOf(q) /\ First(q) <= i
         /\ \A j \in 1..(First(q) - 1) : RouteAt(j) # RouteOf(q)
<1>1. Len(log) \in Nat /\ DOMAIN log = 1..Len(log)
  OBVIOUS
<1>2. PICK S : S = {j \in DOMAIN log : RouteAt(j) = RouteOf(q)}
  OBVIOUS
<1>3. \A j \in DOMAIN log : j \in S <=> SameRoute(log[j].by, q)
  BY <1>2, SameRouteIs DEF RouteAt
<1>4. PICK m \in S : m <= i /\ \A j \in 1..(m - 1) : j \notin S
  BY <1>1, <1>2, FirstPlace
<1>5. m \in DOMAIN log /\ SameRoute(log[m].by, q) /\ \A j \in 1..(m - 1) : ~SameRoute(log[j].by, q)
  <2>1. \A j \in 1..(m - 1) : j \in DOMAIN log
    BY <1>1, <1>2, <1>4
  <2> QED
    BY <1>2, <1>3, <1>4, <2>1
<1>6. /\ First(q) \in DOMAIN log /\ SameRoute(log[First(q)].by, q)
      /\ \A j \in 1..(First(q) - 1) : ~SameRoute(log[j].by, q)
  BY <1>5 DEF First
<1>7. ~(i < First(q))
  <2>1. ASSUME i < First(q) PROVE i \in 1..(First(q) - 1)
    BY <1>1, <1>6, <2>1
  <2>2. SameRoute(log[i].by, q)
    BY SameRouteIs DEF RouteAt
  <2> QED
    BY <1>6, <2>1, <2>2
<1>8. \A j \in 1..(First(q) - 1) : RouteAt(j) # RouteOf(q)
  BY <1>6, SameRouteIs DEF RouteAt
<1>9. RouteAt(First(q)) = RouteOf(q)
  BY <1>6, SameRouteIs DEF RouteAt
<1>10. First(q) <= i
  BY <1>1, <1>6, <1>7
<1> QED
  BY <1>6, <1>8, <1>9, <1>10

\* The same of the next state.
LEMMA FirstIsNext ==
  ASSUME log' \in Seq(Stamp), NEW q, NEW i \in DOMAIN log', RouteAt(i)' = RouteOf(q)'
  PROVE  /\ First(q)' \in DOMAIN log' /\ First(q)' <= i
         /\ \E m : m = First(q)' /\ RouteAt(m)' = RouteOf(q)'
                   /\ \A j \in 1..(m - 1) : RouteAt(j)' # RouteOf(q)'
<1>1. Len(log') \in Nat /\ DOMAIN log' = 1..Len(log')
  OBVIOUS
<1>0. \A j : SameRoute(log[j].by, q)' <=> RouteAt(j)' = RouteOf(q)'
  BY DEF SameRoute, RouteAt, RouteOf
<1>2. PICK S : S = {j \in DOMAIN log' : RouteAt(j)' = RouteOf(q)'}
  OBVIOUS
<1>3. \A j \in DOMAIN log' : j \in S <=> SameRoute(log[j].by, q)'
  BY <1>0, <1>2
<1>4. PICK m \in S : m <= i /\ \A j \in 1..(m - 1) : j \notin S
  BY <1>1, <1>2, FirstPlace
<1>5. m \in DOMAIN log' /\ SameRoute(log[m].by, q)'
      /\ \A j \in 1..(m - 1) : ~SameRoute(log[j].by, q)'
  <2>1. \A j \in 1..(m - 1) : j \in DOMAIN log'
    BY <1>1, <1>2, <1>4
  <2> QED
    BY <1>2, <1>3, <1>4, <2>1
<1>6. PICK f : f = First(q)'
  OBVIOUS
<1>7. /\ f \in DOMAIN log' /\ SameRoute(log[f].by, q)'
      /\ \A j \in 1..(f - 1) : ~SameRoute(log[j].by, q)'
  BY <1>5, <1>6 DEF First
<1>8. ~(i < f)
  <2>1. ASSUME i < f PROVE i \in 1..(f - 1)
    BY <1>1, <1>7, <2>1
  <2> QED
    BY <1>0, <1>7, <2>1
<1>9. f <= i
  BY <1>1, <1>7, <1>8
<1> QED
  BY <1>0, <1>6, <1>7, <1>9

\* What the server should remember after a step, it should have before: responses
\* age, and the crowd behind one grows.
LEMMA MemoryFades ==
  ASSUME Typed, Typed', NEW q \in Request, now <= now',
         \A l \in DOMAIN log : pc[log[l].by] # "idle",
         DOMAIN log \subseteq DOMAIN log', \A l \in DOMAIN log : log'[l] = log[l],
         \A l \in DOMAIN log' : log'[l].by = q => l \in DOMAIN log,
         \A p \in Request : pc[p] # "idle" => req'[p] = req[p],
         Remembered(q)'
  PROVE  Remembered(q) /\ RouteOf(q)' = RouteOf(q)
<1>1. /\ log \in Seq(Stamp) /\ log' \in Seq(Stamp) /\ now \in Int /\ now' \in Int
      /\ TTL \in Int /\ MaxTime \in Int /\ MaxStore \in Int
  BY ConstantsAssumption DEF Typed, TypeOK, Stamp
<1>2. /\ Len(log) \in Nat /\ DOMAIN log = 1..Len(log)
      /\ Len(log') \in Nat /\ DOMAIN log' = 1..Len(log') /\ Len(log) <= Len(log')
  <2>1. Len(log) \in Nat /\ DOMAIN log = 1..Len(log) /\ Len(log') \in Nat /\ DOMAIN log' = 1..Len(log')
    BY <1>1
  <2>2. Len(log) = 0 \/ Len(log) \in DOMAIN log'
    BY <2>1
  <2> QED
    BY <2>1, <2>2
<1>3. \A l \in DOMAIN log : log[l] \in Stamp
  BY <1>1, ElementOfSeq
<1>4. \A l \in DOMAIN log : log[l].by \in Request /\ log[l].at \in Int
  BY <1>1, <1>3 DEF Stamp
<1>5. PICK l \in DOMAIN log : log[l].by = q /\ now' - log[l].at <= TTL
  <2>1. PICK l \in DOMAIN log' : log'[l].by = q /\ now' - log'[l].at <= TTL
    BY DEF Remembered
  <2> QED
    BY <2>1
<1>6. now - log[l].at <= TTL
  BY <1>1, <1>4, <1>5
<1>7. RouteOf(q)' = RouteOf(q) /\ \A i \in DOMAIN log : RouteAt(i)' = RouteAt(i)
  BY <1>4, <1>5 DEF RouteOf, RouteAt
<1>8. RouteAt(l) = RouteOf(q) /\ RouteAt(l)' = RouteOf(q)'
  BY <1>5, <1>7 DEF RouteAt
<1>9. PICK f : f = First(q)
  OBVIOUS
<1>10. /\ f \in DOMAIN log /\ RouteAt(f) = RouteOf(q)
       /\ \A j \in 1..(f - 1) : RouteAt(j) # RouteOf(q)
  BY <1>1, <1>8, <1>9, FirstIs
<1>11. f \in DOMAIN log' /\ RouteAt(f)' = RouteOf(q)'
  BY <1>7, <1>10
<1>12. PICK m : /\ m = First(q)' /\ m \in DOMAIN log' /\ m <= f /\ RouteAt(m)' = RouteOf(q)'
  BY <1>1, <1>11, FirstIsNext
<1>13. m = f
  <2>1. m \in DOMAIN log
    BY <1>2, <1>10, <1>12
  <2>2. RouteAt(m) = RouteOf(q)
    BY <1>7, <1>12, <2>1
  <2>3. ~(m < f)
    <3>1. m < f => m \in 1..(f - 1)
      BY <1>2, <1>10, <2>1
    <3> QED
      BY <1>10, <2>2, <3>1
  <2> QED
    BY <1>2, <1>10, <1>12, <2>1, <2>3
<1>14. Crowd(q) \subseteq Crowd(q)'
  <2>1. Crowd(q) = {RouteAt(i) : i \in f..Len(log)}
    BY <1>9 DEF Crowd, RouteAt
  <2>2. Crowd(q)' = {RouteAt(i)' : i \in f..Len(log')}
    BY <1>12, <1>13 DEF Crowd, RouteAt
  <2>3. ASSUME NEW i \in f..Len(log) PROVE i \in f..Len(log') /\ RouteAt(i) = RouteAt(i)'
    BY <1>2, <1>7, <1>10
  <2> QED
    BY <2>1, <2>2, <2>3
<1>15. IsFiniteSet(Crowd(q)')
  <2>a. f \in Int /\ Len(log') \in Int
    BY <1>2, <1>10
  <2>b. PICK a \in Int : a = f
    BY <2>a
  <2>1. PICK b \in Int : b = Len(log')
    BY <2>a
  <2>2. PICK g : g = [i \in a..b |-> RouteAt(i)']
    OBVIOUS
  <2>c. Crowd(q)' = {RouteAt(i)' : i \in a..b}
    BY <1>12, <1>13, <2>b, <2>1 DEF Crowd, RouteAt
  <2>d. \A i \in a..b : g[i] = RouteAt(i)'
    BY <2>2
  <2>3. Crowd(q)' = {g[i] : i \in a..b}
    BY <2>c, <2>d
  <2>4. PICK R : R = {g[i] : i \in a..b}
    OBVIOUS
  <2>5. g \in Surjection(a..b, R) /\ IsFiniteSet(a..b)
    BY <2>2, <2>4, FS_Interval DEF Surjection
  <2>6. IsFiniteSet(R)
    BY <2>5, FS_Surjection
  <2> QED
    BY <2>3, <2>4, <2>6
<1>16. Cardinality(Crowd(q)) <= MaxStore
  <2>1. Cardinality(Crowd(q)') <= MaxStore
    BY DEF Remembered
  <2>2. Cardinality(Crowd(q)) <= Cardinality(Crowd(q)')
        /\ Cardinality(Crowd(q)) \in Nat /\ Cardinality(Crowd(q)') \in Nat
    BY <1>14, <1>15, FS_Subset, FS_CardinalityType
  <2> QED
    BY <1>1, <2>1, <2>2
<1> QED
  BY <1>5, <1>6, <1>7, <1>16 DEF Remembered

\* Behind the entry a list names first stand as many routes as the list has.
LEMMA CrowdedOut ==
  ASSUME log' \in Seq(Stamp), NEW p \in Seq(Entry), Lists(p)', NEW q \in Request,
         1 \in DOMAIN p, p[1].route = RouteOf(q)'
  PROVE  Len(p) <= Cardinality(Crowd(q)') /\ Cardinality(Crowd(q)') \in Nat
<1>1. /\ Len(log') \in Nat /\ DOMAIN log' = 1..Len(log')
      /\ Len(p) \in Nat /\ DOMAIN p = 1..Len(p)
  OBVIOUS
<1>2. PICK m : m = First(q)'
  OBVIOUS
<1>3. ASSUME NEW j \in DOMAIN p
      PROVE  m \in Int /\ \E l \in m..Len(log') : RouteAt(l)' = p[j].route
  <2>1. 1 <= j
    BY <1>1
  <2>2. PICK f, l \in DOMAIN log' : f <= l /\ RouteAt(f)' = p[1].route /\ RouteAt(l)' = p[j].route
    BY <2>1 DEF Lists
  <2>3. m \in DOMAIN log' /\ m <= f
    BY <1>2, <2>2, FirstIsNext
  <2> QED
    BY <1>1, <2>2, <2>3
<1>4. m \in Int
  BY <1>3
<1>a. PICK a \in Int : a = m
  BY <1>4
<1>e. Len(log') \in Int
  BY <1>1
<1>d. PICK b \in Int : b = Len(log')
  BY <1>e
<1>b. PICK g : g = [i \in a..b |-> RouteAt(i)']
  OBVIOUS
<1>c. PICK C : C = {g[i] : i \in a..b}
  OBVIOUS
<1> DEFINE h == [j \in 1..Len(p) |-> p[j].route]
           I == 1..Len(p)
<1>5. Crowd(q)' = C
  BY <1>2, <1>a, <1>b, <1>c, <1>d DEF Crowd, RouteAt
<1>6. h \in [I -> C]
  <2>1. ASSUME NEW j \in I PROVE p[j].route \in C
    <3>1. PICK l \in m..Len(log') : RouteAt(l)' = p[j].route
      BY <1>1, <1>3
    <3>2. l \in a..b /\ g[l] = p[j].route
      BY <1>a, <1>b, <1>d, <3>1
    <3> QED
      BY <1>c, <3>2
  <2> QED
    BY <2>1
<1>7. \A i, j \in I : h[i] = h[j] => i = j
  BY <1>1 DEF Lists
<1>8. IsFiniteSet(I) /\ Cardinality(I) = Len(p)
  <2>1. 1 \in Int /\ Len(p) \in Int
    BY <1>1
  <2>2. IsFiniteSet(I) /\ Cardinality(I) = IF 1 > Len(p) THEN 0 ELSE Len(p) - 1 + 1
    BY <2>1, FS_Interval
  <2> QED
    BY <1>1, <2>2
<1> HIDE DEF h, I
<1>9. IsFiniteSet(C)
  <2>1. g \in Surjection(a..b, C) /\ IsFiniteSet(a..b)
    BY <1>b, <1>c, FS_Interval DEF Surjection
  <2> QED
    BY <2>1, FS_Surjection
<1>10. Cardinality(C) \in Nat
  BY <1>9, FS_CardinalityType
<1>11. ~(Cardinality(C) < Cardinality(I))
  <2>1. ASSUME Cardinality(C) < Cardinality(I) PROVE FALSE
    <3>1. \E i, j \in I : i # j /\ h[i] = h[j]
      BY <1>6, <1>8, <1>9, <2>1, FS_PigeonHole
    <3> QED
      BY <1>7, <3>1
  <2> QED
    BY <2>1
<1>12. Len(p) <= Cardinality(C)
  BY <1>1, <1>8, <1>10, <1>11
<1> QED
  BY <1>5, <1>10, <1>12

\* A response the server should remember has its route in the store, still fresh.
LEMMA RememberedIsFresh ==
  ASSUME OnceInv, NEW q \in Request, Remembered(q)
  PROVE  \E i \in Fresh : store[i].route = RouteOf(q)
<1>1. PICK l \in DOMAIN log : log[l].by = q /\ now - log[l].at <= TTL
  BY DEF Remembered
<1>2. PICK i \in DOMAIN store : store[i].route = RouteOf(q)
  BY DEF OnceInv, Recalls
<1>3. log[l].at <= store[i].at
  BY <1>1, <1>2 DEF OnceInv, Lists, RouteAt
<1>4. /\ log \in Seq(Stamp) /\ store \in Seq(Entry) /\ now \in Int /\ TTL \in Int /\ MaxTime \in Int
  BY ConstantsAssumption DEF OnceInv, Typed, TypeOK, Stamp
<1>5. log[l] \in Stamp /\ store[i] \in Entry
  BY <1>4, ElementOfSeq
<1>6. log[l].at \in Int /\ store[i].at \in Int
  BY <1>4, <1>5 DEF Stamp, Entry
<1>7. now - store[i].at <= TTL
  BY <1>1, <1>3, <1>4, <1>6
<1> QED
  BY <1>2, <1>7 DEF Fresh

\* A step that is no restart: time passes, the log only grows, and a request under
\* way asks what it asked and never goes back.
LEMMA GoesForward ==
  ASSUME OnceInv, NEW r, (r \in Request /\ Acts(r)) \/ Tick \/ UNCHANGED vars
  PROVE  /\ now <= now' /\ now' \in Int
         /\ DOMAIN log \subseteq DOMAIN log' /\ \A l \in DOMAIN log : log'[l] = log[l]
         /\ log' = log \/ (Save(r) /\ r \in Request /\ log' = Append(log, [by |-> r, at |-> now]))
         /\ \A p \in Request : pc[p] # "idle" => req'[p] = req[p]
         /\ \A p \in Request : pc[p] = "done" => pc'[p] = "done"
         /\ \A p \in Request : pc[p] = "commit" => pc'[p] \in {"commit", "done"}
<1>1. /\ Typed /\ now \in Int /\ log \in Seq(Stamp) /\ pc \in [Request -> Steps]
      /\ req \in [Request -> Inputs \cup {NoRequest}]
  BY ConstantsAssumption DEF OnceInv, Typed, TypeOK, Stamp
<1>2. CASE r \in Request /\ Acts(r)
  <2>1. now' = now
    BY <1>2 DEF Acts, Arrive, ArriveRefused, Lookup, Handle, Save, Leaves, Commit, CommitFails, CommitLost
  <2>2. log' = log \/ (Save(r) /\ r \in Request /\ log' = Append(log, [by |-> r, at |-> now]))
    BY <1>2 DEF Acts, Arrive, ArriveRefused, Lookup, Handle, Save, Leaves, Commit, CommitFails,
                CommitLost, history
  <2>3. DOMAIN log \subseteq DOMAIN log' /\ \A l \in DOMAIN log : log'[l] = log[l]
    <3>1. CASE log' = log
      BY <3>1
    <3>2. CASE log' = Append(log, [by |-> r, at |-> now])
      BY <1>1, <3>2
    <3> QED
      BY <2>2, <3>1, <3>2
  <2>4. ASSUME NEW p \in Request, p # r PROVE pc'[p] = pc[p] /\ req'[p] = req[p]
    BY <1>1, <1>2, <2>4, OthersStay
  <2>5. /\ pc[r] # "done" /\ (pc[r] # "idle" => req' = req)
        /\ (pc[r] = "commit" => pc'[r] \in {"commit", "done"})
    BY <1>1, <1>2 DEF Acts, Arrive, ArriveRefused, Lookup, Handle, Save, Leaves, Commit,
                      CommitFails, CommitLost, Goto
  <2>6. ASSUME NEW p \in Request
        PROVE  /\ pc[p] # "idle" => req'[p] = req[p]
               /\ pc[p] = "done" => pc'[p] = "done"
               /\ pc[p] = "commit" => pc'[p] \in {"commit", "done"}
    BY <2>4, <2>5
  <2> QED
    BY <1>1, <2>1, <2>2, <2>3, <2>6
<1>3. CASE Tick \/ UNCHANGED vars
  <2>1. /\ now' = now + 1 \/ now' = now
        /\ log' = log /\ pc' = pc /\ req' = req
    BY <1>3 DEF Tick, vars, server, history
  <2> QED
    BY <1>1, <2>1
<1> QED
  BY <1>2, <1>3

\* A list that loses the entry it names first keeps the order of the others.
LEMMA TailLists ==
  ASSUME NEW p \in Seq(Entry), Len(p) > 0, Lists(p)'
  PROVE  Lists(Tail(p))' /\ \A i \in DOMAIN p : i # 1 => \E j \in DOMAIN Tail(p) : Tail(p)[j] = p[i]
<1>1. /\ Len(p) \in Nat /\ DOMAIN p = 1..Len(p)
      /\ DOMAIN Tail(p) = 1..(Len(p) - 1) /\ \A i \in 1..(Len(p) - 1) : Tail(p)[i] = p[i + 1]
  BY EmptySeq, HeadTailProperties
<1>2. ASSUME NEW i \in DOMAIN Tail(p) PROVE i + 1 \in DOMAIN p /\ i \in Int /\ Tail(p)[i] = p[i + 1]
  BY <1>1
<1>3. \A i, j \in DOMAIN Tail(p) : Tail(p)[i].route = Tail(p)[j].route => i = j
  <2>1. ASSUME NEW i \in DOMAIN Tail(p), NEW j \in DOMAIN Tail(p),
               Tail(p)[i].route = Tail(p)[j].route
        PROVE  i = j
    <3>1. i + 1 = j + 1
      BY <1>2, <2>1 DEF Lists
    <3> QED
      BY <1>2, <3>1
  <2> QED
    BY <2>1
<1>4. ASSUME NEW i \in DOMAIN Tail(p), NEW l \in DOMAIN log', RouteAt(l)' = Tail(p)[i].route
      PROVE  log'[l].at <= Tail(p)[i].at
  BY <1>2, <1>4 DEF Lists
<1>5. ASSUME NEW i \in DOMAIN Tail(p), NEW j \in DOMAIN Tail(p), i <= j
      PROVE  \E f, l \in DOMAIN log' :
               f <= l /\ RouteAt(f)' = Tail(p)[i].route /\ RouteAt(l)' = Tail(p)[j].route
  <2>1. i + 1 <= j + 1
    BY <1>2, <1>5
  <2> QED
    BY <1>2, <2>1 DEF Lists
<1>6. ASSUME NEW i \in DOMAIN p, i # 1 PROVE \E j \in DOMAIN Tail(p) : Tail(p)[j] = p[i]
  <2>1. i - 1 \in DOMAIN Tail(p) /\ i = (i - 1) + 1
    BY <1>1, <1>6
  <2> QED
    BY <1>1, <2>1
<1> QED
  BY <1>3, <1>4, <1>5, <1>6 DEF Lists

\* A response is stored: its route is listed, and what the bound evicts has MaxStore
\* other routes behind it.
LEMMA SavedLists ==
  ASSUME OnceInv, Typed', NEW r \in Request, Save(r), store' = Saved(r),
         log' = Append(log, [by |-> r, at |-> now])
  PROVE  Lists(store)' /\ Recalls(store)'
<1>1. /\ log \in Seq(Stamp) /\ log' \in Seq(Stamp) /\ store \in Seq(Entry) /\ now \in Int
      /\ MaxStore \in Nat /\ Len(store) <= MaxStore /\ MaxTime \in Int /\ Typed
      /\ now \in 0..MaxTime /\ pc[r] = "save" /\ req[r] \in Inputs /\ req' = req /\ now' = now
  <2>1. Typed
    BY DEF OnceInv
  <2>2. log \in Seq(Stamp) /\ store \in Seq(Entry) /\ Len(store) <= MaxStore /\ now \in 0..MaxTime
    BY <2>1 DEF Typed, TypeOK, Stamp
  <2>3. log' \in Seq(Stamp)
    BY DEF Typed, TypeOK, Stamp
  <2>4. MaxStore \in Nat /\ MaxTime \in Int /\ now \in Int
    BY <2>2, ConstantsAssumption
  <2>5. pc[r] = "save" /\ req' = req /\ now' = now
    BY DEF Save
  <2>6. req[r] \in Inputs
    BY <2>1, <2>5 DEF Typed, Asking
  <2> QED
    BY <2>1, <2>2, <2>3, <2>4, <2>5, <2>6
<1>2. /\ Len(log) \in Nat /\ DOMAIN log = 1..Len(log) /\ DOMAIN log' = 1..(Len(log) + 1)
      /\ log'[Len(log) + 1] = [by |-> r, at |-> now] /\ \A l \in DOMAIN log : log'[l] = log[l]
  BY <1>1
<1>3. PICK n : n = Len(log) + 1
  OBVIOUS
<1>4. /\ n \in DOMAIN log' /\ DOMAIN log \subseteq DOMAIN log'
      /\ log'[n].by = r /\ log'[n].at = now
      /\ \A l \in DOMAIN log' : l <= n /\ (l = n \/ l \in DOMAIN log)
  BY <1>2, <1>3
<1>5. /\ RouteAt(n)' = RouteOf(r) /\ \A q : RouteOf(q)' = RouteOf(q)
      /\ \A l \in DOMAIN log : RouteAt(l)' = RouteAt(l) /\ log'[l].at = log[l].at
  BY <1>1, <1>2, <1>4 DEF RouteAt, RouteOf
<1>6. PICK d \in Entry : d = [route |-> RouteOf(r), body |-> req[r].body, by |-> r, at |-> now]
  BY <1>1, SavedEntryIs
<1>7. d.route = RouteOf(r) /\ d.at = now
  BY <1>6
<1>8. PICK S \in SUBSET DOMAIN store : S = Known(r)
  BY DEF Known
<1>9. \A i \in DOMAIN store : i \in S <=> store[i].route = RouteOf(r)
  BY <1>8 DEF Known
<1>10. PICK p : p = Put(store, S, d)
  OBVIOUS
<1>11. p \in Seq(Entry) /\ Len(p) = IF S = {} THEN Len(store) + 1 ELSE Len(store)
  BY <1>1, <1>10, PutIs
<1>12. \A i \in DOMAIN p :
         \/ p[i] = d /\ (i \in S \/ (S = {} /\ i = Len(store) + 1))
         \/ i \in (DOMAIN store) \ S /\ p[i] = store[i]
  BY <1>1, <1>10, PutIs
<1>13. (\E m \in DOMAIN p : p[m] = d) /\ DOMAIN store \subseteq DOMAIN p
  BY <1>1, <1>10, PutHolds
<1>14. Len(store) \in Nat /\ DOMAIN store = 1..Len(store) /\ Len(p) \in Nat /\ DOMAIN p = 1..Len(p)
  BY <1>1, <1>11
<1>15. \A i \in DOMAIN store : p[i].route = store[i].route
  <2>1. ASSUME NEW i \in DOMAIN store PROVE p[i].route = store[i].route
    <3>1. i \in DOMAIN p /\ i # Len(store) + 1
      BY <1>13, <1>14
    <3>2. CASE p[i] = d /\ i \in S
      BY <1>7, <1>9, <3>2
    <3> QED
      BY <1>12, <3>1, <3>2
  <2> QED
    BY <2>1
<1>16. \A i \in DOMAIN p : i \in DOMAIN store \/ (i = Len(store) + 1 /\ p[i] = d)
  BY <1>12
<1>17. Lists(store) /\ Recalls(store) /\ \A l \in DOMAIN log : log[l].at <= now
  BY DEF OnceInv
<1>18. \A i, j \in DOMAIN p : p[i].route = p[j].route => i = j
  <2>1. ASSUME NEW i \in DOMAIN p, NEW j \in DOMAIN p, p[i].route = p[j].route PROVE i = j
    <3>1. CASE i \in DOMAIN store /\ j \in DOMAIN store
      BY <1>15, <1>17, <2>1, <3>1 DEF Lists
    <3>2. CASE i \notin DOMAIN store /\ j \notin DOMAIN store
      BY <1>16, <3>2
    <3>3. ASSUME NEW a \in DOMAIN store, NEW b \in DOMAIN p, b \notin DOMAIN store,
                 p[a].route = p[b].route
          PROVE  FALSE
      <4>1. p[b] = d /\ S = {}
        BY <1>12, <3>3
      <4>2. store[a].route = RouteOf(r)
        BY <1>7, <1>15, <3>3, <4>1
      <4> QED
        BY <1>9, <4>1, <4>2
    <3> QED
      BY <2>1, <3>1, <3>2, <3>3
  <2> QED
    BY <2>1
<1>19. ASSUME NEW i \in DOMAIN p, NEW l \in DOMAIN log', RouteAt(l)' = p[i].route
       PROVE  log'[l].at <= p[i].at
  <2>1. CASE p[i] = d
    BY <1>1, <1>4, <1>5, <1>7, <1>17, <2>1
  <2>2. CASE i \in (DOMAIN store) \ S /\ p[i] = store[i]
    <3>1. store[i].route # RouteOf(r)
      BY <1>9, <2>2
    <3>2. l \in DOMAIN log
      BY <1>4, <1>5, <1>19, <2>2, <3>1
    <3> QED
      BY <1>5, <1>17, <1>19, <2>2, <3>2 DEF Lists
  <2> QED
    BY <1>12, <2>1, <2>2
<1>20. ASSUME NEW i \in DOMAIN p, NEW j \in DOMAIN p, i <= j
       PROVE  \E f, l \in DOMAIN log' :
                f <= l /\ RouteAt(f)' = p[i].route /\ RouteAt(l)' = p[j].route
  <2>1. CASE j \in DOMAIN store
    <3>1. i \in DOMAIN store
      BY <1>14, <1>20, <2>1
    <3>2. PICK f, l \in DOMAIN log :
            f <= l /\ RouteAt(f) = store[i].route /\ RouteAt(l) = store[j].route
      BY <1>17, <1>20, <2>1, <3>1 DEF Lists
    <3> QED
      BY <1>4, <1>5, <1>15, <2>1, <3>1, <3>2
  <2>2. CASE j \notin DOMAIN store
    <3>1. RouteAt(n)' = p[j].route
      BY <1>5, <1>7, <1>16, <2>2
    <3>2. CASE i \in DOMAIN store
      <4>1. i <= i
        BY <1>14, <3>2
      <4>2. PICK f \in DOMAIN log : RouteAt(f) = store[i].route
        BY <1>17, <3>2, <4>1 DEF Lists
      <4>3. f \in DOMAIN log' /\ f <= n /\ RouteAt(f)' = p[i].route
        BY <1>4, <1>5, <1>15, <3>2, <4>2
      <4> QED
        BY <1>4, <3>1, <4>3
    <3>3. CASE i \notin DOMAIN store
      <4>1. i = j
        BY <1>16, <2>2, <3>3
      <4> QED
        BY <1>4, <3>1, <4>1
    <3> QED
      BY <3>2, <3>3
  <2> QED
    BY <2>1, <2>2
<1>21. Lists(p)'
  BY <1>18, <1>19, <1>20 DEF Lists
<1>22. ASSUME NEW q \in Request, Remembered(q)' PROVE \E i \in DOMAIN p : p[i].route = RouteOf(q)'
  <2>1. CASE q = r
    BY <1>5, <1>7, <1>13, <2>1
  <2>2. CASE q # r
    <3>1. /\ \A l \in DOMAIN log' : log'[l].by = q => l \in DOMAIN log
          /\ \A l \in DOMAIN log : pc[log[l].by] # "idle"
      BY <1>4, <2>2 DEF OnceInv
    <3>2. Remembered(q)
      <4>1. now <= now' /\ \A x \in Request : pc[x] # "idle" => req'[x] = req[x]
        BY <1>1
      <4> QED
        BY <1>1, <1>2, <1>4, <1>22, <3>1, <4>1, MemoryFades
    <3>3. PICK i \in DOMAIN store : store[i].route = RouteOf(q)
      BY <1>17, <3>2 DEF Recalls
    <3> QED
      BY <1>5, <1>13, <1>15, <3>3
  <2> QED
    BY <2>1, <2>2
<1>23. store' = Capped(p, MaxStore)
  BY <1>6, <1>8, <1>10 DEF Saved
<1>24. CASE ~(Len(p) > MaxStore)
  <2>1. store' = p
    BY <1>23, <1>24 DEF Capped
  <2>2. Lists(store)'
    BY <1>21, <2>1 DEF Lists
  <2>3. Recalls(store)'
    BY <1>22, <2>1 DEF Recalls
  <2> QED
    BY <2>2, <2>3
<1>25. CASE Len(p) > MaxStore
  <2>1. store' = Tail(p) /\ Len(p) > 0
    BY <1>1, <1>14, <1>23, <1>25 DEF Capped
  <2>2. Lists(Tail(p))' /\ \A i \in DOMAIN p : i # 1 => \E j \in DOMAIN Tail(p) : Tail(p)[j] = p[i]
    BY <1>11, <1>21, <2>1, TailLists
  <2>3. Lists(store)'
    BY <2>1, <2>2 DEF Lists
  <2>4. ASSUME NEW q \in Request, Remembered(q)'
        PROVE  \E i \in DOMAIN store' : store'[i].route = RouteOf(q)'
    <3>1. PICK i \in DOMAIN p : p[i].route = RouteOf(q)'
      BY <1>22, <2>4
    <3>2. ASSUME i = 1 PROVE FALSE
      <4>1. Len(p) <= Cardinality(Crowd(q)') /\ Cardinality(Crowd(q)') \in Nat
        BY <1>1, <1>11, <1>21, <3>1, <3>2, CrowdedOut
      <4>2. Cardinality(Crowd(q)') <= MaxStore
        BY <2>4 DEF Remembered
      <4> QED
        BY <1>1, <1>14, <1>25, <4>1, <4>2
    <3>3. PICK j \in DOMAIN Tail(p) : Tail(p)[j] = p[i]
      BY <2>2, <3>2
    <3> QED
      BY <2>1, <3>1, <3>3
  <2>5. Recalls(store)'
    BY <2>4 DEF Recalls
  <2> QED
    BY <2>3, <2>5
<1> QED
  BY <1>24, <1>25

\* A lookup's eviction keeps the fresh entries, in their order.
LEMMA EvictedLists ==
  ASSUME OnceInv, log' = log, \A l \in DOMAIN log : RouteAt(l)' = RouteAt(l),
         store' = Only(store, Fresh),
         \A q \in Request : Remembered(q)' => Remembered(q) /\ RouteOf(q)' = RouteOf(q)
  PROVE  Lists(store)' /\ Recalls(store)'
<1>1. store \in Seq(Entry) /\ Fresh \subseteq DOMAIN store /\ Lists(store)
  BY DEF OnceInv, Typed, TypeOK, Fresh
<1>2. PICK at \in [DOMAIN store' -> Fresh] :
        /\ \A i \in DOMAIN store' : store'[i] = store[at[i]]
        /\ \A i, j \in DOMAIN store' : i <= j => at[i] <= at[j]
        /\ \A i, j \in DOMAIN store' : at[i] = at[j] => i = j
        /\ \A j \in Fresh : \E i \in DOMAIN store' : at[i] = j
  BY <1>1, OnlyKeeps
<1>3. \A i \in DOMAIN store' : at[i] \in DOMAIN store /\ store'[i] = store[at[i]]
  BY <1>1, <1>2
<1>4. \A i, j \in DOMAIN store' : store'[i].route = store'[j].route => i = j
  BY <1>1, <1>2, <1>3 DEF Lists
<1>5. ASSUME NEW i \in DOMAIN store', NEW l \in DOMAIN log', RouteAt(l)' = store'[i].route
      PROVE  log'[l].at <= store'[i].at
  BY <1>1, <1>3, <1>5 DEF Lists
<1>6. ASSUME NEW i \in DOMAIN store', NEW j \in DOMAIN store', i <= j
      PROVE  \E f, l \in DOMAIN log' :
               f <= l /\ RouteAt(f)' = store'[i].route /\ RouteAt(l)' = store'[j].route
  <2>1. at[i] <= at[j] /\ at[i] \in DOMAIN store /\ at[j] \in DOMAIN store
    BY <1>2, <1>3, <1>6
  <2>2. PICK f, l \in DOMAIN log :
          f <= l /\ RouteAt(f) = store[at[i]].route /\ RouteAt(l) = store[at[j]].route
    BY <1>1, <2>1 DEF Lists
  <2> QED
    BY <1>3, <2>2
<1>7. Lists(store)'
  BY <1>4, <1>5, <1>6 DEF Lists
<1>8. ASSUME NEW q \in Request, Remembered(q)'
      PROVE  \E i \in DOMAIN store' : store'[i].route = RouteOf(q)'
  <2>1. Remembered(q) /\ RouteOf(q)' = RouteOf(q)
    BY <1>8
  <2>2. PICK j \in Fresh : store[j].route = RouteOf(q)
    BY <2>1, RememberedIsFresh
  <2> QED
    BY <1>2, <1>3, <2>1, <2>2
<1>9. Recalls(store)'
  BY <1>8 DEF Recalls
<1> QED
  BY <1>7, <1>9

\* Every fresh entry is among those a lookup's eviction keeps.
LEMMA FreshStays ==
  ASSUME store \in Seq(Entry), NEW k \in Fresh
  PROVE  \E i \in DOMAIN Only(store, Fresh) : Only(store, Fresh)[i] = store[k]
<1>1. Fresh \subseteq DOMAIN store
  BY DEF Fresh
<1>2. PICK s : s = Only(store, Fresh)
  OBVIOUS
<1>3. PICK at \in [DOMAIN s -> Fresh] :
        /\ \A i \in DOMAIN s : s[i] = store[at[i]]
        /\ \A i, j \in DOMAIN s : i <= j => at[i] <= at[j]
        /\ \A i, j \in DOMAIN s : at[i] = at[j] => i = j
        /\ \A j \in Fresh : \E i \in DOMAIN s : at[i] = j
  BY <1>1, <1>2, OnlyKeeps
<1> QED
  BY <1>2, <1>3

\* Only a lookup that found nothing brings a request to its handler.
LEMMA WaitsAtLookup ==
  ASSUME Typed, NEW x \in Request, pc[x] # "handle", pc'[x] = "handle",
         NEW r, (r \in Request /\ Acts(r)) \/ Tick \/ UNCHANGED vars
  PROVE  /\ Lookup(x) /\ pc[x] = "lookup"
         /\ Hits(x, store) = {} \/ Hits(x, Only(store, Fresh)) = {}
<1>1. pc \in [Request -> Steps]
  BY DEF Typed, TypeOK
<1>2. r = x /\ Acts(x)
  <2>1. ~(Tick \/ UNCHANGED vars)
    BY DEF Tick, vars
  <2>2. ASSUME r # x PROVE FALSE
    BY <2>1, <2>2, OthersStay
  <2> QED
    BY <2>1, <2>2
<1>3. Lookup(x)
  BY <1>1, <1>2 DEF Acts, Arrive, ArriveRefused, Handle, Save, Leaves, Commit, CommitFails,
                    CommitLost, Goto
<1>4. ASSUME NEW s, Decide(x, s) PROVE Hits(x, s) = {}
  BY <1>1, <1>4 DEF Decide, Goto
<1>5. \/ Decide(x, Only(store, Fresh)) \/ Decide(x, store) \/ Goto(x, "bypass")
  BY <1>3, Zenon DEF Lookup
<1>6. ~Goto(x, "bypass")
  BY <1>1 DEF Goto
<1>7. pc[x] = "lookup"
  BY <1>3 DEF Lookup
<1> QED
  BY <1>3, <1>4, <1>5, <1>6, <1>7

LEMMA OnceStep == OnceInv /\ [Next]_vars => OnceInv'
<1> SUFFICES ASSUME OnceInv, [Next]_vars PROVE OnceInv'
  OBVIOUS
<1>a. /\ Typed /\ Typed' /\ log \in Seq(Stamp) /\ store \in Seq(Entry)
      /\ pc \in [Request -> Steps] /\ before \in [Request -> SUBSET Request] /\ now \in Int
  <2>1. Typed /\ Typed'
    BY TypedStep DEF OnceInv
  <2>2. log \in Seq(Stamp) /\ store \in Seq(Entry)
    BY <2>1 DEF Typed, TypeOK, Stamp
  <2>3. pc \in [Request -> Steps] /\ before \in [Request -> SUBSET Request]
    BY <2>1 DEF Typed, TypeOK
  <2>4. now \in Int
    BY <2>1, ConstantsAssumption DEF Typed, TypeOK
  <2> QED
    BY <2>1, <2>2, <2>3, <2>4
<1>b. ASSUME NEW l \in DOMAIN log
      PROVE  log[l].by \in Request /\ log[l].at \in Int /\ pc[log[l].by] \in {"commit", "done"}
  <2>1. log[l] \in Stamp
    BY <1>a, ElementOfSeq
  <2> QED
    BY <2>1, ConstantsAssumption DEF OnceInv, Stamp
<1>c. ASSUME NEW r \in Request, NEW q \in before[r]
      PROVE  q \in Request /\ pc[q] = "done"
             /\ (pc[r] = "handle" /\ SameRoute(q, r) => ~Remembered(q))
  BY <1>a DEF OnceInv
<1>1. ASSUME NEW r, (r \in Request /\ Acts(r)) \/ Tick \/ UNCHANGED vars
      PROVE  OnceInv'
  <2>1. /\ now <= now' /\ now' \in Int
        /\ DOMAIN log \subseteq DOMAIN log' /\ \A l \in DOMAIN log : log'[l] = log[l]
        /\ log' = log \/ (Save(r) /\ r \in Request /\ log' = Append(log, [by |-> r, at |-> now]))
        /\ \A p \in Request : pc[p] # "idle" => req'[p] = req[p]
        /\ \A p \in Request : pc[p] = "done" => pc'[p] = "done"
        /\ \A p \in Request : pc[p] = "commit" => pc'[p] \in {"commit", "done"}
    BY <1>1, GoesForward
  <2>2. \A p \in Request : pc[p] # "idle" => RouteOf(p)' = RouteOf(p)
    BY <2>1 DEF RouteOf
  <2>3. \A l \in DOMAIN log : RouteAt(l)' = RouteAt(l)
    <3>1. ASSUME NEW l \in DOMAIN log PROVE RouteAt(l)' = RouteAt(l)
      <4>1. PICK b \in Request : b = log[l].by /\ pc[b] # "idle"
        BY <1>b
      <4> QED
        BY <2>1, <4>1 DEF RouteAt, RouteOf
    <3> QED
      BY <3>1
  <2>4. ASSUME NEW q \in Request, Remembered(q)', log' = log \/ q # r
        PROVE  Remembered(q) /\ RouteOf(q)' = RouteOf(q)
    <3>1. \A l \in DOMAIN log' : log'[l].by = q => l \in DOMAIN log
      <4>1. CASE log' = log
        BY <4>1
      <4>2. CASE q # r /\ log' = Append(log, [by |-> r, at |-> now])
        BY <1>a, <4>2
      <4> QED
        BY <2>1, <2>4, <4>1, <4>2
    <3>2. \A l \in DOMAIN log : pc[log[l].by] # "idle"
      BY <1>b
    <3> QED
      BY <1>a, <2>1, <2>4, <3>1, <3>2, MemoryFades
  <2>5. ASSUME NEW l \in DOMAIN log'
        PROVE  pc'[log'[l].by] \in {"commit", "done"} /\ log'[l].at <= now'
    <3>1. CASE l \in DOMAIN log
      <4>1. PICK b \in Request : b = log[l].by /\ b = log'[l].by /\ pc[b] \in {"commit", "done"}
        BY <1>b, <2>1, <3>1
      <4>2. log[l].at <= now /\ log[l].at \in Int
        BY <1>b, <3>1 DEF OnceInv
      <4> QED
        BY <1>a, <2>1, <3>1, <4>1, <4>2
    <3>2. CASE l \notin DOMAIN log
      <4>1. Save(r) /\ r \in Request /\ log' = Append(log, [by |-> r, at |-> now])
        BY <2>1, <3>2
      <4>2. log'[l] = [by |-> r, at |-> now]
        BY <1>a, <3>2, <4>1
      <4>3. pc'[r] = "commit"
        BY <1>a, <4>1 DEF Save, Goto
      <4> QED
        BY <2>1, <4>2, <4>3
    <3> QED
      BY <3>1, <3>2
  <2>6. Lists(store)' /\ Recalls(store)'
    <3>1. CASE store' = store /\ log' = log
      <4>1. Lists(store) /\ Recalls(store)
        BY DEF OnceInv
      <4>2. Lists(store)'
        BY <2>3, <3>1, <4>1 DEF Lists
      <4>3. ASSUME NEW q \in Request, Remembered(q)'
            PROVE  \E i \in DOMAIN store' : store'[i].route = RouteOf(q)'
        BY <2>4, <3>1, <4>1, <4>3 DEF Recalls
      <4>4. Recalls(store)'
        BY <4>3 DEF Recalls
      <4> QED
        BY <4>2, <4>4
    <3>2. CASE store' = Only(store, Fresh) /\ log' = log
      BY <2>3, <2>4, <3>2, EvictedLists
    <3>3. CASE Save(r) /\ r \in Request /\ store' = Saved(r) /\ log' = Append(log, [by |-> r, at |-> now])
      BY <1>a, <3>3, SavedLists
    <3>4. CASE Save(r) /\ r \in Request
      BY <3>1, <3>3, <3>4 DEF Save
    <3>5. CASE Lookup(r)
      <4>1. log' = log /\ (store' = store \/ store' = Only(store, Fresh))
        BY <3>5, Zenon DEF Lookup, history
      <4> QED
        BY <3>1, <3>2, <4>1
    <3>6. CASE \/ Arrive(r) \/ ArriveRefused(r) \/ Handle(r) \/ Leaves(r)
               \/ Tick \/ UNCHANGED vars
      <4>1. store' = store /\ log' = log
        BY <3>6 DEF Arrive, ArriveRefused, Handle, Leaves, Commit, CommitFails, CommitLost, Tick,
                    vars, server, history
      <4> QED
        BY <3>1, <4>1
    <3> QED
      BY <1>1, <3>4, <3>5, <3>6 DEF Acts
  <2>7. ASSUME NEW x \in Request, NEW q \in before'[x]
        PROVE  pc'[q] = "done" /\ (pc'[x] = "handle" /\ SameRoute(q, x)' => ~Remembered(q)')
    <3>1. CASE before'[x] = before[x]
      <4>1. q \in Request /\ pc[q] = "done" /\ q \in before[x]
            /\ (pc[x] = "handle" /\ SameRoute(q, x) => ~Remembered(q))
        BY <1>c, <2>7, <3>1
      <4>2. ASSUME pc'[x] = "handle", SameRoute(q, x)', Remembered(q)' PROVE FALSE
        <5>1. log' = log \/ q # r
          BY <2>1, <4>1 DEF Save
        <5>2. Remembered(q) /\ RouteOf(q)' = RouteOf(q)
          BY <2>4, <4>1, <4>2, <5>1
        <5>3. RouteOf(q)' = RouteOf(x)'
          BY <4>2 DEF SameRoute, RouteOf
        <5>4. pc[x] # "idle" => RouteOf(q) = RouteOf(x)
          BY <2>2, <5>2, <5>3
        <5>5. CASE pc[x] = "handle"
          BY <4>1, <5>2, <5>4, <5>5, SameRouteIs
        <5>6. CASE pc[x] # "handle"
          <6>1. /\ Lookup(x) /\ pc[x] = "lookup"
                /\ Hits(x, store) = {} \/ Hits(x, Only(store, Fresh)) = {}
            BY <1>1, <1>a, <4>2, <5>6, WaitsAtLookup
          <6>2. PICK j \in Fresh : store[j].route = RouteOf(x)
            BY <5>2, <5>4, <6>1, <4>1, RememberedIsFresh
          <6>3. j \in DOMAIN store
            BY DEF Fresh
          <6>4. Hits(x, store) # {}
            BY <6>2, <6>3 DEF Hits
          <6>5. Hits(x, Only(store, Fresh)) # {}
            <7>1. store \in Seq(Entry)
              BY <1>a
            <7>2. PICK i \in DOMAIN Only(store, Fresh) : Only(store, Fresh)[i] = store[j]
              BY <7>1, FreshStays
            <7> QED
              BY <6>2, <7>2 DEF Hits
          <6> QED
            BY <6>1, <6>4, <6>5
        <5> QED
          BY <5>5, <5>6
      <4> QED
        BY <2>1, <4>1, <4>2
    <3>2. CASE before'[x] # before[x]
      <4>1. (Arrive(r) \/ ArriveRefused(r)) /\ r \in Request
        BY <1>1, <3>2 DEF Acts, Lookup, Handle, Save, Leaves, Commit, CommitFails, CommitLost,
                          Tick, vars, history
      <4>2. before' = [before EXCEPT ![r] = {p \in Request : pc[p] = "done"}]
        BY <4>1 DEF Arrive, ArriveRefused
      <4>3. x = r /\ q \in Request /\ pc[q] = "done"
        BY <1>a, <2>7, <3>2, <4>2
      <4>4. pc'[r] \in {"lookup", "commit", "done"}
        BY <1>a, <4>1 DEF Arrive, ArriveRefused, Goto
      <4> QED
        BY <2>1, <4>3, <4>4
    <3> QED
      BY <3>1, <3>2
  <2> QED
    BY <1>a, <2>5, <2>6, <2>7 DEF OnceInv
<1>2. ASSUME Restart PROVE OnceInv'
  <2>1. /\ log' = <<>> /\ store' = <<>> /\ before' = before
        /\ pc' = [r \in Request |-> IF r \in Opened THEN "done" ELSE pc[r]]
    BY <1>2 DEF Restart
  <2>2. \A r \in Request : pc'[r] # "handle"
    BY <2>1 DEF Opened
  <2>3. \A q \in Request : pc[q] = "done" => pc'[q] = "done"
    BY <2>1 DEF Opened
  <2>4. \A q : ~Remembered(q)'
    BY <2>1 DEF Remembered
  <2>5. Lists(store)' /\ Recalls(store)'
    BY <2>1, <2>4 DEF Lists, Recalls
  <2>6. \A r \in Request : \A q \in before'[r] : q \in Request /\ pc[q] = "done"
    BY <1>c, <2>1
  <2>7. \A l \in DOMAIN log' : FALSE
    BY <2>1
  <2> QED
    BY <1>a, <2>2, <2>3, <2>5, <2>6, <2>7 DEF OnceInv
<1>3. ASSUME NEW r \in Request, Acts(r) PROVE OnceInv'
  BY <1>1, <1>3
<1>4. CASE Tick \/ UNCHANGED vars
  BY <1>1, <1>4
<1> QED
  BY <1>2, <1>3, <1>4 DEF Next, Acts, Leaves

LEMMA OnceInit == Init => OnceInv
<1> SUFFICES ASSUME Init PROVE OnceInv
  OBVIOUS
<1>1. /\ Typed /\ log = <<>> /\ store = <<>> /\ \A r \in Request : before[r] = {}
  BY TypedInit DEF Init
<1>2. \A q : ~Remembered(q)
  BY <1>1 DEF Remembered
<1> QED
  BY <1>1, <1>2 DEF OnceInv, Lists, Recalls

\* A retry sent after the answer does not run the handler again while the server
\* should remember it.
THEOREM AnswersOnce == Spec => AnsweredOnce
<1>1. OnceInv => \A q, r \in Request :
                   /\ pc[r] = "handle" /\ pc'[r] = "save"
                   /\ q \in before[r] /\ SameRoute(q, r)
                   => ~Remembered(q)
  BY DEF OnceInv
<1> QED
  BY <1>1, OnceInit, OnceStep, PTL DEF Spec, AnsweredOnce
=============================================================================
