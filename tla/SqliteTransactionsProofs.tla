---------------------- MODULE SqliteTransactionsProofs ----------------------
(* Theorems of SqliteTransactions, for any chains, writes and bounds.      *)
EXTENDS SqliteTransactions, NaturalExtremes, SequenceTheorems, FiniteSetTheorems

\* The calls in flight form a list as long as the counter says.
IsList(s, n) == s = [i \in 1..n |-> s[i]] /\ Len(s) = n

Balanced == Len(open) \in Nat /\ IsList(open, Len(open)) /\ depth = Len(open)

LEMMA ListOfFunction ==
  ASSUME NEW n \in Nat, NEW s, s = [i \in 1..n |-> s[i]]
  PROVE  IsList(s, n)
<1>1. s \in Seq({s[i] : i \in 1..n})
  OBVIOUS
<1>2. DOMAIN s = 1..n
  OBVIOUS
<1>3. Len(s) \in Nat /\ DOMAIN s = 1..Len(s)
  BY <1>1
<1> QED BY <1>2, <1>3 DEF IsList

\* A call that settles leaves the list one shorter, whichever it is.
LEMMA WithoutShorter ==
  ASSUME Balanced, Len(open) > 0, NEW i
  PROVE  IsList(Without(i), Len(open) - 1)
<1>1. Len(open) - 1 \in Nat
  BY DEF Balanced
<1> QED BY <1>1, ListOfFunction DEF Without

\* Rewriting one entry of a list leaves its length.
LEMMA ExceptSameLength ==
  ASSUME NEW n \in Nat, NEW s, IsList(s, n), NEW i, NEW e
  PROVE  IsList([s EXCEPT ![i] = e], n)
<1>1. [s EXCEPT ![i] = e] = [j \in 1..n |-> [s EXCEPT ![i] = e][j]]
  BY DEF IsList
<1> QED BY <1>1, ListOfFunction

LEMMA SomeInFlight ==
  ASSUME Balanced, NEW c, Frames(c) # {}
  PROVE  Len(open) > 0
BY DEF Balanced, IsList, Frames

\* A call that settles keeps the balance: one call less, the counter one lower.
LEMMA SettledBalance ==
  ASSUME Balanced, Len(open) > 0, IsList(open', Len(open) - 1), depth' = depth - 1
  PROVE  Balanced'
<1>1. Len(open') = Len(open) - 1
  BY DEF IsList
<1> QED BY <1>1 DEF Balanced

LEMMA BalancedStep == Balanced /\ [Next]_vars => Balanced'
<1> SUFFICES ASSUME Balanced, [Next]_vars PROVE Balanced'
  OBVIOUS
<1>1. ASSUME NEW c \in Chain, Open(c) PROVE Balanced'
  BY <1>1 DEF Open, SqlOpen, Balanced, IsList
<1>2. ASSUME NEW c \in Chain, OpenRefused(c) PROVE Balanced'
  BY <1>2 DEF OpenRefused, Balanced, IsList
<1>3. ASSUME NEW c \in Chain, Execute(c) PROVE Balanced'
  <2>1. PICK w : open' = IF Frames(c) = {} THEN open
                         ELSE [open EXCEPT ![Innermost(c)] =
                                 [open[Innermost(c)] EXCEPT !.wrote = @ \cup {w}]]
    BY <1>3 DEF Execute, SqlWrite
  <2>2. IsList(open', Len(open))
    BY <2>1, ExceptSameLength DEF Balanced
  <2> QED BY <1>3, <2>2 DEF Execute, SqlWrite, Balanced, IsList
<1>4. ASSUME NEW c \in Chain, Resolve(c) PROVE Balanced'
  <2> DEFINE rest == Without(Innermost(c))
             p == Newest(Enclosing(c))
  <2>1. Len(open) > 0
    BY <1>4, SomeInFlight DEF Resolve
  <2>2. IsList(rest, Len(open) - 1)
    BY <2>1, WithoutShorter
  <2>3. CASE Enclosing(c) = {}
    <3>1. open' = rest /\ depth' = depth - 1
      BY <1>4, <2>3 DEF Resolve, Settle
    <3> QED BY <2>1, <2>2, <3>1, SettledBalance
  <2>4. CASE Enclosing(c) # {}
    <3>1. open' = [rest EXCEPT ![p] =
                     [rest[p] EXCEPT !.wrote = @ \cup open[Innermost(c)].wrote]]
      BY <1>4, <2>4 DEF Resolve
    <3>2. IsList(open', Len(open) - 1)
      <4> HIDE DEF rest, p
      <4>1. Len(open) - 1 \in Nat BY <2>1 DEF Balanced
      <4> QED BY <2>2, <3>1, <4>1, ExceptSameLength
    <3>3. depth' = depth - 1
      BY <1>4 DEF Resolve, Settle
    <3> QED BY <2>1, <3>2, <3>3, SettledBalance
  <2> QED BY <2>3, <2>4
<1>5. ASSUME NEW c \in Chain, NEW answer, Frames(c) # {}, Drop(c, answer)
      PROVE  Balanced'
  <2>1. open' = Without(Innermost(c)) /\ depth' = depth - 1
    BY <1>5 DEF Drop, Settle
  <2>2. Len(open) > 0
    BY <1>5, SomeInFlight
  <2> QED BY <2>1, <2>2, WithoutShorter, SettledBalance
<1>6. ASSUME Crash PROVE Balanced'
  BY <1>6 DEF Crash, SqlLost, Balanced, IsList
<1>7. ASSUME UNCHANGED vars PROVE Balanced'
  BY <1>7 DEF vars, Balanced, IsList
<1> QED
  BY <1>1, <1>2, <1>3, <1>4, <1>5, <1>6, <1>7
     DEF Next, Reject, ResolveLost, RejectLost

\* #transactionDepth is the number of transaction() calls in flight, whatever
\* the chains do and however the statements fail (SqliteOrbitDatabase.transaction).
THEOREM DepthIsBalanced == Spec => []DepthCountsCalls
<1>1. Init => Balanced
  BY DEF Init, Balanced, IsList
<1>2. Balanced => DepthCountsCalls
  BY DEF Balanced, DepthCountsCalls
<1> QED
  BY <1>1, <1>2, BalancedStep, PTL DEF Spec

-----------------------------------------------------------------------------
(* Types *)

Entries == [name : Nat \ {0}, saved : SUBSET Write]
Calls == [chain : Chain, level : Nat \ {0}, wrote : SUBSET Write]

Typed == TypeOK /\ Balanced

LEMMA FramesNatural ==
  ASSUME Typed, NEW c
  PROVE  Frames(c) \subseteq 1..Len(open) /\ Len(open) \in Nat
BY DEF Typed, TypeOK, Balanced, Frames

LEMMA NewestIs ==
  ASSUME NEW n \in Nat, NEW S, S \subseteq 1..n, S # {}
  PROVE  Newest(S) \in S /\ \A j \in S : j <= Newest(S)
<1>1. S \subseteq Nat /\ \A j \in S : j <= n
  OBVIOUS
<1>2. \E m \in S : \A j \in S : j <= m
  BY <1>1, GreatestOf
<1> QED
  BY <1>2 DEF Newest

LEMMA CallIs ==
  ASSUME Typed, NEW i \in 1..Len(open)
  PROVE  /\ open[i] \in Calls /\ open[i].chain \in Chain
         /\ open[i].level \in Nat \ {0} /\ open[i].wrote \subseteq Write
<1>1. open \in Seq(Calls)
  BY DEF Typed, TypeOK, Calls
<1>2. open[i] \in Calls
  BY <1>1, ElementOfSeq
<1> QED
  BY <1>2 DEF Calls

LEMMA WroteMore ==
  ASSUME NEW e \in Calls, NEW W, W \subseteq Write
  PROVE  [e EXCEPT !.wrote = @ \cup W] \in Calls
BY DEF Calls

\* The entry a closing statement acts on is on the stack.
LEMMA EntryIs ==
  ASSUME Typed, NEW n, Known(n)
  PROVE  /\ Entry(n) \in 1..Len(stack)
         /\ stack[Entry(n)] \in Entries
         /\ n # 1 => stack[Entry(n)].name = n /\ \A j \in Named(n) : j <= Entry(n)
<1>1. stack \in Seq(Entries)
  BY DEF Typed, TypeOK, Entries
<1>2. Entry(n) \in 1..Len(stack)
      /\ (n # 1 => stack[Entry(n)].name = n /\ \A j \in Named(n) : j <= Entry(n))
  <2>1. CASE n = 1
    BY <2>1, <1>1 DEF Known, Entry
  <2>2. CASE n # 1
    <3>1. Named(n) \subseteq 1..Len(stack) /\ Len(stack) \in Nat
      BY <1>1 DEF Named
    <3>2. Named(n) # {}
      BY <2>2 DEF Known
    <3>3. Newest(Named(n)) \in Named(n) /\ \A j \in Named(n) : j <= Newest(Named(n))
      BY <3>1, <3>2, NewestIs
    <3>4. Entry(n) = Newest(Named(n))
      BY <2>2 DEF Entry, Newest
    <3> QED
      BY <2>2, <3>1, <3>3, <3>4 DEF Named
  <2> QED
    BY <2>1, <2>2
<1> QED
  BY <1>1, <1>2

\* Cutting a list short leaves a list.
LEMMA CutIsList ==
  ASSUME NEW S, NEW s \in Seq(S), NEW k \in 0..Len(s)
  PROVE  /\ SubSeq(s, 1, k) \in Seq(S) /\ Len(SubSeq(s, 1, k)) = k
         /\ \A i \in 1..k : SubSeq(s, 1, k)[i] = s[i]
BY SubSeqProperties

LEMMA WithoutIs ==
  ASSUME Typed, NEW i \in 1..Len(open)
  PROVE  /\ Without(i) \in Seq(Calls)
         /\ Len(Without(i)) = Len(open) - 1
<1>1. open \in Seq(Calls)
  BY DEF Typed, TypeOK, Calls
<1>2. Len(open) \in Nat /\ Len(open) - 1 \in Nat
  BY <1>1
<1>3. \A j \in 1..(Len(open) - 1) : (IF j < i THEN open[j] ELSE open[j + 1]) \in Calls
  <2> TAKE j \in 1..(Len(open) - 1)
  <2>1. j \in 1..Len(open) /\ j + 1 \in 1..Len(open)
    BY <1>2
  <2> QED
    BY <1>1, <2>1
<1>4. Without(i) \in Seq(Calls)
  BY <1>2, <1>3, IsASeq DEF Without
<1> QED
  BY <1>2, <1>4, ListOfFunction DEF Without, IsList

LEMMA TypedStep == Typed /\ [Next]_vars => Typed'
<1> SUFFICES ASSUME Typed, [Next]_vars PROVE Typed'
  OBVIOUS
<1>0. Balanced'
  BY BalancedStep DEF Typed
<1> USE DEF Answers
<1>a. /\ stack \in Seq(Entries) /\ open \in Seq(Calls)
      /\ disk \subseteq Write /\ db \subseteq Write
      /\ kept \subseteq Write /\ dropped \subseteq Write
      /\ told \in [Chain -> Answers] /\ overlapped \in BOOLEAN /\ depth \in Nat
  BY DEF Typed, TypeOK, Entries, Calls
<1>b. depth' \in Nat
  BY <1>0 DEF Balanced
<1>c. ASSUME /\ stack' \in Seq(Entries) /\ open' \in Seq(Calls)
             /\ disk' \subseteq Write /\ db' \subseteq Write
             /\ kept' \subseteq Write /\ dropped' \subseteq Write
             /\ told' \in [Chain -> Answers] /\ overlapped' \in BOOLEAN
      PROVE  Typed'
  BY <1>0, <1>b, <1>c DEF Typed, TypeOK, Entries, Calls
<1>1. ASSUME NEW c \in Chain, Open(c) PROVE Typed'
  <2>1. [name |-> depth + 1, saved |-> db] \in Entries
    BY <1>a DEF Entries
  <2>2. [chain |-> c, level |-> depth + 1, wrote |-> {}] \in Calls
    BY <1>a DEF Calls
  <2>3. stack' \in Seq(Entries) /\ open' \in Seq(Calls)
    BY <1>1, <1>a, <2>1, <2>2 DEF Open, SqlOpen
  <2>4. overlapped' \in BOOLEAN
    BY <1>1, <1>a, Zenon DEF Open, SqlOpen, Meet
  <2> QED
    BY <1>1, <1>a, <1>c, <2>3, <2>4 DEF Open, SqlOpen
<1>2. ASSUME NEW c \in Chain, OpenRefused(c) PROVE Typed'
  BY <1>2, <1>a, <1>c DEF OpenRefused
<1>3. ASSUME NEW c \in Chain, Execute(c) PROVE Typed'
  <2>1. PICK w \in Write \ Used :
          /\ db' = db \cup {w}
          /\ disk' = IF stack = <<>> THEN disk \cup {w} ELSE disk
          /\ open' = IF Frames(c) = {} THEN open
                     ELSE [open EXCEPT ![Innermost(c)].wrote = @ \cup {w}]
          /\ Meet(c)
          /\ UNCHANGED <<stack, depth, told, kept, dropped>>
    BY <1>3 DEF Execute, SqlWrite
  <2>2. open' \in Seq(Calls)
    <3>1. CASE Frames(c) = {}
      BY <3>1, <2>1, <1>a
    <3>2. CASE Frames(c) # {}
      <4>1. Innermost(c) \in 1..Len(open)
        BY <3>2, FramesNatural, NewestIs DEF Innermost
      <4>2. [open[Innermost(c)] EXCEPT !.wrote = @ \cup {w}] \in Calls
        BY <4>1, CallIs, WroteMore
      <4> QED
        BY <2>1, <3>2, <4>1, <4>2, <1>a, ExceptSeq
    <3> QED
      BY <3>1, <3>2
  <2>3. overlapped' \in BOOLEAN
    BY <2>1, <1>a, Zenon DEF Meet
  <2> QED
    BY <2>1, <2>2, <2>3, <1>a, <1>c
<1>4. ASSUME NEW c \in Chain, Resolve(c) PROVE Typed'
  <2> DEFINE m == Innermost(c)
             n == open[m].level
             rest == Without(m)
             p == Newest(Enclosing(c))
  <2>1. m \in 1..Len(open) /\ m \in Frames(c) /\ \A j \in Frames(c) : j <= m
    BY <1>4, FramesNatural, NewestIs DEF Resolve, Innermost
  <2>2. open[m] \in Calls /\ open[m].wrote \subseteq Write
    BY <2>1, CallIs
  <2>3. rest \in Seq(Calls) /\ Len(rest) = Len(open) - 1
    BY <2>1, WithoutIs
  <2>4. open' \in Seq(Calls)
    <3>1. CASE Enclosing(c) = {}
      BY <3>1, <1>4, <2>3 DEF Resolve
    <3>2. CASE Enclosing(c) # {}
      <4>1. Enclosing(c) \subseteq 1..Len(open) /\ Len(open) \in Nat
        BY FramesNatural DEF Enclosing
      <4>2. p \in Enclosing(c)
        BY <4>1, <3>2, NewestIs
      <4>3. p \in 1..Len(rest)
        BY <4>1, <4>2, <2>1, <2>3 DEF Enclosing
      <4>4. open' = [rest EXCEPT ![p] = [rest[p] EXCEPT !.wrote = @ \cup open[m].wrote]]
        BY <1>4, <3>2 DEF Resolve
      <4> HIDE DEF rest, p
      <4>5. [rest[p] EXCEPT !.wrote = @ \cup open[m].wrote] \in Calls
        BY <2>2, <2>3, <4>3, ElementOfSeq, WroteMore
      <4> QED
        BY <4>3, <4>4, <4>5, <2>3, ExceptSeq
    <3> QED
      BY <3>1, <3>2
  <2>5. Entry(n) \in 1..Len(stack)
    BY <1>4, EntryIs DEF Resolve
  <2>6. stack' \in Seq(Entries)
    <3>1. stack' = SubSeq(stack, 1, Entry(n) - 1)
      BY <1>4 DEF Resolve, SqlCommit
    <3> QED
      BY <3>1, <2>5, <1>a, CutIsList
  <2>7. disk' \subseteq Write /\ db' \subseteq Write
    BY <1>4, <1>a DEF Resolve, SqlCommit
  <2>8. kept' \subseteq Write /\ dropped' \subseteq Write
    BY <1>4, <1>a, <2>2 DEF Resolve
  <2>9. told' \in [Chain -> Answers] /\ overlapped' \in BOOLEAN
    BY <1>4, <1>a DEF Resolve, Settle
  <2> QED
    BY <2>4, <2>6, <2>7, <2>8, <2>9, <1>c
<1>5. ASSUME NEW c \in Chain, NEW answer \in Answers, Frames(c) # {}, Drop(c, answer)
      PROVE  /\ open' \in Seq(Calls) /\ kept' \subseteq Write /\ dropped' \subseteq Write
             /\ told' \in [Chain -> Answers] /\ overlapped' \in BOOLEAN
  <2>1. Innermost(c) \in 1..Len(open)
    BY <1>5, FramesNatural, NewestIs DEF Innermost
  <2>2. open[Innermost(c)].wrote \subseteq Write
    BY <2>1, CallIs
  <2>3. open' \in Seq(Calls)
    BY <1>5, <2>1, WithoutIs DEF Drop
  <2> QED
    BY <1>5, <1>a, <2>2, <2>3 DEF Drop, Settle
<1>6. ASSUME NEW c \in Chain, Reject(c) PROVE Typed'
  <2> DEFINE n == open[Innermost(c)].level
  <2>1. Entry(n) \in 1..Len(stack) /\ stack[Entry(n)] \in Entries
    BY <1>6, EntryIs DEF Reject
  <2>2. db' \subseteq Write /\ disk' \subseteq Write
    BY <1>6, <1>a, <2>1 DEF Reject, SqlRollback, Entries
  <2>3. stack' = (IF n = 1 THEN <<>> ELSE SubSeq(stack, 1, Entry(n)))
    BY <1>6 DEF Reject, SqlRollback
  <2>4. stack' \in Seq(Entries)
    BY <2>1, <2>3, <1>a, CutIsList
  <2> QED
    BY <1>6, <1>5, <1>c, <2>2, <2>4 DEF Reject
<1>7. ASSUME NEW c \in Chain, ResolveLost(c) \/ RejectLost(c) PROVE Typed'
  BY <1>7, <1>5, <1>a, <1>c DEF ResolveLost, RejectLost
<1>8. ASSUME Crash PROVE Typed'
  BY <1>8, <1>a, <1>c DEF Crash, SqlLost
<1>9. ASSUME UNCHANGED vars PROVE Typed'
  BY <1>9, <1>a, <1>c DEF vars
<1> QED
  BY <1>1, <1>2, <1>3, <1>4, <1>6, <1>7, <1>8, <1>9 DEF Next

LEMMA TypedInit == Init => Typed
<1> SUFFICES ASSUME Init PROVE Typed
  OBVIOUS
<1>1. <<>> \in Seq([name : Nat \ {0}, saved : SUBSET Write])
      /\ <<>> \in Seq([chain : Chain, level : Nat \ {0}, wrote : SUBSET Write])
  OBVIOUS
<1>2. told \in [Chain -> Answers]
  BY DEF Init, Answers
<1>3. Balanced
  BY DEF Init, Balanced, IsList
<1> QED
  BY <1>1, <1>2, <1>3 DEF Init, Typed, TypeOK

\* Every state of the adapter has its type: no closing statement reaches past
\* SQLite's stack and the depth counter never goes below zero.
THEOREM TypesAlwaysHold == Spec => []TypeOK
<1>1. Typed => TypeOK
  BY DEF Typed
<1> QED
  BY <1>1, TypedInit, TypedStep, PTL DEF Spec

-----------------------------------------------------------------------------
(* What callers are told.  As long as chains take turns, the calls in      *)
(* flight are one chain's, nested in each other; every level has its       *)
(* savepoint, and the newest one of a level saved what the file and the    *)
(* calls around that level had written.                                    *)

\* Written(o, n): what the first n calls of a list o have written.
Written(o, n) == UNION {o[k].wrote : k \in 1..n}

LEMMA WrittenIs ==
  ASSUME NEW o, NEW n, NEW x
  PROVE  x \in Written(o, n) <=> \E k \in 1..n : x \in o[k].wrote
BY Zenon DEF Written

LEMMA WrittenSame ==
  ASSUME NEW o, NEW p, NEW n, \A k \in 1..n : p[k].wrote = o[k].wrote
  PROVE  Written(p, n) = Written(o, n)
<1>1. \A x : x \in Written(p, n) <=> x \in Written(o, n)
  BY WrittenIs
<1> QED
  BY <1>1

\* The file, and what the n outermost calls in flight have written.
Upto(n) == disk \cup Written(open, n)

Turns ==
  /\ \A i, j \in 1..Len(open) : open[i].chain = open[j].chain
  /\ \A i \in 1..Len(open) : open[i].level = i

\* No entry above names the level again.
NewestMark(i) == \A j \in 1..Len(stack) : i < j => stack[i].name < stack[j].name

Marked ==
  /\ depth = 0 => stack = <<>>
  /\ \A n \in 1..depth : \E i \in 1..Len(stack) : stack[i].name = n
  /\ \A i \in 1..Len(stack) : stack[i].name <= depth + 1
  /\ \A i \in 1..Len(stack) : stack[i].name = 1 => i = 1
  /\ \A i, j \in 1..Len(stack) : i <= j => stack[i].name <= stack[j].name
  /\ \A i \in 1..Len(stack) :
       stack[i].name <= depth /\ NewestMark(i) => stack[i].saved = Upto(stack[i].name - 1)

Books ==
  /\ db = Upto(depth)
  /\ \A i \in 1..Len(open) : open[i].wrote \cap disk = {}
  /\ \A i, j \in 1..Len(open) : i # j => open[i].wrote \cap open[j].wrote = {}
  /\ kept \subseteq disk
  /\ dropped \cap db = {}
  /\ \A c \in Chain : told[c] \notin {"lost", "refused"}

TurnInv == ~overlapped => Turns /\ Marked /\ Books

LEMMA Lengths ==
  ASSUME Typed
  PROVE  /\ Len(open) \in Nat /\ depth = Len(open) /\ DOMAIN open = 1..Len(open)
         /\ Len(stack) \in Nat /\ DOMAIN stack = 1..Len(stack)
         /\ \A i \in 1..Len(stack) : stack[i].name \in Nat \ {0}
<1>1. stack \in Seq(Entries) /\ open \in Seq(Calls)
  BY DEF Typed, TypeOK, Entries, Calls
<1>2. \A i \in 1..Len(stack) : stack[i] \in Entries
  BY <1>1, ElementOfSeq
<1> QED
  BY <1>1, <1>2 DEF Typed, Balanced, Entries

\* The calls in flight are all of one chain.
Alone(c) == \A i \in 1..Len(open) : open[i].chain = c

\* The innermost call of a chain whose turn it is: the last one opened.
LEMMA InTurn ==
  ASSUME Typed, Turns, NEW c, Frames(c) # {}
  PROVE  /\ depth \in Nat \ {0} /\ Frames(c) = 1..depth /\ Alone(c)
         /\ Innermost(c) = depth /\ open[depth].level = depth
         /\ Enclosing(c) = 1..(depth - 1)
         /\ depth > 1 => Newest(Enclosing(c)) = depth - 1
<1>1. depth \in Nat /\ depth = Len(open) /\ DOMAIN open = 1..depth
  BY Lengths
<1>2. Frames(c) = 1..depth /\ depth # 0
  BY <1>1 DEF Frames, Turns
<1>3. Innermost(c) \in Frames(c) /\ \A j \in Frames(c) : j <= Innermost(c)
  BY <1>1, <1>2, NewestIs DEF Innermost
<1>4. Innermost(c) = depth
  <2>1. depth \in Frames(c)
    BY <1>1, <1>2
  <2> QED
    BY <1>1, <1>2, <1>3, <2>1
<1>5. Enclosing(c) = 1..(depth - 1)
  BY <1>1, <1>2, <1>4 DEF Enclosing
<1>6. ASSUME depth > 1 PROVE Newest(Enclosing(c)) = depth - 1
  <2>1. Newest(1..(depth - 1)) \in 1..(depth - 1)
        /\ \A j \in 1..(depth - 1) : j <= Newest(1..(depth - 1))
    <3> DEFINE S == 1..(depth - 1)
    <3>1. depth - 1 \in Nat /\ depth - 1 \in S /\ S \subseteq 1..(depth - 1)
      BY <1>1, <1>6
    <3> HIDE DEF S
    <3>2. Newest(S) \in S /\ \A j \in S : j <= Newest(S)
      BY <3>1, NewestIs
    <3> QED
      BY <3>2 DEF S
  <2>2. depth - 1 \in 1..(depth - 1)
    BY <1>1, <1>6
  <2> QED
    BY <1>1, <1>5, <2>1, <2>2
<1>7. open[depth].level = depth
  BY <1>1, <1>2 DEF Turns
<1>8. Alone(c)
  BY <1>1 DEF Frames, Turns, Alone
<1> QED
  BY <1>1, <1>2, <1>4, <1>5, <1>6, <1>7, <1>8

\* The entry the innermost call closes: the newest savepoint of its level.
LEMMA ItsMark ==
  ASSUME Typed, Marked, depth > 0
  PROVE  /\ Known(depth) /\ Entry(depth) \in 1..Len(stack)
         /\ stack[Entry(depth)].name = depth
         /\ NewestMark(Entry(depth))
         /\ Entry(depth) = 1 <=> depth = 1
         /\ stack[Entry(depth)].saved = Upto(depth - 1)
<1>1. depth \in Nat /\ Len(stack) \in Nat /\ DOMAIN stack = 1..Len(stack)
      /\ \A i \in 1..Len(stack) : stack[i].name \in Nat \ {0}
  BY Lengths
<1>2. PICK m \in 1..Len(stack) : stack[m].name = depth
  BY <1>1 DEF Marked
<1>3. Known(depth)
  BY <1>1, <1>2 DEF Known, Named
<1>4. Entry(depth) \in 1..Len(stack)
      /\ (depth # 1 => /\ stack[Entry(depth)].name = depth
                       /\ \A j \in Named(depth) : j <= Entry(depth))
  BY <1>3, EntryIs
<1>5. PICK b \in 1..Len(stack) : stack[b].name = 1
  BY <1>1 DEF Marked
<1>6. b = 1
  BY <1>5 DEF Marked
<1>7. stack[Entry(depth)].name = depth /\ (Entry(depth) = 1 <=> depth = 1)
  <2>1. CASE depth = 1
    BY <2>1, <1>5, <1>6 DEF Entry
  <2>2. CASE depth # 1
    BY <2>2, <1>4, <1>5, <1>6
  <2> QED
    BY <2>1, <2>2
<1>8. NewestMark(Entry(depth))
  <2> SUFFICES ASSUME NEW j \in 1..Len(stack), Entry(depth) < j
               PROVE  depth < stack[j].name
    BY <1>7 DEF NewestMark
  <2>1. depth <= stack[j].name
    BY <1>1, <1>4, <1>7 DEF Marked
  <2>2. stack[j].name # depth
    <3>1. CASE depth = 1
      BY <3>1, <1>1, <1>4 DEF Marked
    <3>2. CASE depth # 1
      BY <3>2, <1>1, <1>4 DEF Named
    <3> QED
      BY <3>1, <3>2
  <2> QED
    BY <1>1, <2>1, <2>2
<1>9. stack[Entry(depth)].saved = Upto(depth - 1)
  BY <1>1, <1>4, <1>7, <1>8 DEF Marked
<1> QED
  BY <1>3, <1>4, <1>7, <1>8, <1>9

LEMMA WithoutLast ==
  ASSUME Typed, depth > 0
  PROVE  /\ Len(Without(depth)) = depth - 1
         /\ \A j \in 1..(depth - 1) : Without(depth)[j] = open[j]
<1>1. depth \in Nat /\ depth = Len(open)
  BY Lengths
<1>2. Len(Without(depth)) = Len(open) - 1
  BY <1>1, WithoutIs
<1> QED
  BY <1>1, <1>2 DEF Without

\* Closing the innermost call takes its entry and all above away, or all but
\* its entry; the marks of the calls around it stand.
LEMMA ClosedMarked ==
  ASSUME Typed, Typed', Marked, depth > 0, depth' = depth - 1,
         depth = 1 => stack' = <<>>,
         NEW k \in {Entry(depth) - 1, Entry(depth)},
         depth > 1 => stack' = SubSeq(stack, 1, k) /\ disk' = disk,
         \A j \in 1..(depth - 2) : open'[j].wrote = open[j].wrote
  PROVE  Marked'
<1> DEFINE e == Entry(depth)
<1>1. depth \in Nat /\ Len(stack) \in Nat
      /\ \A i \in 1..Len(stack) : stack[i].name \in Nat \ {0}
  BY Lengths
<1>2. CASE depth = 1
  <2>1. stack' = <<>> /\ depth' = 0
    BY <1>2
  <2>2. Len(stack') = 0
    BY <2>1
  <2> QED
    BY <2>1, <2>2 DEF Marked
<1>3. CASE depth > 1
  <2>1. e \in 1..Len(stack) /\ stack[e].name = depth /\ NewestMark(e) /\ e # 1
    BY <1>3, ItsMark
  <2>2. k \in 0..Len(stack) /\ (k = e \/ k = e - 1)
    BY <1>1, <2>1
  <2>3. stack \in Seq(Entries)
    BY DEF Typed, TypeOK, Entries
  <2>4. Len(stack') = k /\ \A i \in 1..k : stack'[i] = stack[i]
    BY <1>3, <2>2, <2>3, CutIsList
  <2>5. \A i \in 1..k : i \in 1..Len(stack) /\ i <= e
    BY <1>1, <2>1, <2>2
  <2> HIDE DEF e
  <2>6. \A n \in 1..depth' : \E i \in 1..Len(stack') : stack'[i].name = n
    <3> TAKE n \in 1..depth'
    <3>1. PICK i \in 1..Len(stack) : stack[i].name = n
      BY <1>1 DEF Marked
    <3>2. ~(e <= i)
      BY <1>1, <2>1, <3>1 DEF Marked
    <3>3. i \in 1..k
      BY <1>1, <2>1, <2>2, <3>2
    <3> QED
      BY <2>4, <3>1, <3>3
  <2>7. \A i \in 1..Len(stack') : stack'[i].name <= depth' + 1
    <3> TAKE i \in 1..Len(stack')
    <3>1. i \in 1..Len(stack) /\ i <= e /\ stack'[i] = stack[i]
      BY <2>4, <2>5
    <3>2. stack[i].name <= stack[e].name
      BY <2>1, <3>1 DEF Marked
    <3> QED
      BY <1>1, <2>1, <3>1, <3>2
  <2>8. \A i \in 1..Len(stack') : stack'[i].name = 1 => i = 1
    BY <2>4, <2>5 DEF Marked
  <2>9. \A i, j \in 1..Len(stack') : i <= j => stack'[i].name <= stack'[j].name
    BY <2>4, <2>5 DEF Marked
  <2>10. \A i \in 1..Len(stack') :
           stack'[i].name <= depth' /\ NewestMark(i)'
             => stack'[i].saved = Upto(stack[i].name - 1)'
    <3> SUFFICES ASSUME NEW i \in 1..Len(stack'),
                        stack'[i].name <= depth', NewestMark(i)'
                 PROVE  stack'[i].saved = Upto(stack[i].name - 1)'
      OBVIOUS
    <3>1. i \in 1..Len(stack) /\ i \in 1..k /\ i <= e /\ stack'[i] = stack[i]
      BY <2>4, <2>5
    <3>2. stack[i].name \in Nat \ {0} /\ stack[i].name <= depth - 1
      BY <1>1, <3>1
    <3>3. NewestMark(i)
      <4> SUFFICES ASSUME NEW j \in 1..Len(stack), i < j
                   PROVE  stack[i].name < stack[j].name
        BY DEF NewestMark
      <4>1. CASE j <= k
        BY <4>1, <3>1, <2>2, <2>4, <1>1 DEF NewestMark
      <4>2. CASE k < j
        <5>1. e <= j
          BY <4>2, <2>1, <2>2, <1>1
        <5>2. depth <= stack[j].name
          BY <5>1, <2>1 DEF Marked
        <5> QED
          BY <5>2, <3>2, <1>1
      <4> QED
        BY <4>1, <4>2, <2>2, <1>1
    <3>4. stack[i].saved = Upto(stack[i].name - 1)
      BY <3>1, <3>2, <3>3, <1>1 DEF Marked
    <3>5. \A j \in 1..(stack[i].name - 1) : open'[j].wrote = open[j].wrote
      BY <3>2, <1>1
    <3>6. Written(open', stack[i].name - 1) = Written(open, stack[i].name - 1)
      BY <3>5, WrittenSame
    <3>7. Upto(stack[i].name - 1)' = Upto(stack[i].name - 1)
      BY <3>1, <3>6, <1>3 DEF Upto
    <3> QED
      BY <3>1, <3>4, <3>7
  <2>11. depth' # 0
    BY <1>1, <1>3
  <2> QED
    BY <2>6, <2>7, <2>8, <2>9, <2>10, <2>11 DEF Marked
<1> QED
  BY <1>1, <1>2, <1>3

\* A call that opens sets its mark above the others'.
LEMMA OpenedMarked ==
  ASSUME Typed, Typed', Marked, db = Upto(depth), NEW c \in Chain, Open(c)
  PROVE  Marked'
<1>1. /\ depth \in Nat /\ depth = Len(open) /\ Len(stack) \in Nat
      /\ \A i \in 1..Len(stack) : stack[i].name \in Nat \ {0}
  BY Lengths
<1>2. stack \in Seq(Entries) /\ open \in Seq(Calls)
  BY DEF Typed, TypeOK, Entries, Calls
<1> DEFINE L == Len(stack) + 1
<1>3. /\ Len(stack') = L /\ stack'[L] = [name |-> depth + 1, saved |-> db]
      /\ \A i \in 1..Len(stack) : stack'[i] = stack[i]
  BY <1>2 DEF Open, SqlOpen
<1>4. \A i \in 1..L : i \in 1..Len(stack) \/ i = L
  BY <1>1
<1>5. depth' = depth + 1 /\ disk' = disk /\ \A j \in 1..depth : open'[j] = open[j]
  BY <1>1, <1>2 DEF Open, SqlOpen
<1> HIDE DEF L
<1>7. L \in 1..L /\ \A i \in 1..Len(stack) : i \in 1..L /\ i < L
  BY <1>1 DEF L
<1>8. \A n \in 1..depth' : \E i \in 1..Len(stack') : stack'[i].name = n
  <2> TAKE n \in 1..depth'
  <2>1. CASE n = depth + 1
    BY <2>1, <1>3, <1>7
  <2>2. CASE n # depth + 1
    <3>1. PICK i \in 1..Len(stack) : stack[i].name = n
      BY <2>2, <1>1, <1>5 DEF Marked
    <3> QED
      BY <3>1, <1>3, <1>7
  <2> QED
    BY <2>1, <2>2
<1>9. \A i \in 1..Len(stack') : stack'[i].name <= depth' + 1
  <2> TAKE i \in 1..Len(stack')
  <2>1. CASE i \in 1..Len(stack)
    <3>1. stack[i].name <= depth + 1
      BY <2>1 DEF Marked
    <3> QED
      BY <2>1, <3>1, <1>1, <1>3, <1>5
  <2>2. CASE i = L
    BY <2>2, <1>1, <1>3, <1>5
  <2> QED
    BY <2>1, <2>2, <1>3, <1>4
<1>10. \A i \in 1..Len(stack') : stack'[i].name = 1 => i = 1
  <2> SUFFICES ASSUME NEW i \in 1..Len(stack'), stack'[i].name = 1 PROVE i = 1
    OBVIOUS
  <2>1. CASE i \in 1..Len(stack)
    BY <2>1, <1>3 DEF Marked
  <2>2. CASE i = L
    <3>1. depth = 0
      BY <2>2, <1>1, <1>3
    <3>2. Len(stack) = 0
      BY <3>1, <1>2 DEF Marked
    <3> QED
      BY <2>2, <3>2 DEF L
  <2> QED
    BY <2>1, <2>2, <1>3, <1>4
<1>11. \A i, j \in 1..Len(stack') : i <= j => stack'[i].name <= stack'[j].name
  <2> SUFFICES ASSUME NEW i \in 1..Len(stack'), NEW j \in 1..Len(stack'), i <= j
               PROVE  stack'[i].name <= stack'[j].name
    OBVIOUS
  <2>1. CASE j = L
    <3>1. CASE i = L
      BY <2>1, <3>1, <1>1, <1>3
    <3>2. CASE i \in 1..Len(stack)
      BY <2>1, <3>2, <1>3 DEF Marked
    <3> QED
      BY <3>1, <3>2, <1>3, <1>4
  <2>2. CASE j \in 1..Len(stack)
    <3>1. i \in 1..Len(stack)
      BY <2>2, <1>1, <1>3, <1>4 DEF L
    <3> QED
      BY <2>2, <3>1, <1>3 DEF Marked
  <2> QED
    BY <2>1, <2>2, <1>3, <1>4
<1>12. \A i \in 1..Len(stack') :
         stack'[i].name <= depth' /\ NewestMark(i)'
           => stack'[i].saved = Upto(stack[i].name - 1)'
  <2> SUFFICES ASSUME NEW i \in 1..Len(stack'),
                      stack'[i].name <= depth', NewestMark(i)'
               PROVE  stack'[i].saved = Upto(stack[i].name - 1)'
    OBVIOUS
  <2>1. CASE i = L
    <3>1. stack'[i].name = depth + 1 /\ stack'[i].saved = db
      BY <2>1, <1>3
    <3>2. Written(open', depth) = Written(open, depth)
      BY <1>5, WrittenSame
    <3>3. stack'[i].name - 1 = depth
      BY <3>1, <1>1
    <3>4. Upto(stack[i].name - 1)' = Upto(depth)
      BY <3>2, <3>3, <1>5 DEF Upto
    <3> QED
      BY <3>1, <3>4
  <2>2. CASE i \in 1..Len(stack)
    <3>1. stack[i].name < depth + 1
      BY <2>2, <1>3, <1>7 DEF NewestMark
    <3>2. NewestMark(i)
      BY <2>2, <1>3, <1>7 DEF NewestMark
    <3>3. stack[i].saved = Upto(stack[i].name - 1)
      BY <2>2, <3>1, <3>2, <1>1 DEF Marked
    <3>4. Upto(stack[i].name - 1)' = Upto(stack[i].name - 1)
      <4>1. stack'[i] = stack[i] /\ stack[i].name \in Nat
        BY <2>2, <1>1, <1>3
      <4>2. \A j \in 1..(stack[i].name - 1) : open'[j] = open[j]
        BY <4>1, <3>1, <1>1, <1>5
      <4>3. Written(open', stack[i].name - 1) = Written(open, stack[i].name - 1)
        BY <4>2, WrittenSame
      <4> QED
        BY <4>1, <4>3, <1>5 DEF Upto
    <3> QED
      BY <2>2, <3>3, <3>4, <1>3
  <2> QED
    BY <2>1, <2>2, <1>3, <1>4
<1>13. depth' # 0
  BY <1>1, <1>5
<1> QED
  BY <1>8, <1>9, <1>10, <1>11, <1>12, <1>13 DEF Marked

\* A write of the innermost call is no one else's business yet.
LEMMA WroteMarked ==
  ASSUME Typed, Typed', Marked, stack' = stack, depth' = depth,
         depth > 0 => disk' = disk,
         \A j \in 1..(depth - 1) : open'[j].wrote = open[j].wrote
  PROVE  Marked'
<1>1. /\ depth \in Nat /\ Len(stack) \in Nat
      /\ \A i \in 1..Len(stack) : stack[i].name \in Nat \ {0}
  BY Lengths
<1>2. \A i \in 1..Len(stack) : NewestMark(i)' => NewestMark(i)
  BY DEF NewestMark
<1>3. ASSUME NEW i \in 1..Len(stack), stack[i].name <= depth
      PROVE  Upto(stack[i].name - 1)' = Upto(stack[i].name - 1)
  <2>1. \A j \in 1..(stack[i].name - 1) : open'[j].wrote = open[j].wrote
    BY <1>1, <1>3
  <2>2. Written(open', stack[i].name - 1) = Written(open, stack[i].name - 1)
    BY <2>1, WrittenSame
  <2>3. disk' = disk
    BY <1>1, <1>3
  <2> QED
    BY <2>2, <2>3 DEF Upto
<1> QED
  BY <1>1, <1>2, <1>3 DEF Marked

LEMMA OpenTurn ==
  ASSUME Typed, Typed', TurnInv, NEW c \in Chain, Open(c), ~overlapped'
  PROVE  Turns' /\ Marked' /\ Books'
<1>1. /\ depth \in Nat /\ depth = Len(open) /\ DOMAIN open = 1..Len(open)
  BY Lengths
<1>2. open \in Seq(Calls)
  BY DEF Typed, TypeOK, Calls
<1>3. ~overlapped /\ \A i \in 1..depth : open[i].chain = c
  BY <1>1, Zenon DEF Open, SqlOpen, Meet
<1>4. Turns /\ Marked /\ Books
  BY <1>3 DEF TurnInv
<1>5. /\ Len(open') = depth + 1
      /\ open'[depth + 1] = [chain |-> c, level |-> depth + 1, wrote |-> {}]
      /\ \A i \in 1..depth : open'[i] = open[i]
      /\ depth' = depth + 1
      /\ UNCHANGED <<disk, db, told, kept, dropped>>
  BY <1>1, <1>2 DEF Open, SqlOpen
<1>6. \A i \in 1..(depth + 1) : i \in 1..depth \/ i = depth + 1
  BY <1>1
<1>7. Turns'
  <2>1. \A i \in 1..(depth + 1) : open'[i].chain = c /\ open'[i].level = i
    <3> TAKE i \in 1..(depth + 1)
    <3>1. CASE i \in 1..depth
      BY <3>1, <1>1, <1>3, <1>4, <1>5 DEF Turns
    <3>2. CASE i = depth + 1
      BY <3>2, <1>5
    <3> QED
      BY <3>1, <3>2, <1>6
  <2> QED
    BY <2>1, <1>5 DEF Turns
<1>8. Marked'
  BY <1>4, OpenedMarked DEF Books
<1>9. Books'
  <2>1. open'[depth + 1].wrote = {}
    BY <1>5
  <2>2. Upto(depth)' = Upto(depth)
    <3>1. ASSUME NEW x
          PROVE  x \in Written(open', depth + 1) <=> x \in Written(open, depth)
      <4>1. (\E k \in 1..(depth + 1) : x \in open'[k].wrote)
              <=> \E k \in 1..depth : x \in open[k].wrote
        BY <2>1, <1>1, <1>5, <1>6
      <4> QED
        BY <4>1, WrittenIs
    <3>2. Written(open', depth + 1) = Written(open, depth)
      BY <3>1
    <3> QED
      BY <3>2, <1>5 DEF Upto
  <2>3. \A i \in 1..(depth + 1) : open'[i].wrote \cap disk = {}
    BY <2>1, <1>1, <1>4, <1>5, <1>6 DEF Books
  <2>4. \A i, j \in 1..(depth + 1) : i # j => open'[i].wrote \cap open'[j].wrote = {}
    BY <2>1, <1>1, <1>4, <1>5, <1>6 DEF Books
  <2> QED
    BY <2>2, <2>3, <2>4, <1>4, <1>5 DEF Books
<1> QED
  BY <1>7, <1>8, <1>9

LEMMA ExecuteIs ==
  ASSUME Typed, TurnInv, NEW c \in Chain, Execute(c), ~overlapped'
  PROVE  \E w \in Write \ Used :
           /\ db' = db \cup {w} /\ UNCHANGED <<stack, depth, told, kept, dropped>>
           /\ Alone(c)
           /\ depth = 0 => open' = open /\ stack = <<>> /\ disk' = disk \cup {w}
           /\ depth > 0 =>
                /\ disk' = disk /\ Len(open') = depth
                /\ \A i \in 1..depth :
                     /\ open'[i].chain = open[i].chain /\ open'[i].level = open[i].level
                     /\ open'[i].wrote =
                          IF i = depth THEN open[i].wrote \cup {w} ELSE open[i].wrote
<1>1. /\ depth \in Nat /\ depth = Len(open) /\ DOMAIN open = 1..Len(open)
      /\ Len(stack) \in Nat
  BY Lengths
<1>2. open \in Seq(Calls)
  BY DEF Typed, TypeOK, Calls
<1>3. PICK w \in Write \ Used :
        /\ db' = db \cup {w}
        /\ disk' = IF stack = <<>> THEN disk \cup {w} ELSE disk
        /\ open' = IF Frames(c) = {} THEN open
                   ELSE [open EXCEPT ![Innermost(c)].wrote = @ \cup {w}]
        /\ Meet(c)
        /\ UNCHANGED <<stack, depth, told, kept, dropped>>
  BY DEF Execute, SqlWrite
<1>4. ~overlapped /\ Alone(c)
  BY <1>1, <1>3, Zenon DEF Meet, Alone
<1>5. Turns /\ Marked /\ Books
  BY <1>4 DEF TurnInv
<1>6. ASSUME depth = 0 PROVE open' = open /\ stack = <<>> /\ disk' = disk \cup {w}
  <2>1. Frames(c) = {}
    BY <1>1, <1>6 DEF Frames
  <2>2. stack = <<>>
    BY <1>5, <1>6 DEF Marked
  <2> QED
    BY <2>1, <2>2, <1>3
<1>7. ASSUME depth > 0
      PROVE  /\ disk' = disk /\ Len(open') = depth
             /\ \A i \in 1..depth :
                  /\ open'[i].chain = open[i].chain /\ open'[i].level = open[i].level
                  /\ open'[i].wrote =
                       IF i = depth THEN open[i].wrote \cup {w} ELSE open[i].wrote
  <2>1. Frames(c) # {}
    BY <1>1, <1>4, <1>7 DEF Frames, Alone
  <2>2. Innermost(c) = depth
    BY <2>1, <1>5, InTurn
  <2> DEFINE e == [open[depth] EXCEPT !.wrote = @ \cup {w}]
  <2>3. open' = [open EXCEPT ![depth] = e]
    BY <2>1, <2>2, <1>3
  <2>4. depth \in 1..Len(open) /\ open[depth] \in Calls
    BY <1>1, <1>7, CallIs
  <2>5. e \in Calls
    BY <2>4, WroteMore
  <2>6. /\ e.chain = open[depth].chain /\ e.level = open[depth].level
        /\ e.wrote = open[depth].wrote \cup {w}
    BY <2>4 DEF Calls
  <2> HIDE DEF e
  <2>7. /\ Len(open') = depth
        /\ \A i \in 1..depth : open'[i] = IF i = depth THEN e ELSE open[i]
    BY <2>3, <2>4, <2>5, <1>1, <1>2, ExceptSeq
  <2>8. disk' = disk
    <3>1. Entry(depth) \in 1..Len(stack)
      BY <1>5, <1>7, ItsMark
    <3>2. stack # <<>>
      BY <3>1, <1>1
    <3> QED
      BY <3>2, <1>3
  <2> QED
    BY <2>6, <2>7, <2>8
<1> QED
  BY <1>3, <1>4, <1>6, <1>7

LEMMA ExecuteTurn ==
  ASSUME Typed, Typed', TurnInv, NEW c \in Chain, Execute(c), ~overlapped'
  PROVE  Turns' /\ Marked' /\ Books'
<1>1. depth \in Nat /\ depth = Len(open)
  BY Lengths
<1>2. PICK w \in Write \ Used :
        /\ db' = db \cup {w} /\ UNCHANGED <<stack, depth, told, kept, dropped>>
        /\ depth = 0 => open' = open /\ stack = <<>> /\ disk' = disk \cup {w}
        /\ depth > 0 =>
             /\ disk' = disk /\ Len(open') = depth
             /\ \A i \in 1..depth :
                  /\ open'[i].chain = open[i].chain /\ open'[i].level = open[i].level
                  /\ open'[i].wrote =
                       IF i = depth THEN open[i].wrote \cup {w} ELSE open[i].wrote
  BY ExecuteIs
<1>3. Turns /\ Marked /\ Books
  BY Zenon DEF Execute, SqlWrite, Meet, TurnInv
<1>4. w \notin db /\ w \notin disk /\ w \notin dropped
      /\ \A i \in 1..depth : w \notin open[i].wrote
  <2>1. DOMAIN open = 1..Len(open)
    BY Lengths
  <2> QED
    BY <2>1, <1>1 DEF Used
<1>5. CASE depth = 0
  <2>1. Turns'
    BY <1>2, <1>3, <1>5 DEF Turns
  <2>2. Marked'
    BY <1>2, <1>3, <1>5, WroteMarked
  <2>3. Upto(depth) = disk /\ Upto(depth)' = disk'
    <3>1. ASSUME NEW x PROVE x \notin Written(open, 0) /\ x \notin Written(open', 0)
      BY WrittenIs
    <3>2. Written(open, depth) = {} /\ Written(open', depth') = {}
      BY <3>1, <1>2, <1>5
    <3> QED
      BY <3>2 DEF Upto
  <2>4. Books'
    BY <2>3, <1>1, <1>2, <1>3, <1>4, <1>5, ZenonT(40) DEF Books
  <2> QED
    BY <2>1, <2>2, <2>4
<1>6. CASE depth > 0
  <2>1. depth \in 1..depth /\ \A i \in 1..(depth - 1) : i \in 1..depth /\ i # depth
    BY <1>1, <1>6
  <2>2. Turns'
    BY <1>1, <1>2, <1>3, <1>6, ZenonT(40) DEF Turns
  <2>3. Marked'
    BY <2>1, <1>2, <1>3, <1>6, WroteMarked
  <2>4. Books'
    <3>1. \A i \in 1..depth :
            open'[i].wrote = IF i = depth THEN open[i].wrote \cup {w} ELSE open[i].wrote
      BY <1>2, <1>6
    <3>2. db' = Upto(depth)'
      <4>1. ASSUME NEW x
            PROVE  x \in Written(open', depth) <=> x \in Written(open, depth) \cup {w}
        <5>1. (\E k \in 1..depth : x \in open'[k].wrote)
                <=> x = w \/ \E k \in 1..depth : x \in open[k].wrote
          BY <3>1, <2>1
        <5> QED
          BY <5>1, WrittenIs
      <4>2. Written(open', depth) = Written(open, depth) \cup {w}
        BY <4>1
      <4>3. db = disk \cup Written(open, depth)
        BY <1>3 DEF Books, Upto
      <4>4. Upto(depth)' = disk \cup Written(open', depth)
        BY <1>2, <1>6 DEF Upto
      <4> QED
        BY <4>2, <4>3, <4>4, <1>2
    <3>3. \A i \in 1..depth : open'[i].wrote \cap disk = {}
      <4>1. \A i \in 1..depth : open[i].wrote \cap disk = {}
        BY <1>1, <1>3 DEF Books
      <4> QED
        BY <3>1, <4>1, <1>4
    <3>4. \A i, j \in 1..depth : i # j => open'[i].wrote \cap open'[j].wrote = {}
      <4>1. \A i, j \in 1..depth : i # j => open[i].wrote \cap open[j].wrote = {}
        BY <1>1, <1>3 DEF Books
      <4> QED
        BY <3>1, <4>1, <1>4, ZenonT(40)
    <3> QED
      BY <3>2, <3>3, <3>4, <1>2, <1>3, <1>4, <1>6 DEF Books
  <2> QED
    BY <2>2, <2>3, <2>4
<1> QED
  BY <1>1, <1>5, <1>6

LEMMA SettledTurns ==
  ASSUME Typed, Turns, depth > 0, Len(open') = depth - 1,
         \A j \in 1..(depth - 1) :
           open'[j].chain = open[j].chain /\ open'[j].level = open[j].level
  PROVE  Turns'
<1>1. depth \in Nat /\ depth = Len(open)
  BY Lengths
<1> QED
  BY <1>1 DEF Turns

LEMMA WrittenLast ==
  ASSUME NEW o, NEW n \in Nat \ {0}
  PROVE  Written(o, n) = Written(o, n - 1) \cup o[n].wrote
<1>1. ASSUME NEW x
      PROVE  x \in Written(o, n) <=> x \in Written(o, n - 1) \cup o[n].wrote
  <2>1. (\E k \in 1..n : x \in o[k].wrote)
          <=> (\E k \in 1..(n - 1) : x \in o[k].wrote) \/ x \in o[n].wrote
    <3>1. \A k : k \in 1..n <=> k \in 1..(n - 1) \/ k = n
      OBVIOUS
    <3> QED
      BY <3>1, Zenon
  <2>2. x \in Written(o, n) <=> \E k \in 1..n : x \in o[k].wrote
    BY WrittenIs
  <2>3. x \in Written(o, n - 1) <=> \E k \in 1..(n - 1) : x \in o[k].wrote
    BY WrittenIs
  <2> QED
    BY <2>1, <2>2, <2>3, Zenon
<1> QED
  BY <1>1

\* What a call wrote is apart from what the file holds and the calls around it
\* wrote.
LEMMA WrittenApart ==
  ASSUME Typed, Books, depth > 0
  PROVE  open[depth].wrote \cap Upto(depth - 1) = {}
<1>1. depth \in Nat /\ depth = Len(open)
  BY Lengths
<1>2. open[depth].wrote \cap disk = {}
  BY <1>1 DEF Books
<1>3. ASSUME NEW x \in open[depth].wrote PROVE x \notin Written(open, depth - 1)
  <2>1. \A k \in 1..(depth - 1) : x \notin open[k].wrote
    BY <1>1 DEF Books
  <2> QED
    BY <2>1, WrittenIs
<1> QED
  BY <1>2, <1>3 DEF Upto

LEMMA RejectIs ==
  ASSUME Typed, TurnInv, NEW c \in Chain, Reject(c), ~overlapped'
  PROVE  /\ depth > 0 /\ depth' = depth - 1 /\ Alone(c)
         /\ db' = Upto(depth - 1) /\ disk' = disk /\ kept' = kept
         /\ stack' = (IF depth = 1 THEN <<>> ELSE SubSeq(stack, 1, Entry(depth)))
         /\ dropped' = dropped \cup open[depth].wrote
         /\ told' = [told EXCEPT ![c] = "failed"]
         /\ Len(open') = depth - 1 /\ \A j \in 1..(depth - 1) : open'[j] = open[j]
<1>1. Frames(c) # {}
  BY DEF Reject
<1>2. Turns /\ Marked
  BY DEF Reject, Drop, Settle, TurnInv
<1>3. /\ depth > 0 /\ Innermost(c) = depth /\ open[depth].level = depth /\ Alone(c)
  BY <1>1, <1>2, InTurn
<1>4. /\ db' = stack[Entry(depth)].saved
      /\ stack' = (IF depth = 1 THEN <<>> ELSE SubSeq(stack, 1, Entry(depth)))
      /\ disk' = disk /\ kept' = kept /\ depth' = depth - 1
      /\ dropped' = dropped \cup open[depth].wrote
      /\ open' = Without(depth) /\ told' = [told EXCEPT ![c] = "failed"]
  BY <1>3 DEF Reject, SqlRollback, Drop, Settle
<1>5. Len(open') = depth - 1 /\ \A j \in 1..(depth - 1) : open'[j] = open[j]
  BY <1>3, <1>4, WithoutLast
<1>6. db' = Upto(depth - 1)
  BY <1>2, <1>3, <1>4, ItsMark
<1> QED
  BY <1>3, <1>4, <1>5, <1>6

LEMMA RejectTurn ==
  ASSUME Typed, Typed', TurnInv, NEW c \in Chain, Reject(c), ~overlapped'
  PROVE  Turns' /\ Marked' /\ Books'
<1>1. depth \in Nat /\ depth = Len(open) /\ told \in [Chain -> Answers]
  BY Lengths DEF Typed, TypeOK
<1>2. Turns /\ Marked /\ Books
  BY DEF Reject, Drop, Settle, TurnInv
<1>3. depth > 0
  BY RejectIs
<1>4. /\ db' = Upto(depth - 1) /\ disk' = disk /\ kept' = kept
      /\ stack' = (IF depth = 1 THEN <<>> ELSE SubSeq(stack, 1, Entry(depth)))
      /\ dropped' = dropped \cup open[depth].wrote /\ depth' = depth - 1
      /\ told' = [told EXCEPT ![c] = "failed"]
  BY RejectIs
<1>5. Len(open') = depth - 1 /\ \A j \in 1..(depth - 1) : open'[j] = open[j]
  BY RejectIs
<1>6. Turns'
  BY <1>2, <1>3, <1>5, SettledTurns
<1>7. Marked'
  <2>1. \A j \in 1..(depth - 2) : open'[j].wrote = open[j].wrote
    BY <1>1, <1>5
  <2>2. (depth = 1 => stack' = <<>>)
        /\ (depth > 1 => stack' = SubSeq(stack, 1, Entry(depth)) /\ disk' = disk)
    <3>1. CASE depth = 1
      BY <3>1, <1>4
    <3>2. CASE depth # 1
      <4> DEFINE cut == SubSeq(stack, 1, Entry(depth))
      <4>1. stack' = cut /\ disk' = disk
        BY <3>2, <1>4
      <4> HIDE DEF cut
      <4>2. (depth = 1 => stack' = <<>>) /\ (depth > 1 => stack' = cut /\ disk' = disk)
        BY <3>2, <4>1
      <4> QED
        BY <4>2 DEF cut
    <3> QED
      BY <3>1, <3>2
  <2> QED
    BY <2>1, <2>2, <1>2, <1>3, <1>4, ClosedMarked
<1>8. Books'
  <2>1. db' = Upto(depth - 1)
    BY <1>4
  <2>2. Written(open', depth - 1) = Written(open, depth - 1)
    BY <1>5, WrittenSame
  <2>3. db' = Upto(depth)'
    BY <2>1, <2>2, <1>4 DEF Upto
  <2>4. dropped' \cap db' = {}
    <3>1. db = disk \cup Written(open, depth)
      BY <1>2 DEF Books, Upto
    <3>2. Written(open, depth) = Written(open, depth - 1) \cup open[depth].wrote
      BY <1>1, <1>3, WrittenLast
    <3>3. Upto(depth - 1) \subseteq db
      BY <3>1, <3>2 DEF Upto
    <3>4. open[depth].wrote \cap Upto(depth - 1) = {}
      BY <1>2, <1>3, WrittenApart
    <3>5. dropped \cap db = {}
      BY <1>2 DEF Books
    <3> QED
      BY <3>3, <3>4, <3>5, <2>1, <1>4
  <2>5. \A i \in 1..Len(open') : i \in 1..Len(open) /\ open'[i] = open[i]
    BY <1>1, <1>5
  <2>6. \A i \in 1..Len(open') : open'[i].wrote \cap disk' = {}
    BY <2>5, <1>2, <1>4 DEF Books
  <2>7. \A i, j \in 1..Len(open') : i # j => open'[i].wrote \cap open'[j].wrote = {}
    BY <2>5, <1>2 DEF Books
  <2>8. \A d \in Chain : told'[d] \notin {"lost", "refused"}
    <3>1. \A d \in Chain : told[d] \notin {"lost", "refused"}
      BY <1>2 DEF Books
    <3> QED
      BY <3>1, <1>1, <1>4
  <2>9. kept' \subseteq disk'
    BY <1>2, <1>4 DEF Books
  <2> QED
    BY <2>3, <2>4, <2>6, <2>7, <2>8, <2>9 DEF Books
<1> QED
  BY <1>6, <1>7, <1>8

LEMMA ResolveIs ==
  ASSUME Typed, TurnInv, NEW c \in Chain, Resolve(c), ~overlapped'
  PROVE  /\ depth > 0 /\ depth' = depth - 1 /\ Alone(c)
         /\ db' = db /\ dropped' = dropped /\ told' = [told EXCEPT ![c] = "ok"]
         /\ stack' = SubSeq(stack, 1, Entry(depth) - 1)
         /\ depth = 1 =>
              /\ disk' = db /\ kept' = kept \cup open[depth].wrote
              /\ stack' = <<>> /\ Len(open') = 0
         /\ depth > 1 =>
              /\ disk' = disk /\ kept' = kept /\ Len(open') = depth - 1
              /\ \A j \in 1..(depth - 1) :
                   /\ open'[j].chain = open[j].chain /\ open'[j].level = open[j].level
                   /\ open'[j].wrote = IF j = depth - 1 THEN open[j].wrote \cup open[depth].wrote
                                       ELSE open[j].wrote
<1> DEFINE mine == open[depth].wrote
           rest == Without(depth)
<1>1. depth \in Nat /\ depth = Len(open) /\ Frames(c) # {}
  BY Lengths DEF Resolve
<1>2. Turns /\ Marked
  BY DEF Resolve, Settle, TurnInv
<1>3. /\ depth > 0 /\ Innermost(c) = depth /\ open[depth].level = depth /\ Alone(c)
      /\ Enclosing(c) = 1..(depth - 1)
      /\ depth > 1 => Newest(Enclosing(c)) = depth - 1
  BY <1>1, <1>2, InTurn
<1>4. /\ db' = db /\ disk' = (IF Entry(depth) = 1 THEN db ELSE disk)
      /\ stack' = SubSeq(stack, 1, Entry(depth) - 1)
      /\ dropped' = dropped /\ depth' = depth - 1
      /\ told' = [told EXCEPT ![c] = "ok"]
      /\ IF Enclosing(c) = {}
           THEN open' = rest /\ kept' = kept \cup mine
           ELSE /\ open' = [rest EXCEPT ![Newest(Enclosing(c))].wrote = @ \cup mine]
                /\ kept' = kept
  BY <1>3 DEF Resolve, SqlCommit, Settle
<1>5. /\ Len(rest) = depth - 1 /\ rest \in Seq(Calls)
      /\ \A j \in 1..(depth - 1) : rest[j] = open[j]
  BY <1>1, <1>3, WithoutLast, WithoutIs
<1>6. Entry(depth) = 1 <=> depth = 1
  BY <1>2, <1>3, ItsMark
<1> HIDE DEF mine, rest
<1>7. ASSUME depth = 1
      PROVE  /\ disk' = db /\ kept' = kept \cup mine
             /\ stack' = <<>> /\ Len(open') = 0
  <2>1. open' = rest /\ kept' = kept \cup mine
    BY <1>3, <1>4, <1>7
  <2>2. stack \in Seq(Entries)
    BY DEF Typed, TypeOK, Entries
  <2>3. stack' = SubSeq(stack, 1, 0)
    BY <1>4, <1>6, <1>7
  <2>4. stack' = <<>>
    BY <2>2, <2>3
  <2> QED
    BY <2>1, <2>4, <1>4, <1>5, <1>6, <1>7
<1>8. ASSUME depth > 1
      PROVE  /\ disk' = disk /\ kept' = kept /\ Len(open') = depth - 1
             /\ \A j \in 1..(depth - 1) :
                  /\ open'[j].chain = open[j].chain /\ open'[j].level = open[j].level
                  /\ open'[j].wrote = IF j = depth - 1 THEN open[j].wrote \cup mine
                                      ELSE open[j].wrote
  <2> DEFINE p == depth - 1
             e == [rest[p] EXCEPT !.wrote = @ \cup mine]
  <2>1. p = depth - 1 /\ p \in Nat \ {0} /\ depth # 1 /\ p \in 1..p
    BY <1>1, <1>8
  <2> HIDE DEF p
  <2>2. p \in 1..Len(rest) /\ p \in Enclosing(c)
    <3>1. Len(rest) = p /\ Enclosing(c) = 1..p
      BY <2>1, <1>3, <1>5
    <3> QED
      BY <2>1, <3>1
  <2>3. disk' = disk /\ kept' = kept
    BY <2>1, <2>2, <1>4, <1>6
  <2>4. open' = [rest EXCEPT ![p] = e]
    BY <2>1, <2>2, <1>3, <1>4, <1>8
  <2>5. rest[p] = open[p] /\ rest[p] \in Calls /\ mine \subseteq Write
    <3>1. mine \subseteq Write
      BY <1>1, <1>3, CallIs DEF mine
    <3>2. rest[p] = open[p]
      BY <2>1, <2>2, <1>5
    <3> QED
      BY <2>2, <3>1, <3>2, <1>5, ElementOfSeq
  <2>6. e \in Calls /\ e.chain = open[p].chain /\ e.level = open[p].level
        /\ e.wrote = open[p].wrote \cup mine
    BY <2>5 DEF Calls
  <2> HIDE DEF e
  <2>7. Len(open') = p /\ \A j \in 1..p : open'[j] = IF j = p THEN e ELSE open[j]
    BY <2>1, <2>2, <2>4, <2>6, <1>5, ExceptSeq
  <2>8. \A j \in 1..p :
          /\ open'[j].chain = open[j].chain /\ open'[j].level = open[j].level
          /\ open'[j].wrote = IF j = p THEN open[j].wrote \cup mine ELSE open[j].wrote
    BY <2>6, <2>7
  <2> QED
    BY <2>1, <2>3, <2>7, <2>8
<1> QED
  BY <1>3, <1>4, <1>7, <1>8 DEF mine

LEMMA ResolveTurn ==
  ASSUME Typed, Typed', TurnInv, NEW c \in Chain, Resolve(c), ~overlapped'
  PROVE  Turns' /\ Marked' /\ Books'
<1> DEFINE mine == open[depth].wrote
           cut == Entry(depth) - 1
<1>1. depth \in Nat /\ depth = Len(open) /\ told \in [Chain -> Answers]
  BY Lengths DEF Typed, TypeOK
<1>2. Turns /\ Marked /\ Books
  BY DEF Resolve, Settle, TurnInv
<1>3. /\ depth > 0 /\ depth' = depth - 1
      /\ db' = db /\ dropped' = dropped /\ told' = [told EXCEPT ![c] = "ok"]
      /\ stack' = SubSeq(stack, 1, cut)
      /\ depth = 1 =>
           /\ disk' = db /\ kept' = kept \cup mine
           /\ stack' = <<>> /\ Len(open') = 0
      /\ depth > 1 =>
           /\ disk' = disk /\ kept' = kept /\ Len(open') = depth - 1
           /\ \A j \in 1..(depth - 1) :
                /\ open'[j].chain = open[j].chain /\ open'[j].level = open[j].level
                /\ open'[j].wrote = IF j = depth - 1 THEN open[j].wrote \cup mine
                                    ELSE open[j].wrote
  BY ResolveIs
<1>4. cut \in {Entry(depth) - 1, Entry(depth)}
  OBVIOUS
<1>5. \A d \in Chain : told'[d] \notin {"lost", "refused"}
  BY <1>1, <1>2, <1>3 DEF Books
<1>6. db = disk \cup Written(open, depth)
  BY <1>2 DEF Books, Upto
<1>7. Written(open, depth) = Written(open, depth - 1) \cup mine
  BY <1>1, <1>3, WrittenLast
<1>8. kept \subseteq disk /\ dropped \cap db = {}
  BY <1>2 DEF Books
<1> HIDE DEF mine, cut
<1>9. CASE depth = 1
  <2>1. Len(open') = 0 /\ depth' = 0 /\ stack' = <<>> /\ Len(stack') = 0
    <3>1. Len(open') = 0 /\ depth' = 0
      BY <1>3, <1>9
    <3>2. stack' = <<>>
      BY <1>3, <1>9, Zenon
    <3> QED
      BY <3>1, <3>2
  <2>2. Turns'
    BY <2>1 DEF Turns
  <2>3. Marked'
    BY <2>1 DEF Marked
  <2>4. Upto(depth)' = disk'
    <3>1. \A x : x \notin Written(open', 0)
      BY WrittenIs
    <3>2. Written(open', 0) = {}
      BY <3>1
    <3> QED
      BY <3>2, <2>1 DEF Upto
  <2>5. kept' \subseteq disk' /\ dropped' \cap db' = {} /\ db' = disk'
    BY <1>3, <1>6, <1>7, <1>8, <1>9
  <2>6. Books'
    BY <2>1, <2>4, <2>5, <1>5 DEF Books
  <2> QED
    BY <2>2, <2>3, <2>6
<1>10. CASE depth > 1
  <2> DEFINE p == depth - 1
  <2>1. p = depth - 1 /\ p \in Nat \ {0} /\ p \in 1..p /\ depth = p + 1
        /\ depth - 2 = p - 1 /\ depth # 1
    BY <1>1, <1>10
  <2>2. /\ disk' = disk /\ kept' = kept /\ Len(open') = p
        /\ \A j \in 1..p : open'[j].chain = open[j].chain /\ open'[j].level = open[j].level
        /\ \A j \in 1..p :
             open'[j].wrote = IF j = p THEN open[j].wrote \cup mine ELSE open[j].wrote
    BY <1>3, <1>10
  <2> HIDE DEF p
  <2>3. \A j \in 1..(p - 1) : open'[j].wrote = open[j].wrote
    <3>1. \A j \in 1..(p - 1) : j \in 1..p /\ j # p
      BY <2>1
    <3> QED
      BY <2>2, <3>1
  <2>4. Turns'
    BY <2>1, <2>2, <1>2, <1>3, SettledTurns
  <2>5. Marked'
    <3>1. \A j \in 1..(depth - 2) : open'[j].wrote = open[j].wrote
      BY <2>1, <2>3
    <3>2. (depth = 1 => stack' = <<>>)
          /\ (depth > 1 => stack' = SubSeq(stack, 1, cut) /\ disk' = disk)
      BY <2>1, <2>2, <1>3
    <3> QED
      BY <3>1, <3>2, <1>2, <1>3, <1>4, ClosedMarked
  <2>6. Books'
    <3>1. Written(open', p) = Written(open, depth)
      <4>1. Written(open', p) = Written(open', p - 1) \cup open'[p].wrote
        BY <2>1, WrittenLast
      <4>2. Written(open, p) = Written(open, p - 1) \cup open[p].wrote
        BY <2>1, WrittenLast
      <4>3. Written(open', p - 1) = Written(open, p - 1)
        BY <2>3, WrittenSame
      <4>4. open'[p].wrote = open[p].wrote \cup mine
        BY <2>1, <2>2
      <4>5. Written(open, depth) = Written(open, p) \cup mine
        BY <2>1, <1>7
      <4> QED
        BY <4>1, <4>2, <4>3, <4>4, <4>5
    <3>2. db' = Upto(depth)'
      BY <3>1, <2>1, <2>2, <1>3, <1>6 DEF Upto
    <3>3. \A i \in 1..p : open[i].wrote \cap disk = {}
      BY <2>1, <1>1, <1>2 DEF Books
    <3>4. mine \cap disk = {}
      BY <1>1, <1>2, <1>3 DEF Books, mine
    <3>5. \A i \in 1..p : open'[i].wrote \cap disk = {}
      BY <2>2, <3>3, <3>4
    <3>6. \A i, j \in 1..p : i # j => open[i].wrote \cap open[j].wrote = {}
      BY <2>1, <1>1, <1>2 DEF Books
    <3>7. \A i \in 1..p : open[i].wrote \cap mine = {}
      BY <2>1, <1>1, <1>2, <1>3 DEF Books, mine
    <3>8. \A i, j \in 1..p : i # j => open'[i].wrote \cap open'[j].wrote = {}
      BY <2>2, <3>6, <3>7
    <3> QED
      BY <3>2, <3>5, <3>8, <2>2, <1>3, <1>5, <1>8 DEF Books
  <2> QED
    BY <2>4, <2>5, <2>6
<1> QED
  BY <1>1, <1>3, <1>9, <1>10

\* Chains that have overlapped stay so, and while they have not, every step
\* leaves the marks and the books in order.
LEMMA TurnStep == Typed /\ Typed' /\ TurnInv /\ [Next]_vars => TurnInv'
<1> SUFFICES ASSUME Typed, Typed', TurnInv, [Next]_vars, ~overlapped'
             PROVE  Turns' /\ Marked' /\ Books'
  BY DEF TurnInv
<1>1. ~overlapped
  BY Zenon DEF Next, vars, Open, OpenRefused, Execute, Resolve, Reject, ResolveLost,
               RejectLost, Crash, Drop, Settle, Meet
<1>2. Turns /\ Marked /\ Books
  BY <1>1 DEF TurnInv
<1>3. ASSUME NEW c \in Chain, OpenRefused(c) PROVE FALSE
  <2>1. depth \in Nat /\ (depth = 0 => stack = <<>>)
    BY <1>2 DEF Typed, TypeOK, Marked
  <2> QED
    BY <2>1, <1>3 DEF OpenRefused, Opens
<1>4. ASSUME NEW c \in Chain, ResolveLost(c) \/ RejectLost(c) PROVE FALSE
  <2>1. Frames(c) # {} /\ ~Known(open[Innermost(c)].level)
    BY <1>4 DEF ResolveLost, RejectLost
  <2>2. Innermost(c) = depth /\ open[depth].level = depth /\ depth > 0
    BY <2>1, <1>2, InTurn
  <2>3. Known(depth)
    BY <2>2, <1>2, ItsMark
  <2> QED
    BY <2>1, <2>2, <2>3
<1>5. ASSUME Crash PROVE Turns' /\ Marked' /\ Books'
  <2>1. /\ db' = disk /\ disk' = disk /\ stack' = <<>> /\ depth' = 0 /\ open' = <<>>
        /\ kept' = kept /\ dropped' = dropped /\ told' = [c \in Chain |-> "none"]
    BY <1>5 DEF Crash, SqlLost
  <2>2. Len(open') = 0 /\ Len(stack') = 0
    BY <2>1
  <2>3. Turns' /\ Marked'
    BY <2>1, <2>2 DEF Turns, Marked
  <2>4. Upto(depth)' = disk
    <3>1. \A x : x \notin Written(open', 0)
      BY WrittenIs
    <3>2. Written(open', 0) = {}
      BY <3>1
    <3> QED
      BY <3>2, <2>1 DEF Upto
  <2>5. kept \subseteq disk /\ dropped \cap disk = {}
    BY <1>2 DEF Books, Upto
  <2>6. \A c \in Chain : told'[c] \notin {"lost", "refused"}
    BY <2>1
  <2>7. Books'
    BY <2>1, <2>2, <2>4, <2>5, <2>6 DEF Books
  <2> QED
    BY <2>3, <2>7
<1>6. ASSUME UNCHANGED vars PROVE Turns' /\ Marked' /\ Books'
  BY <1>2, <1>6 DEF vars, Turns, Marked, NewestMark, Books, Upto, Written
<1> QED
  BY <1>3, <1>4, <1>5, <1>6, OpenTurn, ExecuteTurn, RejectTurn, ResolveTurn DEF Next

TurnsKept == Typed /\ TurnInv

LEMMA TurnsKeptInit == Init => TurnsKept
<1> SUFFICES ASSUME Init PROVE TurnsKept
  OBVIOUS
<1>1. Typed
  BY TypedInit
<1>2. /\ disk = {} /\ db = {} /\ stack = <<>> /\ depth = 0 /\ open = <<>>
      /\ kept = {} /\ dropped = {} /\ told = [c \in Chain |-> "none"]
  BY DEF Init
<1>3. Len(open) = 0 /\ Len(stack) = 0
  BY <1>2
<1>4. Turns /\ Marked
  BY <1>2, <1>3 DEF Turns, Marked
<1>5. Upto(depth) = {}
  <2>1. \A x : x \notin Written(open, 0)
    BY WrittenIs
  <2>2. Written(open, 0) = {}
    BY <2>1
  <2> QED
    BY <2>2, <1>2 DEF Upto
<1>6. Books
  BY <1>2, <1>3, <1>5 DEF Books
<1> QED
  BY <1>1, <1>4, <1>6 DEF TurnsKept, TurnInv

LEMMA TurnsKeptStep == TurnsKept /\ [Next]_vars => TurnsKept'
BY TypedStep, TurnStep DEF TurnsKept

LEMMA TurnsKeptAlways == Spec => []TurnsKept
BY TurnsKeptInit, TurnsKeptStep, PTL DEF Spec

\* As long as chains take turns, what transaction() tells its caller is what the
\* file holds, however calls nest, whichever of them throw and wherever the
\* process dies.
THEOREM CallersAreToldTheTruth == Spec => []OutcomeIsAsTold
<1>1. TurnsKept => OutcomeIsAsTold
  <2> SUFFICES ASSUME TurnsKept, ~overlapped
               PROVE  /\ kept \subseteq disk
                      /\ dropped \cap (db \cup disk) = {}
                      /\ \A c \in Chain : told[c] \notin {"lost", "refused"}
    BY DEF OutcomeIsAsTold
  <2>1. Books
    BY DEF TurnsKept, TurnInv
  <2>2. disk \subseteq db
    BY <2>1 DEF Books, Upto
  <2> QED
    BY <2>1, <2>2 DEF Books
<1> QED
  BY <1>1, TurnsKeptAlways, PTL

-----------------------------------------------------------------------------
(* The savepoints implement TransactionScope.  While one chain is alone in *)
(* flight, its scopes are the calls in flight, in order.                   *)

InOrder(c) ==
  /\ Pending(c) \in Seq(SUBSET Write) /\ Len(Pending(c)) = depth
  /\ \A i \in 1..depth : Pending(c)[i] = open[i].wrote
  /\ \A d \in Chain \ {c} : Pending(d) = <<>>

LEMMA EmptyFunction ==
  ASSUME NEW f, f = [i \in 1..0 |-> f[i]]
  PROVE  f = <<>>
<1>1. IsList(f, 0)
  BY ListOfFunction
<1>2. f \in Seq({f[i] : i \in 1..0})
  BY DEF IsList
<1> QED
  BY <1>1, <1>2 DEF IsList

LEMMA FirstAreMany ==
  ASSUME NEW n \in Nat
  PROVE  Cardinality(1..n) = n
<1>1. 1 \in Int /\ n \in Int
  OBVIOUS
<1>2. Cardinality(1..n) = IF 1 > n THEN 0 ELSE n - 1 + 1
  BY <1>1, FS_Interval
<1> QED
  BY <1>2

PendingForm == \A c \in Chain : Alone(c) => InOrder(c)

LEMMA PendingIs == Typed => PendingForm
<1> SUFFICES ASSUME Typed, NEW c \in Chain, Alone(c) PROVE InOrder(c)
  BY DEF PendingForm
<1>1. depth \in Nat /\ depth = Len(open) /\ DOMAIN open = 1..depth
  BY Lengths
<1>2. Frames(c) = 1..depth
  BY <1>1 DEF Frames, Alone
<1>3. Cardinality(1..depth) = depth
  BY <1>1, FirstAreMany
<1>4. ASSUME NEW i \in 1..depth PROVE Call(c, i) = i
  <2>1. ASSUME NEW j \in 1..depth
        PROVE  Cardinality({k \in 1..depth : k <= j}) = j
    <3>1. {k \in 1..depth : k <= j} = 1..j
      BY <1>1
    <3>2. j \in Nat
      BY <1>1
    <3>3. Cardinality(1..j) = j
      BY <3>2, FirstAreMany
    <3> QED
      BY <3>1, <3>3
  <2> DEFINE P(j) == Cardinality({k \in 1..depth : k <= j}) = i
  <2>2. \A j \in 1..depth : P(j) <=> j = i
    BY <2>1
  <2> HIDE DEF P
  <2>3. (CHOOSE j \in 1..depth : P(j)) = i
    BY <2>2
  <2>4. Call(c, i) = CHOOSE j \in 1..depth : P(j)
    BY <1>2 DEF Call, P
  <2> QED
    BY <2>3, <2>4
<1>5. Pending(c) = [i \in 1..depth |-> open[i].wrote]
  BY <1>2, <1>3, <1>4 DEF Pending
<1>6. ASSUME NEW d \in Chain \ {c} PROVE Pending(d) = <<>>
  <2>1. Frames(d) = {}
    BY <1>1 DEF Frames, Alone
  <2>2. Cardinality(Frames(d)) = 0
    BY <2>1, FS_EmptySet
  <2>3. Pending(d) = [i \in 1..0 |-> open[Call(d, i)].wrote]
    BY <2>2 DEF Pending
  <2>4. Pending(d) = [i \in 1..0 |-> Pending(d)[i]]
    BY <2>3
  <2> QED
    BY <2>4, EmptyFunction
<1>7. Pending(c) \in Seq(SUBSET Write)
  <2>1. \A i \in 1..depth : open[i].wrote \in SUBSET Write
    BY <1>1, CallIs
  <2> QED
    BY <2>1, <1>1, <1>5, IsASeq
<1>8. Len(Pending(c)) = depth
  <2>1. Pending(c) = [i \in 1..depth |-> Pending(c)[i]]
    BY <1>5
  <2> QED
    BY <2>1, <1>1, ListOfFunction DEF IsList
<1> QED
  BY <1>5, <1>6, <1>7, <1>8 DEF InOrder

LEMMA PendingIsNext == Typed' => PendingForm'
BY PendingIs, PTL

Pendings == [c \in Chain |-> Pending(c)]

\* Only the scopes of the chain that is alone change.
LEMMA OneMoves ==
  ASSUME NEW c \in Chain, InOrder(c), InOrder(c)'
  PROVE  Pendings' = [Pendings EXCEPT ![c] = Pending(c)']
<1>1. \A d \in Chain \ {c} : Pending(d) = <<>> /\ Pending(d)' = <<>>
  BY DEF InOrder
<1>2. Pendings' = [d \in Chain |-> Pending(d)']
  BY DEF Pendings
<1>3. [Pendings EXCEPT ![c] = Pending(c)']
        = [d \in Chain |-> IF d = c THEN Pending(c)' ELSE Pending(d)]
  BY DEF Pendings
<1> QED
  BY <1>1, <1>2, <1>3

LEMMA BeginSimulated ==
  ASSUME TurnsKept, TurnsKept', NEW c \in Chain, Open(c), ~overlapped'
  PROVE  Scope!Begin(c)
<1>1. Typed /\ Typed' /\ depth \in Nat /\ depth = Len(open) /\ DOMAIN open = 1..Len(open)
  BY Lengths DEF TurnsKept
<1>2. open \in Seq(Calls)
  BY <1>1 DEF Typed, TypeOK, Calls
<1>3. Alone(c)
  BY <1>1, Zenon DEF Open, SqlOpen, Meet, Alone
<1>4. /\ Len(open') = depth + 1 /\ depth' = depth + 1 /\ disk' = disk
      /\ open'[depth + 1] = [chain |-> c, level |-> depth + 1, wrote |-> {}]
      /\ \A i \in 1..depth : open'[i] = open[i]
  BY <1>1, <1>2 DEF Open, SqlOpen
<1>5. \A i \in 1..(depth + 1) : i \in 1..depth \/ i = depth + 1
  BY <1>1
<1>6. Alone(c)'
  BY <1>1, <1>3, <1>4, <1>5 DEF Alone
<1>7. InOrder(c) /\ InOrder(c)'
  BY <1>1, <1>3, <1>6, PendingIs, PendingIsNext DEF PendingForm
<1>8. Pending(c)' = Append(Pending(c), {})
  <2> DEFINE new == Append(Pending(c), {})
  <2>1. /\ new \in Seq(SUBSET Write) /\ Len(new) = depth + 1 /\ new[depth + 1] = {}
        /\ \A i \in 1..depth : new[i] = open[i].wrote
    BY <1>1, <1>7 DEF InOrder
  <2>2. /\ Pending(c)' \in Seq(SUBSET Write) /\ Len(Pending(c)') = depth + 1
        /\ \A i \in 1..(depth + 1) : Pending(c)'[i] = open'[i].wrote
    BY <1>4, <1>7 DEF InOrder
  <2> HIDE DEF new
  <2>3. ASSUME NEW i \in 1..(depth + 1) PROVE Pending(c)'[i] = new[i]
    <3>1. CASE i \in 1..depth
      BY <3>1, <2>1, <2>2, <1>4
    <3>2. CASE i = depth + 1
      BY <3>2, <2>1, <2>2, <1>4
    <3> QED
      BY <3>1, <3>2, <1>5
  <2>4. Pending(c)' = new
    BY <2>1, <2>2, <2>3, SeqEqual
  <2> QED
    BY <2>4 DEF new
<1>9. Pendings[c] = Pending(c)
  BY DEF Pendings
<1>10. Pendings' = [Pendings EXCEPT ![c] = Append(Pendings[c], {})]
  BY <1>7, <1>8, <1>9, OneMoves
<1> QED
  BY <1>4, <1>10 DEF Scope!Begin, Pendings

\* A chain that was alone and whose calls only it settled is alone still.
LEMMA OrderKept ==
  ASSUME TurnsKept, TurnsKept', NEW c \in Chain, Alone(c), Len(open') <= depth,
         \A j \in 1..Len(open') : open'[j].chain = open[j].chain
  PROVE  InOrder(c) /\ InOrder(c)'
<1>1. Typed /\ Typed' /\ depth \in Nat /\ depth = Len(open)
  BY Lengths DEF TurnsKept
<1>2. Len(open') \in Nat
  BY <1>1 DEF Typed, Balanced
<1>3. Alone(c)'
  BY <1>1, <1>2 DEF Alone
<1> QED
  BY <1>1, <1>3, PendingIs, PendingIsNext DEF PendingForm

LEMMA PutSimulated ==
  ASSUME TurnsKept, TurnsKept', NEW c \in Chain, Execute(c), ~overlapped'
  PROVE  \E w \in Write : Scope!Put(c, w)
<1>1. Typed /\ Typed' /\ TurnInv /\ depth \in Nat /\ depth = Len(open)
  BY Lengths DEF TurnsKept
<1>2. PICK w \in Write \ Used :
        /\ depth' = depth /\ Alone(c)
        /\ depth = 0 => open' = open /\ disk' = disk \cup {w}
        /\ depth > 0 =>
             /\ disk' = disk /\ Len(open') = depth
             /\ \A i \in 1..depth :
                  /\ open'[i].chain = open[i].chain
                  /\ open'[i].wrote =
                       IF i = depth THEN open[i].wrote \cup {w} ELSE open[i].wrote
  BY <1>1, ExecuteIs
<1>3. InOrder(c) /\ InOrder(c)'
  <2>1. Len(open') = depth /\ \A i \in 1..depth : open'[i].chain = open[i].chain
    <3>1. CASE depth = 0
      BY <3>1, <1>1, <1>2
    <3>2. CASE depth > 0
      BY <3>2, <1>2
    <3> QED
      BY <3>1, <3>2, <1>1
  <2> QED
    BY <2>1, <1>1, <1>2, OrderKept
<1>4. Pendings[c] = Pending(c) /\ Len(Pending(c)) = depth
  BY <1>3 DEF Pendings, InOrder
<1>5. CASE depth = 0
  <2>1. Pendings' = Pendings
    BY <1>2, <1>5 DEF Pendings, Pending, Call, Frames
  <2> QED
    BY <2>1, <1>2, <1>4, <1>5 DEF Scope!Put, Scope!Depth, Pendings
<1>6. CASE depth > 0
  <2> DEFINE new == [Pending(c) EXCEPT ![depth] = Pending(c)[depth] \cup {w}]
  <2>1. depth \in 1..depth
    BY <1>1, <1>6
  <2>2. /\ Pending(c) \in Seq(SUBSET Write)
        /\ \A i \in 1..depth : Pending(c)[i] = open[i].wrote
    BY <1>3 DEF InOrder
  <2>3. Pending(c)[depth] \cup {w} \in SUBSET Write
    BY <2>1, <2>2, <1>4, ElementOfSeq
  <2>4. /\ new \in Seq(SUBSET Write) /\ Len(new) = depth
        /\ \A i \in 1..depth : new[i] = IF i = depth THEN Pending(c)[depth] \cup {w}
                                        ELSE Pending(c)[i]
    BY <2>1, <2>2, <2>3, <1>4, ExceptSeq
  <2>5. /\ Pending(c)' \in Seq(SUBSET Write) /\ Len(Pending(c)') = depth
        /\ \A i \in 1..depth : Pending(c)'[i] = open'[i].wrote
    BY <1>2, <1>3 DEF InOrder
  <2> HIDE DEF new
  <2>6. \A i \in 1..depth : Pending(c)'[i] = new[i]
    BY <2>2, <2>4, <2>5, <1>2, <1>6
  <2>7. Pending(c)' = new
    BY <2>4, <2>5, <2>6, SeqEqual
  <2>8. Pendings' = [Pendings EXCEPT ![c] = new]
    BY <2>7, <1>3, OneMoves
  <2>9. Pendings' = [Pendings EXCEPT ![c] =
                       [Pendings[c] EXCEPT ![Len(Pendings[c])] =
                          Pendings[c][Len(Pendings[c])] \cup {w}]]
    BY <2>8, <1>4 DEF new
  <2>10. Len(Pendings[c]) # 0 /\ disk' = disk
    BY <1>2, <1>4, <1>6
  <2> QED
    BY <2>9, <2>10 DEF Scope!Put, Scope!Depth, Pendings
<1> QED
  BY <1>1, <1>5, <1>6

LEMMA FailSimulated ==
  ASSUME TurnsKept, TurnsKept', NEW c \in Chain, Reject(c), ~overlapped'
  PROVE  Scope!Fail(c)
<1>1. Typed /\ Typed' /\ TurnInv /\ depth \in Nat /\ depth = Len(open)
  BY Lengths DEF TurnsKept
<1>2. /\ depth > 0 /\ depth' = depth - 1 /\ Alone(c) /\ disk' = disk
      /\ Len(open') = depth - 1 /\ \A j \in 1..(depth - 1) : open'[j] = open[j]
  BY <1>1, RejectIs
<1>3. InOrder(c) /\ InOrder(c)'
  <2>1. Len(open') <= depth /\ \A j \in 1..Len(open') : open'[j].chain = open[j].chain
    BY <1>1, <1>2
  <2> QED
    BY <2>1, <1>2, OrderKept
<1>4. Pendings[c] = Pending(c) /\ Len(Pending(c)) = depth /\ Pending(c) \in Seq(SUBSET Write)
  BY <1>3 DEF Pendings, InOrder
<1> DEFINE outer == SubSeq(Pending(c), 1, depth - 1)
<1>5. depth - 1 \in 0..Len(Pending(c))
  BY <1>1, <1>2, <1>4
<1>6. /\ outer \in Seq(SUBSET Write) /\ Len(outer) = depth - 1
      /\ \A i \in 1..(depth - 1) : outer[i] = Pending(c)[i]
  BY <1>4, <1>5, CutIsList
<1>7. Pending(c)' = outer
  <2>1. /\ Pending(c)' \in Seq(SUBSET Write) /\ Len(Pending(c)') = depth - 1
        /\ \A i \in 1..(depth - 1) : Pending(c)'[i] = open'[i].wrote
    BY <1>2, <1>3 DEF InOrder
  <2>2. \A i \in 1..(depth - 1) : i \in 1..depth
    BY <1>1
  <2>3. \A i \in 1..depth : Pending(c)[i] = open[i].wrote
    BY <1>3 DEF InOrder
  <2> HIDE DEF outer
  <2>4. \A i \in 1..(depth - 1) : Pending(c)'[i] = outer[i]
    BY <2>1, <2>2, <2>3, <1>2, <1>6
  <2> QED
    BY <2>1, <2>4, <1>6, SeqEqual
<1>8. Pendings' = [Pendings EXCEPT ![c] = SubSeq(Pendings[c], 1, Len(Pendings[c]) - 1)]
  BY <1>3, <1>4, <1>7, OneMoves
<1>9. Len(Pendings[c]) > 0
  BY <1>2, <1>4
<1> QED
  BY <1>2, <1>8, <1>9 DEF Scope!Fail, Scope!Depth, Scope!Outer, Pendings

LEMMA SucceedSimulated ==
  ASSUME TurnsKept, TurnsKept', NEW c \in Chain, Resolve(c), ~overlapped'
  PROVE  Scope!Succeed(c)
<1> DEFINE mine == open[depth].wrote
<1>1. Typed /\ Typed' /\ TurnInv /\ depth \in Nat /\ depth = Len(open)
  BY Lengths DEF TurnsKept
<1>2. /\ depth > 0 /\ depth' = depth - 1 /\ Alone(c)
      /\ depth = 1 => disk' = db /\ Len(open') = 0
      /\ depth > 1 =>
           /\ disk' = disk /\ Len(open') = depth - 1
           /\ \A j \in 1..(depth - 1) :
                /\ open'[j].chain = open[j].chain
                /\ open'[j].wrote = IF j = depth - 1 THEN open[j].wrote \cup mine
                                    ELSE open[j].wrote
  BY <1>1, ResolveIs
<1>3. InOrder(c) /\ InOrder(c)'
  <2>1. CASE depth = 1
    BY <2>1, <1>2, OrderKept
  <2>2. CASE depth > 1
    <3>1. Len(open') = depth - 1
          /\ \A j \in 1..(depth - 1) : open'[j].chain = open[j].chain
      BY <2>2, <1>2
    <3>2. Len(open') <= depth /\ \A j \in 1..Len(open') : open'[j].chain = open[j].chain
      BY <3>1, <1>1
    <3> QED
      BY <3>2, <1>2, OrderKept
  <2> QED
    BY <2>1, <2>2, <1>1, <1>2
<1>4. /\ Pendings[c] = Pending(c) /\ Len(Pending(c)) = depth
      /\ Pending(c) \in Seq(SUBSET Write)
      /\ \A i \in 1..depth : Pending(c)[i] = open[i].wrote
  BY <1>3 DEF Pendings, InOrder
<1>5. /\ Pending(c)' \in Seq(SUBSET Write) /\ Len(Pending(c)') = depth - 1
      /\ \A i \in 1..(depth - 1) : Pending(c)'[i] = open'[i].wrote
  BY <1>2, <1>3 DEF InOrder
<1>6. Pending(c)[depth] = mine /\ depth \in 1..depth
  BY <1>1, <1>2, <1>4
<1> HIDE DEF mine
<1>7. CASE depth = 1
  <2>1. Pending(c)' = <<>>
    BY <1>5, <1>7
  <2>2. Pendings' = [Pendings EXCEPT ![c] = <<>>]
    BY <2>1, <1>3, OneMoves
  <2>3. db = disk \cup mine
    <3>1. db = disk \cup Written(open, depth)
      <4>1. Books
        BY <1>1 DEF Resolve, Settle, TurnInv
      <4> QED
        BY <4>1 DEF Books, Upto
    <3>2. ASSUME NEW x PROVE x \in Written(open, 1) <=> x \in mine
      <4>1. (\E k \in 1..1 : x \in open[k].wrote) <=> x \in open[1].wrote
        OBVIOUS
      <4> QED
        BY <4>1, <1>7, WrittenIs DEF mine
    <3>3. Written(open, depth) = mine
      BY <3>2, <1>7
    <3> QED
      BY <3>1, <3>3
  <2>4. disk' = disk \cup Pendings[c][Len(Pendings[c])] /\ Len(Pendings[c]) = 1
    BY <2>3, <1>2, <1>4, <1>6, <1>7
  <2> QED
    BY <2>2, <2>4 DEF Scope!Succeed, Scope!Depth, Pendings
<1>8. CASE depth > 1
  <2> DEFINE p == depth - 1
             outer == SubSeq(Pending(c), 1, p)
             new == [outer EXCEPT ![p] = outer[p] \cup mine]
  <2>1. p \in 1..p /\ p \in 0..Len(Pending(c)) /\ \A i \in 1..p : i \in 1..depth
    BY <1>1, <1>4, <1>8
  <2>2. /\ outer \in Seq(SUBSET Write) /\ Len(outer) = p
        /\ \A i \in 1..p : outer[i] = Pending(c)[i]
    BY <2>1, <1>4, CutIsList
  <2> HIDE DEF outer
  <2>3. mine \in SUBSET Write /\ outer[p] \in SUBSET Write
    <3>1. mine \in SUBSET Write
      BY <1>4, <1>6, ElementOfSeq
    <3>2. outer[p] \in SUBSET Write
      BY <2>1, <2>2, ElementOfSeq
    <3> QED
      BY <3>1, <3>2
  <2>4. /\ new \in Seq(SUBSET Write) /\ Len(new) = p
        /\ \A i \in 1..p : new[i] = IF i = p THEN outer[p] \cup mine ELSE outer[i]
    <3>1. outer[p] \cup mine \in SUBSET Write /\ p \in 1..Len(outer)
      BY <2>1, <2>2, <2>3
    <3> HIDE DEF p
    <3> QED
      BY <3>1, <2>2, ExceptSeq
  <2>5. \A i \in 1..p : Pending(c)'[i] = new[i]
    <3>1. \A i \in 1..p :
            open'[i].wrote = IF i = p THEN open[i].wrote \cup mine ELSE open[i].wrote
      BY <1>2, <1>8 DEF mine
    <3>2. \A i \in 1..p : outer[i] = open[i].wrote
      BY <2>1, <2>2, <1>4
    <3>3. \A i \in 1..p : Pending(c)'[i] = open'[i].wrote
      BY <1>5
    <3> HIDE DEF p, new
    <3> QED
      BY <3>1, <3>2, <3>3, <2>4
  <2>6. Pending(c)' = new
    <3>1. Len(Pending(c)') = p
      BY <1>5
    <3> HIDE DEF p, new
    <3> QED
      BY <3>1, <2>4, <2>5, <1>5, SeqEqual
  <2>7. Pendings' = [Pendings EXCEPT ![c] = new]
    BY <2>6, <1>3, OneMoves
  <2>8. Len(Pendings[c]) = depth /\ Pendings[c][depth] = mine /\ disk' = disk
        /\ depth > 0 /\ depth # 1
    BY <1>2, <1>4, <1>6, <1>8
  <2>9. outer = SubSeq(Pendings[c], 1, Len(Pendings[c]) - 1)
    BY <1>4 DEF outer
  <2>10. Pendings' = [Pendings EXCEPT ![c] =
            [SubSeq(Pendings[c], 1, Len(Pendings[c]) - 1) EXCEPT
               ![Len(Pendings[c]) - 1] = @ \cup Pendings[c][Len(Pendings[c])]]]
    BY <2>7, <2>8, <2>9
  <2> QED
    BY <2>8, <2>10 DEF Scope!Succeed, Scope!Depth, Scope!Outer, Pendings
<1> QED
  BY <1>1, <1>2, <1>7, <1>8

\* With no call in flight, no chain has a scope open.
NoneForm == open = <<>> /\ depth = 0 => Pendings = [c \in Chain |-> <<>>]

LEMMA NoneIs == Typed => NoneForm
<1> SUFFICES ASSUME Typed, open = <<>>, depth = 0, NEW c \in Chain
             PROVE  Pending(c) = <<>>
  BY DEF NoneForm, Pendings
<1>1. Alone(c)
  BY DEF Alone
<1>2. InOrder(c)
  BY <1>1, PendingIs DEF PendingForm
<1> QED
  BY <1>2 DEF InOrder

LEMMA NoneIsNext == Typed' => NoneForm'
BY NoneIs, PTL

LEMMA ScopeStep ==
  TurnsKept /\ TurnsKept' /\ [Next]_vars => overlapped' \/ [Scope!Next]_(Scope!scopeVars)
<1> SUFFICES ASSUME TurnsKept, TurnsKept', [Next]_vars, ~overlapped'
             PROVE  [Scope!Next]_(Scope!scopeVars)
  OBVIOUS
<1>1. Typed /\ Typed' /\ TurnInv
  BY DEF TurnsKept
<1>2. ASSUME NEW c \in Chain, Open(c) PROVE Scope!Next
  BY <1>2, BeginSimulated DEF Scope!Next
<1>3. ASSUME NEW c \in Chain, Execute(c) PROVE Scope!Next
  BY <1>3, PutSimulated DEF Scope!Next
<1>4. ASSUME NEW c \in Chain, Resolve(c) PROVE Scope!Next
  BY <1>4, SucceedSimulated DEF Scope!Next
<1>5. ASSUME NEW c \in Chain, Reject(c) PROVE Scope!Next
  BY <1>5, FailSimulated DEF Scope!Next
<1>6. ASSUME NEW c \in Chain, OpenRefused(c) \/ ResolveLost(c) \/ RejectLost(c) PROVE FALSE
  <2>1. Turns /\ Marked
    BY <1>1, <1>6 DEF OpenRefused, ResolveLost, RejectLost, Drop, Settle, TurnInv
  <2>2. ~OpenRefused(c)
    <3>1. depth \in Nat /\ (depth = 0 => stack = <<>>)
      BY <1>1, <2>1 DEF Typed, TypeOK, Marked
    <3> QED
      BY <3>1 DEF OpenRefused, Opens
  <2>3. ASSUME Frames(c) # {} PROVE Known(open[Innermost(c)].level)
    <3>1. Innermost(c) = depth /\ open[depth].level = depth /\ depth > 0
      BY <2>1, <2>3, <1>1, InTurn
    <3> QED
      BY <3>1, <2>1, <1>1, ItsMark
  <2> QED
    BY <2>2, <2>3, <1>6 DEF ResolveLost, RejectLost
<1>7. ASSUME Crash PROVE Scope!Next
  <2>1. Pendings' = [c \in Chain |-> <<>>] /\ disk' = disk
    BY <1>1, <1>7, NoneIsNext DEF Crash, SqlLost, NoneForm
  <2> QED
    BY <2>1 DEF Scope!Next, Scope!Crash, Pendings
<1>8. ASSUME UNCHANGED vars PROVE UNCHANGED Scope!scopeVars
  BY <1>8 DEF vars, Scope!scopeVars, Pending, Call, Frames
<1> QED
  BY <1>2, <1>3, <1>4, <1>5, <1>6, <1>7, <1>8 DEF Next

\* As long as chains take turns, the depth counter and its savepoints implement
\* the nested scopes OrbitDatabase.transaction promises.
THEOREM SavepointsImplementScopes == Spec => ImplementsScope
<1>1. Init => Scope!Init
  <2> SUFFICES ASSUME Init PROVE Scope!Init
    OBVIOUS
  <2>1. Pendings = [c \in Chain |-> <<>>]
    BY TypedInit, NoneIs DEF Init, NoneForm
  <2> QED
    BY <2>1 DEF Init, Scope!Init, Pendings
<1>2. TurnsKept /\ TurnsKept' /\ [Next]_vars
        => [overlapped' \/ [Scope!Next]_(Scope!scopeVars)]_vars
  BY ScopeStep
<1> QED
  BY <1>1, <1>2, TurnsKeptAlways, PTL DEF Spec, ImplementsScope
=============================================================================
