--------------------------- MODULE GatewayProofs ----------------------------
(***************************************************************************)
(* Gateway for any callers, programs, keys and pool: no path of a request  *)
(* loses or doubles a connection, a pool of more than three connections    *)
(* for each caller is never emptied by callers that all wait for more, no  *)
(* key gets the server to do what its scopes do not allow, the direct      *)
(* transport does what the server does, whatever orbit's commands send has *)
(* an operation, and nothing is destroyed for a user who was not asked.    *)
(***************************************************************************)
EXTENDS Gateway, NaturalExtremes, FiniteSetTheorems, TLAPS

Fields == {"at", "surface", "via", "todo", "held", "agreed", "destructive", "keyed", "tries", "holds",
           "did", "answer"}

\* A caller's state is a record of these fields.
Shaped(state) == DOMAIN state = Fields /\ state = [f \in Fields |-> state[f]]

\* The connection of the request's tenant context, if it has one.
Own(c) == IF Bypasses(c) THEN 0 ELSE 1

\* How many connections a caller holds goes by where its request is.
HoldsWhatItMay(c) ==
  /\ caller[c].at \in {"idle", "ready", "sent", "entered", "admitted", "serving", "answered"}
  /\ caller[c].holds \in Nat
  /\ caller[c].at \notin {"admitted", "serving"} => caller[c].holds = 0
  /\ caller[c].at = "admitted" => caller[c].holds = Own(c)
  /\ caller[c].at = "serving" => Own(c) <= caller[c].holds /\ caller[c].holds <= Needs(c)

Accounted ==
  /\ IsFiniteSet(Taken)
  /\ free \in Nat
  /\ Cardinality(Taken) + free = PoolSize

Shapes == DOMAIN caller = Callers /\ \A c \in Callers : Shaped(caller[c])

PoolInv == Shapes /\ (\A c \in Callers : HoldsWhatItMay(c)) /\ Accounted

-----------------------------------------------------------------------------
(* What the operators of the model do. *)

LEMMA PeakAtMostThree ==
  \A op, keyed : Peak(op, keyed) \in {0, 1, 2, 3}
BY SMT DEF Peak

\* A request never needs more than four connections at once.
LEMMA NeedsAtMostFour ==
  \A c : Needs(c) \in 0 .. 4 /\ Own(c) \in {0, 1} /\ Own(c) <= Needs(c)
BY PeakAtMostThree DEF Needs, Own

\* A change of a record leaves its fields as they are, or as the change has them.
LEMMA OverFields ==
  ASSUME NEW state, NEW change, Shaped(state)
  PROVE  /\ Shaped(Over(change, state))
         /\ \A f \in Fields : Over(change, state)[f] = IF f \in DOMAIN change THEN change[f] ELSE state[f]
BY DEF Shaped, Over

\* Only the caller of an action changes, and it keeps its shape.
LEMMA PutChanges ==
  ASSUME Shapes, NEW c \in Callers, NEW change, Put(c, change)
  PROVE  /\ Shapes'
         /\ \A d \in Callers \ {c} : caller'[d] = caller[d]
         /\ \A f \in Fields : caller'[c][f] = IF f \in DOMAIN change THEN change[f] ELSE caller[c][f]
<1>1. Shaped(caller[c])
  BY DEF Shapes
<1>2. caller'[c] = Over(change, caller[c]) /\ DOMAIN caller' = Callers
  BY DEF Put, Shapes
<1>3. \A d \in Callers \ {c} : caller'[d] = caller[d]
  BY DEF Put, Shapes
<1> QED
  BY <1>1, <1>2, <1>3, OverFields DEF Shapes

-----------------------------------------------------------------------------
(* Counting the connections that are taken. *)

HoldsAtMostFour == \A c \in Callers : caller[c].holds \in 0 .. 4

OthersStay(c) == \A d \in Callers \ {c} : caller'[d] = caller[d]

LEMMA CountKept ==
  ASSUME Accounted, NEW c \in Callers, OthersStay(c), caller'[c].holds = caller[c].holds, free' = free
  PROVE  Accounted'
<1>1. Taken' = Taken
  BY DEF Taken, OthersStay
<1> QED
  BY <1>1 DEF Accounted

LEMMA CountTaken ==
  ASSUME Accounted, HoldsAtMostFour, HoldsAtMostFour', NEW c \in Callers, OthersStay(c), free > 0,
         caller'[c].holds = caller[c].holds + 1, free' = free - 1
  PROVE  Accounted'
<1> DEFINE k == caller[c].holds + 1
<1>1. k \in 1 .. 4 /\ caller'[c].holds = k
  BY DEF HoldsAtMostFour
<1>2. <<c, k>> \notin Taken
  BY DEF Taken, HoldsAtMostFour
<1>3. Taken' = Taken \cup {<<c, k>>}
  <2>1. ASSUME NEW t \in Callers \X (1 .. 4)
        PROVE  t[2] <= caller'[t[1]].holds <=> t[2] <= caller[t[1]].holds \/ t = <<c, k>>
    <3>1. t[1] \in Callers /\ t[2] \in 1 .. 4 /\ t = <<t[1], t[2]>>
      OBVIOUS
    <3>2. CASE t[1] = c
      BY <3>1, <3>2, <1>1 DEF HoldsAtMostFour
    <3>3. CASE t[1] # c
      BY <3>1, <3>3 DEF OthersStay
    <3> QED
      BY <3>2, <3>3
  <2>2. <<c, k>> \in Callers \X (1 .. 4)
    BY <1>1
  <2> HIDE DEF k
  <2> QED
    BY <2>1, <2>2, Zenon DEF Taken
<1> HIDE DEF k
<1>4. IsFiniteSet(Taken') /\ Cardinality(Taken') = Cardinality(Taken) + 1
  BY <1>2, <1>3, FS_AddElement DEF Accounted
<1> QED
  BY <1>4, FS_CardinalityType DEF Accounted

LEMMA CountGiven ==
  ASSUME Accounted, HoldsAtMostFour, NEW c \in Callers, OthersStay(c),
         caller'[c].holds = 0, free' = free + caller[c].holds
  PROVE  Accounted'
<1> DEFINE h == caller[c].holds
           Given == {c} \X (1 .. h)
<1>1. h \in 0 .. 4
  BY DEF HoldsAtMostFour
<1>2. Given \subseteq Taken
  BY <1>1 DEF Taken
<1>3. Taken' = Taken \ Given
  <2>1. ASSUME NEW t \in Callers \X (1 .. 4)
        PROVE  t[2] <= caller'[t[1]].holds <=> t[2] <= caller[t[1]].holds /\ t \notin Given
    <3>1. t[1] \in Callers /\ t[2] \in 1 .. 4 /\ t = <<t[1], t[2]>>
      OBVIOUS
    <3>2. CASE t[1] = c
      BY <3>1, <3>2, <1>1
    <3>3. CASE t[1] # c
      BY <3>1, <3>3 DEF OthersStay
    <3> QED
      BY <3>2, <3>3
  <2> HIDE DEF Given
  <2> QED
    BY <2>1, Zenon DEF Taken
<1>4. IsFiniteSet(Given) /\ Cardinality(Given) = h
  <2>1. IsFiniteSet(1 .. h) /\ Cardinality(1 .. h) = h
    BY <1>1, FS_Interval
  <2>2. IsFiniteSet({c}) /\ Cardinality({c}) = 1
    BY FS_Singleton
  <2>3. IsFiniteSet(Given) /\ Cardinality(Given) = Cardinality({c}) * Cardinality(1 .. h)
    BY <2>1, <2>2, FS_Product, Zenon
  <2> QED
    BY <1>1, <2>1, <2>2, <2>3
<1>5. Taken \cap Given = Given
  BY <1>2
<1> HIDE DEF h, Given
<1>6. IsFiniteSet(Taken') /\ Cardinality(Taken') = Cardinality(Taken) - h
  <2>1. IsFiniteSet(Taken \ Given)
        /\ Cardinality(Taken \ Given) = Cardinality(Taken) - Cardinality(Taken \cap Given)
    BY FS_Difference, Zenon DEF Accounted
  <2> QED
    BY <1>3, <1>4, <1>5, <2>1
<1>7. free' = free + h
  BY DEF h
<1>8. Cardinality(Taken) \in Nat /\ free \in Nat /\ Cardinality(Taken) + free = PoolSize
  BY FS_CardinalityType DEF Accounted
<1>9. free' \in Nat /\ Cardinality(Taken') + free' = PoolSize
  BY <1>1, <1>6, <1>7, <1>8, PoolAssumption
<1> QED
  BY <1>6, <1>9, Zenon DEF Accounted

-----------------------------------------------------------------------------
(* Every step keeps the account of the pool. *)

LEMMA PoolBounds ==
  ASSUME PoolInv
  PROVE  HoldsAtMostFour
<1>1. ASSUME NEW c \in Callers PROVE caller[c].holds \in 0 .. 4
  <2>1. HoldsWhatItMay(c)
    BY DEF PoolInv
  <2>2. Needs(c) \in 0 .. 4 /\ Own(c) \in {0, 1}
    BY NeedsAtMostFour
  <2> QED
    BY <2>1, <2>2 DEF HoldsWhatItMay
<1> QED
  BY <1>1 DEF HoldsAtMostFour

LEMMA OneMoves ==
  ASSUME PoolInv, NEW c \in Callers, Shapes', OthersStay(c), HoldsWhatItMay(c)', Accounted'
  PROVE  PoolInv'
<1>1. ASSUME NEW d \in Callers \ {c} PROVE HoldsWhatItMay(d)'
  <2>1. HoldsWhatItMay(d) /\ caller'[d] = caller[d]
    BY DEF PoolInv, OthersStay
  <2> QED
    BY <2>1 DEF HoldsWhatItMay, Own, Needs, Bypasses, Current
<1> QED
  BY <1>1 DEF PoolInv

LEMMA RestingHolds ==
  ASSUME NEW c, caller'[c].holds = 0, caller'[c].at \in {"idle", "ready", "sent", "entered", "answered"}
  PROVE  HoldsWhatItMay(c)'
BY DEF HoldsWhatItMay

\* Before its admission and after its answer a request holds nothing.
LEMMA Rests ==
  ASSUME PoolInv, NEW c \in Callers, Shapes', OthersStay(c), caller'[c].holds = 0,
         caller'[c].at \in {"idle", "ready", "sent", "entered", "answered"},
         free' = free + caller[c].holds
  PROVE  PoolInv'
<1>1. HoldsWhatItMay(c)'
  BY RestingHolds
<1>2. Accounted'
  BY PoolBounds, CountGiven DEF PoolInv
<1> QED
  BY <1>1, <1>2, OneMoves

LEMMA IdleIsShaped == Shaped(Idle) /\ Idle.holds = 0 /\ Idle.at = "idle"
BY DEF Idle, Shaped, Fields

LEMMA BackToIdle ==
  ASSUME PoolInv, NEW c \in Callers, caller' = [caller EXCEPT ![c] = Idle], UNCHANGED free, caller[c].holds = 0
  PROVE  PoolInv'
<1>1. Shapes' /\ OthersStay(c) /\ caller'[c] = Idle
  BY IdleIsShaped DEF PoolInv, Shapes, OthersStay
<1>2. free \in Nat
  BY DEF PoolInv, Accounted
<1>3. caller'[c].at = "idle" /\ caller'[c].holds = 0
  BY <1>1, IdleIsShaped
<1>4. free' = free + caller[c].holds
  BY <1>2
<1> QED
  BY <1>1, <1>3, <1>4, Rests

\* A change that leaves the connections alone, of a request that has none.
LEMMA RestingPut ==
  ASSUME PoolInv, NEW c \in Callers, NEW change, Put(c, change), UNCHANGED free, caller[c].holds = 0,
         "holds" \notin DOMAIN change,
         IF "at" \in DOMAIN change THEN change["at"] \in {"idle", "ready", "sent", "entered", "answered"}
                                   ELSE caller[c].at \in {"idle", "ready", "sent", "entered", "answered"}
  PROVE  PoolInv'
<1>1. Shapes' /\ OthersStay(c)
      /\ \A f \in Fields : caller'[c][f] = IF f \in DOMAIN change THEN change[f] ELSE caller[c][f]
  BY PutChanges DEF PoolInv, OthersStay
<1>2. "holds" \in Fields /\ "at" \in Fields
  BY DEF Fields
<1>3. free \in Nat
  BY DEF PoolInv, Accounted
<1>4. caller'[c].at \in {"idle", "ready", "sent", "entered", "answered"} /\ caller'[c].holds = 0
  BY <1>1, <1>2
<1>5. free' = free + caller[c].holds
  BY <1>3
<1> QED
  BY <1>1, <1>4, <1>5, Rests

LEMMA AnswerGivesBack ==
  ASSUME PoolInv, NEW c \in Callers, NEW answer, Answer(c, answer)
  PROVE  PoolInv'
<1> DEFINE change == [at |-> "answered", answer |-> answer, holds |-> 0]
<1>1. Put(c, change) /\ free' = free + caller[c].holds
  BY DEF Answer
<1>2. DOMAIN change = {"at", "answer", "holds"} /\ change["at"] = "answered" /\ change["holds"] = 0
  OBVIOUS
<1> HIDE DEF change
<1>3. Shapes' /\ OthersStay(c)
      /\ \A f \in Fields : caller'[c][f] = IF f \in DOMAIN change THEN change[f] ELSE caller[c][f]
  BY <1>1, PutChanges DEF PoolInv, OthersStay
<1>4. caller'[c].at = "answered" /\ caller'[c].holds = 0
  BY <1>2, <1>3 DEF Fields
<1> QED
  BY <1>1, <1>3, <1>4, Rests

LEMMA StartKeeps ==
  ASSUME PoolInv, NEW c \in Callers, Start(c)
  PROVE  PoolInv'
<1>1. PICK choice \in Menu[c] : caller' = [caller EXCEPT ![c] = Over(choice, [@ EXCEPT !.at = "ready"])]
  BY DEF Start
<1>2. DOMAIN choice = {"surface", "todo", "via", "held", "agreed", "destructive", "keyed"}
  BY MenuAssumption
<1> DEFINE state == [caller[c] EXCEPT !.at = "ready"]
<1>3. Shaped(caller[c]) /\ caller[c].at = "idle" /\ caller[c].holds = 0 /\ UNCHANGED free /\ free \in Nat
  BY DEF PoolInv, Shapes, Start, HoldsWhatItMay, Accounted
<1>4. Shaped(state) /\ state.at = "ready" /\ state.holds = 0
  BY <1>3 DEF Shaped, Fields
<1>5. caller'[c] = Over(choice, state) /\ DOMAIN caller' = Callers /\ OthersStay(c)
  BY <1>1 DEF PoolInv, Shapes, OthersStay
<1> HIDE DEF state
<1>6. /\ Shaped(caller'[c])
      /\ \A f \in Fields : caller'[c][f] = IF f \in DOMAIN choice THEN choice[f] ELSE state[f]
  BY <1>4, <1>5, OverFields
<1>7. caller'[c].at = "ready" /\ caller'[c].holds = 0
  BY <1>2, <1>4, <1>6 DEF Fields
<1>8. Shapes'
  BY <1>5, <1>6 DEF PoolInv, Shapes, OthersStay
<1>9. free' = free + caller[c].holds
  BY <1>3
<1> QED
  BY <1>5, <1>7, <1>8, <1>9, Rests

LEMMA AskKeeps ==
  ASSUME PoolInv, NEW c \in Callers, Ask(c)
  PROVE  PoolInv'
<1>1. caller[c].at = "ready" /\ caller[c].holds = 0 /\ UNCHANGED free
  BY DEF PoolInv, Ask, HoldsWhatItMay
<1>2. CASE Put(c, [agreed |-> TRUE])
  BY <1>1, <1>2, RestingPut
<1>3. CASE caller' = [caller EXCEPT ![c] = Idle]
  BY <1>1, <1>3, BackToIdle
<1> QED
  BY <1>2, <1>3 DEF Ask

LEMMA SendKeeps ==
  ASSUME PoolInv, NEW c \in Callers, Send(c)
  PROVE  PoolInv'
<1> DEFINE change == [at |-> IF caller[c].via = "http" THEN "sent" ELSE "entered", tries |-> 0]
<1>1. caller[c].holds = 0 /\ UNCHANGED free /\ Put(c, change)
  BY DEF PoolInv, Send, HoldsWhatItMay
<1>2. DOMAIN change = {"at", "tries"} /\ change["at"] \in {"sent", "entered"}
  OBVIOUS
<1> HIDE DEF change
<1> QED
  BY <1>1, <1>2, RestingPut

LEMMA ContinueKeeps ==
  ASSUME PoolInv, NEW c \in Callers, Continue(c)
  PROVE  PoolInv'
<1> DEFINE change == [at |-> "ready", todo |-> Tail(caller[c].todo), did |-> <<>>, answer |-> "none"]
<1>1. caller[c].holds = 0 /\ UNCHANGED free
  BY DEF PoolInv, Continue, HoldsWhatItMay
<1>2. Put(c, change) \/ caller' = [caller EXCEPT ![c] = Idle]
  BY DEF Continue, Put
<1>3. DOMAIN change = {"at", "todo", "did", "answer"} /\ change["at"] = "ready"
  OBVIOUS
<1> HIDE DEF change
<1>4. CASE Put(c, change)
  BY <1>1, <1>3, <1>4, RestingPut
<1>5. CASE caller' = [caller EXCEPT ![c] = Idle]
  BY <1>1, <1>5, BackToIdle
<1> QED
  BY <1>2, <1>4, <1>5

LEMMA RetryKeeps ==
  ASSUME PoolInv, NEW c \in Callers, Retry(c)
  PROVE  PoolInv'
<1> DEFINE change == [at |-> "sent", tries |-> caller[c].tries + 1, did |-> <<>>, answer |-> "none"]
<1>1. caller[c].holds = 0 /\ UNCHANGED free
  BY DEF PoolInv, Retry, HoldsWhatItMay
<1>2. Put(c, change) \/ caller' = [caller EXCEPT ![c] = Idle]
  BY DEF Retry
<1>3. DOMAIN change = {"at", "tries", "did", "answer"} /\ change["at"] = "sent"
  OBVIOUS
<1> HIDE DEF change
<1>4. CASE Put(c, change)
  BY <1>1, <1>3, <1>4, RestingPut
<1>5. CASE caller' = [caller EXCEPT ![c] = Idle]
  BY <1>1, <1>5, BackToIdle
<1> QED
  BY <1>2, <1>4, <1>5

LEMMA AuthenticateKeeps ==
  ASSUME PoolInv, NEW c \in Callers, Authenticate(c)
  PROVE  PoolInv'
<1>1. CASE Answer(c, "failed")
  BY <1>1, AnswerGivesBack
<1>2. CASE Put(c, [at |-> "entered"]) /\ UNCHANGED free
  <2>1. caller[c].holds = 0
    BY DEF PoolInv, Authenticate, HoldsWhatItMay
  <2> QED
    BY <1>2, <2>1, RestingPut
<1> QED
  BY <1>1, <1>2 DEF Authenticate

LEMMA OpenTenantKeeps ==
  ASSUME PoolInv, NEW c \in Callers, OpenTenant(c)
  PROVE  PoolInv'
<1>1. caller[c].holds = 0 /\ free \in Nat
  BY DEF PoolInv, OpenTenant, HoldsWhatItMay, Accounted
<1>2. CASE Bypasses(c)
  <2> DEFINE change == [at |-> "admitted"]
  <2>1. Put(c, change) /\ UNCHANGED free
    BY <1>2 DEF OpenTenant
  <2>2. DOMAIN change = {"at"} /\ change["at"] = "admitted"
    OBVIOUS
  <2> HIDE DEF change
  <2>3. Shapes' /\ OthersStay(c)
        /\ \A f \in Fields : caller'[c][f] = IF f \in DOMAIN change THEN change[f] ELSE caller[c][f]
    BY <2>1, PutChanges DEF PoolInv, OthersStay
  <2>4. /\ caller'[c].at = "admitted" /\ caller'[c].holds = 0
        /\ caller'[c].via = caller[c].via /\ caller'[c].todo = caller[c].todo
    BY <1>1, <2>2, <2>3 DEF Fields
  <2>5. Own(c)' = 0
    BY <1>2, <2>4 DEF Own, Bypasses, Current
  <2>6. HoldsWhatItMay(c)'
    BY <2>4, <2>5 DEF HoldsWhatItMay
  <2>7. Accounted'
    BY <1>1, <2>1, <2>3, <2>4, CountKept DEF PoolInv
  <2> QED
    BY <2>3, <2>6, <2>7, OneMoves
<1>3. CASE ~Bypasses(c)
  <2> DEFINE change == [at |-> "admitted", holds |-> 1]
  <2>1. Put(c, change) /\ free > 0 /\ free' = free - 1
    BY <1>3 DEF OpenTenant
  <2>2. DOMAIN change = {"at", "holds"} /\ change["at"] = "admitted" /\ change["holds"] = 1
    OBVIOUS
  <2> HIDE DEF change
  <2>3. Shapes' /\ OthersStay(c)
        /\ \A f \in Fields : caller'[c][f] = IF f \in DOMAIN change THEN change[f] ELSE caller[c][f]
    BY <2>1, PutChanges DEF PoolInv, OthersStay
  <2>4. /\ caller'[c].at = "admitted" /\ caller'[c].holds = 1
        /\ caller'[c].via = caller[c].via /\ caller'[c].todo = caller[c].todo
    BY <2>2, <2>3 DEF Fields
  <2>5. Own(c)' = 1
    BY <1>3, <2>4 DEF Own, Bypasses, Current
  <2>6. HoldsWhatItMay(c)'
    BY <2>4, <2>5 DEF HoldsWhatItMay
  <2>7. HoldsAtMostFour'
    <3>1. HoldsAtMostFour
      BY PoolBounds
    <3> QED
      BY <2>3, <2>4, <3>1 DEF HoldsAtMostFour, OthersStay
  <2>8. Accounted'
    BY <1>1, <2>1, <2>3, <2>4, <2>7, PoolBounds, CountTaken DEF PoolInv
  <2> QED
    BY <2>3, <2>6, <2>8, OneMoves
<1> QED
  BY <1>2, <1>3

LEMMA DispatchKeeps ==
  ASSUME PoolInv, NEW c \in Callers, Dispatch(c)
  PROVE  PoolInv'
<1> DEFINE op == Served(c)
           refused == [at |-> "answered", answer |-> "failed", holds |-> 0,
                       did |-> IF op \in Refusals THEN op ELSE <<"refused", "CONFIRMATION">>]
           begun == [at |-> "serving", did |-> op]
<1>1. \/ Put(c, refused) /\ free' = free + caller[c].holds
      \/ Put(c, begun) /\ UNCHANGED free
  BY DEF Dispatch
<1>2. /\ DOMAIN refused = {"at", "answer", "holds", "did"}
      /\ refused["at"] = "answered" /\ refused["holds"] = 0
  OBVIOUS
<1>3. DOMAIN begun = {"at", "did"} /\ begun["at"] = "serving"
  OBVIOUS
<1>4. caller[c].at = "admitted"
  BY DEF Dispatch
<1> HIDE DEF refused, begun
<1>5. CASE Put(c, refused) /\ free' = free + caller[c].holds
  <2>1. Shapes' /\ OthersStay(c)
        /\ \A f \in Fields : caller'[c][f] = IF f \in DOMAIN refused THEN refused[f] ELSE caller[c][f]
    BY <1>5, PutChanges DEF PoolInv, OthersStay
  <2>2. caller'[c].at = "answered" /\ caller'[c].holds = 0
    BY <1>2, <2>1 DEF Fields
  <2> QED
    BY <1>5, <2>1, <2>2, Rests
<1>6. CASE Put(c, begun) /\ UNCHANGED free
  <2>1. Shapes' /\ OthersStay(c)
        /\ \A f \in Fields : caller'[c][f] = IF f \in DOMAIN begun THEN begun[f] ELSE caller[c][f]
    BY <1>6, PutChanges DEF PoolInv, OthersStay
  <2>2. /\ caller'[c].at = "serving" /\ caller'[c].holds = caller[c].holds
        /\ caller'[c].via = caller[c].via /\ caller'[c].todo = caller[c].todo
    BY <1>3, <2>1 DEF Fields
  <2>3. caller[c].holds = Own(c) /\ caller[c].holds \in Nat
    BY <1>4 DEF PoolInv, HoldsWhatItMay
  <2>4. Own(c)' = Own(c)
    BY <2>2 DEF Own, Bypasses, Current
  <2>5. Own(c)' <= Needs(c)' /\ Own(c) \in {0, 1}
    BY PeakAtMostThree DEF Needs, Own
  <2>6. HoldsWhatItMay(c)'
    BY <2>2, <2>3, <2>4, <2>5 DEF HoldsWhatItMay
  <2>7. Accounted'
    BY <1>6, <2>1, <2>2, CountKept DEF PoolInv
  <2> QED
    BY <2>1, <2>6, <2>7, OneMoves
<1> QED
  BY <1>1, <1>5, <1>6

LEMMA TakeConnectionKeeps ==
  ASSUME PoolInv, NEW c \in Callers, TakeConnection(c)
  PROVE  PoolInv'
<1> DEFINE change == [holds |-> caller[c].holds + 1]
<1>1. /\ Put(c, change) /\ free > 0 /\ free' = free - 1
      /\ caller[c].at = "serving" /\ caller[c].holds < Needs(c)
  BY DEF TakeConnection
<1>2. DOMAIN change = {"holds"} /\ change["holds"] = caller[c].holds + 1
  OBVIOUS
<1> HIDE DEF change
<1>3. Shapes' /\ OthersStay(c)
      /\ \A f \in Fields : caller'[c][f] = IF f \in DOMAIN change THEN change[f] ELSE caller[c][f]
  BY <1>1, PutChanges DEF PoolInv, OthersStay
<1>4. /\ caller'[c].at = "serving" /\ caller'[c].holds = caller[c].holds + 1
      /\ caller'[c].via = caller[c].via /\ caller'[c].todo = caller[c].todo
      /\ caller'[c].did = caller[c].did /\ caller'[c].keyed = caller[c].keyed
  BY <1>1, <1>2, <1>3 DEF Fields
<1>5. Own(c)' = Own(c) /\ Needs(c)' = Needs(c)
  BY <1>4 DEF Own, Needs, Bypasses, Current
<1>6. caller[c].holds \in Nat /\ Own(c) <= caller[c].holds
  BY <1>1 DEF PoolInv, HoldsWhatItMay
<1>7. Needs(c) \in 0 .. 4 /\ Own(c) \in {0, 1}
  BY NeedsAtMostFour
<1>8. HoldsWhatItMay(c)'
  BY <1>1, <1>4, <1>5, <1>6, <1>7 DEF HoldsWhatItMay
<1>9. HoldsAtMostFour'
  <2>1. HoldsAtMostFour
    BY PoolBounds
  <2>2. caller'[c].holds \in 0 .. 4
    BY <1>1, <1>4, <1>6, <1>7
  <2> QED
    BY <1>3, <2>1, <2>2 DEF HoldsAtMostFour, OthersStay
<1>10. Accounted'
  BY <1>1, <1>3, <1>4, <1>9, PoolBounds, CountTaken DEF PoolInv
<1> QED
  BY <1>3, <1>8, <1>10, OneMoves

LEMMA PoolInitially ==
  ASSUME Init
  PROVE  PoolInv
<1>1. \A c \in Callers : caller[c] = Idle
  BY DEF Init
<1>2. Shapes
  BY <1>1, IdleIsShaped DEF Init, Shapes
<1>3. \A c \in Callers : HoldsWhatItMay(c)
  BY <1>1, IdleIsShaped DEF HoldsWhatItMay
<1>4. Taken = {}
  BY <1>1, IdleIsShaped DEF Taken
<1>5. Accounted
  BY <1>4, FS_EmptySet, PoolAssumption DEF Init, Accounted
<1> QED
  BY <1>2, <1>3, <1>5 DEF PoolInv

LEMMA PoolKept ==
  ASSUME PoolInv, [Next]_vars
  PROVE  PoolInv'
<1>1. ASSUME NEW c \in Callers, Start(c) PROVE PoolInv'
  BY <1>1, StartKeeps
<1>2. ASSUME NEW c \in Callers, Progress(c) PROVE PoolInv'
  <2>1. CASE Ask(c) \/ Send(c) \/ Continue(c) \/ Retry(c)
    BY <2>1, AskKeeps, SendKeeps, ContinueKeeps, RetryKeeps
  <2>2. CASE Authenticate(c) \/ OpenTenant(c) \/ Dispatch(c) \/ TakeConnection(c)
    BY <2>2, AuthenticateKeeps, OpenTenantKeeps, DispatchKeeps, TakeConnectionKeeps
  <2>3. CASE RateLimit(c) \/ Fail(c) \/ Finish(c)
    BY <2>3, AnswerGivesBack DEF RateLimit, Fail, Finish
  <2> QED
    BY <1>2, <2>1, <2>2, <2>3 DEF Progress
<1>3. CASE UNCHANGED vars
  BY <1>3 DEF vars, PoolInv, Shapes, HoldsWhatItMay, Accounted, Taken, Own, Needs, Bypasses, Current
<1> QED
  BY <1>1, <1>2, <1>3 DEF Next

-----------------------------------------------------------------------------
(* The theorems. *)

LEMMA AccountIsTyped ==
  ASSUME PoolInv
  PROVE  TypeOK
<1>1. HoldsAtMostFour
  BY PoolBounds
<1>2. Cardinality(Taken) \in Nat /\ free \in Nat /\ Cardinality(Taken) + free = PoolSize
  BY FS_CardinalityType DEF PoolInv, Accounted
<1>3. free \in 0 .. PoolSize
  BY <1>2, PoolAssumption
<1>4. ASSUME NEW c \in Callers
      PROVE  /\ caller[c].at \in {"idle", "ready", "sent", "entered", "admitted", "serving", "answered"}
             /\ caller[c].at \notin {"admitted", "serving"} => caller[c].holds = 0
  BY DEF PoolInv, HoldsWhatItMay
<1> QED
  BY <1>1, <1>2, <1>3, <1>4 DEF TypeOK, HoldsAtMostFour

\* A request holds connections only between its admission and its answer, and every
\* connection of the pool is free or held by one caller, whichever path a request takes:
\* none is lost or doubled, for any callers, programs and pool.
THEOREM ConnectionsAreKept == Spec => []TypeOK
<1>1. Init => PoolInv
  BY PoolInitially
<1>2. PoolInv /\ [Next]_vars => PoolInv'
  BY PoolKept
<1>3. PoolInv => TypeOK
  BY AccountIsTyped
<1> QED
  BY <1>1, <1>2, <1>3, PTL DEF Spec

\* Callers that all wait for one more connection hold three at most.
LEMMA WaitersHoldThree ==
  ASSUME PoolInv, IsFiniteSet(Callers), PoolSize > 3 * Cardinality(Callers)
  PROVE  SomeHolderCanProceed
<1> SUFFICES ASSUME free = 0,
                    \A c \in Callers : /\ ~(caller[c].at = "admitted" /\ caller[c].holds > 0)
                                       /\ ~(caller[c].at = "serving" /\ caller[c].holds = Needs(c))
             PROVE  FALSE
  BY DEF SomeHolderCanProceed
<1>1. ASSUME NEW c \in Callers PROVE caller[c].holds \in 0 .. 3
  <2>1. HoldsWhatItMay(c)
    BY DEF PoolInv
  <2>2. Needs(c) \in 0 .. 4
    BY NeedsAtMostFour
  <2>3. CASE caller[c].at = "serving"
    BY <2>1, <2>2, <2>3 DEF HoldsWhatItMay
  <2>4. CASE caller[c].at # "serving"
    BY <2>1, <2>4 DEF HoldsWhatItMay
  <2> QED
    BY <2>3, <2>4
<1>2. Taken \subseteq Callers \X (1 .. 3)
  <2>1. ASSUME NEW t \in Taken PROVE t \in Callers \X (1 .. 3)
    <3>1. t[1] \in Callers /\ t[2] \in 1 .. 4 /\ t = <<t[1], t[2]>> /\ t[2] <= caller[t[1]].holds
      BY DEF Taken
    <3>2. t[2] \in 1 .. 3
      BY <1>1, <3>1
    <3> QED
      BY <3>1, <3>2
  <2> QED
    BY <2>1
<1>3. IsFiniteSet(1 .. 3) /\ Cardinality(1 .. 3) = 3
  <2>1. IsFiniteSet(1 .. 3) /\ Cardinality(1 .. 3) = IF 1 > 3 THEN 0 ELSE 3 - 1 + 1
    <3>1. 1 \in Int /\ 3 \in Int
      OBVIOUS
    <3> QED
      BY <3>1, FS_Interval, Zenon
  <2> QED
    BY <2>1
<1>4. IsFiniteSet(Callers \X (1 .. 3)) /\ Cardinality(Callers \X (1 .. 3)) = Cardinality(Callers) * Cardinality(1 .. 3)
  BY <1>3, FS_Product, Zenon
<1>5. Cardinality(Taken) <= Cardinality(Callers \X (1 .. 3))
  BY <1>2, <1>4, FS_Subset
<1>6. Cardinality(Callers) \in Nat /\ Cardinality(Taken) \in Nat
  BY FS_CardinalityType DEF PoolInv, Accounted
<1>7. Cardinality(Taken) = PoolSize
  BY <1>6, PoolAssumption DEF PoolInv, Accounted
<1> QED
  BY <1>3, <1>4, <1>5, <1>6, <1>7, PoolAssumption

\* With more than three connections in the pool for each caller, callers never all wait
\* for each other: when no connection is free, one of them has all that it needs.
THEOREM PoolNeverDeadlocks ==
  ASSUME IsFiniteSet(Callers), PoolSize > 3 * Cardinality(Callers)
  PROVE  Spec => []SomeHolderCanProceed
<1>1. Init => PoolInv
  BY PoolInitially
<1>2. PoolInv /\ [Next]_vars => PoolInv'
  BY PoolKept
<1>3. PoolInv => SomeHolderCanProceed
  BY WaitersHoldThree
<1> QED
  BY <1>1, <1>2, <1>3, PTL DEF Spec

-----------------------------------------------------------------------------
(* Paths, operations and routes. *)

\* What every request's path is.
LEMMA RequestsPath ==
  ASSUME NEW rq \in Requests
  PROVE  /\ rq.path \in Seq(STRING \ {Absent}) /\ rq.path # <<>> /\ rq.method \in STRING
         /\ Len(rq.path) = 4 /\ rq.path[1] = "schema" => rq.path[3] \notin {"preview", "apply"}
         /\ Len(rq.path) \in Nat /\ DOMAIN rq.path = 1 .. Len(rq.path)
         /\ \A i \in 1 .. Len(rq.path) : rq.path[i] # Absent
         /\ Len(rq.path) >= 1
BY DEF Requests, Absent

\* A pattern fits a path of its length, parameter by parameter and word by word.
LEMMA FitsOne ==
  ASSUME NEW a, NEW rq \in Requests
  PROVE  Fits(<<a>>, rq.path) <=> Len(rq.path) = 1 /\ (a \in Parameters \/ rq.path[1] = a)
BY RequestsPath DEF Fits

\* The same for two segments,
LEMMA FitsTwo ==
  ASSUME NEW a, NEW b, NEW rq \in Requests
  PROVE  Fits(<<a, b>>, rq.path) <=>
           /\ Len(rq.path) = 2
           /\ a \in Parameters \/ rq.path[1] = a
           /\ b \in Parameters \/ rq.path[2] = b
BY RequestsPath DEF Fits

\* for three
LEMMA FitsThree ==
  ASSUME NEW a, NEW b, NEW d, NEW rq \in Requests
  PROVE  Fits(<<a, b, d>>, rq.path) <=>
           /\ Len(rq.path) = 3
           /\ a \in Parameters \/ rq.path[1] = a
           /\ b \in Parameters \/ rq.path[2] = b
           /\ d \in Parameters \/ rq.path[3] = d
BY RequestsPath DEF Fits

\* and for four.
LEMMA FitsFour ==
  ASSUME NEW a, NEW b, NEW d, NEW e, NEW rq \in Requests
  PROVE  Fits(<<a, b, d, e>>, rq.path) <=>
           /\ Len(rq.path) = 4
           /\ a \in Parameters \/ rq.path[1] = a
           /\ b \in Parameters \/ rq.path[2] = b
           /\ d \in Parameters \/ rq.path[3] = d
           /\ e \in Parameters \/ rq.path[4] = e
<1> DEFINE pattern == <<a, b, d, e>>
<1>1. Fits(pattern, rq.path) <=>
        /\ Len(rq.path) = 4
        /\ \A i \in 1 .. Len(rq.path) : pattern[i] \in Parameters \/ pattern[i] = rq.path[i]
  <2>1. DOMAIN rq.path = 1 .. Len(rq.path) /\ Len(rq.path) \in Nat
    BY RequestsPath
  <2>2. Len(pattern) = 4
    OBVIOUS
  <2> HIDE DEF pattern
  <2> QED
    BY <2>1, <2>2 DEF Fits
<1>2. pattern[1] = a /\ pattern[2] = b /\ pattern[3] = d /\ pattern[4] = e
  OBVIOUS
<1> HIDE DEF pattern
<1>3. ASSUME Len(rq.path) = 4
      PROVE  (\A i \in 1 .. Len(rq.path) : pattern[i] \in Parameters \/ pattern[i] = rq.path[i]) <=>
               /\ pattern[1] \in Parameters \/ pattern[1] = rq.path[1]
               /\ pattern[2] \in Parameters \/ pattern[2] = rq.path[2]
               /\ pattern[3] \in Parameters \/ pattern[3] = rq.path[3]
               /\ pattern[4] \in Parameters \/ pattern[4] = rq.path[4]
  <2>1. \A i : i \in 1 .. 4 <=> i = 1 \/ i = 2 \/ i = 3 \/ i = 4
    OBVIOUS
  <2> QED
    BY <1>3, <2>1
<1>4. Fits(pattern, rq.path) <=>
        /\ Len(rq.path) = 4
        /\ a \in Parameters \/ rq.path[1] = a
        /\ b \in Parameters \/ rq.path[2] = b
        /\ d \in Parameters \/ rq.path[3] = d
        /\ e \in Parameters \/ rq.path[4] = e
  BY <1>1, <1>2, <1>3
<1> QED
  BY <1>4 DEF pattern

\* The function part of what is offered.
FunctionNames ==
  {"list", "get", "search", "create", "update", "delete", "move", "pipeline", "stats", "attach", "detach",
   "getContactContext", "listObjects", "getObject", "addField", "updateField", "deleteField", "preview",
   "apply", "rollback"}

\* No service has another function.
LEMMA OfferedFunctions ==
  ASSUME NEW op \in Offered
  PROVE  op[2] \in FunctionNames
<1>1. CASE op \in EntityOperations
  BY <1>1 DEF EntityOperations, FunctionsOf, Crud, Reads, FunctionNames
<1>2. CASE op \in SpecialOperations
  BY <1>2 DEF SpecialOperations, FunctionNames
<1>3. CASE op \in SystemOperations
  BY <1>3 DEF SystemOperations, FunctionNames
<1> QED BY <1>1, <1>2, <1>3 DEF Offered

\* No service has these names, and an organization is only read.
LEMMA OfferedServices ==
  ASSUME NEW op \in Offered
  PROVE  /\ op[1] \notin {"api-keys", "admin", "status", "bootstrap"}
         /\ op[1] = "organizations" => op[2] \in {"list", "get"}
<1>1. CASE op \in EntityOperations
  BY <1>1 DEF EntityOperations, PublicEntities, WriteEntities, BatchEntities, ServiceOf
<1>2. CASE op \in SpecialOperations
  BY <1>2 DEF SpecialOperations
<1>3. CASE op \in SystemOperations
  BY <1>3 DEF SystemOperations, AdminEntities
<1> QED BY <1>1, <1>2, <1>3 DEF Offered

\* What EntityRoutes is made of.
LEMMA EntityRoutesAre ==
  ASSUME NEW r \in EntityRoutes
  PROVE  \/ \E e \in PublicEntities : r \in RecordRoutes(e, e \in WriteEntities)
         \/ \E e \in PublicEntities : r = Route("POST", <<e, "search">>, {<<e, "read">>}, <<ServiceOf(e), "search">>)
         \/ \E e \in BatchEntities : r = Post(<<e, "batch">>, Provided(<<ServiceOf(e), "batch">>))
<1>1. CASE r \in {Post(<<e, "batch">>, Provided(<<ServiceOf(e), "batch">>)) : e \in BatchEntities}
  BY <1>1
<1>2. CASE r \in UNION {RecordRoutes(e, e \in WriteEntities)
                         \cup {Route("POST", <<e, "search">>, {<<e, "read">>}, <<ServiceOf(e), "search">>)} :
                       e \in PublicEntities}
  <2>1. PICK e \in PublicEntities :
          r \in RecordRoutes(e, e \in WriteEntities)
                  \cup {Route("POST", <<e, "search">>, {<<e, "read">>}, <<ServiceOf(e), "search">>)}
    BY <1>2, Zenon
  <2> QED
    BY <2>1, Zenon
<1> QED
  BY <1>1, <1>2, Zenon DEF EntityRoutes

\* What no service has is answered 501.
LEMMA UnprovidedRoutes ==
  ASSUME NEW r \in BootstrapRoutes \cup RelationshipRoutes
  PROVE  r.op = NotImplemented
<1>1. CASE r \in BootstrapRoutes
  <2>1. PICK kind \in {"organizations", "api-keys"} : r.op = Provided(<<kind, "create">>)
    BY <1>1 DEF BootstrapRoutes, Route
  <2>2. <<kind, "create">> \notin Offered
    BY OfferedServices
  <2> QED
    BY <2>1, <2>2 DEF Provided
<1>2. CASE r \in RelationshipRoutes
  <2>1. PICK owner, name : /\ r = Relation(owner, name)
                           /\ name \in {"timeline", "deals", "activities", "tasks", "tags", "contacts"}
    BY <1>2 DEF RelationshipRoutes
  <2>2. r.op = Provided(<<owner, name>>)
    BY <2>1 DEF Relation, Route
  <2>3. <<owner, name>> \notin Offered
    BY <2>1, OfferedFunctions DEF FunctionNames
  <2> QED
    BY <2>2, <2>3 DEF Provided
<1> QED
  BY <1>1, <1>2

\* The organization is read, and nothing else.
LEMMA OrganizationRoutesServe ==
  ASSUME NEW r \in OrganizationRoutes, r.op \notin Refusals
  PROVE  /\ r.method = "GET" /\ r.path = <<"organizations", "current">>
         /\ r.op = <<"organizations", "get">> /\ r.needs = {<<"organizations", "read">>}
<1>1. <<"organizations", "update">> \notin Offered
  BY OfferedServices
<1> QED
  BY <1>1 DEF OrganizationRoutes, Read, Route, Provided, Refusals

-----------------------------------------------------------------------------
(* What a key may do: every route asks for the scope of its operation. *)

\* The disjuncts of ScopesCoverWhatIsDone, of one request.
Covered(held, rq, destructive, op) ==
  \/ op = <<"status", "report">>
  \/ HasScope(held, ScopeFor(op))
  \/ Enrolls(rq) /\ HasScope(held, <<"sequences", "write">>)
  \/ op = <<"webhook_deliveries", "list">> /\ HasScope(held, <<"webhooks", "read">>)
  \/ op = <<"schema", "updateField">> /\ HasScope(held, FieldUpdateScope(destructive))

\* What a key must hold for a route to serve it.
MayCall(held, route, destructive) ==
  \/ /\ route.op # <<"schema", "updateField">>
     /\ \A scope \in route.needs : HasScope(held, scope)
  \/ /\ route.op = <<"schema", "updateField">>
     /\ HasScope(held, FieldUpdateScope(destructive))

\* Services are named apart, so that a service tells its entity.
LEMMA ServicesAreDistinct ==
  ASSUME NEW d \in PublicEntities, NEW e \in PublicEntities, ServiceOf(d) = ServiceOf(e)
  PROVE  d = e
BY SMTT(60) DEF ServiceOf, PublicEntities, WriteEntities, BatchEntities

\* No entity's service has the name of another service.
LEMMA NamesOfServices ==
  ASSUME NEW e \in PublicEntities
  PROVE  ServiceOf(e) \notin AdminEntities \cup {"contactContext", "schema", "webhooks", "imports",
                                                 "organizations", "search", "status"}
BY SMTT(60) DEF ServiceOf, PublicEntities, WriteEntities, BatchEntities, AdminEntities

\* The services that are no entity's.
LEMMA NoServiceOf ==
  ASSUME NEW s \in {"webhooks", "imports", "organizations", "search"} 
  PROVE  ~\E e \in PublicEntities : ServiceOf(e) = s
BY NamesOfServices

\* The scope of an entity's operation is that of the entity, to read or to write.
LEMMA EntityScopes ==
  ASSUME NEW e \in PublicEntities, NEW f
  PROVE  ScopeFor(<<ServiceOf(e), f>>) =
           IF f \in Reads \cup {"pipeline", "stats"} THEN <<e, "read">> ELSE <<e, "write">>
<1>1. (CHOOSE d \in PublicEntities : ServiceOf(d) = ServiceOf(e)) = e
  BY ServicesAreDistinct
<1>2. \E d \in PublicEntities : ServiceOf(d) = ServiceOf(e)
  OBVIOUS
<1> QED
  BY <1>1, <1>2, NamesOfServices DEF ScopeFor

\* The other services go by their own name.
LEMMA OtherScopes ==
  ASSUME NEW s \in {"webhooks", "imports", "organizations", "search"}, NEW f
  PROVE  ScopeFor(<<s, f>>) =
           IF f \in Reads \cup {"pipeline", "stats"} THEN <<s, "read">> ELSE <<s, "write">>
<1>1. ~\E e \in PublicEntities : ServiceOf(e) = s
  BY NoServiceOf
<1>2. s \notin AdminEntities \cup {"contactContext", "schema"}
  BY DEF AdminEntities
<1> QED
  BY <1>1, <1>2 DEF ScopeFor

\* The schema has three scopes.
LEMMA SchemaScopes ==
  ASSUME NEW f
  PROVE  /\ f \in {"apply", "rollback", "deleteField"} => ScopeFor(<<"schema", f>>) = <<"schema", "apply">>
         /\ f \in {"listObjects", "getObject", "preview"} => ScopeFor(<<"schema", f>>) = <<"schema", "read">>
         /\ f = "addField" => ScopeFor(<<"schema", f>>) = <<"schema", "write">>
<1>1. ~\E e \in PublicEntities : ServiceOf(e) = "schema"
  BY NamesOfServices
<1>2. "schema" \notin AdminEntities
  BY DEF AdminEntities
<1> QED
  BY <1>1, <1>2 DEF ScopeFor, Reads

\* A route with one need is called by keys that have its scope.
LEMMA OneNeed ==
  ASSUME NEW held, NEW r, NEW s, r.needs = {s}, r.op # <<"schema", "updateField">>, NEW d, MayCall(held, r, d)
  PROVE  HasScope(held, s)
BY DEF MayCall

\* A route that needs the scope its operation calls for.
LEMMA NeedCovers ==
  ASSUME NEW held, NEW r, NEW s, r.needs = {s}, ScopeFor(r.op) = s, r.op # <<"schema", "updateField">>,
         NEW d, MayCall(held, r, d), NEW rq
  PROVE  Covered(held, rq, d, r.op)
BY OneNeed DEF Covered

\* The same, when the operation is an entity's.
LEMMA EntityNeedCovers ==
  ASSUME NEW held, NEW r, NEW e \in PublicEntities, NEW f, r.op = <<ServiceOf(e), f>>,
         r.needs = {<<e, IF f \in Reads \cup {"pipeline", "stats"} THEN "read" ELSE "write">>},
         NEW d, MayCall(held, r, d), NEW rq
  PROVE  Covered(held, rq, d, r.op)
<1>1. \E s : r.needs = {s} /\ ScopeFor(r.op) = s
  BY EntityScopes
<1>2. r.op # <<"schema", "updateField">>
  BY NamesOfServices
<1> QED
  BY <1>1, <1>2, NeedCovers

\* The routes of records, group by group of the table: each asks for its operation's scope.
LEMMA RecordRoutesCover ==
  ASSUME NEW e \in PublicEntities \cup {"webhooks"}, NEW w \in BOOLEAN, NEW r \in RecordRoutes(e, w),
         NEW held, NEW d, MayCall(held, r, d), NEW rq
  PROVE  Covered(held, rq, d, r.op)
<1>1. \/ r.needs = {<<e, "read">>} /\ r.op \in {<<ServiceOf(e), "list">>, <<ServiceOf(e), "get">>}
      \/ r.needs = {<<e, "write">>} /\ r.op \in {<<ServiceOf(e), f>> : f \in {"create", "update", "delete"}}
  BY DEF RecordRoutes, Read, Post, Route
<1>2. r.op # <<"schema", "updateField">>
  BY <1>1
<1>3. \E s : r.needs = {s} /\ ScopeFor(r.op) = s
  <2>1. CASE e \in PublicEntities
    BY <1>1, <2>1, EntityScopes DEF Reads
  <2>2. CASE e = "webhooks"
    <3>1. ServiceOf(e) = "webhooks"
      BY <2>2 DEF ServiceOf
    <3> QED
    BY <1>1, <2>2, <3>1, OtherScopes DEF Reads
  <2> QED BY <2>1, <2>2
<1> QED
  BY <1>2, <1>3, NeedCovers

\* Status, search, context and imports.
LEMMA FewRoutesCover ==
  ASSUME NEW r \in StatusRoutes \cup SearchRoutes \cup ContextRoutes \cup ImportRoutes,
         NEW held, NEW d, MayCall(held, r, d), NEW rq
  PROVE  Covered(held, rq, d, r.op)
<1>1. CASE r \in StatusRoutes
  BY <1>1 DEF StatusRoutes, Route, Covered
<1>2. CASE r \in SearchRoutes
  <2>1. r.op = <<"search", "search">> /\ r.needs = {<<"search", "read">>}
    BY <1>2 DEF SearchRoutes, Route
  <2>2. ScopeFor(r.op) = <<"search", "read">>
    BY <2>1, OtherScopes DEF Reads
  <2>3. r.op # <<"schema", "updateField">>
    BY <2>1
  <2> QED
    BY <2>1, <2>2, <2>3, NeedCovers, Zenon
<1>3. CASE r \in ContextRoutes
  <2>1. r.op = <<"contactContext", "getContactContext">> /\ r.needs = {<<"contacts", "read">>}
    BY <1>3 DEF ContextRoutes, Route
  <2>2. ScopeFor(r.op) = <<"contacts", "read">>
    BY <2>1 DEF ScopeFor, AdminEntities
  <2>3. r.op # <<"schema", "updateField">>
    BY <2>1
  <2> QED
    BY <2>1, <2>2, <2>3, NeedCovers
<1>4. CASE r \in ImportRoutes
  <2>1. \/ r.needs = {<<"imports", "read">>} /\ r.op \in {<<"imports", "list">>, <<"imports", "get">>}
        \/ r.needs = {<<"imports", "write">>} /\ r.op = <<"imports", "create">>
    BY <1>4 DEF ImportRoutes, Route, Read, Post
  <2>2. \E s : r.needs = {s} /\ ScopeFor(r.op) = s
    BY <2>1, OtherScopes DEF Reads
  <2>3. r.op # <<"schema", "updateField">>
    BY <2>1
  <2> QED
    BY <2>2, <2>3, NeedCovers
<1> QED
  BY <1>1, <1>2, <1>3, <1>4

\* The organization.
LEMMA OrganizationRoutesCover ==
  ASSUME NEW r \in OrganizationRoutes, r.op \notin Refusals, NEW held, NEW d, MayCall(held, r, d), NEW rq
  PROVE  Covered(held, rq, d, r.op)
<1>1. r.op = <<"organizations", "get">> /\ r.needs = {<<"organizations", "read">>}
  BY OrganizationRoutesServe
<1>2. ScopeFor(r.op) = <<"organizations", "read">>
  BY <1>1, OtherScopes DEF Reads
<1>3. r.op # <<"schema", "updateField">>
  BY <1>1
<1> QED
  BY <1>1, <1>2, <1>3, NeedCovers

\* The tables of the system.
LEMMA AdminRoutesCover ==
  ASSUME NEW r \in AdminRoutes, NEW held, NEW d, MayCall(held, r, d), NEW rq
  PROVE  Covered(held, rq, d, r.op)
<1>1. PICK e \in AdminEntities : r.op \in {<<e, "list">>, <<e, "get">>} /\ r.needs = {AdminScope}
  BY DEF AdminRoutes, Route
<1>2. r.op # <<"schema", "updateField">> /\ r.op[1] \in AdminEntities
  BY <1>1
<1>3. ScopeFor(r.op) = AdminScope
  BY <1>2 DEF ScopeFor
<1> QED
  BY <1>1, <1>2, <1>3, NeedCovers

\* Webhooks, whose deliveries go by the webhook's scope.
LEMMA WebhookRoutesCover ==
  ASSUME NEW r \in WebhookRoutes, r.op \notin Refusals, NEW held, NEW d, MayCall(held, r, d), NEW rq
  PROVE  Covered(held, rq, d, r.op)
<1>1. CASE r \in RecordRoutes("webhooks", TRUE)
  BY <1>1, RecordRoutesCover
<1>2. CASE r = Read(<<"webhooks", ":id", "deliveries">>, <<"webhook_deliveries", "list">>)
  <2>1. r.op = <<"webhook_deliveries", "list">> /\ r.needs = {<<"webhooks", "read">>}
    BY <1>2 DEF Read, Route
  <2>2. r.op # <<"schema", "updateField">>
    BY <2>1
  <2> QED
    BY <2>1, <2>2, OneNeed DEF Covered
<1>3. CASE r = Post(<<"webhooks", ":id", "redeliver">>, Provided(<<"webhooks", "redeliver">>))
  <2>1. r.op = Provided(<<"webhooks", "redeliver">>)
    BY <1>3 DEF Post, Route
  <2>2. <<"webhooks", "redeliver">> \notin Offered
    BY OfferedFunctions DEF FunctionNames
  <2> QED
    BY <2>1, <2>2 DEF Provided, Refusals
<1> QED
  BY <1>1, <1>2, <1>3 DEF WebhookRoutes

\* The workflows, where enrolling goes by the scope of the sequence.
LEMMA WorkflowRoutesCover ==
  ASSUME NEW r \in WorkflowRoutes, r.op \notin Refusals, NEW held, NEW d, MayCall(held, r, d),
         NEW rq \in Requests, rq.method = r.method, Fits(r.path, rq.path)
  PROVE  Covered(held, rq, d, r.op)
<1>1. \/ r.op = <<"deals", "move">> /\ r.needs = {<<"deals", "write">>}
      \/ r.op \in {<<"deals", "pipeline">>, <<"deals", "stats">>} /\ r.needs = {<<"deals", "read">>}
      \/ r.op \in {<<"tags", "attach">>, <<"tags", "detach">>} /\ r.needs = {<<"tags", "write">>}
      \/ r.op \in {<<"activities", "log">>, <<"activities", "create">>} /\ r.needs = {<<"activities", "write">>}
      \/ r.op \in {<<"sequenceEnrollments", "unenroll">>, <<"sequenceEnrollments", "update">>}
         /\ r.needs = {<<"sequence_enrollments", "write">>}
      \/ r.op \in {<<"sequences", "enroll">>, <<"sequenceEnrollments", "create">>}
         /\ r.needs = {<<"sequences", "write">>} /\ r.method = "POST" /\ r.path = <<"sequences", ":id", "enroll">>
  BY DEF WorkflowRoutes, Read, Post, Route, Provided, ProvidedOr, Refusals
<1>2. r.op # <<"schema", "updateField">>
  BY <1>1
<1>3. /\ {"deals", "tags", "activities", "sequences", "sequence_enrollments"} \subseteq PublicEntities
      /\ \A e \in {"deals", "tags", "activities", "sequences"} : ServiceOf(e) = e
      /\ ServiceOf("sequence_enrollments") = "sequenceEnrollments"
  BY DEF PublicEntities, WriteEntities, BatchEntities, ServiceOf
<1>5. CASE r.needs = {<<"sequences", "write">>} /\ r.method = "POST" /\ r.path = <<"sequences", ":id", "enroll">>
  BY <1>2, <1>5, OneNeed DEF Covered, Enrolls
<1>6. ASSUME NEW e \in PublicEntities, NEW f, f \notin Reads \cup {"pipeline", "stats"},
             r.op = <<ServiceOf(e), f>>, r.needs = {<<e, "write">>}
      PROVE  Covered(held, rq, d, r.op)
  BY <1>6, EntityNeedCovers
<1>7. CASE r.op \in {<<"deals", "pipeline">>, <<"deals", "stats">>} /\ r.needs = {<<"deals", "read">>}
  <2>1. PICK f \in {"pipeline", "stats"} : r.op = <<ServiceOf("deals"), f>>
    BY <1>3, <1>7
  <2> QED
    BY <1>3, <1>7, <2>1, EntityNeedCovers
<1>8. CASE r.op \in {<<"tags", "attach">>, <<"tags", "detach">>} /\ r.needs = {<<"tags", "write">>}
  <2>1. PICK f \in {"attach", "detach"} : r.op = <<ServiceOf("tags"), f>>
    BY <1>3, <1>8
  <2> QED
    BY <1>3, <1>6, <1>8, <2>1 DEF Reads
<1>9. CASE r.op \in {<<"activities", "log">>, <<"activities", "create">>} /\ r.needs = {<<"activities", "write">>}
  <2>1. PICK f \in {"log", "create"} : r.op = <<ServiceOf("activities"), f>>
    BY <1>3, <1>9
  <2> QED
    BY <1>3, <1>6, <1>9, <2>1 DEF Reads
<1>10. CASE /\ r.op \in {<<"sequenceEnrollments", "unenroll">>, <<"sequenceEnrollments", "update">>}
            /\ r.needs = {<<"sequence_enrollments", "write">>}
  <2>1. PICK f \in {"unenroll", "update"} : r.op = <<ServiceOf("sequence_enrollments"), f>>
    BY <1>3, <1>10
  <2> QED
    BY <1>3, <1>6, <1>10, <2>1 DEF Reads
<1>11. CASE r.op = <<"deals", "move">> /\ r.needs = {<<"deals", "write">>}
  <2>1. r.op = <<ServiceOf("deals"), "move">>
    BY <1>3, <1>11
  <2> QED
    BY <1>3, <1>6, <1>11, <2>1 DEF Reads
<1> QED
  BY <1>1, <1>5, <1>7, <1>8, <1>9, <1>10, <1>11

\* The schema, where a change of a field goes by what it destroys.
LEMMA ObjectRoutesCover ==
  ASSUME NEW r \in ObjectRoutes, NEW held, NEW d, MayCall(held, r, d), NEW rq
  PROVE  Covered(held, rq, d, r.op)
<1>1. CASE r.op = <<"schema", "updateField">>
  BY <1>1 DEF Covered, MayCall
<1>2. CASE r.op # <<"schema", "updateField">>
  <2>1. \/ r.op \in {<<"schema", f>> : f \in {"listObjects", "getObject", "preview"}} /\ r.needs = {<<"schema", "read">>}
        \/ r.op = <<"schema", "addField">> /\ r.needs = {<<"schema", "write">>}
        \/ r.op \in {<<"schema", f>> : f \in {"deleteField", "apply", "rollback"}} /\ r.needs = {<<"schema", "apply">>}
    BY <1>2 DEF ObjectRoutes, Route
  <2>2. \E s : r.needs = {s} /\ ScopeFor(r.op) = s
    BY <2>1, SchemaScopes
  <2> QED
    BY <1>2, <2>2, NeedCovers
<1> QED
  BY <1>1, <1>2

\* The entities.
LEMMA EntityRoutesCover ==
  ASSUME NEW r \in EntityRoutes, r.op \notin Refusals, NEW held, NEW d, MayCall(held, r, d), NEW rq
  PROVE  Covered(held, rq, d, r.op)
<1>1. ASSUME NEW e \in PublicEntities, r \in RecordRoutes(e, e \in WriteEntities)
      PROVE  Covered(held, rq, d, r.op)
  <2>1. (e \in WriteEntities) \in BOOLEAN
    OBVIOUS
  <2> QED
    BY <1>1, <2>1, RecordRoutesCover
<1>2. ASSUME NEW e \in PublicEntities, r = Route("POST", <<e, "search">>, {<<e, "read">>}, <<ServiceOf(e), "search">>)
      PROVE  Covered(held, rq, d, r.op)
  <2>1. r.op = <<ServiceOf(e), "search">> /\ r.needs = {<<e, "read">>}
    BY <1>2 DEF Route
  <2>2. ScopeFor(r.op) = <<e, "read">>
    BY <2>1, EntityScopes DEF Reads
  <2>3. r.op # <<"schema", "updateField">>
    BY <2>1
  <2> QED
    BY <2>1, <2>2, <2>3, NeedCovers
<1>3. ASSUME NEW e \in BatchEntities, r = Post(<<e, "batch">>, Provided(<<ServiceOf(e), "batch">>))
      PROVE  Covered(held, rq, d, r.op)
  <2>1. r.op = <<ServiceOf(e), "batch">> /\ r.needs = {<<e, "write">>}
    BY <1>3 DEF Route, Post, Provided, Refusals
  <2>2. ScopeFor(r.op) = <<e, "write">>
    BY <2>1, EntityScopes DEF Reads, PublicEntities, WriteEntities
  <2>3. r.op # <<"schema", "updateField">>
    BY <2>1
  <2> QED
    BY <2>1, <2>2, <2>3, NeedCovers
<1> QED
  BY <1>1, <1>2, <1>3, EntityRoutesAre

\* A route that answers the request.
Answers(r, rq) == r.method = rq.method /\ Fits(r.path, rq.path)

\* The groups of the table.
LEMMA TwelveGroups == DOMAIN RouteTable = 1 .. 12
BY DEF RouteTable

\* What is served over HTTP is the operation of a route that fits, whose scopes the key
\* has, and no group registered before has one that fits.
LEMMA HttpServesARoute ==
  ASSUME NEW held, NEW rq, NEW destructive, HttpServes(held, rq, destructive) \notin Refusals
  PROVE  \E i \in 1 .. 12 : \E r \in RouteTable[i] :
           /\ Answers(r, rq) /\ MayCall(held, r, destructive)
           /\ HttpServes(held, rq, destructive) = r.op
           /\ \A j \in 1 .. 12 : j < i => \A s \in RouteTable[j] : ~Answers(s, rq)
<1> DEFINE ranks == {i \in DOMAIN RouteTable : Answering(rq, RouteTable[i]) # {}}
           first == CHOOSE i \in ranks : \A j \in ranks : i <= j
           route == CHOOSE r \in Answering(rq, RouteTable[first]) : TRUE
<1>1. HttpServes(held, rq, destructive) =
        IF ~AdminMayPass(held, rq) THEN Forbidden
        ELSE IF ranks = {} THEN NotFound
        ELSE IF MayCall(held, route, destructive) THEN route.op ELSE Forbidden
  BY DEF HttpServes, MayCall
<1>2. ranks # {} /\ MayCall(held, route, destructive) /\ HttpServes(held, rq, destructive) = route.op
  <2> HIDE DEF ranks, route
  <2> QED
    BY <1>1 DEF Refusals
<1>3. ranks \subseteq 1 .. 12
  BY TwelveGroups
<1>4. first \in ranks /\ \A j \in ranks : first <= j
  <2> HIDE DEF ranks
  <2>1. \E i \in ranks : \A j \in ranks : i <= j
    <3>1. ranks \subseteq Nat
      BY <1>3
    <3> QED
      BY <1>2, <3>1, LeastOf, Zenon
  <2> QED
    BY <2>1
<1>5. route \in Answering(rq, RouteTable[first])
  <2> HIDE DEF first
  <2>1. Answering(rq, RouteTable[first]) # {}
    BY <1>4
  <2> QED
    BY <2>1
<1>6. route \in RouteTable[first] /\ Answers(route, rq)
  <2> HIDE DEF first, route
  <2> QED
    BY <1>5 DEF Answering, Answers
<1>7. ASSUME NEW j \in 1 .. 12, j < first, NEW s \in RouteTable[j] PROVE ~Answers(s, rq)
  <2>1. j \notin ranks
    <3> HIDE DEF ranks, first
    <3> QED
      BY <1>3, <1>4, <1>7
  <2>2. Answering(rq, RouteTable[j]) = {}
    BY <2>1, TwelveGroups
  <2> QED
    BY <2>2 DEF Answering, Answers
<1> HIDE DEF first, route, ranks
<1> QED
  BY <1>2, <1>3, <1>4, <1>6, <1>7

\* Every route is in a group.
LEMMA RoutesByGroup ==
  ASSUME NEW i \in 1 .. 12, NEW r \in RouteTable[i]
  PROVE  \/ r \in StatusRoutes \cup SearchRoutes \cup ContextRoutes \cup ImportRoutes
         \/ r \in BootstrapRoutes \cup RelationshipRoutes
         \/ r \in OrganizationRoutes \/ r \in AdminRoutes \/ r \in WebhookRoutes \/ r \in WorkflowRoutes \/ r \in ObjectRoutes
         \/ r \in EntityRoutes
BY DEF RouteTable

\* For every key and every request: what is served is covered by the key's scopes.
LEMMA KeysCoverWhatIsServed ==
  ASSUME NEW held, NEW rq \in Requests, NEW destructive, HttpServes(held, rq, destructive) \notin Refusals
  PROVE  Covered(held, rq, destructive, HttpServes(held, rq, destructive))
<1>1. PICK i \in 1 .. 12 : \E r \in RouteTable[i] :
           /\ Answers(r, rq) /\ MayCall(held, r, destructive)
           /\ HttpServes(held, rq, destructive) = r.op
  BY HttpServesARoute
<1>2. PICK r \in RouteTable[i] :
           /\ Answers(r, rq) /\ MayCall(held, r, destructive)
           /\ HttpServes(held, rq, destructive) = r.op
  BY <1>1
<1>3. r.op \notin Refusals /\ r.method = rq.method /\ Fits(r.path, rq.path)
  BY <1>2 DEF Answers
<1>4. Covered(held, rq, destructive, r.op)
  BY <1>2, <1>3, RoutesByGroup, FewRoutesCover, UnprovidedRoutes, OrganizationRoutesCover, AdminRoutesCover,
     WebhookRoutesCover,
     WorkflowRoutesCover, ObjectRoutesCover, EntityRoutesCover DEF Refusals
<1> QED
  BY <1>2, <1>4

-----------------------------------------------------------------------------
(* The direct transport does what the server does. *)

\* What the direct transport makes of the request is what the route does, or a refusal.
Agrees(rq, op) == DirectServes(rq) \in {op} \cup Refusals

\* A segment past the end is absent, the others are not.
LEMMA Segments ==
  ASSUME NEW rq \in Requests, NEW i \in Nat \ {0}
  PROVE  /\ i <= Len(rq.path) => Segment(rq.path, i) = rq.path[i] /\ Segment(rq.path, i) # Absent
         /\ i > Len(rq.path) => Segment(rq.path, i) = Absent
BY RequestsPath DEF Segment

\* The records of a service, when no workflow is meant.
LEMMA DirectRecordsServed ==
  ASSUME NEW rq \in Requests, rq.path[1] \in PublicEntities \cup {"webhooks", "imports"},
         DirectWorkflows(rq, Segment(rq.path, 2)) = NotFound
  PROVE  DirectServes(rq) = DirectRecords(rq, Segment(rq.path, 2))
<1>1. rq.path[1] \notin {"search", "context", "objects", "schema"} \cup AdminEntities \cup {"organizations"}
  BY DEF PublicEntities, WriteEntities, BatchEntities, AdminEntities
<1>2. DirectSpecial(rq, Segment(rq.path, 2)) = NotFound
  BY <1>1 DEF DirectSpecial
<1> QED
  BY <1>1, <1>2 DEF DirectServes

\* Requests that no workflow takes.
LEMMA NoWorkflow ==
  ASSUME NEW rq, NEW action,
         \/ rq.method \in {"PATCH", "DELETE"}
         \/ rq.method = "POST" /\ Segment(rq.path, 3) = Absent /\ action # "log"
         \/ rq.method = "GET" /\ ~(rq.path[1] = "deals" /\ action \in {"pipeline", "stats"})
  PROVE  DirectWorkflows(rq, action) = NotFound
BY DEF DirectWorkflows, Absent

\* A record's route, unless it is a view of the deals.
LEMMA RecordRoutesAgree ==
  ASSUME NEW rq \in Requests, NEW e \in PublicEntities \cup {"webhooks", "imports"}, NEW w \in BOOLEAN,
         NEW r \in RecordRoutes(e, w), Answers(r, rq),
         ~(rq.method = "GET" /\ rq.path[1] = "deals" /\ Len(rq.path) = 2 /\ rq.path[2] \in {"pipeline", "stats"})
  PROVE  Agrees(rq, r.op)
<1> DEFINE action == Segment(rq.path, 2)
<1>0. e \notin Parameters
  BY DEF Parameters, PublicEntities, WriteEntities, BatchEntities
<1>1. \/ r.method = "GET" /\ r.path = <<e>> /\ r.op = <<ServiceOf(e), "list">>
      \/ r.method = "GET" /\ r.path = <<e, ":id">> /\ r.op = <<ServiceOf(e), "get">>
      \/ r.method = "POST" /\ r.path = <<e>> /\ r.op = <<ServiceOf(e), "create">>
      \/ r.method = "PATCH" /\ r.path = <<e, ":id">> /\ r.op = <<ServiceOf(e), "update">>
      \/ r.method = "DELETE" /\ r.path = <<e, ":id">> /\ r.op = <<ServiceOf(e), "delete">>
  BY DEF RecordRoutes, Read, Post, Route
<1>2. rq.method = r.method /\ Fits(r.path, rq.path)
  BY DEF Answers
<1>3. /\ rq.path[1] = e
      /\ \/ rq.method = "GET"    /\ Len(rq.path) = 1 /\ r.op = <<ServiceOf(e), "list">>
         \/ rq.method = "POST"   /\ Len(rq.path) = 1 /\ r.op = <<ServiceOf(e), "create">>
         \/ rq.method = "GET"    /\ Len(rq.path) = 2 /\ r.op = <<ServiceOf(e), "get">>
         \/ rq.method = "PATCH"  /\ Len(rq.path) = 2 /\ r.op = <<ServiceOf(e), "update">>
         \/ rq.method = "DELETE" /\ Len(rq.path) = 2 /\ r.op = <<ServiceOf(e), "delete">>
  <2>1. Fits(<<e>>, rq.path) => Len(rq.path) = 1 /\ rq.path[1] = e
    BY <1>0, FitsOne, Zenon
  <2>2. Fits(<<e, ":id">>, rq.path) => Len(rq.path) = 2 /\ rq.path[1] = e
    BY <1>0, FitsTwo, Zenon
  <2> QED
    BY <1>1, <1>2, <2>1, <2>2
<1>4. /\ Segment(rq.path, 3) = Absent
      /\ Len(rq.path) = 1 => action = Absent
      /\ Len(rq.path) = 2 => action = rq.path[2] /\ action # Absent
  <2>1. Len(rq.path) \in {1, 2}
    BY <1>3
  <2>2. /\ 2 <= Len(rq.path) => Segment(rq.path, 2) = rq.path[2] /\ Segment(rq.path, 2) # Absent
        /\ 2 > Len(rq.path) => Segment(rq.path, 2) = Absent
        /\ 3 > Len(rq.path) => Segment(rq.path, 3) = Absent
    BY Segments
  <2>3. CASE Len(rq.path) = 1
    BY <2>2, <2>3
  <2>4. CASE Len(rq.path) = 2
    BY <2>2, <2>4
  <2> QED
    BY <2>1, <2>3, <2>4
<1>5. DirectWorkflows(rq, action) = NotFound
  <2>1. Absent # "log" /\ Absent \notin {"pipeline", "stats"}
    BY DEF Absent
  <2> HIDE DEF action
  <2> QED
    BY <1>3, <1>4, <2>1, NoWorkflow
<1>6. DirectServes(rq) = DirectRecords(rq, action)
  BY <1>3, <1>5, DirectRecordsServed
<1> HIDE DEF action
<1>7. \E f : r.op = <<ServiceOf(e), f>> /\ DirectRecords(rq, action) \in {r.op, NotFound}
  BY <1>3, <1>4 DEF DirectRecords, Absent
<1> QED
  BY <1>6, <1>7 DEF Agrees, Refusals

\* The first three segments of a path, and which of them there are.
LEMMA ThreeSegments ==
  ASSUME NEW rq \in Requests
  PROVE  /\ Len(rq.path) = 1 => Segment(rq.path, 2) = Absent /\ Segment(rq.path, 3) = Absent
         /\ Len(rq.path) = 2 => /\ Segment(rq.path, 2) = rq.path[2] /\ rq.path[2] # Absent
                                /\ Segment(rq.path, 3) = Absent
         /\ Len(rq.path) \in {3, 4} => /\ Segment(rq.path, 2) = rq.path[2] /\ rq.path[2] # Absent
                                       /\ Segment(rq.path, 3) = rq.path[3] /\ rq.path[3] # Absent
         /\ Len(rq.path) = 4 => Segment(rq.path, 4) = rq.path[4] /\ rq.path[4] # Absent
<1>1. CASE Len(rq.path) = 1
  BY <1>1, Segments
<1>2. CASE Len(rq.path) = 2
  BY <1>2, Segments
<1>3. CASE Len(rq.path) = 3
  BY <1>3, Segments
<1>4. CASE Len(rq.path) = 4
  BY <1>4, Segments
<1> QED
  BY <1>1, <1>2, <1>3, <1>4

\* Status, search, context and imports.
LEMMA FewRoutesAgree ==
  ASSUME NEW rq \in Requests, NEW r \in StatusRoutes \cup SearchRoutes \cup ContextRoutes \cup ImportRoutes, Answers(r, rq)
  PROVE  Agrees(rq, r.op)
<1>0. rq.method = r.method /\ Fits(r.path, rq.path)
  BY DEF Answers
<1>1. CASE r \in StatusRoutes
  <2>1. rq.method = "GET" /\ Len(rq.path) = 1 /\ rq.path[1] = "status"
    <3>1. r.method = "GET" /\ r.path = <<"status">> /\ "status" \notin Parameters
      BY <1>1 DEF StatusRoutes, Route, Parameters
    <3> QED
      BY <1>0, <3>1, FitsOne
  <2>2. Segment(rq.path, 2) = Absent
    BY <2>1, ThreeSegments
  <2>3. <<"status", "list">> \notin Offered
    BY OfferedServices
  <2>4. DirectRecords(rq, Absent) = NotFound
    BY <2>1, <2>3 DEF DirectRecords, ServiceOf
  <2>5. DirectSpecial(rq, Absent) = NotFound /\ DirectWorkflows(rq, Absent) = NotFound
    BY <2>1, NoWorkflow DEF DirectSpecial
  <2> QED
    BY <2>1, <2>2, <2>4, <2>5 DEF DirectServes, Agrees, Refusals
<1>2. CASE r \in SearchRoutes
  <2>1. rq.method = "POST" /\ rq.path[1] = "search" /\ r.op = <<"search", "search">>
    <3>1. r.method = "POST" /\ r.path = <<"search">> /\ r.op = <<"search", "search">> /\ "search" \notin Parameters
      BY <1>2 DEF SearchRoutes, Route, Parameters
    <3> QED
      BY <1>0, <3>1, FitsOne
  <2> QED
    BY <2>1 DEF DirectServes, DirectSpecial, Agrees, NotFound
<1>3. CASE r \in ContextRoutes
  <2>1. /\ rq.method = "GET" /\ rq.path[1] = "context" /\ Len(rq.path) = 2
        /\ r.op = <<"contactContext", "getContactContext">>
    <3>1. /\ r.method = "GET" /\ r.path = <<"context", ":contactId">> /\ "context" \notin Parameters
          /\ r.op = <<"contactContext", "getContactContext">>
      BY <1>3 DEF ContextRoutes, Route, Parameters
    <3> QED
      BY <1>0, <3>1, FitsTwo
  <2>2. Segment(rq.path, 2) # Absent
    BY <2>1, ThreeSegments
  <2> QED
    BY <2>1, <2>2 DEF DirectServes, DirectSpecial, Agrees, NotFound
<1>4. CASE r \in ImportRoutes
  <2>1. r \in RecordRoutes("imports", TRUE)
    BY <1>4 DEF ImportRoutes, RecordRoutes, ServiceOf
  <2>2. rq.path[1] = "imports"
    <3>1. r.path \in {<<"imports">>, <<"imports", ":id">>} /\ "imports" \notin Parameters
      BY <1>4 DEF ImportRoutes, Read, Post, Route, Parameters
    <3> QED
      BY <1>0, <3>1, FitsOne, FitsTwo
  <2> QED
    BY <2>1, <2>2, RecordRoutesAgree
<1> QED
  BY <1>1, <1>2, <1>3, <1>4

\* The direct transport knows no organization.
LEMMA OrganizationRoutesAgree ==
  ASSUME NEW rq \in Requests, NEW r \in OrganizationRoutes, r.op \notin Refusals, Answers(r, rq)
  PROVE  Agrees(rq, r.op)
<1>1. rq.method = "GET" /\ rq.path[1] = "organizations"
  <2>1. r.method = "GET" /\ r.path = <<"organizations", "current">> /\ "organizations" \notin Parameters
    BY OrganizationRoutesServe DEF Parameters
  <2> QED
    BY <2>1, FitsTwo DEF Answers
<1>2. /\ DirectSpecial(rq, Segment(rq.path, 2)) = NotFound
      /\ DirectWorkflows(rq, Segment(rq.path, 2)) = NotFound
  BY <1>1, NoWorkflow DEF DirectSpecial
<1> QED
  BY <1>1, <1>2 DEF DirectServes, Agrees, Refusals

\* It knows no tables of the system.
LEMMA AdminRoutesAgree ==
  ASSUME NEW rq \in Requests, NEW r \in AdminRoutes, Answers(r, rq)
  PROVE  Agrees(rq, r.op)
<1>1. PICK e \in AdminEntities : r.method = "GET" /\ r.path \in {<<"admin", e>>, <<"admin", e, ":id">>}
  BY DEF AdminRoutes, Route
<1>2. rq.method = "GET" /\ rq.path[1] = "admin"
  <2>1. "admin" \notin Parameters
    BY DEF Parameters
  <2> QED
    BY <1>1, <2>1, FitsTwo, FitsThree DEF Answers
<1>3. /\ DirectSpecial(rq, Segment(rq.path, 2)) = NotFound
      /\ DirectWorkflows(rq, Segment(rq.path, 2)) = NotFound
  BY <1>2, NoWorkflow DEF DirectSpecial
<1>4. \A f : <<"admin", f>> \notin Offered
  BY OfferedServices
<1>5. DirectRecords(rq, Segment(rq.path, 2)) = NotFound
  BY <1>2, <1>4 DEF DirectRecords, ServiceOf
<1>6. "admin" \notin AdminEntities \cup {"organizations"}
  BY DEF AdminEntities
<1> QED
  BY <1>2, <1>3, <1>5, <1>6 DEF DirectServes, Agrees, Refusals

\* Webhooks, but for their deliveries.
LEMMA WebhookRoutesAgree ==
  ASSUME NEW rq \in Requests, NEW r \in WebhookRoutes, r.op \notin Refusals, Answers(r, rq)
  PROVE  Agrees(rq, r.op) \/ r.op = <<"webhook_deliveries", "list">>
<1>1. CASE r \in RecordRoutes("webhooks", TRUE)
  <2>1. rq.path[1] = "webhooks"
    <3>1. r.path \in {<<"webhooks">>, <<"webhooks", ":id">>} /\ "webhooks" \notin Parameters
      BY <1>1 DEF RecordRoutes, Read, Post, Route, Parameters
    <3> QED
      BY <3>1, FitsOne, FitsTwo DEF Answers
  <2> QED
    BY <1>1, <2>1, RecordRoutesAgree
<1>2. CASE r = Read(<<"webhooks", ":id", "deliveries">>, <<"webhook_deliveries", "list">>)
  BY <1>2 DEF Read, Route
<1>3. CASE r = Post(<<"webhooks", ":id", "redeliver">>, Provided(<<"webhooks", "redeliver">>))
  <2>1. r.op = Provided(<<"webhooks", "redeliver">>)
    BY <1>3 DEF Post, Route
  <2>2. <<"webhooks", "redeliver">> \notin Offered
    BY OfferedFunctions DEF FunctionNames
  <2> QED
    BY <2>1, <2>2 DEF Provided, Refusals
<1> QED
  BY <1>1, <1>2, <1>3 DEF WebhookRoutes

\* The workflow routes, one by one, and the words of a request that each fits.
LEMMA WorkflowRequests ==
  ASSUME NEW rq \in Requests, NEW r \in WorkflowRoutes, Answers(r, rq)
  PROVE  \/ /\ rq.method = "POST" /\ Len(rq.path) = 3
            /\ \/ rq.path[1] = "deals" /\ rq.path[3] = "move" /\ r.op = Provided(<<"deals", "move">>)
               \/ rq.path[1] = "sequences" /\ rq.path[3] = "enroll"
                  /\ r.op = ProvidedOr(<<"sequences", "enroll">>, <<"sequenceEnrollments", "create">>)
               \/ rq.path[1] = "sequence_enrollments" /\ rq.path[3] = "unenroll"
                  /\ r.op = ProvidedOr(<<"sequenceEnrollments", "unenroll">>, <<"sequenceEnrollments", "update">>)
               \/ rq.path[1] = "tags" /\ rq.path[3] = "attach" /\ r.op = Provided(<<"tags", "attach">>)
               \/ rq.path[1] = "tags" /\ rq.path[3] = "detach" /\ r.op = Provided(<<"tags", "detach">>)
         \/ /\ rq.method = "GET" /\ Len(rq.path) = 2 /\ rq.path[1] = "deals"
            /\ \/ rq.path[2] = "pipeline" /\ r.op = Provided(<<"deals", "pipeline">>)
               \/ rq.path[2] = "stats" /\ r.op = Provided(<<"deals", "stats">>)
         \/ /\ rq.method = "POST" /\ Len(rq.path) = 2 /\ rq.path[1] = "activities" /\ rq.path[2] = "log"
            /\ r.op = ProvidedOr(<<"activities", "log">>, <<"activities", "create">>)
<1>1. rq.method = r.method /\ Fits(r.path, rq.path)
  BY DEF Answers
<1>2. Parameters \cap {"deals", "move", "pipeline", "stats", "sequences", "enroll", "sequence_enrollments",
                       "unenroll", "tags", "attach", "detach", "activities", "log"} = {}
  BY DEF Parameters
<1>3. \A entity, verb : /\ Fits(<<entity, ":id", verb>>, rq.path) /\ entity \notin Parameters /\ verb \notin Parameters
                        => Len(rq.path) = 3 /\ rq.path[1] = entity /\ rq.path[3] = verb
  BY FitsThree
<1>4. \A entity, name : /\ Fits(<<entity, name>>, rq.path) /\ entity \notin Parameters /\ name \notin Parameters
                        => Len(rq.path) = 2 /\ rq.path[1] = entity /\ rq.path[2] = name
  BY FitsTwo
<1>5. CASE r = Post(<<"deals", ":id", "move">>, Provided(<<"deals", "move">>))
  <2>1. r.method = "POST" /\ r.path = <<"deals", ":id", "move">> /\ r.op = Provided(<<"deals", "move">>)
    BY <1>5 DEF Post, Route
  <2> QED
    BY <1>1, <1>2, <1>3, <2>1
<1>6. CASE r = Read(<<"deals", "pipeline">>, Provided(<<"deals", "pipeline">>))
  <2>1. r.method = "GET" /\ r.path = <<"deals", "pipeline">> /\ r.op = Provided(<<"deals", "pipeline">>)
    BY <1>6 DEF Read, Route
  <2> QED
    BY <1>1, <1>2, <1>4, <2>1
<1>7. CASE r = Read(<<"deals", "stats">>, Provided(<<"deals", "stats">>))
  <2>1. r.method = "GET" /\ r.path = <<"deals", "stats">> /\ r.op = Provided(<<"deals", "stats">>)
    BY <1>7 DEF Read, Route
  <2> QED
    BY <1>1, <1>2, <1>4, <2>1
<1>8. CASE r = Post(<<"sequences", ":id", "enroll">>,
                    ProvidedOr(<<"sequences", "enroll">>, <<"sequenceEnrollments", "create">>))
  <2>1. /\ r.method = "POST" /\ r.path = <<"sequences", ":id", "enroll">>
        /\ r.op = ProvidedOr(<<"sequences", "enroll">>, <<"sequenceEnrollments", "create">>)
    BY <1>8 DEF Post, Route
  <2> QED
    BY <1>1, <1>2, <1>3, <2>1
<1>9. CASE r = Post(<<"sequence_enrollments", ":id", "unenroll">>,
                    ProvidedOr(<<"sequenceEnrollments", "unenroll">>, <<"sequenceEnrollments", "update">>))
  <2>1. /\ r.method = "POST" /\ r.path = <<"sequence_enrollments", ":id", "unenroll">>
        /\ r.op = ProvidedOr(<<"sequenceEnrollments", "unenroll">>, <<"sequenceEnrollments", "update">>)
    BY <1>9 DEF Post, Route
  <2> QED
    BY <1>1, <1>2, <1>3, <2>1
<1>10. CASE r = Post(<<"tags", ":id", "attach">>, Provided(<<"tags", "attach">>))
  <2>1. r.method = "POST" /\ r.path = <<"tags", ":id", "attach">> /\ r.op = Provided(<<"tags", "attach">>)
    BY <1>10 DEF Post, Route
  <2> QED
    BY <1>1, <1>2, <1>3, <2>1
<1>11. CASE r = Post(<<"tags", ":id", "detach">>, Provided(<<"tags", "detach">>))
  <2>1. r.method = "POST" /\ r.path = <<"tags", ":id", "detach">> /\ r.op = Provided(<<"tags", "detach">>)
    BY <1>11 DEF Post, Route
  <2> QED
    BY <1>1, <1>2, <1>3, <2>1
<1>12. CASE r = Post(<<"activities", "log">>, ProvidedOr(<<"activities", "log">>, <<"activities", "create">>))
  <2>1. /\ r.method = "POST" /\ r.path = <<"activities", "log">>
        /\ r.op = ProvidedOr(<<"activities", "log">>, <<"activities", "create">>)
    BY <1>12 DEF Post, Route
  <2> QED
    BY <1>1, <1>2, <1>4, <2>1
<1> QED
  BY <1>5, <1>6, <1>7, <1>8, <1>9, <1>10, <1>11, <1>12 DEF WorkflowRoutes

\* The workflows.
LEMMA WorkflowRoutesAgree ==
  ASSUME NEW rq \in Requests, NEW r \in WorkflowRoutes, r.op \notin Refusals, Answers(r, rq)
  PROVE  Agrees(rq, r.op)
<1> DEFINE action == Segment(rq.path, 2)
<1>1. rq.path[1] \in {"deals", "sequences", "sequence_enrollments", "tags", "activities"}
  BY WorkflowRequests
<1>2. DirectSpecial(rq, action) = NotFound
  BY <1>1 DEF DirectSpecial
<1>3. /\ Len(rq.path) \in {2, 3} /\ action = rq.path[2] /\ action # Absent
      /\ Len(rq.path) = 3 => Segment(rq.path, 3) = rq.path[3]
  <2>1. Len(rq.path) \in {2, 3}
    BY WorkflowRequests
  <2> QED
    BY <2>1, ThreeSegments
<1> HIDE DEF action
<1>4. DirectWorkflows(rq, action) = r.op
  BY <1>3, WorkflowRequests DEF DirectWorkflows
<1>5. r.op # NotFound
  BY DEF Refusals
<1> QED
  BY <1>1, <1>2, <1>4, <1>5 DEF DirectServes, Agrees, action

\* The routes of the schema, one by one, and the words of a request that each fits.
LEMMA ObjectRequests ==
  ASSUME NEW rq \in Requests, NEW r \in ObjectRoutes, Answers(r, rq)
  PROVE  \/ /\ rq.path[1] = "objects"
            /\ \/ rq.method = "GET" /\ Len(rq.path) = 1 /\ r.op = <<"schema", "listObjects">>
               \/ rq.method = "GET" /\ Len(rq.path) = 2 /\ r.op = <<"schema", "getObject">>
               \/ /\ rq.path[3] = "fields"
                  /\ \/ rq.method = "POST" /\ Len(rq.path) = 3 /\ r.op = <<"schema", "addField">>
                     \/ rq.method = "PATCH" /\ Len(rq.path) = 4 /\ r.op = <<"schema", "updateField">>
                     \/ rq.method = "DELETE" /\ Len(rq.path) = 4 /\ r.op = <<"schema", "deleteField">>
         \/ /\ rq.path[1] = "schema" /\ rq.path[2] = "migrations" /\ rq.method = "POST"
            /\ \/ Len(rq.path) = 3 /\ rq.path[3] = "preview" /\ r.op = <<"schema", "preview">>
               \/ Len(rq.path) = 3 /\ rq.path[3] = "apply" /\ r.op = <<"schema", "apply">>
               \/ /\ Len(rq.path) = 4 /\ rq.path[3] \notin {"preview", "apply"} /\ rq.path[4] = "rollback"
                  /\ r.op = <<"schema", "rollback">>
<1>1. rq.method = r.method /\ Fits(r.path, rq.path)
  BY DEF Answers
<1>2. Parameters \cap {"objects", "fields", "schema", "migrations", "preview", "apply", "rollback"} = {}
  BY DEF Parameters
<1>3. \/ r.method = "GET" /\ r.path = <<"objects">> /\ r.op = <<"schema", "listObjects">>
      \/ r.method = "GET" /\ r.path = <<"objects", ":type">> /\ r.op = <<"schema", "getObject">>
      \/ r.method = "POST" /\ r.path = <<"objects", ":type", "fields">> /\ r.op = <<"schema", "addField">>
      \/ r.method = "DELETE" /\ r.path = <<"objects", ":type", "fields", ":fieldName">>
         /\ r.op = <<"schema", "deleteField">>
      \/ r.method = "PATCH" /\ r.path = <<"objects", ":type", "fields", ":fieldName">>
         /\ r.op = <<"schema", "updateField">>
      \/ r.method = "POST" /\ r.path = <<"schema", "migrations", "preview">> /\ r.op = <<"schema", "preview">>
      \/ r.method = "POST" /\ r.path = <<"schema", "migrations", "apply">> /\ r.op = <<"schema", "apply">>
      \/ r.method = "POST" /\ r.path = <<"schema", "migrations", ":id", "rollback">>
         /\ r.op = <<"schema", "rollback">>
  BY DEF ObjectRoutes, Route
<1>4. Fits(<<"objects">>, rq.path) => Len(rq.path) = 1 /\ rq.path[1] = "objects"
  BY <1>2, FitsOne
<1>5. Fits(<<"objects", ":type">>, rq.path) => Len(rq.path) = 2 /\ rq.path[1] = "objects"
  BY <1>2, FitsTwo
<1>6. Fits(<<"objects", ":type", "fields">>, rq.path) =>
        Len(rq.path) = 3 /\ rq.path[1] = "objects" /\ rq.path[3] = "fields"
  BY <1>2, FitsThree
<1>7. Fits(<<"objects", ":type", "fields", ":fieldName">>, rq.path) =>
        Len(rq.path) = 4 /\ rq.path[1] = "objects" /\ rq.path[3] = "fields"
  BY <1>2, FitsFour
<1>8. \A word \in {"preview", "apply"} : Fits(<<"schema", "migrations", word>>, rq.path) =>
        Len(rq.path) = 3 /\ rq.path[1] = "schema" /\ rq.path[2] = "migrations" /\ rq.path[3] = word
  BY <1>2, FitsThree
<1>9. Fits(<<"schema", "migrations", ":id", "rollback">>, rq.path) =>
        /\ Len(rq.path) = 4 /\ rq.path[1] = "schema" /\ rq.path[2] = "migrations" /\ rq.path[4] = "rollback"
        /\ rq.path[3] \notin {"preview", "apply"}
  BY <1>2, FitsFour, RequestsPath
<1> QED
  BY <1>1, <1>3, <1>4, <1>5, <1>6, <1>7, <1>8, <1>9

\* The schema.
LEMMA ObjectRoutesAgree ==
  ASSUME NEW rq \in Requests, NEW r \in ObjectRoutes, Answers(r, rq)
  PROVE  Agrees(rq, r.op)
<1> DEFINE action == Segment(rq.path, 2)
<1>1. rq.path[1] \in {"objects", "schema"}
  BY ObjectRequests
<1>2. DirectSpecial(rq, action) = NotFound
  BY <1>1 DEF DirectSpecial
<1>3. Len(rq.path) \in 1 .. 4
  BY ObjectRequests
<1>4. /\ Len(rq.path) = 1 => action = Absent
      /\ Len(rq.path) # 1 => action = rq.path[2] /\ action # Absent
      /\ Len(rq.path) \in {3, 4} => Segment(rq.path, 3) = rq.path[3] /\ rq.path[3] # Absent
      /\ Len(rq.path) = 4 => Segment(rq.path, 4) = rq.path[4] /\ rq.path[4] # Absent
  BY <1>3, ThreeSegments
<1> HIDE DEF action
<1>5. CASE rq.path[1] = "objects"
  <2>1. DirectObjects(rq, action) = r.op
    BY <1>4, <1>5, ObjectRequests DEF DirectObjects
  <2> QED
    BY <1>2, <1>5, <2>1 DEF DirectServes, Agrees, action
<1>6. CASE rq.path[1] = "schema"
  <2>1. DirectMigrations(rq) = r.op
    BY <1>4, <1>6, ObjectRequests DEF DirectMigrations
  <2>2. action = "migrations"
    BY <1>4, <1>6, ObjectRequests
  <2> QED
    BY <1>2, <1>6, <2>1, <2>2 DEF DirectServes, Agrees, action
<1> QED
  BY <1>1, <1>5, <1>6

\* The entities.
LEMMA EntityRoutesAgree ==
  ASSUME NEW rq \in Requests, NEW r \in EntityRoutes, r.op \notin Refusals, Answers(r, rq),
         ~(rq.method = "GET" /\ rq.path[1] = "deals" /\ Len(rq.path) = 2 /\ rq.path[2] \in {"pipeline", "stats"})
  PROVE  Agrees(rq, r.op)
<1>1. ASSUME NEW e \in PublicEntities, r \in RecordRoutes(e, e \in WriteEntities)
      PROVE  Agrees(rq, r.op)
  <2>1. (e \in WriteEntities) \in BOOLEAN
    OBVIOUS
  <2> QED
    BY <1>1, <2>1, RecordRoutesAgree
<1>2. ASSUME NEW e \in PublicEntities, NEW f \in {"search", "batch"}, r.op = <<ServiceOf(e), f>>,
             r.method = "POST", r.path = <<e, f>>
      PROVE  Agrees(rq, r.op)
  <2>1. rq.method = "POST" /\ Len(rq.path) = 2 /\ rq.path[1] = e /\ rq.path[2] = f
    <3>1. e \notin Parameters /\ f \notin Parameters
      BY DEF Parameters, PublicEntities, WriteEntities, BatchEntities
    <3> QED
      BY <1>2, <3>1, FitsTwo DEF Answers
  <2>2. Segment(rq.path, 2) = f /\ Segment(rq.path, 3) = Absent
    BY <2>1, ThreeSegments
  <2>3. DirectWorkflows(rq, f) = NotFound
    BY <2>1, <2>2, NoWorkflow
  <2>4. DirectServes(rq) = DirectRecords(rq, f)
    BY <2>1, <2>2, <2>3, DirectRecordsServed
  <2>5. DirectRecords(rq, f) \in {r.op, NotFound}
    BY <1>2, <2>1 DEF DirectRecords, Absent
  <2> QED
    BY <2>4, <2>5 DEF Agrees, Refusals
<1>3. ASSUME NEW e \in PublicEntities, r = Route("POST", <<e, "search">>, {<<e, "read">>}, <<ServiceOf(e), "search">>)
      PROVE  Agrees(rq, r.op)
  BY <1>2, <1>3 DEF Route
<1>4. ASSUME NEW e \in BatchEntities, r = Post(<<e, "batch">>, Provided(<<ServiceOf(e), "batch">>))
      PROVE  Agrees(rq, r.op)
  <2>1. r.op = <<ServiceOf(e), "batch">> /\ r.method = "POST" /\ r.path = <<e, "batch">>
    BY <1>4 DEF Post, Route, Provided, Refusals
  <2>2. e \in PublicEntities
    BY DEF PublicEntities, WriteEntities
  <2> QED
    BY <1>2, <2>1, <2>2
<1> QED
  BY <1>1, <1>3, <1>4, EntityRoutesAre

\* A view of the deals is answered before their records are looked at.
LEMMA DealViewsComeFirst ==
  ASSUME NEW rq \in Requests, rq.method = "GET", rq.path[1] = "deals", Len(rq.path) = 2,
         rq.path[2] \in {"pipeline", "stats"}
  PROVE  \E r \in RouteTable[9] : Answers(r, rq)
<1> DEFINE name == rq.path[2]
           r == Read(<<"deals", name>>, Provided(<<"deals", name>>))
<1>1. r \in WorkflowRoutes
  BY DEF WorkflowRoutes
<1>2. r.method = "GET" /\ r.path = <<"deals", name>>
  BY DEF Read, Route
<1> HIDE DEF r
<1>3. Fits(<<"deals", name>>, rq.path)
  BY FitsTwo
<1>4. RouteTable[9] = WorkflowRoutes
  BY DEF RouteTable
<1> QED
  BY <1>1, <1>2, <1>3, <1>4 DEF Answers

\* For every request and every key: the direct transport does what the server does, or refuses.
LEMMA TransportsAgreeOn ==
  ASSUME NEW held, NEW rq \in Requests, NEW destructive, HttpServes(held, rq, destructive) \notin Refusals
  PROVE  \/ Agrees(rq, HttpServes(held, rq, destructive))
         \/ HttpServes(held, rq, destructive) = <<"webhook_deliveries", "list">>
<1>1. PICK i \in 1 .. 12 : \E r \in RouteTable[i] :
           /\ Answers(r, rq) /\ HttpServes(held, rq, destructive) = r.op
           /\ \A j \in 1 .. 12 : j < i => \A s \in RouteTable[j] : ~Answers(s, rq)
  BY HttpServesARoute
<1>2. PICK r \in RouteTable[i] : Answers(r, rq) /\ HttpServes(held, rq, destructive) = r.op
  BY <1>1
<1>3. CASE r \in EntityRoutes /\ i = 12
  <2>1. ~\E s \in RouteTable[9] : Answers(s, rq)
    BY <1>1, <1>3
  <2> QED
    BY <1>2, <1>3, <2>1, DealViewsComeFirst, EntityRoutesAgree
<1>4. i = 12 => r \in EntityRoutes
  BY DEF RouteTable
<1>5. \/ r \in StatusRoutes \cup SearchRoutes \cup ContextRoutes \cup ImportRoutes
      \/ r \in BootstrapRoutes \cup RelationshipRoutes
      \/ r \in OrganizationRoutes \/ r \in AdminRoutes \/ r \in WebhookRoutes \/ r \in WorkflowRoutes
      \/ r \in ObjectRoutes
      \/ i = 12
  BY DEF RouteTable
<1> QED
  BY <1>2, <1>3, <1>4, <1>5, FewRoutesAgree, UnprovidedRoutes, OrganizationRoutesAgree, AdminRoutesAgree,
     WebhookRoutesAgree, WorkflowRoutesAgree, ObjectRoutesAgree DEF Refusals

-----------------------------------------------------------------------------
(* What is documented, and what orbit's commands send, has an operation. *)

\* There is nothing to serve the request, as opposed to a key that may not have it.
Missing == {NotFound, NotImplemented}

\* Some route fits the request.
Answered(rq) == \E i \in 1 .. 12 : \E r \in RouteTable[i] : Answers(r, rq)

\* The server has nothing for a request only if no route fits it, or one whose function
\* no service has.
LEMMA HttpMisses ==
  ASSUME NEW held, NEW rq, NEW destructive, HttpServes(held, rq, destructive) \in Missing
  PROVE  \/ HttpServes(held, rq, destructive) = NotFound /\ ~Answered(rq)
         \/ \E i \in 1 .. 12 : \E r \in RouteTable[i] :
              Answers(r, rq) /\ r.op = HttpServes(held, rq, destructive)
<1> DEFINE ranks == {i \in DOMAIN RouteTable : Answering(rq, RouteTable[i]) # {}}
           first == CHOOSE i \in ranks : \A j \in ranks : i <= j
           route == CHOOSE r \in Answering(rq, RouteTable[first]) : TRUE
<1>1. HttpServes(held, rq, destructive) =
        IF ~AdminMayPass(held, rq) THEN Forbidden
        ELSE IF ranks = {} THEN NotFound
        ELSE IF MayCall(held, route, destructive) THEN route.op ELSE Forbidden
  BY DEF HttpServes, MayCall
<1>2. ranks \subseteq 1 .. 12
  BY TwelveGroups
<1>3. Forbidden \notin Missing
  BY DEF Forbidden, Missing, NotFound, NotImplemented
<1>4. CASE ranks = {}
  <2>1. HttpServes(held, rq, destructive) = NotFound
    <3> HIDE DEF ranks, route
    <3> QED
      BY <1>1, <1>3, <1>4
  <2>2. \A i \in 1 .. 12 : Answering(rq, RouteTable[i]) = {}
    BY <1>4, TwelveGroups
  <2>3. ~Answered(rq)
    BY <2>2 DEF Answered, Answering, Answers
  <2> QED
    BY <2>1, <2>3
<1>5. CASE ranks # {}
  <2>1. HttpServes(held, rq, destructive) = route.op
    <3> HIDE DEF ranks, route
    <3> QED
      BY <1>1, <1>3, <1>5
  <2>2. first \in ranks
    <3> HIDE DEF ranks
    <3>1. \E i \in ranks : \A j \in ranks : i <= j
      <4>1. ranks \subseteq Nat
        BY <1>2
      <4> QED
        BY <1>5, <4>1, LeastOf, Zenon
    <3> QED
      BY <3>1
  <2>3. route \in Answering(rq, RouteTable[first])
    <3> HIDE DEF first
    <3>1. Answering(rq, RouteTable[first]) # {}
      BY <2>2
    <3> QED
      BY <3>1
  <2>4. route \in RouteTable[first] /\ Answers(route, rq)
    <3> HIDE DEF first, route
    <3> QED
      BY <2>3 DEF Answering, Answers
  <2> HIDE DEF first, route, ranks
  <2> QED
    BY <1>2, <2>1, <2>2, <2>4
<1> QED
  BY <1>4, <1>5

\* The requests whose route, if there is one, has a function behind it.
Plain(rq) ==
  /\ rq.path[1] \notin {"bootstrap", "organizations"}
  /\ Len(rq.path) = 3 => rq.path[1] \notin {"contacts", "companies", "webhooks"}
  /\ Len(rq.path) = 3 /\ rq.path[1] = "deals" => rq.method # "GET"
  /\ Len(rq.path) = 2 => rq.path[2] # "batch"

\* Every record service but that of sequence events has all six functions.
LEMMA OfferedCrud ==
  ASSUME NEW s \in {ServiceOf(e) : e \in PublicEntities \ {"sequence_events"}} \cup {"webhooks"}, NEW f \in Crud
  PROVE  <<s, f>> \in Offered
<1>1. s \in {ServiceOf(e) : e \in PublicEntities} \cup {"webhooks", "imports"}
  OBVIOUS
<1>2. s \notin {"sequenceEvents", "imports"}
  BY DEF ServiceOf, PublicEntities, WriteEntities, BatchEntities
<1>3. f \in FunctionsOf(s)
  BY <1>2 DEF FunctionsOf
<1> QED
  BY <1>1, <1>3 DEF Offered, EntityOperations

\* The functions that the workflows call.
LEMMA OfferedWorkflows ==
  /\ {<<"deals", "move">>, <<"deals", "pipeline">>, <<"deals", "stats">>, <<"tags", "attach">>,
      <<"tags", "detach">>} \subseteq Offered
  /\ {<<"sequenceEnrollments", "create">>, <<"sequenceEnrollments", "update">>, <<"activities", "create">>}
       \subseteq Offered
<1>1. {"deals", "tags"} \subseteq {ServiceOf(e) : e \in PublicEntities} \cup {"webhooks", "imports"}
  BY DEF ServiceOf, PublicEntities, WriteEntities, BatchEntities
<1>2. {"move", "pipeline", "stats"} \subseteq FunctionsOf("deals") /\ {"attach", "detach"} \subseteq FunctionsOf("tags")
  BY DEF FunctionsOf
<1>3. {<<"deals", "move">>, <<"deals", "pipeline">>, <<"deals", "stats">>, <<"tags", "attach">>,
      <<"tags", "detach">>} \subseteq Offered
  BY <1>1, <1>2 DEF Offered, EntityOperations
<1>4. {"sequenceEnrollments", "activities"} \subseteq {ServiceOf(e) : e \in PublicEntities \ {"sequence_events"}}
  BY DEF ServiceOf, PublicEntities, WriteEntities, BatchEntities
<1> QED
  BY <1>3, <1>4, OfferedCrud DEF Crud

\* A route without a function answers none of the plain requests, and says that it is not implemented.
LEMMA MissingRoutes ==
  ASSUME NEW i \in 1 .. 12, NEW r \in RouteTable[i], r.op \in Missing, NEW rq \in Requests, Answers(r, rq)
  PROVE  ~Plain(rq) /\ r.op = NotImplemented
<1> USE DEF Missing, NotFound, NotImplemented
<1>1. ASSUME r \in StatusRoutes \cup SearchRoutes \cup ContextRoutes \cup ImportRoutes PROVE FALSE
  BY <1>1 DEF StatusRoutes, SearchRoutes, ContextRoutes, ImportRoutes, Read, Post, Route
<1>2. ASSUME r \in AdminRoutes \cup ObjectRoutes PROVE FALSE
  <2>1. r.op[1] # "refused"
    BY <1>2 DEF AdminRoutes, ObjectRoutes, Route, AdminEntities
  <2> QED
    BY <2>1
<1>3. ASSUME NEW e \in PublicEntities \cup {"webhooks"}, NEW w \in BOOLEAN, r \in RecordRoutes(e, w) PROVE FALSE
  <2>1. r.op[2] \in Crud
    BY <1>3 DEF RecordRoutes, Read, Post, Route, Crud, Reads
  <2> QED
    BY <2>1 DEF Crud, Reads
<1>4. CASE r \in BootstrapRoutes
  <2>1. \E kind : r.path = <<"bootstrap", kind>>
    BY <1>4 DEF BootstrapRoutes, Route
  <2>2. rq.path[1] = "bootstrap"
    BY <2>1, FitsTwo DEF Answers, Parameters
  <2> QED
    BY <1>4, <2>2, UnprovidedRoutes DEF Plain
<1>5. CASE r \in RelationshipRoutes
  <2>1. \E owner \in {"contacts", "companies", "deals"} : \E name : r.path = <<owner, ":id", name>> /\ r.method = "GET"
    BY <1>5 DEF RelationshipRoutes, Relation, Route
  <2>2. Len(rq.path) = 3 /\ rq.path[1] \in {"contacts", "companies", "deals"} /\ rq.method = "GET"
    BY <2>1, FitsThree DEF Answers, Parameters
  <2> QED
    BY <1>5, <2>2, UnprovidedRoutes DEF Plain
<1>6. CASE r \in OrganizationRoutes
  <2>1. r.path = <<"organizations", "current">> /\ r.op # NotFound
    BY <1>6 DEF OrganizationRoutes, Read, Route, Provided
  <2>2. rq.path[1] = "organizations"
    BY <2>1, FitsTwo DEF Answers, Parameters
  <2> QED
    BY <2>1, <2>2 DEF Plain
<1>7. CASE r \in WebhookRoutes
  <2>1. CASE r \in RecordRoutes("webhooks", TRUE)
    BY <1>3, <2>1
  <2>2. r # Read(<<"webhooks", ":id", "deliveries">>, <<"webhook_deliveries", "list">>)
    BY DEF Read, Route
  <2>3. CASE r = Post(<<"webhooks", ":id", "redeliver">>, Provided(<<"webhooks", "redeliver">>))
    <3>1. r.path = <<"webhooks", ":id", "redeliver">> /\ r.op = Provided(<<"webhooks", "redeliver">>)
      BY <2>3 DEF Post, Route
    <3>2. Len(rq.path) = 3 /\ rq.path[1] = "webhooks"
      BY <3>1, FitsThree DEF Answers, Parameters
    <3>3. r.op # NotFound
      BY <3>1 DEF Provided, Offered, EntityOperations, SpecialOperations, SystemOperations
    <3> QED
      BY <3>2, <3>3 DEF Plain
  <2> QED
    BY <1>7, <2>1, <2>2, <2>3 DEF WebhookRoutes
<1>8. ASSUME r \in WorkflowRoutes PROVE FALSE
  BY <1>8, OfferedWorkflows DEF WorkflowRoutes, Read, Post, Route, Provided, ProvidedOr
<1>9. CASE r \in EntityRoutes
  <2>1. CASE \E e \in PublicEntities : r \in RecordRoutes(e, e \in WriteEntities)
    <3>1. PICK e \in PublicEntities : r \in RecordRoutes(e, e \in WriteEntities)
      BY <2>1
    <3>2. (e \in WriteEntities) \in BOOLEAN
      OBVIOUS
    <3> QED
      BY <1>3, <3>1, <3>2
  <2>2. ASSUME NEW e \in PublicEntities, r = Route("POST", <<e, "search">>, {<<e, "read">>}, <<ServiceOf(e), "search">>)
        PROVE  FALSE
    BY <2>2 DEF Route
  <2>3. ASSUME NEW e \in BatchEntities, r = Post(<<e, "batch">>, Provided(<<ServiceOf(e), "batch">>))
        PROVE  ~Plain(rq) /\ r.op = NotImplemented
    <3>1. r.path = <<e, "batch">> /\ r.op # NotFound
      BY <2>3 DEF Post, Route, Provided
    <3>2. Len(rq.path) = 2 /\ rq.path[2] = "batch"
      BY <3>1, FitsTwo DEF Answers, Parameters
    <3> QED
      BY <3>1, <3>2 DEF Plain
  <2> QED
    BY <1>9, <2>1, <2>2, <2>3, EntityRoutesAre
<1> QED
  BY <1>1, <1>2, <1>4, <1>5, <1>6, <1>7, <1>8, <1>9, RoutesByGroup

\* The table has the route.
HasRoute(method, path) == \E i \in 1 .. 12 : \E r \in RouteTable[i] : r.method = method /\ r.path = path

\* A route of a group is one of the table.
LEMMA GroupHasRoute ==
  ASSUME NEW method, NEW path, NEW i \in 1 .. 12, NEW needs, NEW op, Route(method, path, needs, op) \in RouteTable[i]
  PROVE  HasRoute(method, path)
BY DEF HasRoute, Route

\* The same for a route that reads
LEMMA ReadHasRoute ==
  ASSUME NEW path, NEW i \in 1 .. 12, NEW op, Read(path, op) \in RouteTable[i]
  PROVE  HasRoute("GET", path)
BY GroupHasRoute DEF Read

\* and one that posts.
LEMMA PostHasRoute ==
  ASSUME NEW path, NEW i \in 1 .. 12, NEW op, Post(path, op) \in RouteTable[i]
  PROVE  HasRoute("POST", path)
BY GroupHasRoute DEF Post

\* The routes of an entity's records, if its group has them.
LEMMA RecordGroupHasRoutes ==
  ASSUME NEW e, NEW w \in BOOLEAN, NEW i \in 1 .. 12, RecordRoutes(e, w) \subseteq RouteTable[i]
  PROVE  /\ HasRoute("GET", <<e>>) /\ HasRoute("GET", <<e, ":id">>)
         /\ w => HasRoute("POST", <<e>>) /\ HasRoute("PATCH", <<e, ":id">>) /\ HasRoute("DELETE", <<e, ":id">>)
<1> DEFINE s == ServiceOf(e)
<1>1. Read(<<e>>, <<s, "list">>) \in RouteTable[i] /\ Read(<<e, ":id">>, <<s, "get">>) \in RouteTable[i]
  BY DEF RecordRoutes
<1>2. ASSUME w
      PROVE  /\ Post(<<e>>, <<s, "create">>) \in RouteTable[i]
             /\ Route("PATCH", <<e, ":id">>, {<<e, "write">>}, <<s, "update">>) \in RouteTable[i]
             /\ Route("DELETE", <<e, ":id">>, {<<e, "write">>}, <<s, "delete">>) \in RouteTable[i]
  BY <1>2 DEF RecordRoutes
<1> QED
  BY <1>1, <1>2, ReadHasRoute, PostHasRoute, GroupHasRoute

\* Every entity and the webhooks have them.
LEMMA RecordsHaveRoutes ==
  ASSUME NEW e \in PublicEntities \cup {"webhooks"}
  PROVE  /\ HasRoute("GET", <<e>>) /\ HasRoute("GET", <<e, ":id">>)
         /\ e \in WriteEntities \cup {"webhooks"} =>
              HasRoute("POST", <<e>>) /\ HasRoute("PATCH", <<e, ":id">>) /\ HasRoute("DELETE", <<e, ":id">>)
<1>1. CASE e \in PublicEntities
  <2>1. RecordRoutes(e, e \in WriteEntities) \subseteq RouteTable[12]
    BY <1>1 DEF EntityRoutes, RouteTable
  <2>2. "webhooks" \notin PublicEntities
    BY DEF PublicEntities, WriteEntities, BatchEntities
  <2>3. (e \in WriteEntities) \in BOOLEAN /\ 12 \in 1 .. 12
    OBVIOUS
  <2> QED
    BY <1>1, <2>1, <2>2, <2>3, RecordGroupHasRoutes
<1>2. CASE e = "webhooks"
  <2>1. RecordRoutes("webhooks", TRUE) \subseteq RouteTable[7]
    BY DEF WebhookRoutes, RouteTable
  <2>2. TRUE \in BOOLEAN /\ 7 \in 1 .. 12
    OBVIOUS
  <2>3. HasRoute("GET", <<"webhooks">>) /\ HasRoute("GET", <<"webhooks", ":id">>)
        /\ HasRoute("POST", <<"webhooks">>) /\ HasRoute("PATCH", <<"webhooks", ":id">>)
        /\ HasRoute("DELETE", <<"webhooks", ":id">>)
    BY <2>1, <2>2, RecordGroupHasRoutes
  <2> QED
    BY <1>2, <2>3
<1> QED
  BY <1>1, <1>2

\* Imports have theirs.
LEMMA ImportsHaveRoutes ==
  HasRoute("GET", <<"imports">>) /\ HasRoute("POST", <<"imports">>) /\ HasRoute("GET", <<"imports", ":id">>)
<1>1. /\ Read(<<"imports">>, <<"imports", "list">>) \in RouteTable[8]
      /\ Read(<<"imports", ":id">>, <<"imports", "get">>) \in RouteTable[8]
      /\ Post(<<"imports">>, <<"imports", "create">>) \in RouteTable[8]
  BY DEF RouteTable, ImportRoutes
<1> QED
  BY <1>1, ReadHasRoute, PostHasRoute

\* The schema has its own.
LEMMA ObjectsHaveRoutes ==
  /\ HasRoute("GET", <<"objects">>) /\ HasRoute("GET", <<"objects", ":type">>)
  /\ HasRoute("POST", <<"objects", ":type", "fields">>)
  /\ HasRoute("DELETE", <<"objects", ":type", "fields", ":fieldName">>)
  /\ HasRoute("PATCH", <<"objects", ":type", "fields", ":fieldName">>)
  /\ HasRoute("POST", <<"schema", "migrations", "preview">>)
  /\ HasRoute("POST", <<"schema", "migrations", "apply">>)
  /\ HasRoute("POST", <<"schema", "migrations", ":id", "rollback">>)
<1>1. \A m, p, s, f : Route(m, p, {<<"schema", s>>}, <<"schema", f>>) \in ObjectRoutes => HasRoute(m, p)
  <2>1. RouteTable[11] = ObjectRoutes
    BY DEF RouteTable
  <2> QED
    BY <2>1, GroupHasRoute
<1>2. /\ HasRoute("GET", <<"objects">>) /\ HasRoute("GET", <<"objects", ":type">>)
      /\ HasRoute("POST", <<"objects", ":type", "fields">>)
      /\ HasRoute("DELETE", <<"objects", ":type", "fields", ":fieldName">>)
      /\ HasRoute("POST", <<"schema", "migrations", "preview">>)
      /\ HasRoute("POST", <<"schema", "migrations", "apply">>)
      /\ HasRoute("POST", <<"schema", "migrations", ":id", "rollback">>)
  <2> DEFINE listed(m, p, s, f) == Route(m, p, {<<"schema", s>>}, <<"schema", f>>) \in ObjectRoutes
             rows == {<<"GET",    <<"objects">>,                                 "read",  "listObjects">>,
                      <<"GET",    <<"objects", ":type">>,                        "read",  "getObject">>,
                      <<"POST",   <<"objects", ":type", "fields">>,              "write", "addField">>,
                      <<"DELETE", <<"objects", ":type", "fields", ":fieldName">>, "apply", "deleteField">>,
                      <<"POST",   <<"schema", "migrations", "preview">>,         "read",  "preview">>,
                      <<"POST",   <<"schema", "migrations", "apply">>,           "apply", "apply">>,
                      <<"POST",   <<"schema", "migrations", ":id", "rollback">>, "apply", "rollback">>}
  <2>1. \A m, p, s, f : <<m, p, s, f>> \in rows => listed(m, p, s, f)
    <3>1. \A r \in rows : Route(r[1], r[2], {<<"schema", r[3]>>}, <<"schema", r[4]>>) \in ObjectRoutes
      BY DEF ObjectRoutes
    <3> HIDE DEF rows
    <3> QED
      BY <3>1
  <2>2. /\ listed("GET", <<"objects">>, "read", "listObjects")
        /\ listed("GET", <<"objects", ":type">>, "read", "getObject")
        /\ listed("POST", <<"objects", ":type", "fields">>, "write", "addField")
        /\ listed("DELETE", <<"objects", ":type", "fields", ":fieldName">>, "apply", "deleteField")
        /\ listed("POST", <<"schema", "migrations", "preview">>, "read", "preview")
        /\ listed("POST", <<"schema", "migrations", "apply">>, "apply", "apply")
        /\ listed("POST", <<"schema", "migrations", ":id", "rollback">>, "apply", "rollback")
    <3> HIDE DEF listed
    <3> QED
      BY <2>1
  <2> QED
    BY <1>1, <2>2
<1>3. HasRoute("PATCH", <<"objects", ":type", "fields", ":fieldName">>)
  <2>1. Route("PATCH", <<"objects", ":type", "fields", ":fieldName">>, {}, <<"schema", "updateField">>) \in RouteTable[11]
    BY DEF RouteTable, ObjectRoutes
  <2> QED
    BY <2>1, GroupHasRoute
<1> QED
  BY <1>2, <1>3

\* Every operation the server's document lists is a route of it.
LEMMA DocumentedAreRoutes ==
  ASSUME NEW d \in Documented
  PROVE  HasRoute(d.method, d.path)
<1>1. ASSUME NEW e \in PublicEntities \cup {"webhooks"}, NEW w \in BOOLEAN, w => e \in WriteEntities \cup {"webhooks"},
             d \in DocumentedRecords(e, w)
      PROVE  HasRoute(d.method, d.path)
  <2>1. \/ d.method = "GET" /\ d.path \in {<<e>>, <<e, ":id">>}
        \/ w /\ d.method = "POST" /\ d.path = <<e>>
        \/ w /\ d.method \in {"PATCH", "DELETE"} /\ d.path = <<e, ":id">>
    BY <1>1 DEF DocumentedRecords, Documents
  <2> QED
    BY <1>1, <2>1, RecordsHaveRoutes
<1>2. CASE d \in DocumentedImports
  <2> QED
    BY <1>2, ImportsHaveRoutes DEF DocumentedImports, Documents
<1>3. CASE d \in DocumentedWebhooks
  <2>1. /\ Read(<<"webhooks", ":id", "deliveries">>, <<"webhook_deliveries", "list">>) \in RouteTable[7]
        /\ Post(<<"webhooks", ":id", "redeliver">>, Provided(<<"webhooks", "redeliver">>)) \in RouteTable[7]
    BY DEF RouteTable, WebhookRoutes
  <2>2. /\ HasRoute("GET", <<"webhooks", ":id", "deliveries">>) /\ HasRoute("POST", <<"webhooks", ":id", "redeliver">>)
    BY <2>1, ReadHasRoute, PostHasRoute
  <2>3. CASE d \in DocumentedRecords("webhooks", TRUE)
    BY <1>1, <2>3
  <2>4. CASE d = Documents("GET", <<"webhooks", ":id", "deliveries">>)
    BY <2>2, <2>4 DEF Documents
  <2>5. CASE d = Documents("POST", <<"webhooks", ":id", "redeliver">>)
    BY <2>2, <2>5 DEF Documents
  <2> QED
    BY <1>3, <2>3, <2>4, <2>5 DEF DocumentedWebhooks
<1>4. CASE d \in DocumentedObjects \cup DocumentedMigrations
  <2> QED
    BY <1>4, ObjectsHaveRoutes DEF DocumentedObjects, DocumentedMigrations, Documents
<1>5. CASE d \in DocumentedStatus
  <2>1. Route("GET", <<"status">>, {}, <<"status", "report">>) \in RouteTable[1]
    BY DEF RouteTable, StatusRoutes
  <2>2. HasRoute("GET", <<"status">>)
    BY <2>1, GroupHasRoute
  <2> QED
    BY <1>5, <2>2 DEF DocumentedStatus, Documents
<1>6. ASSUME NEW e \in PublicEntities, d \in DocumentedRecords(e, e \in WriteEntities) PROVE HasRoute(d.method, d.path)
  <2>1. (e \in WriteEntities) \in BOOLEAN
    OBVIOUS
  <2> QED
    BY <1>1, <1>6, <2>1
<1> QED
  BY <1>2, <1>3, <1>4, <1>5, <1>6 DEF Documented, DocumentedEntities

\* A request with a fitting route is answered.
LEMMA RouteAnswers ==
  ASSUME NEW rq, NEW path, HasRoute(rq.method, path), Fits(path, rq.path)
  PROVE  Answered(rq)
BY DEF HasRoute, Answered, Answers

\* A documented request never meets a path that does not exist.
LEMMA DocumentedIsFound ==
  ASSUME NEW held, NEW rq \in Requests, NEW destructive, NEW d \in Documented,
         d.method = rq.method, Fits(d.path, rq.path)
  PROVE  HttpServes(held, rq, destructive) # NotFound
<1>1. Answered(rq)
  BY DocumentedAreRoutes, RouteAnswers
<1>2. NotFound \in Missing /\ NotFound # NotImplemented
  BY DEF Missing, NotFound, NotImplemented
<1> QED
  BY <1>1, <1>2, HttpMisses, MissingRoutes

\* The requests of orbit's record commands.
CliEntities == (WriteEntities \ {"sequence_steps", "sequence_enrollments"}) \cup {"webhooks"}
RecordCalls(e) ==
  {Request("GET", <<e>>), Request("POST", <<e>>), Request("GET", <<e, "id">>), Request("PATCH", <<e, "id">>),
   Request("DELETE", <<e, "id">>)}
\* The requests of the other commands.
WorkflowCalls == {MoveDeal, Enroll, Unenroll, LogActivity}
SchemaCalls == {ListObjects, DescribeObject, AddField, UpdateField, DeleteField,
                PreviewMigration, ApplyMigration, RollbackMigration}
OtherCalls == {ContextOf("id"), ContextOf("email"), SearchAll} \cup ImportResource
CliRequests == (UNION {RecordCalls(e) : e \in CliEntities}) \cup WorkflowCalls \cup SchemaCalls \cup OtherCalls

\* Either transport has an operation for the request.
Offers(rq) ==
  /\ Answered(rq) /\ Plain(rq)
  /\ DirectServes(rq) \notin Missing

\* Records.
LEMMA RecordCallsAreOffered ==
  ASSUME NEW e \in CliEntities, NEW rq \in Requests, rq \in RecordCalls(e)
  PROVE  Offers(rq)
<1>0. /\ e \in PublicEntities \cup {"webhooks"} /\ e \in WriteEntities \cup {"webhooks"}
      /\ ServiceOf(e) = e
      /\ e \in {ServiceOf(d) : d \in PublicEntities \ {"sequence_events"}} \cup {"webhooks"}
      /\ e \notin {"bootstrap", "organizations"}
  <2>1. e \notin {"sequence_steps", "sequence_enrollments", "sequence_events"}
    BY DEF CliEntities, WriteEntities, BatchEntities
  <2>2. ServiceOf(e) = e
    BY <2>1 DEF ServiceOf
  <2>3. e \in PublicEntities \cup {"webhooks"} /\ e \in WriteEntities \cup {"webhooks"}
    BY DEF CliEntities, PublicEntities
  <2>4. e \notin {"bootstrap", "organizations"}
    BY <2>3 DEF WriteEntities, BatchEntities
  <2> QED
    BY <2>1, <2>2, <2>3, <2>4
<1>1. \/ rq.method \in {"GET", "POST"} /\ rq.path = <<e>>
      \/ rq.method \in {"GET", "PATCH", "DELETE"} /\ rq.path = <<e, "id">>
  BY DEF RecordCalls, Request
<1>3. Answered(rq)
  <2>1. Fits(<<e>>, <<e>>) /\ Fits(<<e, ":id">>, <<e, "id">>)
    BY DEF Fits, Parameters
  <2> QED
    BY <1>0, <1>1, <2>1, RecordsHaveRoutes, RouteAnswers
<1>4. Plain(rq)
  BY <1>0, <1>1 DEF Plain
<1>5. DirectServes(rq) \notin Missing
  <2> DEFINE action == Segment(rq.path, 2)
  <2>1. /\ Segment(rq.path, 3) = Absent
        /\ rq.path = <<e>> => action = Absent
        /\ rq.path = <<e, "id">> => action = "id"
    <3>1. CASE rq.path = <<e>>
      <4>1. Len(rq.path) = 1 /\ rq.path # <<e, "id">>
        BY <3>1
      <4> QED
        BY <4>1 DEF Segment
    <3>2. CASE rq.path = <<e, "id">>
      <4>1. Len(rq.path) = 2 /\ rq.path[2] = "id" /\ rq.path # <<e>>
        BY <3>2
      <4> QED
        BY <4>1 DEF Segment
    <3> QED
      BY <1>1, <3>1, <3>2
  <2>2. Absent \notin {"log", "id", "pipeline", "stats"} /\ rq.path[1] = e
    BY <1>1 DEF Absent
  <2> HIDE DEF action
  <2>3. DirectWorkflows(rq, action) = NotFound
    BY <1>1, <2>1, <2>2, NoWorkflow
  <2>4. DirectServes(rq) = DirectRecords(rq, action)
    BY <1>0, <2>2, <2>3, DirectRecordsServed DEF action
  <2>5. \A f \in Crud : <<e, f>> \in Offered /\ <<e, f>> \notin Missing
    <3>1. e # "refused"
      BY <1>0 DEF WriteEntities, BatchEntities
    <3> QED
      BY <1>0, <3>1, OfferedCrud DEF Missing, NotFound, NotImplemented
  <2>6. {"list", "get", "create", "update", "delete"} \subseteq Crud
    BY DEF Crud, Reads
  <2>7. DirectRecords(rq, action) \in {<<e, f>> : f \in Crud}
    BY <1>0, <1>1, <2>1, <2>2, <2>5, <2>6 DEF DirectRecords, Absent
  <2> QED
    BY <2>4, <2>5, <2>7
<1> QED
  BY <1>3, <1>4, <1>5 DEF Offers

\* Workflows.
LEMMA WorkflowCallsAreOffered ==
  ASSUME NEW rq \in WorkflowCalls
  PROVE  Offers(rq)
<1>1. /\ HasRoute("POST", <<"deals", ":id", "move">>) /\ HasRoute("POST", <<"sequences", ":id", "enroll">>)
      /\ HasRoute("POST", <<"sequence_enrollments", ":id", "unenroll">>) /\ HasRoute("POST", <<"activities", "log">>)
  <2>1. RouteTable[9] = WorkflowRoutes
    BY DEF RouteTable
  <2>2. \A p, op : Post(p, op) \in WorkflowRoutes => HasRoute("POST", p)
    BY <2>1, PostHasRoute
  <2>3. /\ Post(<<"deals", ":id", "move">>, Provided(<<"deals", "move">>)) \in WorkflowRoutes
        /\ Post(<<"sequences", ":id", "enroll">>,
                ProvidedOr(<<"sequences", "enroll">>, <<"sequenceEnrollments", "create">>)) \in WorkflowRoutes
        /\ Post(<<"sequence_enrollments", ":id", "unenroll">>,
                ProvidedOr(<<"sequenceEnrollments", "unenroll">>, <<"sequenceEnrollments", "update">>)) \in WorkflowRoutes
        /\ Post(<<"activities", "log">>, ProvidedOr(<<"activities", "log">>, <<"activities", "create">>)) \in WorkflowRoutes
    BY DEF WorkflowRoutes
  <2> QED
    BY <2>2, <2>3
<1>2. \/ rq.method = "POST" /\ rq.path = <<"deals", "id", "move">>
      \/ rq.method = "POST" /\ rq.path = <<"sequences", "id", "enroll">>
      \/ rq.method = "POST" /\ rq.path = <<"sequence_enrollments", "id", "unenroll">>
      \/ rq.method = "POST" /\ rq.path = <<"activities", "log">>
  BY DEF WorkflowCalls, MoveDeal, Enroll, Unenroll, LogActivity, Request
<1>3. Answered(rq)
  <2>1. \A entity, verb : Fits(<<entity, ":id", verb>>, <<entity, "id", verb>>) /\ Fits(<<entity, verb>>, <<entity, verb>>)
    BY DEF Fits, Parameters
  <2> QED
    BY <1>1, <1>2, <2>1, RouteAnswers
<1>4. Plain(rq)
  BY <1>2 DEF Plain
<1>5. DirectServes(rq) \in Offered /\ DirectServes(rq) # NotFound
  <2>1. /\ Segment(rq.path, 2) = rq.path[2] /\ rq.path[2] # Absent
        /\ rq.path[1] # "activities" => Segment(rq.path, 3) = rq.path[3]
    BY <1>2 DEF Segment, Absent
  <2>2. /\ Provided(<<"deals", "move">>) = <<"deals", "move">>
        /\ \A op : /\ ProvidedOr(op, <<"sequenceEnrollments", "create">>) \in Offered
                   /\ ProvidedOr(op, <<"sequenceEnrollments", "update">>) \in Offered
                   /\ ProvidedOr(op, <<"activities", "create">>) \in Offered
    BY OfferedWorkflows DEF Provided, ProvidedOr
  <2>3. DirectSpecial(rq, Segment(rq.path, 2)) = NotFound
    BY <1>2 DEF DirectSpecial
  <2>4. DirectWorkflows(rq, Segment(rq.path, 2)) \in Offered
    <3>1. <<"deals", "move">> \in Offered
      BY OfferedWorkflows
    <3> QED
      BY <1>2, <2>1, <2>2, <3>1 DEF DirectWorkflows
  <2>5. NotFound \notin Offered
    BY OfferedFunctions DEF NotFound, FunctionNames
  <2> QED
    BY <1>2, <2>3, <2>4, <2>5 DEF DirectServes
<1>6. NotImplemented \notin Offered
  BY OfferedFunctions DEF NotImplemented, FunctionNames
<1> QED
  BY <1>3, <1>4, <1>5, <1>6 DEF Offers, Missing

\* The segments of a path by position.
LEMMA SegmentsOf ==
  \A a, b, d, e :
    /\ Segment(<<a>>, 2) = Absent
    /\ Segment(<<a, b>>, 2) = b /\ Len(<<a, b>>) = 2
    /\ Segment(<<a, b, d>>, 2) = b /\ Segment(<<a, b, d>>, 3) = d
    /\ Segment(<<a, b, d, e>>, 2) = b /\ Segment(<<a, b, d, e>>, 3) = d /\ Segment(<<a, b, d, e>>, 4) = e
BY DEF Segment

\* The schema.
LEMMA SchemaCallsAreOffered ==
  ASSUME NEW rq \in SchemaCalls
  PROVE  Offers(rq)
<1>1. \/ rq.method = "GET"    /\ rq.path = <<"objects">>
      \/ rq.method = "GET"    /\ rq.path = <<"objects", "id">>
      \/ rq.method = "POST"   /\ rq.path = <<"objects", "id", "fields">>
      \/ rq.method = "PATCH"  /\ rq.path = <<"objects", "id", "fields", "id">>
      \/ rq.method = "DELETE" /\ rq.path = <<"objects", "id", "fields", "id">>
      \/ rq.method = "POST"   /\ rq.path = <<"schema", "migrations", "preview">>
      \/ rq.method = "POST"   /\ rq.path = <<"schema", "migrations", "apply">>
      \/ rq.method = "POST"   /\ rq.path = <<"schema", "migrations", "id", "rollback">>
  BY DEF SchemaCalls, ListObjects, DescribeObject, AddField, UpdateField, DeleteField, PreviewMigration,
         ApplyMigration, RollbackMigration, Request
<1>2. /\ Fits(<<"objects">>, <<"objects">>) /\ Fits(<<"objects", ":type">>, <<"objects", "id">>)
      /\ Fits(<<"objects", ":type", "fields">>, <<"objects", "id", "fields">>)
      /\ Fits(<<"objects", ":type", "fields", ":fieldName">>, <<"objects", "id", "fields", "id">>)
      /\ Fits(<<"schema", "migrations", "preview">>, <<"schema", "migrations", "preview">>)
      /\ Fits(<<"schema", "migrations", "apply">>, <<"schema", "migrations", "apply">>)
      /\ Fits(<<"schema", "migrations", ":id", "rollback">>, <<"schema", "migrations", "id", "rollback">>)
  BY DEF Fits, Parameters
<1>3. Answered(rq)
  BY <1>1, <1>2, ObjectsHaveRoutes, RouteAnswers
<1>4. Plain(rq)
  BY <1>1 DEF Plain
<1>5. DirectServes(rq) \notin Missing
  <2>1. rq.path[1] \in {"objects", "schema"}
    BY <1>1
  <2>2. DirectSpecial(rq, Segment(rq.path, 2)) = NotFound
    BY <2>1 DEF DirectSpecial
  <2>3. /\ rq.path = <<"objects">> => Segment(rq.path, 2) = Absent
        /\ rq.path = <<"objects", "id">> => Segment(rq.path, 2) = "id" /\ Len(rq.path) = 2
        /\ rq.path = <<"objects", "id", "fields">> => Segment(rq.path, 2) = "id" /\ Segment(rq.path, 3) = "fields"
        /\ rq.path = <<"objects", "id", "fields", "id">> =>
             Segment(rq.path, 2) = "id" /\ Segment(rq.path, 3) = "fields" /\ Segment(rq.path, 4) = "id"
    BY SegmentsOf
  <2>4. /\ rq.path = <<"schema", "migrations", "preview">> =>
             Segment(rq.path, 2) = "migrations" /\ Segment(rq.path, 3) = "preview"
        /\ rq.path = <<"schema", "migrations", "apply">> =>
             Segment(rq.path, 2) = "migrations" /\ Segment(rq.path, 3) = "apply"
        /\ rq.path = <<"schema", "migrations", "id", "rollback">> =>
             Segment(rq.path, 2) = "migrations" /\ Segment(rq.path, 3) = "id" /\ Segment(rq.path, 4) = "rollback"
    BY SegmentsOf
  <2>5. Absent \notin {"id", "fields", "preview", "apply", "rollback"}
    BY DEF Absent
  <2>6. CASE rq.path[1] = "objects"
    <3>1. DirectObjects(rq, Segment(rq.path, 2)) \in
            {<<"schema", f>> : f \in {"listObjects", "getObject", "addField", "updateField", "deleteField"}}
      <4>1. CASE rq.method = "GET"
        BY <1>1, <2>3, <2>5, <2>6, <4>1 DEF DirectObjects
      <4>2. CASE rq.method \in {"POST", "PATCH", "DELETE"}
        BY <1>1, <2>3, <2>5, <2>6, <4>2 DEF DirectObjects
      <4> QED
        BY <1>1, <4>1, <4>2
    <3>2. DirectServes(rq) = DirectObjects(rq, Segment(rq.path, 2))
      BY <2>2, <2>6 DEF DirectServes
    <3> QED
      BY <3>1, <3>2 DEF Missing, NotFound, NotImplemented
  <2>7. CASE rq.path[1] = "schema"
    <3>1. DirectMigrations(rq) \in {<<"schema", f>> : f \in {"preview", "apply", "rollback"}}
      BY <1>1, <2>4, <2>5, <2>7 DEF DirectMigrations
    <3>2. Segment(rq.path, 2) = "migrations"
      BY <1>1, <2>4, <2>7
    <3>3. DirectServes(rq) = DirectMigrations(rq)
      BY <2>2, <2>7, <3>2 DEF DirectServes
    <3> QED
      BY <3>1, <3>3 DEF Missing, NotFound, NotImplemented
  <2> QED
    BY <2>1, <2>6, <2>7
<1> QED
  BY <1>3, <1>4, <1>5 DEF Offers

\* Contexts, the merged search and imports.
LEMMA OtherCallsAreOffered ==
  ASSUME NEW rq \in Requests, rq \in OtherCalls
  PROVE  Offers(rq)
<1>1. \/ rq.method = "GET"  /\ rq.path \in {<<"context", "id">>, <<"context", "email">>}
      \/ rq.method = "POST" /\ rq.path = <<"search">>
      \/ rq.method = "POST" /\ rq.path = <<"imports">>
      \/ rq.method = "GET"  /\ rq.path = <<"imports">>
      \/ rq.method = "GET"  /\ rq.path = <<"imports", "id">>
  BY DEF OtherCalls, ContextOf, SearchAll, ImportResource, Request
<1>2. Answered(rq)
  <2>1. /\ HasRoute("GET", <<"context", ":contactId">>) /\ HasRoute("POST", <<"search">>)
    <3>1. /\ Route("GET", <<"context", ":contactId">>, {<<"contacts", "read">>},
                   <<"contactContext", "getContactContext">>) \in RouteTable[3]
          /\ Route("POST", <<"search">>, {<<"search", "read">>}, <<"search", "search">>) \in RouteTable[2]
      BY DEF RouteTable, ContextRoutes, SearchRoutes
    <3> QED
      BY <3>1, GroupHasRoute
  <2>2. /\ Fits(<<"context", ":contactId">>, <<"context", "id">>)
        /\ Fits(<<"context", ":contactId">>, <<"context", "email">>)
        /\ Fits(<<"search">>, <<"search">>) /\ Fits(<<"imports">>, <<"imports">>)
        /\ Fits(<<"imports", ":id">>, <<"imports", "id">>)
    BY DEF Fits, Parameters
  <2> QED
    BY <1>1, <2>1, <2>2, ImportsHaveRoutes, RouteAnswers
<1>3. Plain(rq)
  BY <1>1 DEF Plain
<1>4. DirectServes(rq) \notin Missing
  <2> DEFINE action == Segment(rq.path, 2)
  <2>1. /\ Segment(rq.path, 3) = Absent
        /\ rq.path \in {<<"search">>, <<"imports">>} => action = Absent
        /\ rq.path \in {<<"context", "id">>, <<"context", "email">>, <<"imports", "id">>} => action \in {"id", "email"}
    BY <1>1 DEF Segment
  <2>2. Absent \notin {"log", "search", "id", "email", "pipeline", "stats"}
    BY DEF Absent
  <2> HIDE DEF action
  <2>3. CASE rq.path[1] \in {"search", "context"}
    <3>1. DirectSpecial(rq, action) \in {<<"search", "search">>, <<"contactContext", "getContactContext">>}
      BY <1>1, <2>1, <2>2, <2>3 DEF DirectSpecial
    <3> QED
      BY <3>1 DEF DirectServes, Missing, NotFound, NotImplemented, action
  <2>4. CASE rq.path[1] = "imports"
    <3>1. DirectWorkflows(rq, action) = NotFound
      BY <1>1, <2>1, <2>2, <2>4, NoWorkflow
    <3>2. DirectServes(rq) = DirectRecords(rq, action)
      BY <2>4, <3>1, DirectRecordsServed DEF action
    <3>3. ServiceOf("imports") = "imports"
      BY DEF ServiceOf
    <3>4. \A f \in {"list", "get", "create"} : <<"imports", f>> \in Offered
      <4>1. {"list", "get", "create"} \subseteq FunctionsOf("imports")
        BY DEF FunctionsOf, Crud, Reads
      <4> QED
        BY <4>1 DEF Offered, EntityOperations
    <3>5. DirectRecords(rq, action) \in {<<"imports", f>> : f \in {"list", "get", "create"}}
      BY <1>1, <2>1, <2>2, <2>4, <3>3, <3>4 DEF DirectRecords, Absent
    <3> QED
      BY <3>2, <3>5 DEF Missing, NotFound, NotImplemented
  <2> QED
    BY <1>1, <2>3, <2>4
<1> QED
  BY <1>2, <1>3, <1>4 DEF Offers

\* Whatever the command line sends, neither transport lacks the operation.
LEMMA CliRequestsAreServed ==
  ASSUME NEW rq \in Requests, rq \in CliRequests, NEW held, NEW destructive
  PROVE  HttpServes(held, rq, destructive) \notin Missing /\ DirectServes(rq) \notin Missing
<1>1. Offers(rq)
  BY RecordCallsAreOffered, WorkflowCallsAreOffered, SchemaCallsAreOffered, OtherCallsAreOffered DEF CliRequests
<1>2. HttpServes(held, rq, destructive) \notin Missing
  BY <1>1, HttpMisses, MissingRoutes DEF Offers
<1> QED
  BY <1>1, <1>2 DEF Offers

\* A program that deletes a field asks for consent no later than that.
AsksFirst(todo) ==
  \A i \in DOMAIN todo : todo[i].rq = DeleteField => \E j \in 1 .. i : todo[j].ask = "always"

\* All that a program sends is among the requests.
Sends(todo, requests) == \A i \in DOMAIN todo : todo[i].rq \in requests

\* A program of one call that deletes no field has nothing to ask.
LEMMA OneCall ==
  ASSUME NEW requests, NEW rq \in requests, rq # DeleteField
  PROVE  Sends(Call(rq), requests) /\ AsksFirst(Call(rq))
BY DEF Sends, AsksFirst, Call, Step

\* Nor has one of two steps, unless the second deletes a field.
LEMMA TwoSteps ==
  ASSUME NEW requests, NEW a \in requests, NEW b \in requests, NEW first, NEW second
  PROVE  /\ Sends(<<Step(first, a), Step(second, b)>>, requests)
         /\ a # DeleteField /\ (b # DeleteField \/ first = "always")
              => AsksFirst(<<Step(first, a), Step(second, b)>>)
<1> DEFINE p == <<Step(first, a), Step(second, b)>>
<1>1. DOMAIN p = 1 .. 2 /\ p[1].rq = a /\ p[1].ask = first /\ p[2].rq = b
  BY DEF Step
<1> HIDE DEF p
<1>2. Sends(p, requests)
  BY <1>1 DEF Sends
<1>3. ASSUME a # DeleteField, b # DeleteField \/ first = "always" PROVE AsksFirst(p)
  BY <1>1, <1>3 DEF AsksFirst
<1> QED
  BY <1>2, <1>3 DEF p

\* One step, whether it asks or not.
LEMMA OneStep ==
  ASSUME NEW requests, NEW a \in requests, NEW first, a # DeleteField
  PROVE  Sends(<<Step(first, a)>>, requests) /\ AsksFirst(<<Step(first, a)>>)
BY DEF Sends, AsksFirst, Step

\* DELETE is the request of no other command with the path of a field.
LEMMA NotDeleteField ==
  /\ \A e \in CliEntities : DeleteField \notin RecordCalls(e)
  /\ DeleteField \notin WorkflowCalls \cup OtherCalls \cup (SchemaCalls \ {DeleteField})
<1>1. DeleteField.path[1] = "objects" /\ DeleteField.method = "DELETE"
  BY DEF DeleteField, Request
<1>2. ASSUME NEW e \in CliEntities PROVE DeleteField \notin RecordCalls(e)
  <2>1. e # "objects"
    BY DEF CliEntities, WriteEntities, BatchEntities
  <2>2. \A rq \in RecordCalls(e) : rq.path[1] = e
    BY DEF RecordCalls, Request
  <2> QED
    BY <1>1, <2>1, <2>2
<1>3. \A rq \in WorkflowCalls \cup OtherCalls : rq.method # "DELETE"
  BY DEF WorkflowCalls, OtherCalls, MoveDeal, Enroll, Unenroll, LogActivity, ContextOf, SearchAll,
         ImportResource, Request
<1> QED
  BY <1>1, <1>2, <1>3

\* A program that sends what the command line sends, and asks first.
Tame(p) == Sends(p, CliRequests) /\ AsksFirst(p)

\* Single calls that delete no field.
LEMMA CallsAreTame ==
  ASSUME NEW requests, requests \subseteq CliRequests \ {DeleteField}, NEW p \in Calls(requests)
  PROVE  Tame(p)
<1>1. PICK rq \in requests : p = Call(rq)
  BY DEF Calls
<1> QED
  BY <1>1, OneCall DEF Tame

\* The commands of an entity.
LEMMA RecordCommandsAreTame ==
  ASSUME NEW e \in CliEntities, NEW p \in RecordCommands(e)
  PROVE  Tame(p)
<1> DEFINE requests == BaseResource(e) \ {Request("POST", <<e, "search">>), Request("POST", <<e, "batch">>)}
<1>1. requests \subseteq RecordCalls(e)
  BY DEF BaseResource, RecordCalls
<1>2. requests \subseteq CliRequests \ {DeleteField}
  BY <1>1, NotDeleteField DEF CliRequests
<1> HIDE DEF requests
<1> QED
  BY <1>2, CallsAreTame DEF RecordCommands, requests

\* orbit migrate, with any flags.
LEMMA MigrateIsTame ==
  ASSUME NEW flags, NEW p, p = Migrate(flags)
  PROVE  Tame(p)
<1>1. {PreviewMigration, ApplyMigration, RollbackMigration} \subseteq CliRequests \ {DeleteField}
  <2>1. DeleteField.method = "DELETE"
    BY DEF DeleteField, Request
  <2>2. \A rq \in {PreviewMigration, ApplyMigration, RollbackMigration} : rq.method = "POST"
    BY DEF PreviewMigration, ApplyMigration, RollbackMigration, Request
  <2> QED
    BY <2>1, <2>2 DEF CliRequests, SchemaCalls
<1>2. \E first : p \in {<<Step(first, PreviewMigration)>>, <<Step(first, RollbackMigration)>>,
                        <<Step(first, PreviewMigration), Step("ifDestructive", ApplyMigration)>>}
  BY DEF Migrate
<1> QED
  BY <1>1, <1>2, OneStep, TwoSteps DEF Tame

\* orbit fields: its deletion asks before its preview.
LEMMA FieldsCommandIsTame ==
  ASSUME NEW p \in FieldsCommand
  PROVE  Tame(p)
<1>1. {PreviewMigration, DescribeObject, AddField, UpdateField} \subseteq CliRequests \ {DeleteField}
  <2>1. DeleteField.method = "DELETE"
    BY DEF DeleteField, Request
  <2>2. \A rq \in {PreviewMigration, DescribeObject, AddField, UpdateField} : rq.method # "DELETE"
    BY DEF PreviewMigration, DescribeObject, AddField, UpdateField, Request
  <2> QED
    BY <2>1, <2>2 DEF CliRequests, SchemaCalls
<1>2. DeleteField \in CliRequests
  BY DEF CliRequests, SchemaCalls
<1>3. CASE p \in Calls({DescribeObject, AddField})
  BY <1>1, <1>3, CallsAreTame
<1>4. CASE p = FieldsDelete
  <2>1. Sends(p, CliRequests)
    BY <1>1, <1>2, <1>4, TwoSteps DEF FieldsDelete
  <2>2. AsksFirst(p)
    BY <1>1, <1>2, <1>4, TwoSteps DEF FieldsDelete
  <2> QED
    BY <2>1, <2>2 DEF Tame
<1>5. CASE p = FieldsUpdate
  <2>1. Sends(p, CliRequests)
    BY <1>1, <1>2, <1>5, TwoSteps DEF FieldsUpdate
  <2>2. AsksFirst(p)
    BY <1>1, <1>2, <1>5, TwoSteps DEF FieldsUpdate
  <2> QED
    BY <2>1, <2>2 DEF Tame
<1> QED
  BY <1>3, <1>4, <1>5 DEF FieldsCommand

\* The commands that send one request of a fixed kind.
LEMMA PlainCommandsAreTame ==
  ASSUME NEW p \in UNION {{Call(MoveDeal)}, {Call(Enroll), Call(Unenroll)}, ImportsCommand, LogCommand, ContextCommand,
                          SearchCommand, SchemaCommand, StatusCommand}
  PROVE  Tame(p)
<1>1. \A rq : rq \in WorkflowCalls \cup OtherCalls => rq \in CliRequests \ {DeleteField}
  BY NotDeleteField DEF CliRequests
<1>2. CASE p \in {Call(MoveDeal), Call(Enroll), Call(Unenroll)} \cup LogCommand
  <2>1. \E rq \in WorkflowCalls : p = Call(rq)
    BY <1>2 DEF WorkflowCalls, LogCommand
  <2> QED
    BY <1>1, <2>1, OneCall DEF Tame
<1>3. CASE p \in ImportsCommand \cup ContextCommand \cup SearchCommand
  <2>1. \E rq \in OtherCalls : p = Call(rq)
    BY <1>3 DEF OtherCalls, ImportsCommand, ContextCommand, SearchCommand, Calls
  <2> QED
    BY <1>1, <2>1, OneCall DEF Tame
<1>4. CASE p \in SchemaCommand
  <2>1. {ListObjects, DescribeObject} \subseteq CliRequests
    BY DEF CliRequests, SchemaCalls
  <2>2. ListObjects.method = "GET" /\ DescribeObject.method = "GET" /\ DeleteField.method = "DELETE"
    BY DEF ListObjects, DescribeObject, DeleteField, Request
  <2> QED
    BY <1>4, <2>1, <2>2, CallsAreTame DEF SchemaCommand
<1>5. CASE p \in StatusCommand
  <2>1. "users" \in CliEntities
    BY DEF CliEntities, WriteEntities
  <2>2. Request("GET", <<"users">>) \in RecordCalls("users")
    BY DEF RecordCalls
  <2>3. Request("GET", <<"users">>) \in CliRequests \ {DeleteField}
    BY <2>1, <2>2, NotDeleteField DEF CliRequests
  <2> QED
    BY <1>5, <2>3, OneCall DEF StatusCommand, Tame
<1> QED
  BY <1>2, <1>3, <1>4, <1>5

\* Every command sends requests of the list, and one that deletes a field asks first.
LEMMA CliProgramsAreTame ==
  ASSUME NEW p \in CliPrograms
  PROVE  Tame(p)
<1> DEFINE entities == {"contacts", "companies", "deals", "users", "pipelines", "stages", "activities", "tasks",
                        "notes", "products", "payments", "contracts", "sequences", "tags", "webhooks"}
           others == UNION {{Call(MoveDeal)}, {Call(Enroll), Call(Unenroll)}, ImportsCommand, LogCommand,
                            ContextCommand, SearchCommand, SchemaCommand, StatusCommand}
<1>1. entities \subseteq CliEntities
  BY DEF CliEntities, WriteEntities, BatchEntities
<1>2. ASSUME NEW e \in entities, p \in RecordCommands(e) PROVE Tame(p)
  BY <1>1, <1>2, RecordCommandsAreTame
<1>3. \/ \E e \in entities : p \in RecordCommands(e)
      \/ p \in others
      \/ p \in FieldsCommand \/ p \in MigrateCommand
  BY DEF CliPrograms, ContactsCommand, CompaniesCommand, DealsCommand, UsersCommand, PipelinesCommand, StagesCommand,
         ActivitiesCommand, TasksCommand, NotesCommand, ProductsCommand, PaymentsCommand, ContractsCommand,
         SequencesCommand, TagsCommand, WebhooksCommand
<1>4. CASE p \in MigrateCommand
  BY <1>4, MigrateIsTame DEF MigrateCommand
<1> QED
  BY <1>2, <1>3, <1>4, PlainCommandsAreTame, FieldsCommandIsTame

\* orbit seed creates contacts.
LEMMA SeedSends ==
  ASSUME NEW p \in SeedCommand
  PROVE  Sends(p, CliRequests)
<1>1. "contacts" \in CliEntities
  BY DEF CliEntities, WriteEntities, BatchEntities
<1>2. Request("POST", <<"contacts">>) \in CliRequests
  BY <1>1 DEF CliRequests, RecordCalls
<1> QED
  BY <1>2 DEF SeedCommand, Sends, Step

-----------------------------------------------------------------------------
(* Every step of a program keeps what it was asked and what it agreed to. *)

\* The steps of a program.
Steps == [ask : {"never", "ifDestructive", "always"}, rq : Requests]

\* Every program is a nonempty sequence of requests; orbit's own send what either transport
\* has an operation for, and ask before they delete a field.
Programmed(c) ==
  /\ caller[c].todo \in Seq(Steps) /\ caller[c].todo # <<>>
  /\ caller[c].surface \in {"cli", "seed"} => Sends(caller[c].todo, CliRequests)
  /\ caller[c].surface = "cli" => caller[c].agreed \/ AsksFirst(caller[c].todo)

\* What a request leads to goes by where it is.
Outcome(c) ==
  /\ caller[c].at \in {"idle", "ready", "sent", "entered", "admitted"} => caller[c].did = <<>>
  /\ caller[c].at = "serving" =>
       caller[c].did = Served(c) /\ caller[c].did \notin Refusals /\ ~Unconfirmed(c, caller[c].did)
  /\ caller[c].at = "answered" => caller[c].did \in {<<>>, Served(c), <<"refused", "CONFIRMATION">>}

\* A caller at work on a program was asked what it had to be asked.
Proper(c) ==
  /\ caller[c].at # "idle" => Programmed(c)
  /\ caller[c].at \notin {"idle", "ready"} => ~MustAsk(c)
  /\ Outcome(c)

\* The inductive invariant.
ProgramInv == Shapes /\ \A c \in Callers : Proper(c)

\* The caller goes on with the program it has.
SameProgram(c) ==
  /\ caller'[c].surface = caller[c].surface /\ caller'[c].via = caller[c].via
  /\ caller'[c].todo = caller[c].todo /\ caller'[c].held = caller[c].held
  /\ caller'[c].agreed = caller[c].agreed /\ caller'[c].destructive = caller[c].destructive

\* What a request leads to depends on the program alone.
LEMMA SameProgramSame ==
  ASSUME NEW c, SameProgram(c)
  PROVE  /\ Served(c)' = Served(c)
         /\ \A op : Unconfirmed(c, op)' <=> Unconfirmed(c, op)
         /\ MustAsk(c)' <=> MustAsk(c)
         /\ Programmed(c)' <=> Programmed(c)
<1>1. Served(c)' = Served(c)
  BY DEF SameProgram, Served, Current
<1>2. \A op : Unconfirmed(c, op)' <=> Unconfirmed(c, op)
  BY DEF SameProgram, Unconfirmed, Current
<1>3. MustAsk(c)' <=> MustAsk(c)
  BY DEF SameProgram, MustAsk
<1>4. Programmed(c)' <=> Programmed(c)
  BY DEF SameProgram, Programmed
<1> QED
  BY <1>1, <1>2, <1>3, <1>4

\* A step of one caller leaves the others as they are.
LEMMA OneIsProper ==
  ASSUME ProgramInv, NEW c \in Callers, Shapes', OthersStay(c), Proper(c)'
  PROVE  ProgramInv'
<1>1. ASSUME NEW d \in Callers \ {c} PROVE Proper(d)'
  <2>1. Proper(d) /\ caller'[d] = caller[d]
    BY DEF ProgramInv, OthersStay
  <2>2. SameProgram(d)
    BY <2>1 DEF SameProgram
  <2> QED
    BY <2>1, <2>2, SameProgramSame DEF Proper, Outcome
<1> QED
  BY <1>1 DEF ProgramInv

\* The end of a program.
LEMMA IdleIsProper ==
  ASSUME ProgramInv, NEW c \in Callers, caller' = [caller EXCEPT ![c] = Idle]
  PROVE  ProgramInv'
<1>1. Shapes' /\ OthersStay(c) /\ caller'[c] = Idle
  BY IdleIsShaped DEF ProgramInv, Shapes, OthersStay
<1>2. Idle.at = "idle" /\ Idle.did = <<>>
  BY DEF Idle
<1>3. Proper(c)'
  BY <1>1, <1>2 DEF Proper, Outcome
<1> QED
  BY <1>1, <1>3, OneIsProper

\* A change of a request's place, with the program it belongs to untouched.
Untouched == {"surface", "via", "todo", "held", "agreed", "destructive"}
\* Such a change leaves the program as it was.
LEMMA PutKeepsProgram ==
  ASSUME ProgramInv, NEW c \in Callers, NEW change, Put(c, change), DOMAIN change \cap Untouched = {}
  PROVE  /\ Shapes' /\ OthersStay(c) /\ SameProgram(c)
         /\ caller'[c].at = IF "at" \in DOMAIN change THEN change["at"] ELSE caller[c].at
         /\ caller'[c].did = IF "did" \in DOMAIN change THEN change["did"] ELSE caller[c].did
<1>1. /\ Shapes' /\ OthersStay(c)
      /\ \A f \in Fields : caller'[c][f] = IF f \in DOMAIN change THEN change[f] ELSE caller[c][f]
  BY PutChanges DEF ProgramInv, OthersStay
<1>2. Untouched \cup {"at", "did"} \subseteq Fields
  BY DEF Fields, Untouched
<1> QED
  BY <1>1, <1>2 DEF SameProgram, Untouched

\* A step within a request, once its outcome is known to be right.
LEMMA Moves ==
  ASSUME ProgramInv, NEW c \in Callers, NEW change, Put(c, change), DOMAIN change \cap Untouched = {},
         caller[c].at # "idle", ~MustAsk(c) \/ caller'[c].at = "ready",
         SameProgram(c) => Outcome(c)'
  PROVE  ProgramInv'
<1>1. Shapes' /\ OthersStay(c) /\ SameProgram(c)
  BY PutKeepsProgram
<1>2. Programmed(c)' /\ (MustAsk(c)' <=> MustAsk(c))
  <2>1. Programmed(c)
    BY DEF ProgramInv, Proper
  <2> QED
    BY <1>1, <2>1, SameProgramSame
<1>3. Proper(c)'
  BY <1>1, <1>2 DEF Proper
<1> QED
  BY <1>1, <1>3, OneIsProper

\* A started program is one of those assumed: here ProgramsAssumption is used.
LEMMA StartProper ==
  ASSUME ProgramInv, NEW c \in Callers, Start(c)
  PROVE  ProgramInv'
<1>1. PICK choice \in Menu[c] : caller' = [caller EXCEPT ![c] = Over(choice, [@ EXCEPT !.at = "ready"])]
  BY DEF Start
<1>2. DOMAIN choice = {"surface", "todo", "via", "held", "agreed", "destructive", "keyed"}
  BY MenuAssumption
<1> DEFINE state == [caller[c] EXCEPT !.at = "ready"]
<1>3. Shaped(caller[c]) /\ caller[c].at = "idle" /\ caller[c].did = <<>>
  BY DEF ProgramInv, Shapes, Start, Proper, Outcome
<1>4. Shaped(state) /\ state.at = "ready" /\ state.did = <<>>
  BY <1>3 DEF Shaped, Fields
<1>5. caller'[c] = Over(choice, state) /\ DOMAIN caller' = Callers /\ OthersStay(c)
  BY <1>1 DEF ProgramInv, Shapes, OthersStay
<1> HIDE DEF state
<1>6. /\ Shaped(caller'[c])
      /\ \A f \in Fields : caller'[c][f] = IF f \in DOMAIN choice THEN choice[f] ELSE state[f]
  BY <1>4, <1>5, OverFields
<1>7. /\ caller'[c].at = "ready" /\ caller'[c].did = <<>>
      /\ caller'[c].surface = choice.surface /\ caller'[c].todo = choice.todo
  BY <1>2, <1>4, <1>6 DEF Fields
<1>8. Shapes'
  BY <1>5, <1>6 DEF ProgramInv, Shapes, OthersStay
<1>9. /\ choice.todo \in Seq(Steps) /\ choice.todo # <<>>
      /\ choice.surface = "cli" => choice.todo \in CliPrograms
      /\ choice.surface = "seed" => choice.todo \in SeedCommand
  BY ProgramsAssumption DEF Steps
<1>10. Programmed(c)'
  BY <1>7, <1>9, CliProgramsAreTame, SeedSends DEF Programmed, Tame
<1>11. Proper(c)'
  BY <1>7, <1>10 DEF Proper, Outcome
<1> QED
  BY <1>5, <1>8, <1>11, OneIsProper

\* The user says yes, or the program ends.
LEMMA AskProper ==
  ASSUME ProgramInv, NEW c \in Callers, Ask(c)
  PROVE  ProgramInv'
<1>1. CASE Put(c, [agreed |-> TRUE])
  <2>1. /\ Shapes' /\ OthersStay(c)
        /\ \A f \in Fields : caller'[c][f] = IF f \in {"agreed"} THEN [agreed |-> TRUE][f] ELSE caller[c][f]
    BY <1>1, PutChanges DEF ProgramInv, OthersStay
  <2>2. /\ caller'[c].agreed = TRUE /\ caller'[c].at = caller[c].at /\ caller'[c].did = caller[c].did
        /\ caller'[c].surface = caller[c].surface /\ caller'[c].todo = caller[c].todo
    BY <2>1 DEF Fields
  <2>3. caller[c].at = "ready" /\ Programmed(c) /\ caller[c].did = <<>>
    BY DEF ProgramInv, Proper, Outcome, Ask
  <2>4. Proper(c)'
    BY <2>2, <2>3 DEF Proper, Outcome, Programmed
  <2> QED
    BY <2>1, <2>4, OneIsProper
<1>2. CASE caller' = [caller EXCEPT ![c] = Idle]
  BY <1>2, IdleIsProper
<1> QED
  BY <1>1, <1>2 DEF Ask

\* A request is sent when nothing is left to ask.
LEMMA SendProper ==
  ASSUME ProgramInv, NEW c \in Callers, Send(c)
  PROVE  ProgramInv'
<1> DEFINE change == [at |-> IF caller[c].via = "http" THEN "sent" ELSE "entered", tries |-> 0]
<1>1. Put(c, change) /\ caller[c].at = "ready" /\ ~MustAsk(c)
  BY DEF Send
<1>2. DOMAIN change = {"at", "tries"} /\ change["at"] \in {"sent", "entered"}
  OBVIOUS
<1> HIDE DEF change
<1>3. DOMAIN change \cap Untouched = {}
  BY <1>2 DEF Untouched
<1>4. caller'[c].at \in {"sent", "entered"} /\ caller'[c].did = <<>>
  <2>1. caller[c].did = <<>>
    BY <1>1 DEF ProgramInv, Proper, Outcome
  <2> QED
    BY <1>1, <1>2, <1>3, <2>1, PutKeepsProgram
<1>5. Outcome(c)'
  BY <1>4 DEF Outcome
<1> QED
  BY <1>1, <1>3, <1>5, Moves

\* The tail of a sequence.
LEMMA TailShifts ==
  ASSUME NEW S, NEW p \in Seq(S), Len(p) > 1
  PROVE  /\ Tail(p) \in Seq(S) /\ Tail(p) # <<>>
         /\ DOMAIN Tail(p) = 1 .. (Len(p) - 1) /\ DOMAIN p = 1 .. Len(p)
         /\ \A i \in DOMAIN Tail(p) : Tail(p)[i] = p[i + 1] /\ i + 1 \in DOMAIN p
<1>1. Tail(p) \in Seq(S) /\ Len(Tail(p)) = Len(p) - 1 /\ Len(p) \in Nat /\ DOMAIN p = 1 .. Len(p)
  OBVIOUS
<1>2. DOMAIN Tail(p) = 1 .. (Len(p) - 1)
  BY <1>1
<1>3. Tail(p) # <<>>
  <2>1. 1 \in DOMAIN Tail(p)
    BY <1>1, <1>2
  <2>2. 1 \notin DOMAIN <<>>
    OBVIOUS
  <2> QED
    BY <2>1, <2>2
<1>4. \A i \in 1 .. (Len(p) - 1) : Tail(p)[i] = p[i + 1]
  OBVIOUS
<1> QED
  BY <1>1, <1>2, <1>3, <1>4

\* What remains of a program once its first request is answered.
LEMMA RestOfProgram ==
  ASSUME NEW c, Programmed(c), ~MustAsk(c), Len(caller[c].todo) > 1
  PROVE  /\ Tail(caller[c].todo) \in Seq(Steps) /\ Tail(caller[c].todo) # <<>>
         /\ caller[c].surface \in {"cli", "seed"} => Sends(Tail(caller[c].todo), CliRequests)
         /\ caller[c].surface = "cli" => caller[c].agreed \/ AsksFirst(Tail(caller[c].todo))
<1> DEFINE p == caller[c].todo
           q == Tail(caller[c].todo)
<1>1. p \in Seq(Steps) /\ p # <<>> /\ Len(p) > 1
  BY DEF Programmed
<1>2. /\ q \in Seq(Steps) /\ q # <<>> /\ DOMAIN q = 1 .. (Len(p) - 1) /\ DOMAIN p = 1 .. Len(p)
      /\ \A i \in DOMAIN q : q[i] = p[i + 1] /\ i + 1 \in DOMAIN p
  BY <1>1, TailShifts
<1>3. caller[c].agreed \/ p[1].ask # "always"
  BY <1>1 DEF MustAsk
<1>4. ASSUME Sends(p, CliRequests) PROVE Sends(q, CliRequests)
  <2> HIDE DEF p, q
  <2> QED
    BY <1>2, <1>4 DEF Sends
<1>5. ASSUME AsksFirst(p), p[1].ask # "always" PROVE AsksFirst(q)
  <2> HIDE DEF p, q
  <2> SUFFICES ASSUME NEW i \in DOMAIN q, q[i].rq = DeleteField
               PROVE  \E j \in 1 .. i : q[j].ask = "always"
    BY DEF AsksFirst
  <2>1. i \in Nat \ {0} /\ Len(p) \in Nat
    BY <1>1, <1>2
  <2>2. PICK k \in 1 .. i + 1 : p[k].ask = "always"
    BY <1>2, <1>5 DEF AsksFirst
  <2>3. k - 1 \in 1 .. i /\ k = (k - 1) + 1
    BY <1>5, <2>1, <2>2
  <2>4. k - 1 \in DOMAIN q
    BY <1>2, <2>1, <2>3
  <2>5. q[k - 1] = p[k]
    BY <1>2, <2>3, <2>4
  <2> QED
    BY <2>2, <2>3, <2>5
<1> QED
  BY <1>2, <1>3, <1>4, <1>5 DEF Programmed

\* A program goes on to its next request.
LEMMA ContinueProper ==
  ASSUME ProgramInv, NEW c \in Callers, Continue(c)
  PROVE  ProgramInv'
<1> DEFINE change == [at |-> "ready", todo |-> Tail(caller[c].todo), did |-> <<>>, answer |-> "none"]
<1>1. caller[c].at = "answered" /\ ~MustAsk(c) /\ Programmed(c)
  BY DEF ProgramInv, Continue, Proper
<1>2. (Put(c, change) /\ Len(caller[c].todo) > 1) \/ caller' = [caller EXCEPT ![c] = Idle]
  BY DEF Continue, Put
<1>3. /\ DOMAIN change = {"at", "todo", "did", "answer"} /\ change["at"] = "ready"
      /\ change["todo"] = Tail(caller[c].todo) /\ change["did"] = <<>>
  OBVIOUS
<1> HIDE DEF change
<1>4. CASE Put(c, change) /\ Len(caller[c].todo) > 1
  <2>1. /\ Shapes' /\ OthersStay(c)
        /\ \A f \in Fields : caller'[c][f] = IF f \in DOMAIN change THEN change[f] ELSE caller[c][f]
    BY <1>4, PutChanges DEF ProgramInv, OthersStay
  <2>2. /\ caller'[c].at = "ready" /\ caller'[c].did = <<>> /\ caller'[c].todo = Tail(caller[c].todo)
        /\ caller'[c].surface = caller[c].surface /\ caller'[c].agreed = caller[c].agreed
    BY <1>3, <2>1 DEF Fields
  <2>3. Programmed(c)'
    BY <1>1, <1>4, <2>2, RestOfProgram DEF Programmed
  <2>4. Proper(c)'
    BY <2>2, <2>3 DEF Proper, Outcome
  <2> QED
    BY <2>1, <2>4, OneIsProper
<1>5. CASE caller' = [caller EXCEPT ![c] = Idle]
  BY <1>5, IdleIsProper
<1> QED
  BY <1>2, <1>4, <1>5

\* A retried request starts afresh.
LEMMA RetryProper ==
  ASSUME ProgramInv, NEW c \in Callers, Retry(c)
  PROVE  ProgramInv'
<1> DEFINE change == [at |-> "sent", tries |-> caller[c].tries + 1, did |-> <<>>, answer |-> "none"]
<1>1. caller[c].at = "answered" /\ ~MustAsk(c)
  BY DEF ProgramInv, Retry, Proper
<1>2. Put(c, change) \/ caller' = [caller EXCEPT ![c] = Idle]
  BY DEF Retry
<1>3. DOMAIN change = {"at", "tries", "did", "answer"} /\ change["at"] = "sent" /\ change["did"] = <<>>
  OBVIOUS
<1> HIDE DEF change
<1>4. CASE Put(c, change)
  <2>1. DOMAIN change \cap Untouched = {}
    BY <1>3 DEF Untouched
  <2>2. Outcome(c)'
    BY <1>3, <1>4, <2>1, PutKeepsProgram DEF Outcome
  <2> QED
    BY <1>1, <1>4, <2>1, <2>2, Moves
<1>5. CASE caller' = [caller EXCEPT ![c] = Idle]
  BY <1>5, IdleIsProper
<1> QED
  BY <1>2, <1>4, <1>5

\* An answer ends a request that is not yet served, or one that was served what it asked for.
LEMMA AnswerProper ==
  ASSUME ProgramInv, NEW c \in Callers, NEW answer, Answer(c, answer),
         caller[c].at \in {"sent", "admitted", "serving"}
  PROVE  ProgramInv'
<1> DEFINE change == [at |-> "answered", answer |-> answer, holds |-> 0]
<1>1. Put(c, change) /\ ~MustAsk(c)
  BY DEF Answer, ProgramInv, Proper
<1>2. DOMAIN change = {"at", "answer", "holds"} /\ change["at"] = "answered"
  OBVIOUS
<1> HIDE DEF change
<1>3. DOMAIN change \cap Untouched = {}
  BY <1>2 DEF Untouched
<1>4. caller[c].did \in {<<>>, Served(c)}
  BY DEF ProgramInv, Proper, Outcome
<1>5. ASSUME SameProgram(c) PROVE Outcome(c)'
  BY <1>1, <1>2, <1>3, <1>4, <1>5, PutKeepsProgram, SameProgramSame DEF Outcome
<1> QED
  BY <1>1, <1>3, <1>5, Moves

\* A key that is known.
LEMMA AuthenticateProper ==
  ASSUME ProgramInv, NEW c \in Callers, Authenticate(c)
  PROVE  ProgramInv'
<1>1. CASE Answer(c, "failed")
  BY <1>1, AnswerProper DEF Authenticate
<1>2. CASE Put(c, [at |-> "entered"])
  <2> DEFINE change == [at |-> "entered"]
  <2>1. DOMAIN change \cap Untouched = {} /\ DOMAIN change = {"at"} /\ change["at"] = "entered"
    BY DEF Untouched
  <2>2. Put(c, change) /\ caller[c].at = "sent" /\ ~MustAsk(c) /\ caller[c].did = <<>>
    BY <1>2 DEF Authenticate, ProgramInv, Proper, Outcome
  <2> HIDE DEF change
  <2>3. Outcome(c)'
    BY <2>1, <2>2, PutKeepsProgram DEF Outcome
  <2> QED
    BY <2>1, <2>2, <2>3, Moves
<1> QED
  BY <1>1, <1>2 DEF Authenticate

\* A tenant's context.
LEMMA OpenTenantProper ==
  ASSUME ProgramInv, NEW c \in Callers, OpenTenant(c)
  PROVE  ProgramInv'
<1>1. ASSUME NEW change, Put(c, change), DOMAIN change \subseteq {"at", "holds"}, "at" \in DOMAIN change,
             change["at"] = "admitted"
      PROVE  ProgramInv'
  <2>1. DOMAIN change \cap Untouched = {} /\ "did" \notin DOMAIN change
    BY <1>1 DEF Untouched
  <2>2. caller[c].at = "entered" /\ ~MustAsk(c) /\ caller[c].did = <<>>
    BY DEF OpenTenant, ProgramInv, Proper, Outcome
  <2>3. Outcome(c)'
    BY <1>1, <2>1, <2>2, PutKeepsProgram DEF Outcome
  <2> QED
    BY <1>1, <2>1, <2>2, <2>3, Moves
<1>2. Put(c, [at |-> "admitted"]) \/ Put(c, [at |-> "admitted", holds |-> 1])
  BY DEF OpenTenant
<1> QED
  BY <1>1, <1>2

\* Dispatch is where a request gets its operation: served as asked and confirmed, or refused.
LEMMA DispatchProper ==
  ASSUME ProgramInv, NEW c \in Callers, Dispatch(c)
  PROVE  ProgramInv'
<1> DEFINE op == Served(c)
           refused == [at |-> "answered", answer |-> "failed", holds |-> 0,
                       did |-> IF op \in Refusals THEN op ELSE <<"refused", "CONFIRMATION">>]
           begun == [at |-> "serving", did |-> op]
<1>1. \/ Put(c, refused)
      \/ Put(c, begun) /\ op \notin Refusals /\ ~Unconfirmed(c, op)
  BY DEF Dispatch
<1>2. /\ DOMAIN refused = {"at", "answer", "holds", "did"} /\ refused["at"] = "answered"
      /\ refused["did"] \in {op, <<"refused", "CONFIRMATION">>}
  OBVIOUS
<1>3. DOMAIN begun = {"at", "did"} /\ begun["at"] = "serving" /\ begun["did"] = op
  OBVIOUS
<1>4. caller[c].at = "admitted" /\ ~MustAsk(c)
  BY DEF Dispatch, ProgramInv, Proper
<1> HIDE DEF op, refused, begun
<1>5. DOMAIN refused \cap Untouched = {} /\ DOMAIN begun \cap Untouched = {}
  BY <1>2, <1>3 DEF Untouched
<1>6. CASE Put(c, refused)
  <2>1. ASSUME SameProgram(c) PROVE Outcome(c)'
    <3>1. Served(c)' = op
      BY <2>1, SameProgramSame DEF op
    <3> QED
      BY <1>2, <1>5, <1>6, <3>1, PutKeepsProgram DEF Outcome
  <2> QED
    BY <1>4, <1>5, <1>6, <2>1, Moves
<1>7. CASE Put(c, begun) /\ op \notin Refusals /\ ~Unconfirmed(c, op)
  <2>1. ASSUME SameProgram(c) PROVE Outcome(c)'
    <3>1. Served(c)' = op /\ ~Unconfirmed(c, op)'
      BY <1>7, <2>1, SameProgramSame DEF op
    <3>2. caller'[c].at = "serving" /\ caller'[c].did = op
      BY <1>3, <1>5, <1>7, PutKeepsProgram
    <3>3. ~Unconfirmed(c, caller[c].did)'
      BY <1>7, <2>1, <3>2 DEF Unconfirmed, SameProgram, Current
    <3> QED
      BY <1>7, <3>1, <3>2, <3>3 DEF Outcome
  <2> QED
    BY <1>4, <1>5, <1>7, <2>1, Moves
<1> QED
  BY <1>1, <1>6, <1>7

\* Waiting for connections changes nothing of it.
LEMMA TakeConnectionProper ==
  ASSUME ProgramInv, NEW c \in Callers, TakeConnection(c)
  PROVE  ProgramInv'
<1> DEFINE change == [holds |-> caller[c].holds + 1]
<1>1. Put(c, change) /\ caller[c].at = "serving" /\ ~MustAsk(c)
  BY DEF TakeConnection, ProgramInv, Proper
<1>2. DOMAIN change = {"holds"}
  OBVIOUS
<1> HIDE DEF change
<1>3. DOMAIN change \cap Untouched = {}
  BY <1>2 DEF Untouched
<1>4. ASSUME SameProgram(c) PROVE Outcome(c)'
  <2>1. caller'[c].at = "serving" /\ caller'[c].did = caller[c].did
    BY <1>1, <1>2, <1>3, PutKeepsProgram
  <2>2. caller[c].did = Served(c) /\ caller[c].did \notin Refusals /\ ~Unconfirmed(c, caller[c].did)
    BY <1>1 DEF ProgramInv, Proper, Outcome
  <2>3. ~Unconfirmed(c, caller[c].did)' /\ Served(c)' = Served(c)
    BY <1>4, <2>1, <2>2, SameProgramSame DEF Unconfirmed, SameProgram, Current
  <2> QED
    BY <2>1, <2>2, <2>3 DEF Outcome
<1> QED
  BY <1>1, <1>3, <1>4, Moves

\* Nobody is at work at first.
LEMMA ProgramInitially ==
  ASSUME Init
  PROVE  ProgramInv
<1>1. \A c \in Callers : caller[c] = Idle
  BY DEF Init
<1>2. Idle.at = "idle" /\ Idle.did = <<>>
  BY DEF Idle
<1>3. Shapes
  BY <1>1, IdleIsShaped DEF Init, Shapes
<1> QED
  BY <1>1, <1>2, <1>3 DEF ProgramInv, Proper, Outcome

\* Every step keeps the invariant.
LEMMA ProgramKept ==
  ASSUME ProgramInv, [Next]_vars
  PROVE  ProgramInv'
<1>1. ASSUME NEW c \in Callers, Start(c) PROVE ProgramInv'
  BY <1>1, StartProper
<1>2. ASSUME NEW c \in Callers, Progress(c) PROVE ProgramInv'
  <2>1. CASE Ask(c) \/ Send(c) \/ Continue(c) \/ Retry(c)
    BY <2>1, AskProper, SendProper, ContinueProper, RetryProper
  <2>2. CASE Authenticate(c) \/ OpenTenant(c) \/ Dispatch(c) \/ TakeConnection(c)
    BY <2>2, AuthenticateProper, OpenTenantProper, DispatchProper, TakeConnectionProper
  <2>3. CASE RateLimit(c) \/ Fail(c) \/ Finish(c)
    BY <2>3, AnswerProper DEF RateLimit, Fail, Finish
  <2> QED
    BY <1>2, <2>1, <2>2, <2>3 DEF Progress
<1>3. CASE UNCHANGED vars
  <2>1. caller' = caller
    BY <1>3 DEF vars
  <2>2. ASSUME NEW c \in Callers PROVE Proper(c)'
    <3>1. SameProgram(c) /\ caller'[c].at = caller[c].at /\ caller'[c].did = caller[c].did
      BY <2>1 DEF SameProgram
    <3>2. Proper(c)
      BY DEF ProgramInv
    <3>3. ~Unconfirmed(c, caller[c].did) => ~Unconfirmed(c, caller[c].did)'
      BY <2>1 DEF Unconfirmed, Current
    <3> QED
      BY <3>1, <3>2, <3>3, SameProgramSame DEF Proper, Outcome
  <2> QED
    BY <2>1, <2>2 DEF ProgramInv, Shapes
<1> QED
  BY <1>1, <1>2, <1>3 DEF Next

-----------------------------------------------------------------------------
(* What the invariant of the programs says of their requests. *)

\* The functions that may destroy something.
ChangeFunctions == {"updateField", "deleteField", "apply", "rollback"}

\* Only the schema has such functions.
LEMMA OfferedChanges ==
  ASSUME NEW op \in Offered, op[2] \in ChangeFunctions
  PROVE  op = <<"schema", op[2]>>
<1>1. op \notin EntityOperations
  <2>1. \A s : FunctionsOf(s) \cap ChangeFunctions = {}
    BY DEF FunctionsOf, Crud, Reads, ChangeFunctions
  <2> QED
    BY <2>1 DEF EntityOperations
<1>2. op \notin SystemOperations
  BY DEF SystemOperations, ChangeFunctions
<1> QED
  BY <1>1, <1>2 DEF Offered, SpecialOperations, ChangeFunctions

\* A route to such a function is the schema's.
LEMMA RouteChanges ==
  ASSUME NEW i \in 1 .. 12, NEW r \in RouteTable[i], r.op \notin Refusals, r.op[2] \in ChangeFunctions
  PROVE  r.op = <<"schema", r.op[2]>>
<1> USE DEF ChangeFunctions
<1>1. ASSUME r \in StatusRoutes \cup SearchRoutes \cup ContextRoutes \cup ImportRoutes PROVE FALSE
  BY <1>1 DEF StatusRoutes, SearchRoutes, ContextRoutes, ImportRoutes, Read, Post, Route
<1>2. ASSUME r \in BootstrapRoutes \cup RelationshipRoutes PROVE FALSE
  BY <1>2, UnprovidedRoutes DEF Refusals
<1>3. ASSUME r \in OrganizationRoutes PROVE FALSE
  BY <1>3, OrganizationRoutesServe
<1>4. ASSUME r \in AdminRoutes PROVE FALSE
  BY <1>4 DEF AdminRoutes, Route
<1>5. ASSUME NEW e, NEW w \in BOOLEAN, r \in RecordRoutes(e, w) PROVE FALSE
  BY <1>5 DEF RecordRoutes, Read, Post, Route
<1>6. \A op : Provided(op) \notin Refusals => Provided(op) = op /\ op \in Offered
  BY DEF Provided, Refusals
<1>7. \A op, other : ProvidedOr(op, other) \notin Refusals => ProvidedOr(op, other) \in Offered
  BY DEF Provided, ProvidedOr, Refusals
<1>8. CASE r \in WebhookRoutes
  <2>1. CASE r \in RecordRoutes("webhooks", TRUE)
    BY <1>5, <2>1
  <2>2. CASE r = Read(<<"webhooks", ":id", "deliveries">>, <<"webhook_deliveries", "list">>)
    BY <2>2 DEF Read, Route
  <2>3. CASE r = Post(<<"webhooks", ":id", "redeliver">>, Provided(<<"webhooks", "redeliver">>))
    <3>1. r.op = Provided(<<"webhooks", "redeliver">>)
      BY <2>3 DEF Post, Route
    <3> QED
      BY <1>6, <3>1
  <2> QED
    BY <1>8, <2>1, <2>2, <2>3 DEF WebhookRoutes
<1>9. CASE r \in WorkflowRoutes
  <2>1. \E op, other : r.op \in {Provided(op), ProvidedOr(op, other)}
    BY <1>9 DEF WorkflowRoutes, Read, Post, Route
  <2>2. r.op \in Offered
    BY <1>6, <1>7, <2>1
  <2> QED
    BY <2>2, OfferedChanges
<1>10. CASE r \in ObjectRoutes
  BY <1>10 DEF ObjectRoutes, Route
<1>11. CASE r \in EntityRoutes
  <2>1. CASE \E e \in PublicEntities : r \in RecordRoutes(e, e \in WriteEntities)
    <3>1. PICK e \in PublicEntities : r \in RecordRoutes(e, e \in WriteEntities)
      BY <2>1
    <3>2. (e \in WriteEntities) \in BOOLEAN
      OBVIOUS
    <3> QED
      BY <1>5, <3>1, <3>2
  <2>2. ASSUME NEW e \in PublicEntities, r = Route("POST", <<e, "search">>, {<<e, "read">>}, <<ServiceOf(e), "search">>)
        PROVE  FALSE
    BY <2>2 DEF Route
  <2>3. ASSUME NEW e \in BatchEntities, r = Post(<<e, "batch">>, Provided(<<ServiceOf(e), "batch">>))
        PROVE  FALSE
    <3>1. r.op = Provided(<<ServiceOf(e), "batch">>)
      BY <2>3 DEF Post, Route
    <3> QED
      BY <1>6, <3>1
  <2> QED
    BY <1>11, <2>1, <2>2, <2>3, EntityRoutesAre
<1> QED
  BY <1>1, <1>2, <1>3, <1>4, <1>8, <1>9, <1>10, <1>11, RoutesByGroup

\* The direct transport serves what is offered, or refuses.
LEMMA DirectServesOffered ==
  ASSUME NEW rq
  PROVE  DirectServes(rq) \in Offered \cup {NotFound, NotImplemented}
<1> DEFINE action == Segment(rq.path, 2)
<1>1. DirectSpecial(rq, action) \in Offered \cup {NotFound}
  BY DEF DirectSpecial, Offered, SpecialOperations
<1>2. DirectObjects(rq, action) \in Offered \cup {NotFound}
  <2>1. DirectObjects(rq, action) \in
          {<<"schema", f>> : f \in {"listObjects", "getObject", "addField", "updateField", "deleteField"}} \cup {NotFound}
    BY DEF DirectObjects
  <2> QED
    BY <2>1 DEF Offered, SpecialOperations
<1>3. DirectMigrations(rq) \in Offered \cup {NotFound}
  <2>1. DirectMigrations(rq) \in {<<"schema", f>> : f \in {"preview", "apply", "rollback"}} \cup {NotFound}
    BY DEF DirectMigrations
  <2> QED
    BY <2>1 DEF Offered, SpecialOperations
<1>4. DirectWorkflows(rq, action) \in Offered \cup {NotFound, NotImplemented}
  <2>1. \A op, other : /\ Provided(op) \in Offered \cup {NotImplemented}
                       /\ ProvidedOr(op, other) \in Offered \cup {NotImplemented}
    BY DEF Provided, ProvidedOr
  <2> HIDE DEF action
  <2> QED
    BY <2>1 DEF DirectWorkflows
<1>5. DirectRecords(rq, action) \in Offered \cup {NotFound}
  BY DEF DirectRecords
<1> HIDE DEF action
<1> QED
  BY <1>1, <1>2, <1>3, <1>4, <1>5 DEF DirectServes, action

\* What either transport serves under the name of a change of the schema is one.
LEMMA ServedChanges ==
  ASSUME NEW c, Served(c) \notin Refusals, Served(c)[2] \in ChangeFunctions
  PROVE  Served(c) \in {<<"schema", f>> : f \in ChangeFunctions}
<1>1. CASE caller[c].via = "http"
  <2>1. Served(c) = HttpServes(caller[c].held, Current(c), caller[c].destructive)
    BY <1>1 DEF Served
  <2>2. \E i \in 1 .. 12 : \E r \in RouteTable[i] : Served(c) = r.op
    BY <2>1, HttpServesARoute
  <2> QED
    BY <2>2, RouteChanges
<1>2. CASE caller[c].via # "http"
  <2>1. Served(c) = DirectServes(Current(c))
    BY <1>2 DEF Served
  <2> QED
    BY <2>1, DirectServesOffered, OfferedChanges DEF Refusals
<1> QED
  BY <1>1, <1>2

\* The request of a program at work is one that can arrive.
LEMMA CurrentIsARequest ==
  ASSUME NEW c, Programmed(c)
  PROVE  /\ Current(c) \in Requests /\ 1 \in DOMAIN caller[c].todo
         /\ Current(c) = caller[c].todo[1].rq /\ Head(caller[c].todo) = caller[c].todo[1]
<1>1. caller[c].todo \in Seq(Steps) /\ caller[c].todo # <<>>
  BY DEF Programmed
<1>2. 1 \in DOMAIN caller[c].todo /\ Head(caller[c].todo) = caller[c].todo[1] /\ caller[c].todo[1] \in Steps
  BY <1>1
<1> QED
  BY <1>2 DEF Current, Steps

\* A confirmation that a request carries comes from a user who agreed.
\* The command line confirms a deletion always, and asked beforehand.
LEMMA ConfirmedWasAgreed ==
  ASSUME NEW c, Programmed(c), ~MustAsk(c), caller[c].destructive,
         Confirms(caller[c].surface, Current(c), caller[c].destructive, caller[c].agreed)
  PROVE  caller[c].agreed /\ caller[c].surface # "mcp"
<1>1. CASE caller[c].surface = "cli" /\ Current(c) = DeleteField
  <2>1. caller[c].agreed \/ AsksFirst(caller[c].todo)
    BY <1>1 DEF Programmed
  <2>2. AsksFirst(caller[c].todo) => caller[c].todo[1].ask = "always"
    BY <1>1, CurrentIsARequest DEF AsksFirst
  <2>3. caller[c].agreed
    BY <2>1, <2>2, CurrentIsARequest DEF MustAsk
  <2> QED
    BY <1>1, <2>3
<1>2. CASE ~(caller[c].surface = "cli" /\ Current(c) = DeleteField)
  BY <1>2 DEF Confirms
<1> QED
  BY <1>1, <1>2

\* Hence nothing is destroyed unasked.
LEMMA ProgramsDestroyNothingUnasked ==
  ASSUME ProgramInv
  PROVE  NothingDestroyedUnasked
<1> SUFFICES ASSUME NEW c \in Callers, caller[c].at = "serving", caller[c].destructive,
                    caller[c].did[2] \in ChangeFunctions
             PROVE  caller[c].agreed /\ caller[c].surface # "mcp"
  BY DEF NothingDestroyedUnasked, ChangeFunctions
<1>1. Programmed(c) /\ ~MustAsk(c) /\ caller[c].did = Served(c) /\ Served(c) \notin Refusals
      /\ ~Unconfirmed(c, caller[c].did)
  BY DEF ProgramInv, Proper, Outcome
<1>2. caller[c].did \in {<<"schema", f>> : f \in ChangeFunctions}
  BY <1>1, ServedChanges
<1>3. Confirms(caller[c].surface, Current(c), caller[c].destructive, caller[c].agreed)
  BY <1>1, <1>2 DEF Unconfirmed, ChangeFunctions
<1> QED
  BY <1>1, <1>3, ConfirmedWasAgreed

\* What the server executes is what its table has for the request and the key.
LEMMA ServedOverHttpIs ==
  ASSUME ProgramInv, NEW c \in ServedOverHttp
  PROVE  /\ Current(c) \in Requests
         /\ caller[c].did = HttpServes(caller[c].held, Current(c), caller[c].destructive)
         /\ caller[c].did \notin Refusals
<1>1. c \in Callers /\ caller[c].at = "serving" /\ caller[c].via = "http"
  BY DEF ServedOverHttp
<1>2. Programmed(c) /\ caller[c].did = Served(c) /\ caller[c].did \notin Refusals
  BY <1>1 DEF ProgramInv, Proper, Outcome
<1> QED
  BY <1>1, <1>2, CurrentIsARequest DEF Served

\* Hence the transports agree,
LEMMA ProgramsServedAlike ==
  ASSUME ProgramInv
  PROVE  TransportsAgree
<1> SUFFICES ASSUME NEW c \in ServedOverHttp
             PROVE  \/ DirectServes(Current(c)) \in {caller[c].did} \cup Refusals
                    \/ caller[c].did = <<"webhook_deliveries", "list">>
  BY DEF TransportsAgree
<1> QED
  BY ServedOverHttpIs, TransportsAgreeOn DEF Agrees

\* the scopes cover what is done,
LEMMA ProgramsKeepToScopes ==
  ASSUME ProgramInv
  PROVE  ScopesCoverWhatIsDone
<1>1. ASSUME NEW c \in ServedOverHttp
      PROVE  Covered(caller[c].held, Current(c), caller[c].destructive, caller[c].did)
  BY <1>1, ServedOverHttpIs, KeysCoverWhatIsServed
<1> QED
  BY <1>1 DEF ScopesCoverWhatIsDone, Covered

\* and what is offered is served.
LEMMA ProgramsAreServed ==
  ASSUME ProgramInv
  PROVE  OfferedRequestsAreServed
<1> SUFFICES ASSUME NEW c \in Callers, caller[c].at = "answered", caller[c].did \in {NotFound, NotImplemented}
             PROVE  /\ caller[c].surface \notin {"cli", "seed"}
                    /\ caller[c].via = "http" => ~\E d \in Documented :
                         d.method = Current(c).method /\ Fits(d.path, Current(c).path) /\ caller[c].did = NotFound
  BY DEF OfferedRequestsAreServed
<1>1. Programmed(c) /\ caller[c].did = Served(c)
  <2>1. caller[c].did \in {<<>>, Served(c), <<"refused", "CONFIRMATION">>} /\ Programmed(c)
    BY DEF ProgramInv, Proper, Outcome
  <2>2. caller[c].did # <<>> /\ caller[c].did # <<"refused", "CONFIRMATION">>
    <3>1. Len(caller[c].did) = 2 /\ caller[c].did[2] \in {"RESOURCE_NOT_FOUND", "INTERNAL_ERROR"}
      BY DEF NotFound, NotImplemented
    <3> QED
      BY <3>1
  <2> QED
    BY <2>1, <2>2
<1>2. Current(c) \in Requests
  BY <1>1, CurrentIsARequest
<1>3. caller[c].surface \notin {"cli", "seed"}
  <2> SUFFICES ASSUME caller[c].surface \in {"cli", "seed"} PROVE FALSE
    OBVIOUS
  <2>1. Current(c) \in CliRequests
    BY <1>1, CurrentIsARequest DEF Programmed, Sends
  <2>2. Served(c) \notin Missing
    BY <1>2, <2>1, CliRequestsAreServed DEF Served
  <2> QED
    BY <1>1, <2>2 DEF Missing
<1>4. ASSUME caller[c].via = "http", NEW d \in Documented,
             d.method = Current(c).method, Fits(d.path, Current(c).path), caller[c].did = NotFound
      PROVE  FALSE
  BY <1>1, <1>2, <1>4, DocumentedIsFound DEF Served
<1> QED
  BY <1>3, <1>4

-----------------------------------------------------------------------------
(* The theorems about routes and programs. *)

\* The inductive invariant of the programs.
LEMMA ProgramsProceed == Spec => []ProgramInv
<1>1. Init => ProgramInv
  BY ProgramInitially
<1>2. ProgramInv /\ [Next]_vars => ProgramInv'
  BY ProgramKept
<1> QED
  BY <1>1, <1>2, PTL DEF Spec

\* For every surface and every program that may be started: while an operation that destroys data
\* is executed, its user has agreed, and is no MCP tool; the client's question and the engine's
\* refusal leave no gap between them.
THEOREM NothingIsDestroyedUnasked == Spec => []NothingDestroyedUnasked
<1>1. ProgramInv => NothingDestroyedUnasked
  BY ProgramsDestroyNothingUnasked
<1> QED
  BY <1>1, ProgramsProceed, PTL

\* For every key, whatever scopes it holds, and every request: what the server executes is covered by
\* the key's scopes, on any path.
THEOREM ScopesCover == Spec => []ScopesCoverWhatIsDone
<1>1. ProgramInv => ScopesCoverWhatIsDone
  BY ProgramsKeepToScopes
<1> QED
  BY <1>1, ProgramsProceed, PTL

\* For every request and every key: what the server executes, the direct transport does too, or it
\* refuses; the deliveries of a webhook are the exception.
THEOREM TransportsAgreeAlways == Spec => []TransportsAgree
<1>1. ProgramInv => TransportsAgree
  BY ProgramsServedAlike
<1> QED
  BY <1>1, ProgramsProceed, PTL

\* Whatever a command of the command line or orbit seed sends, and whatever request the server
\* documents, has an operation: no answer says that there is none.
THEOREM OfferedIsServed == Spec => []OfferedRequestsAreServed
<1>1. ProgramInv => OfferedRequestsAreServed
  BY ProgramsAreServed
<1> QED
  BY <1>1, ProgramsProceed, PTL
=============================================================================
