-------------------------- MODULE TransactionScope --------------------------
(***************************************************************************)
(* What OrbitDatabase.transaction promises its callers, whatever the       *)
(* database behind it: a call opens a scope, what is written inside        *)
(* belongs to the scope, a scope whose callback returns hands its writes   *)
(* to the scope around it, or makes them durable when there is none, and a *)
(* scope whose callback throws leaves nothing.  Scopes of different call   *)
(* chains do not touch each other.                                         *)
(***************************************************************************)
EXTENDS Integers, Sequences

CONSTANTS Chain,    \* the asynchronous call chains
          Write     \* the writes they may make, each at most once

VARIABLES durable,  \* the writes that survive a crash
          pending   \* per chain, the writes of its open scopes, outermost first

scopeVars == <<durable, pending>>

Init == /\ durable = {}
        /\ pending = [c \in Chain |-> <<>>]

Depth(c) == Len(pending[c])

Begin(c) == /\ pending' = [pending EXCEPT ![c] = Append(@, {})]
            /\ UNCHANGED durable

Put(c, w) ==
  IF Depth(c) = 0
    THEN durable' = durable \cup {w} /\ UNCHANGED pending
    ELSE /\ pending' = [pending EXCEPT ![c][Depth(c)] = @ \cup {w}]
         /\ UNCHANGED durable

Outer(c) == SubSeq(pending[c], 1, Depth(c) - 1)

Succeed(c) ==
  LET written == pending[c][Depth(c)] IN
  /\ Depth(c) > 0
  /\ IF Depth(c) = 1
       THEN /\ durable' = durable \cup written
            /\ pending' = [pending EXCEPT ![c] = <<>>]
       ELSE /\ pending' = [pending EXCEPT ![c] =
                             [Outer(c) EXCEPT ![Depth(c) - 1] = @ \cup written]]
            /\ UNCHANGED durable

Fail(c) == /\ Depth(c) > 0
           /\ pending' = [pending EXCEPT ![c] = Outer(c)]
           /\ UNCHANGED durable

Crash == pending' = [c \in Chain |-> <<>>] /\ UNCHANGED durable

Next == \/ \E c \in Chain : Begin(c) \/ Succeed(c) \/ Fail(c)
        \/ \E c \in Chain, w \in Write : Put(c, w)
        \/ Crash

Spec == Init /\ [][Next]_scopeVars
=============================================================================
