-------------------------- MODULE MCHttpMutations --------------------------
(* Small instances of HttpMutations. *)
EXTENDS HttpMutations, TLC

CONSTANTS alice, bob, acme, globex, key1, one, other

Owner == (alice :> acme) @@ (bob :> globex)
Ask(k, i, b) == [apiKey |-> k, idemKey |-> i, body |-> b]

(* One key with two bodies, and the same key in another organization.      *)
ThreeInputs == {Ask(alice, key1, one), Ask(alice, key1, other), Ask(bob, key1, one)}
OneInput == {Ask(alice, key1, one)}

(* All three requests may meet on the connection before the clock ticks; of  *)
(* behaviours in which it ticks, those where at most two of them do.         *)
FewMeet == now = 0 \/ Cardinality(Opened \cup mixed) <= 2

Symmetry == Permutations(Request)
=============================================================================
