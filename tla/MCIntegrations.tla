--------------------------- MODULE MCIntegrations ---------------------------
(* The three state machines of the integrations share no state: a behaviour is one of them. *)
EXTENDS OAuthTokens, MailPolling, StripeEvents, TLC

VARIABLE world
vars == <<world, oauthVars, mailVars, stripeVars>>

Init ==
  /\ world \in {"oauth", "mail", "stripe"}
  /\ OAuthInit /\ MailInit /\ StripeInit
  /\ world # "oauth" => kind = "memory"
  /\ world # "mail" => unique /\ contacts = [t \in Text |-> 0]
  /\ world # "stripe" => memory = "list"

Next ==
  /\ UNCHANGED world
  /\ \/ world = "oauth" /\ OAuthNext /\ UNCHANGED <<mailVars, stripeVars>>
     \/ world = "mail" /\ MailNext /\ UNCHANGED <<oauthVars, stripeVars>>
     \/ world = "stripe" /\ StripeNext /\ UNCHANGED <<oauthVars, mailVars>>

Spec == Init /\ [][Next]_vars

\* The types of the three.
TypeOK == OAuthTypeOK /\ MailTypeOK /\ StripeTypeOK

Symmetric == Permutations(Callers) \cup Permutations(Deliveries) \cup Permutations(Checkouts)
                \cup Permutations(Events \ Checkouts)

Addresses == {"ann@x", "Ann@X", "bob@x"}
PersonOf == ("ann@x" :> "ann@x") @@ ("Ann@X" :> "ann@x") @@ ("bob@x" :> "bob@x")
Mailboxes == [gmail |-> <<"Ann@X", "bob@x", "ann@x">>,
              calendar |-> <<"ann@x">>]
=============================================================================
