---------------------------- MODULE OAuthTokens ----------------------------
(***************************************************************************)
(* The credentials of one provider in one organization: consent, refresh   *)
(* and revocation (integrations/src/oauth.ts) over the two credential      *)
(* stores (credentials.ts), by calls that overlap, with a provider that    *)
(* may refuse or not answer.                                               *)
(***************************************************************************)
EXTENDS Integers, FiniteSets

CONSTANTS Callers,     \* calls in progress
          MaxTokens,   \* the bound of refresh tokens that the provider issues
          MaxAgings,   \* the bound of expiries
          DisableAt    \* the failures in a row that disable a connection

ASSUME OAuthBounds == MaxTokens \in Nat /\ MaxAgings \in Nat /\ DisableAt \in Nat \ {0}

VARIABLES
  kind,       \* the store: "memory" or "table"
  cred,       \* the credentials of each slot
  live,       \* the refresh tokens that the provider accepts
  issued,     \* how many it has issued
  tracker,    \* the connection's status and failures in a row
  streak,     \* the failures since the last success that was told to a caller
  epoch,      \* how often the credentials of each slot were deleted
  call, agings

oauthVars == <<kind, cred, live, issued, tracker, streak, epoch, call, agings>>

Nobody == "nobody"          \* no userId was given
Default == "__default__"
Users == {"ann", Default}
NoCredentials == [token |-> 0, stale |-> FALSE]
Slots == Users \cup {"null"}

\* The slot that a lookup or a deletion means.
SlotOf(user) ==
  IF user # Nobody THEN user ELSE IF kind = "memory" THEN Default ELSE "null"

\* userId ?? '__default__', wrongly for every user.
SaveSlotShared(user) == Default

\* The slot that a refresh saves to.
SaveSlot(user) == IF user = Nobody THEN Default ELSE user

Idle == [pc |-> "idle", user |-> Nobody, read |-> NoCredentials, epoch |-> 0]

-----------------------------------------------------------------------------
(* The tracker: active, error from the first failure, disabled from the    *)
(* fifth in a row.                                                         *)

\* A success that leaves the count.
AfterSuccessUncounted(t) == [t EXCEPT !.status = "active"]

AfterSuccess(t) == [status |-> "active", failures |-> 0]

AfterFailure(t) ==
  LET n == t.failures + 1
  IN  [status |-> IF n >= DisableAt THEN "disabled" ELSE "error",
       failures |-> IF n > DisableAt THEN DisableAt ELSE n]

Failed(c) ==
  /\ tracker' = AfterFailure(tracker)
  /\ streak' = IF streak < DisableAt THEN streak + 1 ELSE streak
  /\ call' = [call EXCEPT ![c] = Idle]

-----------------------------------------------------------------------------
(* Actions, each up to the next await.                                     *)

OAuthInit ==
  /\ kind \in {"memory", "table"}
  /\ cred = [s \in Slots |-> NoCredentials]
  /\ live = {} /\ issued = 0 /\ streak = 0 /\ agings = 0
  /\ tracker = [status |-> "active", failures |-> 0]
  /\ epoch = [s \in Slots |-> 0]
  /\ call = [c \in Callers |-> Idle]

\* exchangeCode: the provider answers with a refresh token.
Exchange(c) ==
  /\ call[c].pc = "idle" /\ issued < MaxTokens
  /\ \E user \in Users :
       call' = [call EXCEPT ![c] = [pc |-> "exchanged", user |-> user, epoch |-> 0,
                                    read |-> [token |-> issued + 1, stale |-> FALSE]]]
  /\ issued' = issued + 1 /\ live' = live \cup {issued + 1}
  /\ UNCHANGED <<kind, cred, tracker, streak, epoch, agings>>

\* ... and it is saved.
SaveConsent(c) ==
  /\ call[c].pc = "exchanged"
  /\ cred' = [cred EXCEPT ![call[c].user] = call[c].read]
  /\ call' = [call EXCEPT ![c] = Idle]
  /\ UNCHANGED <<kind, live, issued, tracker, streak, epoch, agings>>

\* getValidAccessToken: a token that is missing or still good is answered at
\* once; one that expires within the margin is refreshed.
Get(c) ==
  /\ call[c].pc = "idle"
  /\ \E user \in Users \cup {Nobody} :
       /\ cred[SlotOf(user)] # NoCredentials
       /\ cred[SlotOf(user)].stale
       /\ call' = [call EXCEPT ![c] = [pc |-> "refreshing", user |-> user,
                                       read |-> cred[SlotOf(user)],
                                       epoch |-> epoch[SlotOf(user)]]]
  /\ UNCHANGED <<kind, cred, live, issued, tracker, streak, epoch, agings>>

\* refreshAccessToken is answered, or fails: the token is not live or the
\* provider cannot be reached.
Refresh(c) ==
  /\ call[c].pc = "refreshing"
  /\ \/ /\ call[c].read.token \in live
        /\ call' = [call EXCEPT ![c].pc = "refreshed", ![c].read.stale = FALSE]
        /\ UNCHANGED <<tracker, streak>>
     \/ Failed(c)
  /\ UNCHANGED <<kind, cred, live, issued, epoch, agings>>

\* The access token is saved with the refresh token that was read before.
SaveRefreshed(c) ==
  /\ call[c].pc = "refreshed"
  /\ \/ /\ cred' = [cred EXCEPT ![SaveSlot(call[c].user)] = call[c].read]
        /\ call' = [call EXCEPT ![c].pc = "saved"]
        /\ UNCHANGED <<tracker, streak>>
     \/ kind = "table" /\ Failed(c) /\ UNCHANGED cred
  /\ UNCHANGED <<kind, live, issued, epoch, agings>>

RecordSuccess(c) ==
  /\ call[c].pc = "saved"
  /\ tracker' = AfterSuccess(tracker) /\ streak' = 0
  /\ call' = [call EXCEPT ![c] = Idle]
  /\ UNCHANGED <<kind, cred, live, issued, epoch, agings>>

\* revokeToken: what is stored is read; where nothing is, the provider is not asked, ...
Revoke(c) ==
  /\ call[c].pc = "idle"
  /\ \E user \in Users \cup {Nobody} :
       call' = [call EXCEPT ![c] = [pc |-> IF cred[SlotOf(user)] = NoCredentials
                                             THEN "deleting" ELSE "revoking",
                                    user |-> user, epoch |-> 0,
                                    read |-> cred[SlotOf(user)]]]
  /\ UNCHANGED <<kind, cred, live, issued, tracker, streak, epoch, agings>>

\* ... revoked at the provider, which may fail, ...
RevokeAtProvider(c) ==
  /\ call[c].pc = "revoking"
  /\ live' \in {live, live \ {call[c].read.token}}
  /\ call' = [call EXCEPT ![c].pc = "deleting"]
  /\ UNCHANGED <<kind, cred, issued, tracker, streak, epoch, agings>>

\* ... and deleted in either case.
DeleteCredentials(c) ==
  /\ call[c].pc = "deleting"
  /\ \E s \in {SlotOf(call[c].user)} :
       /\ cred' = [cred EXCEPT ![s] = NoCredentials]
       /\ epoch' = [epoch EXCEPT ![s] = IF cred[s] = NoCredentials THEN @ ELSE @ + 1]
  /\ call' = [call EXCEPT ![c] = Idle]
  /\ UNCHANGED <<kind, live, issued, tracker, streak, agings>>

\* Time brings an access token within its margin.
Age ==
  /\ agings < MaxAgings
  /\ \E s \in Slots : /\ cred[s] # NoCredentials /\ ~cred[s].stale
                      /\ cred' = [cred EXCEPT ![s].stale = TRUE]
  /\ agings' = agings + 1
  /\ UNCHANGED <<kind, live, issued, tracker, streak, epoch, call>>

OAuthNext ==
  \/ \E c \in Callers :
       \/ Exchange(c) \/ SaveConsent(c) \/ Get(c) \/ Refresh(c) \/ SaveRefreshed(c)
       \/ RecordSuccess(c) \/ Revoke(c) \/ RevokeAtProvider(c) \/ DeleteCredentials(c)
  \/ Age

OAuthSpec == OAuthInit /\ [][OAuthNext]_oauthVars

-----------------------------------------------------------------------------
(* Properties.                                                             *)

OAuthTypeOK ==
  /\ \A s \in Slots : cred[s].token \in 0 .. issued
  /\ live \subseteq 1 .. issued
  /\ cred["null"] = NoCredentials
  /\ tracker.status \in {"active", "error", "disabled"}

\* Credentials appear in a slot that has none only by a new consent, or by a
\* refresh that had already read them when they were deleted; they never move
\* from one user's slot to another's.
ReturnsOnlyByConsent ==
  [][\A s \in Slots : cred[s] = NoCredentials /\ cred'[s] # NoCredentials =>
       \E c \in Callers :
         \/ call[c].pc = "exchanged" /\ call[c].user = s
         \/ call[c].pc = "refreshed" /\ SlotOf(call[c].user) = s
              /\ call[c].epoch < epoch[s]]_oauthVars

\* "Increments failureCount on errors, resets on success, disables at 5
\* consecutive failures", whatever the order in which overlapping calls end.
DisabledIsEarned == (tracker.status = "disabled") <=> (streak = DisableAt)
=============================================================================
