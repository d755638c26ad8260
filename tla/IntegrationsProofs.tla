-------------------------- MODULE IntegrationsProofs -------------------------
(* Theorems of OAuthTokens, StripeEvents and MailPolling, which share no   *)
(* state.                                                                  *)
EXTENDS OAuthTokens, StripeEvents, MailPolling, NaturalExtremes

-----------------------------------------------------------------------------
(* OAuthTokens, for every number of callers, tokens, expiries and failures *)
(* that disable a connection.                                              *)

USE OAuthBounds DEF Users, Slots, Nobody, Default

Steps == {"idle", "exchanged", "refreshing", "refreshed", "saved", "revoking", "deleting"}
Credentials == [token: Nat, stale: BOOLEAN]
CallType == [pc: Steps, user: Users \cup {Nobody}, read: Credentials, epoch: Nat]
Stati == {"active", "error", "disabled"}

OAuthTypeInv ==
  /\ kind \in {"memory", "table"}
  /\ cred \in [Slots -> Credentials]
  /\ issued \in Nat
  /\ tracker \in [status: Stati, failures: Nat]
  /\ streak \in 0 .. DisableAt
  /\ epoch \in [Slots -> Nat]
  /\ call \in [Callers -> CallType]

(* The tracker counts the failures since the last success, up to the one   *)
(* that disables the connection, and its status says which.                *)
Counted ==
  /\ tracker.failures = streak
  /\ tracker.status = IF streak = 0 THEN "active"
                      ELSE IF streak = DisableAt THEN "disabled" ELSE "error"

(* Credentials have a token; no user's are kept in the slot of no user.    *)
Stored ==
  /\ cred["null"] = NoCredentials
  /\ \A s \in Slots : cred[s] = NoCredentials \/ cred[s].token # 0

(* What a call carries to be saved are credentials; one that refreshes     *)
(* read them from the slot it will save to, and that slot has some still   *)
(* unless they were deleted meanwhile.                                     *)
Carries(c) ==
  /\ call[c].pc \in {"exchanged", "refreshing", "refreshed"} => call[c].read.token # 0
  /\ call[c].pc = "exchanged" => call[c].user \in Users
  /\ call[c].pc \in {"refreshing", "refreshed"} =>
       /\ SaveSlot(call[c].user) = SlotOf(call[c].user)
       /\ call[c].epoch <= epoch[SlotOf(call[c].user)]
       /\ call[c].epoch = epoch[SlotOf(call[c].user)]
            => cred[SlotOf(call[c].user)] # NoCredentials

OAuthInv == OAuthTypeInv /\ Counted /\ Stored /\ \A c \in Callers : Carries(c)

LEMMA SlotTyped == ASSUME OAuthTypeInv, NEW c \in Callers
                   PROVE  SlotOf(call[c].user) \in Slots /\ SaveSlot(call[c].user) \in Users
BY DEF SlotOf, SaveSlot, OAuthTypeInv, CallType

(* A deletion, and nothing else, takes credentials from under a call.      *)
LEMMA OthersCarry ==
  ASSUME OAuthTypeInv, NEW c \in Callers, Carries(c), call'[c] = call[c], kind' = kind,
         \A s \in Slots : \/ epoch'[s] = epoch[s] /\ (cred'[s] = NoCredentials => cred[s] = NoCredentials)
                          \/ epoch'[s] = epoch[s] + 1
  PROVE  Carries(c)'
<1>1. SlotOf(call[c].user)' = SlotOf(call[c].user) /\ SlotOf(call[c].user) \in Slots
  BY SlotTyped DEF SlotOf
<1>2. SaveSlot(call[c].user)' = SaveSlot(call[c].user)
  BY DEF SaveSlot
<1>3. call[c].epoch \in Nat /\ epoch[SlotOf(call[c].user)] \in Nat
  BY <1>1 DEF OAuthTypeInv, CallType
<1> QED
  BY <1>1, <1>2, <1>3 DEF Carries

(* A step that saves and deletes nothing.                                  *)
LEMMA CarryFrame ==
  ASSUME OAuthTypeInv, Stored, \A d \in Callers : Carries(d), NEW c \in Callers,
         kind' = kind, cred' = cred, epoch' = epoch, call' = [call EXCEPT ![c] = call'[c]],
         call'[c] \in CallType, Carries(c)'
  PROVE  Stored' /\ (\A d \in Callers : Carries(d)') /\ call' \in [Callers -> CallType]
<1>1. ASSUME NEW d \in Callers, d # c PROVE Carries(d)'
  <2>1. call'[d] = call[d]
    BY <1>1 DEF OAuthTypeInv
  <2> QED
    BY <2>1, OthersCarry
<1> QED
  BY <1>1 DEF Stored, OAuthTypeInv

LEMMA FailedCounts ==
  ASSUME OAuthTypeInv, Counted, tracker' = AfterFailure(tracker),
         streak' = IF streak < DisableAt THEN streak + 1 ELSE streak
  PROVE  tracker' \in [status: Stati, failures: Nat] /\ streak' \in 0 .. DisableAt /\ Counted'
BY DEF OAuthTypeInv, Counted, AfterFailure, Stati

LEMMA NoToken == NoCredentials \in Credentials /\ NoCredentials.token = 0
BY DEF NoCredentials, Credentials

(* A slot is written credentials, or emptied.                              *)
LEMMA SlotWritten ==
  ASSUME OAuthTypeInv, Stored, NEW s \in Slots, NEW r \in Credentials,
         cred' = [cred EXCEPT ![s] = r], r = NoCredentials \/ (r.token # 0 /\ s # "null")
  PROVE  /\ cred' \in [Slots -> Credentials] /\ Stored'
         /\ cred'[s] = r /\ \A t \in Slots : t # s => cred'[t] = cred[t]
BY DEF OAuthTypeInv, Stored

LEMMA OAuthInitially == OAuthInit => OAuthInv
BY DEF OAuthInit, OAuthInv, OAuthTypeInv, CallType, Stati, Counted, Stored, Carries, NoCredentials,
   Credentials, Idle, Steps

LEMMA OAuthStep == OAuthInv /\ [OAuthNext]_oauthVars => OAuthInv'
<1> SUFFICES ASSUME OAuthInv, [OAuthNext]_oauthVars PROVE OAuthInv'
  OBVIOUS
<1>0. OAuthTypeInv /\ Counted /\ Stored /\ (\A c \in Callers : Carries(c))
  BY DEF OAuthInv
<1>i. Idle \in CallType
  BY DEF Idle, CallType, Steps, Credentials, NoCredentials
<1>1. ASSUME NEW c \in Callers, Exchange(c) PROVE OAuthInv'
  <2>1. PICK user \in Users :
          call' = [call EXCEPT ![c] = [pc |-> "exchanged", user |-> user, epoch |-> 0,
                                       read |-> [token |-> issued + 1, stale |-> FALSE]]]
    BY <1>1 DEF Exchange
  <2>2. /\ call'[c] = [pc |-> "exchanged", user |-> user, epoch |-> 0,
                       read |-> [token |-> issued + 1, stale |-> FALSE]]
        /\ call' = [call EXCEPT ![c] = call'[c]]
    BY <1>0, <2>1 DEF OAuthTypeInv
  <2>3. call'[c] \in CallType /\ Carries(c)'
    BY <1>0, <2>2 DEF OAuthTypeInv, CallType, Steps, Credentials, Carries
  <2>4. Stored' /\ (\A d \in Callers : Carries(d)') /\ call' \in [Callers -> CallType]
    BY <1>0, <1>1, <2>2, <2>3, CarryFrame DEF Exchange
  <2> QED
    BY <1>0, <1>1, <2>4 DEF Exchange, OAuthInv, OAuthTypeInv, Counted
<1>2. ASSUME NEW c \in Callers, SaveConsent(c) PROVE OAuthInv'
  <2>1. /\ call[c] \in CallType /\ call[c].user \in Users /\ call[c].user # "null"
        /\ call[c].read \in Credentials /\ call[c].read.token # 0
    BY <1>0, <1>2 DEF SaveConsent, OAuthTypeInv, CallType, Carries
  <2>2. /\ cred' \in [Slots -> Credentials] /\ Stored'
        /\ \A s \in Slots : cred'[s] = NoCredentials => cred[s] = NoCredentials
    BY <1>0, <1>2, <2>1, SlotWritten, NoToken DEF SaveConsent
  <2>3. call'[c] = Idle /\ call' \in [Callers -> CallType]
        /\ \A d \in Callers : d # c => call'[d] = call[d]
    BY <1>0, <1>2, <1>i DEF SaveConsent, OAuthTypeInv
  <2>4. \A d \in Callers : d # c => Carries(d)'
    BY <1>0, <1>2, <2>2, <2>3, OthersCarry DEF SaveConsent
  <2>5. Carries(c)'
    BY <2>3 DEF Carries, Idle
  <2> QED
    BY <1>0, <1>2, <2>2, <2>3, <2>4, <2>5 DEF SaveConsent, OAuthInv, OAuthTypeInv, Counted
<1>3. ASSUME NEW c \in Callers, Get(c) PROVE OAuthInv'
  <2>1. PICK user \in Users \cup {Nobody} :
          /\ cred[SlotOf(user)] # NoCredentials
          /\ call' = [call EXCEPT ![c] = [pc |-> "refreshing", user |-> user,
                                          read |-> cred[SlotOf(user)],
                                          epoch |-> epoch[SlotOf(user)]]]
    BY <1>3 DEF Get
  <2>2. SlotOf(user) \in Slots /\ SlotOf(user)' = SlotOf(user) /\ SaveSlot(user) = SlotOf(user)
    BY <1>0, <1>3, <2>1 DEF SlotOf, SaveSlot, Stored, OAuthTypeInv, Get
  <2>3. /\ call'[c] = [pc |-> "refreshing", user |-> user, read |-> cred[SlotOf(user)],
                       epoch |-> epoch[SlotOf(user)]]
        /\ call' = [call EXCEPT ![c] = call'[c]]
    BY <1>0, <2>1 DEF OAuthTypeInv
  <2>4. call'[c] \in CallType
    BY <1>0, <2>2, <2>3 DEF OAuthTypeInv, CallType, Steps
  <2>5. Carries(c)'
    <3>1. call'[c].user = user /\ call'[c].read.token # 0 /\ call'[c].epoch = epoch[SlotOf(user)]
      BY <1>0, <2>1, <2>2, <2>3 DEF Stored
    <3>2. SlotOf(call[c].user)' = SlotOf(user) /\ SaveSlot(call[c].user)' = SlotOf(user)
      BY <1>3, <2>2, <3>1 DEF SlotOf, SaveSlot, Get
    <3>3. epoch'[SlotOf(user)] = call'[c].epoch /\ call'[c].epoch \in Nat
          /\ cred'[SlotOf(user)] # NoCredentials
      BY <1>0, <1>3, <2>1, <2>2, <3>1 DEF Get, OAuthTypeInv
    <3> QED
      BY <2>3, <3>1, <3>2, <3>3 DEF Carries
  <2>6. Stored' /\ (\A d \in Callers : Carries(d)') /\ call' \in [Callers -> CallType]
    BY <1>0, <1>3, <2>3, <2>4, <2>5, CarryFrame DEF Get
  <2> QED
    BY <1>0, <1>3, <2>6 DEF Get, OAuthInv, OAuthTypeInv, Counted
<1>4. ASSUME NEW c \in Callers, Refresh(c) PROVE OAuthInv'
  <2>1. CASE call' = [call EXCEPT ![c].pc = "refreshed", ![c].read.stale = FALSE]
             /\ UNCHANGED <<tracker, streak>>
    <3>1. /\ call'[c].pc = "refreshed" /\ call'[c].user = call[c].user
          /\ call'[c].epoch = call[c].epoch /\ call'[c].read.token = call[c].read.token
          /\ call'[c] \in CallType /\ call' = [call EXCEPT ![c] = call'[c]]
      <4>1. call[c] \in CallType
        BY <1>0 DEF OAuthTypeInv
      <4>2. call'[c] = [[call[c] EXCEPT !.pc = "refreshed"] EXCEPT !.read.stale = FALSE]
        BY <1>0, <2>1 DEF OAuthTypeInv
      <4>3. call' = [call EXCEPT ![c] = call'[c]]
        BY <1>0, <2>1, ZenonT(40) DEF OAuthTypeInv
      <4>4. \A k \in CallType :
              LET r == [[k EXCEPT !.pc = "refreshed"] EXCEPT !.read.stale = FALSE] IN
                /\ r.pc = "refreshed" /\ r.user = k.user /\ r.epoch = k.epoch
                /\ r.read.token = k.read.token /\ r \in CallType
        BY DEF CallType, Steps, Credentials
      <4> QED
        BY <4>1, <4>2, <4>3, <4>4
    <3>2. Carries(c)'
      BY <1>0, <1>4, <3>1 DEF Refresh, Carries, SlotOf, SaveSlot
    <3>3. Stored' /\ (\A d \in Callers : Carries(d)') /\ call' \in [Callers -> CallType]
      BY <1>0, <1>4, <3>1, <3>2, CarryFrame DEF Refresh
    <3> QED
      BY <1>0, <1>4, <2>1, <3>3 DEF Refresh, OAuthInv, OAuthTypeInv, Counted
  <2>2. CASE Failed(c)
    <3>1. /\ tracker' \in [status: Stati, failures: Nat] /\ streak' \in 0 .. DisableAt /\ Counted'
      BY <1>0, <2>2, FailedCounts DEF Failed
    <3>2. call'[c] = Idle /\ call' = [call EXCEPT ![c] = call'[c]]
      BY <1>0, <2>2 DEF Failed, OAuthTypeInv
    <3>3. Carries(c)'
      BY <3>2 DEF Carries, Idle
    <3>4. Stored' /\ (\A d \in Callers : Carries(d)') /\ call' \in [Callers -> CallType]
      BY <1>0, <1>4, <1>i, <3>2, <3>3, CarryFrame DEF Refresh
    <3> QED
      BY <1>0, <1>4, <3>1, <3>4 DEF Refresh, OAuthInv, OAuthTypeInv
  <2> QED
    BY <1>4, <2>1, <2>2 DEF Refresh
<1>5. ASSUME NEW c \in Callers, SaveRefreshed(c) PROVE OAuthInv'
  <2>1. CASE /\ cred' = [cred EXCEPT ![SaveSlot(call[c].user)] = call[c].read]
             /\ call' = [call EXCEPT ![c].pc = "saved"]
             /\ UNCHANGED <<tracker, streak>>
    <3>1. /\ SaveSlot(call[c].user) \in Users /\ SaveSlot(call[c].user) # "null"
          /\ call[c].read \in Credentials /\ call[c].read.token # 0
      BY <1>0, <1>5, SlotTyped DEF SaveRefreshed, OAuthTypeInv, CallType, Carries
    <3>2. /\ cred' \in [Slots -> Credentials] /\ Stored'
          /\ \A s \in Slots : cred'[s] = NoCredentials => cred[s] = NoCredentials
      BY <1>0, <2>1, <3>1, SlotWritten, NoToken
    <3>3. call'[c].pc = "saved" /\ call' \in [Callers -> CallType]
          /\ \A d \in Callers : d # c => call'[d] = call[d]
      BY <1>0, <2>1 DEF OAuthTypeInv, CallType, Steps
    <3>4. \A d \in Callers : d # c => Carries(d)'
      BY <1>0, <1>5, <3>2, <3>3, OthersCarry DEF SaveRefreshed
    <3>5. Carries(c)'
      BY <3>3 DEF Carries
    <3> QED
      BY <1>0, <1>5, <2>1, <3>2, <3>3, <3>4, <3>5 DEF SaveRefreshed, OAuthInv, OAuthTypeInv, Counted
  <2>2. CASE Failed(c) /\ UNCHANGED cred
    <3>1. /\ tracker' \in [status: Stati, failures: Nat] /\ streak' \in 0 .. DisableAt /\ Counted'
      BY <1>0, <2>2, FailedCounts DEF Failed
    <3>2. call'[c] = Idle /\ call' = [call EXCEPT ![c] = call'[c]]
      BY <1>0, <2>2 DEF Failed, OAuthTypeInv
    <3>3. Carries(c)'
      BY <3>2 DEF Carries, Idle
    <3>4. Stored' /\ (\A d \in Callers : Carries(d)') /\ call' \in [Callers -> CallType]
      BY <1>0, <1>5, <1>i, <2>2, <3>2, <3>3, CarryFrame DEF SaveRefreshed
    <3> QED
      BY <1>0, <1>5, <2>2, <3>1, <3>4 DEF SaveRefreshed, OAuthInv, OAuthTypeInv
  <2> QED
    BY <1>5, <2>1, <2>2 DEF SaveRefreshed
<1>6. ASSUME NEW c \in Callers, RecordSuccess(c) PROVE OAuthInv'
  <2>1. call'[c] = Idle /\ call' = [call EXCEPT ![c] = call'[c]]
    BY <1>0, <1>6 DEF RecordSuccess, OAuthTypeInv
  <2>2. Carries(c)'
    BY <2>1 DEF Carries, Idle
  <2>3. Stored' /\ (\A d \in Callers : Carries(d)') /\ call' \in [Callers -> CallType]
    BY <1>0, <1>6, <1>i, <2>1, <2>2, CarryFrame DEF RecordSuccess
  <2> QED
    BY <1>0, <1>6, <2>3 DEF RecordSuccess, AfterSuccess, OAuthInv, OAuthTypeInv, Counted, Stati
<1>7. ASSUME NEW c \in Callers, Revoke(c) PROVE OAuthInv'
  <2>1. PICK user \in Users \cup {Nobody} :
          call' = [call EXCEPT ![c] = [pc |-> IF cred[SlotOf(user)] = NoCredentials
                                                THEN "deleting" ELSE "revoking",
                                       user |-> user, epoch |-> 0,
                                       read |-> cred[SlotOf(user)]]]
    BY <1>7 DEF Revoke
  <2>2. /\ call'[c] \in CallType /\ call'[c].pc \in {"deleting", "revoking"}
        /\ call' = [call EXCEPT ![c] = call'[c]]
    BY <1>0, <2>1 DEF OAuthTypeInv, CallType, Steps, SlotOf
  <2>3. Carries(c)'
    BY <2>2 DEF Carries
  <2>4. Stored' /\ (\A d \in Callers : Carries(d)') /\ call' \in [Callers -> CallType]
    BY <1>0, <1>7, <2>2, <2>3, CarryFrame DEF Revoke
  <2> QED
    BY <1>0, <1>7, <2>4 DEF Revoke, OAuthInv, OAuthTypeInv, Counted
<1>8. ASSUME NEW c \in Callers, RevokeAtProvider(c) PROVE OAuthInv'
  <2>1. call'[c] \in CallType /\ call'[c].pc = "deleting" /\ call' = [call EXCEPT ![c] = call'[c]]
    BY <1>0, <1>8 DEF RevokeAtProvider, OAuthTypeInv, CallType, Steps
  <2>2. Carries(c)'
    BY <2>1 DEF Carries
  <2>3. Stored' /\ (\A d \in Callers : Carries(d)') /\ call' \in [Callers -> CallType]
    BY <1>0, <1>8, <2>1, <2>2, CarryFrame DEF RevokeAtProvider
  <2> QED
    BY <1>0, <1>8, <2>3 DEF RevokeAtProvider, OAuthInv, OAuthTypeInv, Counted
<1>9. ASSUME NEW c \in Callers, DeleteCredentials(c) PROVE OAuthInv'
  <2>1. PICK s \in Slots : /\ cred' = [cred EXCEPT ![s] = NoCredentials]
                           /\ epoch' = [epoch EXCEPT ![s] =
                                            IF cred[s] = NoCredentials THEN @ ELSE @ + 1]
    BY <1>0, <1>9, SlotTyped DEF DeleteCredentials
  <2>2. /\ cred' \in [Slots -> Credentials] /\ Stored' /\ epoch' \in [Slots -> Nat]
        /\ \A t \in Slots : \/ epoch'[t] = epoch[t] /\ (cred'[t] = NoCredentials => cred[t] = NoCredentials)
                            \/ epoch'[t] = epoch[t] + 1
    <3>1. cred' \in [Slots -> Credentials] /\ Stored' /\ \A t \in Slots : t # s => cred'[t] = cred[t]
      BY <1>0, <2>1, SlotWritten, NoToken
    <3>2. epoch' \in [Slots -> Nat]
          /\ \/ epoch'[s] = epoch[s] /\ cred[s] = NoCredentials
             \/ epoch'[s] = epoch[s] + 1
          /\ \A t \in Slots : t # s => epoch'[t] = epoch[t]
      BY <1>0, <2>1 DEF OAuthTypeInv
    <3> QED
      BY <3>1, <3>2
  <2>3. call'[c] = Idle /\ call' \in [Callers -> CallType]
        /\ \A d \in Callers : d # c => call'[d] = call[d]
    BY <1>0, <1>9, <1>i DEF DeleteCredentials, OAuthTypeInv
  <2>4. \A d \in Callers : d # c => Carries(d)'
    BY <1>0, <1>9, <2>2, <2>3, OthersCarry DEF DeleteCredentials
  <2>5. Carries(c)'
    BY <2>3 DEF Carries, Idle
  <2> QED
    BY <1>0, <1>9, <2>2, <2>3, <2>4, <2>5 DEF DeleteCredentials, OAuthInv, OAuthTypeInv, Counted
<1>10. CASE Age
  <2>1. PICK s \in Slots : cred[s] # NoCredentials /\ cred' = [cred EXCEPT ![s].stale = TRUE]
    BY <1>10 DEF Age
  <2>2. cred' \in [Slots -> Credentials] /\ cred'[s].token = cred[s].token
        /\ \A t \in Slots : t # s => cred'[t] = cred[t]
    BY <1>0, <2>1 DEF OAuthTypeInv, Credentials
  <2>3. Stored' /\ \A t \in Slots : cred'[t] = NoCredentials => cred[t] = NoCredentials
    BY <1>0, <2>1, <2>2 DEF Stored, NoCredentials
  <2>4. \A d \in Callers : Carries(d)'
    BY <1>0, <1>10, <2>3, OthersCarry DEF Age
  <2> QED
    BY <1>0, <1>10, <2>2, <2>3, <2>4 DEF Age, OAuthInv, OAuthTypeInv, Counted
<1>11. CASE UNCHANGED oauthVars
  BY <1>0, <1>11 DEF oauthVars, OAuthInv, OAuthTypeInv, Counted, Stored, Carries, SlotOf, SaveSlot
<1> QED
  BY <1>1, <1>2, <1>3, <1>4, <1>5, <1>6, <1>7, <1>8, <1>9, <1>10, <1>11 DEF OAuthNext

LEMMA OAuthAlways == OAuthSpec => []OAuthInv
BY OAuthInitially, OAuthStep, PTL DEF OAuthSpec

(* A connection is disabled by that many failures in a row and nothing     *)
(* else, and comes back with the first success, for every number of calls  *)
(* whose failures and successes overlap.                                   *)
THEOREM DisablingIsEarned == OAuthSpec => []DisabledIsEarned
<1>1. OAuthInv => DisabledIsEarned
  BY DEF OAuthInv, OAuthTypeInv, Counted, DisabledIsEarned
<1> QED
  BY <1>1, OAuthAlways, PTL

(* Deleted credentials come back only by a new consent, or by a refresh    *)
(* that had read them before the deletion, and only to the slot they had.  *)
THEOREM DeletedStaysDeleted == OAuthSpec => ReturnsOnlyByConsent
<1> DEFINE Earned == \A s \in Slots : cred[s] = NoCredentials /\ cred'[s] # NoCredentials =>
                       \E c \in Callers :
                         \/ call[c].pc = "exchanged" /\ call[c].user = s
                         \/ call[c].pc = "refreshed" /\ SlotOf(call[c].user) = s
                              /\ call[c].epoch < epoch[s]
<1>1. ASSUME OAuthInv, [OAuthNext]_oauthVars PROVE Earned
  <2>0. OAuthTypeInv /\ (\A c \in Callers : Carries(c))
    BY <1>1 DEF OAuthInv
  <2>1. ASSUME NEW c \in Callers, SaveConsent(c) PROVE Earned
    BY <2>0, <2>1 DEF SaveConsent, OAuthTypeInv
  <2>2. ASSUME NEW c \in Callers, SaveRefreshed(c) PROVE Earned
    <3> SUFFICES ASSUME NEW s \in Slots, cred[s] = NoCredentials, cred'[s] # NoCredentials
                 PROVE  call[c].pc = "refreshed" /\ SlotOf(call[c].user) = s
                          /\ call[c].epoch < epoch[s]
      OBVIOUS
    <3>1. s = SaveSlot(call[c].user) /\ call[c].pc = "refreshed"
      BY <2>0, <2>2 DEF SaveRefreshed, OAuthTypeInv
    <3>2. call[c].epoch \in Nat /\ epoch[s] \in Nat
      BY <2>0 DEF OAuthTypeInv, CallType
    <3> QED
      BY <2>0, <3>1, <3>2 DEF Carries
  <2>3. ASSUME NEW c \in Callers, DeleteCredentials(c) PROVE Earned
    BY <2>0, <2>3 DEF DeleteCredentials, OAuthTypeInv
  <2>4. CASE Age
    BY <2>0, <2>4 DEF Age, OAuthTypeInv
  <2>5. CASE cred' = cred
    BY <2>5
  <2> QED
    BY <1>1, <2>1, <2>2, <2>3, <2>4, <2>5
       DEF OAuthNext, oauthVars, Exchange, Get, Refresh, RecordSuccess, Revoke, RevokeAtProvider
<1>2. OAuthInv /\ [OAuthNext]_oauthVars => [Earned]_oauthVars
  BY <1>1
<1> QED
  BY <1>2, OAuthAlways, PTL DEF OAuthSpec, ReturnsOnlyByConsent

-----------------------------------------------------------------------------
(* StripeEvents, for every set of events and deliveries and every number   *)
(* of ids that the list keeps.                                             *)

USE StripeBounds

Progress == {NoDelivery} \cup [pc: {"handling"}, event: Events]

StripeTypeInv ==
  /\ memory \in {"list", "table"}
  /\ processed \in Seq(Events)
  /\ handled \in [Events -> Nat]
  /\ since \in [Events -> 0 .. MaxProcessedIds]
  /\ delivery \in [Deliveries -> Progress]

(* The record of an event that was handled is in its place in the list, as *)
(* many records from the end as were made since; the table keeps it unless *)
(* it failed.                                                              *)
Remembers ==
  \A e \in Events : handled[e] > 0 =>
    /\ memory = "list" /\ since[e] < MaxProcessedIds =>
         since[e] < Len(processed) /\ processed[Len(processed) - since[e]] = e
    /\ memory = "table" /\ e \notin excused => e \in ToSet(processed)

Handling(d, e) == delivery[d].pc = "handling" /\ delivery[d].event = e

(* A delivery that passed the check is the only one of its event, and the  *)
(* event was not handled before or was forgotten, unless it is excused.    *)
Passed ==
  /\ \A d \in Deliveries : \A e \in Events : Handling(d, e) =>
       /\ memory = "list" => e \in Checkouts
       /\ handled[e] > 0 /\ e \notin excused => memory = "list" /\ since[e] = MaxProcessedIds
  /\ \A d, o \in Deliveries : \A e \in Events :
       d # o /\ Handling(d, e) /\ Handling(o, e) => e \in excused

StripeInv == StripeTypeInv /\ Remembers /\ Passed

LEMMA StripeInitially == StripeInit => StripeInv
BY DEF StripeInit, StripeInv, StripeTypeInv, Remembers, Passed, Handling, Progress, NoDelivery

(* A record leaves the others in their places.                             *)
LEMMA RecordRemembers ==
  ASSUME StripeTypeInv, Remembers, NEW x \in Events, Record(x), memory' = memory,
         excused' = excused, handled' \in [Events -> Nat],
         \A e \in Events : e # x => handled'[e] = handled[e]
  PROVE  /\ processed' \in Seq(Events) /\ since' \in [Events -> 0 .. MaxProcessedIds]
         /\ since'[x] = 0
         /\ \A e \in Events : e # x /\ since[e] = MaxProcessedIds => since'[e] = MaxProcessedIds
         /\ Remembers'
<1>1. /\ since' \in [Events -> 0 .. MaxProcessedIds] /\ since'[x] = 0
      /\ \A e \in Events : e # x => since'[e] = IF since[e] < MaxProcessedIds THEN since[e] + 1 ELSE since[e]
  BY DEF Record, StripeTypeInv
<1>2. processed' = Remembered(x) /\ processed \in Seq(Events)
  BY DEF Record, StripeTypeInv
<1>3. \A e \in Events : handled[e] \in Nat /\ handled'[e] \in Nat /\ since[e] \in 0 .. MaxProcessedIds
  BY DEF StripeTypeInv
<1>4. Len(processed) \in Nat
  BY DEF StripeTypeInv
<1>5. CASE memory = "table"
  <2>1. CASE x \in ToSet(processed)
    <3>1. processed' = processed
      BY <1>2, <1>5, <2>1 DEF Remembered
    <3>2. Remembers'
      BY <1>3, <1>5, <2>1, <3>1 DEF Remembers
    <3> QED
      BY <1>1, <1>2, <3>1, <3>2
  <2>2. CASE x \notin ToSet(processed)
    <3>1. processed' = Append(processed, x)
      BY <1>2, <1>5, <2>2 DEF Remembered
    <3>2. /\ processed' \in Seq(Events) /\ Len(processed') = Len(processed) + 1
          /\ processed'[Len(processed) + 1] = x
          /\ \A i \in 1 .. Len(processed) : processed'[i] = processed[i]
      BY <1>2, <3>1
    <3>3. DOMAIN processed = 1 .. Len(processed) /\ DOMAIN processed' = 1 .. Len(processed')
          /\ Len(processed) \in Nat
      BY <1>2, <3>2
    <3>4. x \in ToSet(processed') /\ \A e \in ToSet(processed) : e \in ToSet(processed')
      BY <3>2, <3>3 DEF ToSet
    <3>5. Remembers'
      BY <1>3, <1>5, <3>4 DEF Remembers
    <3> QED
      BY <1>1, <3>2, <3>5
  <2> QED
    BY <2>1, <2>2
<1>6. CASE memory = "list"
  <2>1. CASE Len(processed) >= MaxProcessedIds
    <3>1. processed' = Append(Tail(processed), x) /\ processed # <<>>
      BY <1>2, <1>6, <2>1 DEF Remembered
    <3>2. /\ processed' \in Seq(Events) /\ Len(processed') = Len(processed)
          /\ processed'[Len(processed)] = x
          /\ \A i \in 1 .. Len(processed) - 1 : processed'[i] = processed[i + 1]
      BY <1>2, <3>1
    <3>3. ASSUME NEW e \in Events, handled'[e] > 0, since'[e] < MaxProcessedIds
          PROVE  since'[e] < Len(processed') /\ processed'[Len(processed') - since'[e]] = e
      <4>1. CASE e = x
        BY <1>1, <1>2, <2>1, <3>2, <4>1
      <4>2. CASE e # x
        <5>1. since'[e] = since[e] + 1 /\ since[e] < MaxProcessedIds /\ handled[e] > 0
          BY <1>1, <1>3, <3>3, <4>2
        <5>2. since[e] < Len(processed) /\ processed[Len(processed) - since[e]] = e
          BY <1>6, <5>1 DEF Remembers
        <5> DEFINE i == Len(processed) - since[e] - 1
        <5>3. i \in 1 .. Len(processed) - 1 /\ i + 1 = Len(processed) - since[e]
          BY <1>3, <1>4, <2>1, <3>3, <5>1
        <5>4. processed'[i] = e
          BY <3>2, <5>2, <5>3
        <5>5. Len(processed') = Len(processed) /\ since[e] \in Nat /\ MaxProcessedIds \in Nat
          BY <1>3, <3>2
        <5>6. since[e] + 1 < MaxProcessedIds /\ MaxProcessedIds <= Len(processed)
          BY <1>4, <2>1, <3>3, <5>1, <5>5
        <5>7. Len(processed) \in Nat
          BY <1>2
        <5>8. since'[e] < Len(processed')
          BY <1>4, <5>1, <5>5, <5>6, <5>7
        <5>9. i = Len(processed') - since'[e]
          BY <5>1, <5>5, <5>7
        <5> QED
          BY <5>4, <5>8, <5>9
      <4> QED
        BY <4>1, <4>2
    <3>4. Remembers'
      BY <1>6, <3>3 DEF Remembers
    <3> QED
      BY <1>1, <3>2, <3>4
  <2>2. CASE Len(processed) < MaxProcessedIds
    <3>1. processed' = Append(processed, x)
      BY <1>2, <1>6, <2>2 DEF Remembered
    <3>2. /\ processed' \in Seq(Events) /\ Len(processed') = Len(processed) + 1
          /\ processed'[Len(processed) + 1] = x
          /\ \A i \in 1 .. Len(processed) : processed'[i] = processed[i]
      BY <1>2, <3>1
    <3>3. ASSUME NEW e \in Events, handled'[e] > 0, since'[e] < MaxProcessedIds
          PROVE  since'[e] < Len(processed') /\ processed'[Len(processed') - since'[e]] = e
      <4>1. CASE e = x
        BY <1>1, <1>2, <3>2, <4>1
      <4>2. CASE e # x
        <5>1. since'[e] = since[e] + 1 /\ since[e] < MaxProcessedIds /\ handled[e] > 0
          BY <1>1, <1>3, <3>3, <4>2
        <5>2. since[e] < Len(processed) /\ processed[Len(processed) - since[e]] = e
          BY <1>6, <5>1 DEF Remembers
        <5> DEFINE i == Len(processed) - since[e]
        <5>3. i \in 1 .. Len(processed)
          BY <1>3, <1>4, <5>1, <5>2
        <5>4. processed'[i] = e
          BY <3>2, <5>2, <5>3
        <5>5. Len(processed') = Len(processed) + 1 /\ since[e] \in Nat
          BY <1>3, <3>2
        <5>6. i = Len(processed') - since'[e] /\ since'[e] < Len(processed')
          BY <1>4, <5>1, <5>2, <5>5
        <5> QED
          BY <5>4, <5>6
      <4> QED
        BY <4>1, <4>2
    <3>4. Remembers'
      BY <1>6, <3>3 DEF Remembers
    <3> QED
      BY <1>1, <3>2, <3>4
  <2> QED
    BY <1>2, <2>1, <2>2
<1> QED
  BY <1>5, <1>6 DEF StripeTypeInv

(* A delivery ends: the others still are what they were.                   *)
LEMMA PassedEnds ==
  ASSUME StripeTypeInv, Passed, NEW d \in Deliveries, NEW e \in Events, memory' = memory,
         delivery' = [delivery EXCEPT ![d] = NoDelivery], excused \subseteq excused',
         Handling(d, e) \/ (memory = "list" /\ e \notin Checkouts),
         \A x \in Events : x # e => /\ handled'[x] = handled[x]
                                    /\ since[x] = MaxProcessedIds => since'[x] = MaxProcessedIds
  PROVE  Passed'
<1>1. \A o \in Deliveries : \A x \in Events : Handling(o, x)' => Handling(o, x) /\ o # d
  BY DEF StripeTypeInv, Handling, NoDelivery
<1>2. \A o \in Deliveries : Handling(o, e)' => e \in excused
  BY <1>1 DEF Passed
<1>3. ASSUME NEW o \in Deliveries, NEW x \in Events, Handling(o, x)'
      PROVE  /\ memory' = "list" => x \in Checkouts
             /\ handled'[x] > 0 /\ x \notin excused' => memory' = "list" /\ since'[x] = MaxProcessedIds
  BY <1>1, <1>2, <1>3 DEF Passed
<1> QED
  BY <1>1, <1>3 DEF Passed

(* A delivery passes the check.                                            *)
LEMMA PassedStarts ==
  ASSUME StripeTypeInv, Passed, NEW d \in Deliveries, NEW e \in Events,
         UNCHANGED <<memory, handled, since>>, delivery[d].pc = "idle",
         delivery' = [delivery EXCEPT ![d] = [pc |-> "handling", event |-> e]],
         excused \subseteq excused', memory = "list" => e \in Checkouts,
         handled[e] > 0 /\ e \notin excused' => memory = "list" /\ since[e] = MaxProcessedIds,
         \A o \in Deliveries : o # d /\ Handling(o, e) => e \in excused'
  PROVE  Passed'
<1>1. \A o \in Deliveries : \A x \in Events :
        Handling(o, x)' => (o = d /\ x = e) \/ (o # d /\ Handling(o, x))
  BY DEF StripeTypeInv, Handling
<1> QED
  BY <1>1 DEF Passed

LEMMA DeliverStep ==
  ASSUME StripeInv, NEW d \in Deliveries, Deliver(d)
  PROVE  StripeInv'
<1> USE DEF StripeInv
<1>1. PICK e \in Events :
       IF e \in ToSet(processed)
         THEN \/ UNCHANGED <<processed, handled, since, excused, delivery>>
              \/ /\ memory = "table"
                 /\ excused' = excused \cup {e}
                 /\ delivery' = [delivery EXCEPT ![d] = [pc |-> "handling", event |-> e]]
                 /\ UNCHANGED <<processed, handled, since>>
         ELSE \/ /\ memory = "list" /\ e \notin Checkouts
                 /\ Record(e) /\ Handle(d, e)
                 /\ UNCHANGED excused
              \/ /\ memory = "table" \/ e \in Checkouts
                 /\ excused' = excused \cup {x \in {e} : Overlaps(d, x)}
                 /\ delivery' = [delivery EXCEPT ![d] = [pc |-> "handling", event |-> e]]
                 /\ UNCHANGED <<processed, handled, since>>
  BY DEF Deliver
<1>2. memory' = memory /\ delivery[d].pc = "idle"
  BY DEF Deliver
<1>3. [pc |-> "handling", event |-> e] \in Progress /\ NoDelivery \in Progress
  BY DEF Progress
<1>4. CASE UNCHANGED <<processed, handled, since, excused, delivery>>
  BY <1>2, <1>4 DEF StripeTypeInv, Remembers, Passed, Handling, ToSet
<1>5. CASE /\ memory = "list" /\ e \notin Checkouts
           /\ Record(e) /\ Handle(d, e) /\ UNCHANGED excused
  <2>1. handled' \in [Events -> Nat] /\ \A x \in Events : x # e => handled'[x] = handled[x]
    BY <1>5 DEF Handle, StripeTypeInv
  <2>2. /\ processed' \in Seq(Events) /\ since' \in [Events -> 0 .. MaxProcessedIds] /\ Remembers'
        /\ \A x \in Events : x # e /\ since[x] = MaxProcessedIds => since'[x] = MaxProcessedIds
    BY <1>2, <1>5, <2>1, RecordRemembers
  <2>3. Passed'
    BY <1>2, <1>5, <2>1, <2>2, PassedEnds DEF Handle
  <2> QED
    BY <1>2, <1>3, <1>5, <2>1, <2>2, <2>3 DEF StripeTypeInv, Handle
<1>6. CASE /\ excused \subseteq excused' /\ UNCHANGED <<processed, handled, since>>
           /\ delivery' = [delivery EXCEPT ![d] = [pc |-> "handling", event |-> e]]
           /\ memory = "list" => e \in Checkouts /\ e \notin ToSet(processed)
           /\ \/ e \in excused'
              \/ e \notin ToSet(processed) /\ ~Overlaps(d, e)
  <2>1. Remembers' /\ StripeTypeInv'
    BY <1>2, <1>3, <1>6 DEF StripeTypeInv, Remembers, ToSet
  <2>2. handled[e] > 0 /\ e \notin excused' => memory = "list" /\ since[e] = MaxProcessedIds
    <3> SUFFICES ASSUME handled[e] > 0, e \notin excused'
                 PROVE  memory = "list" /\ since[e] = MaxProcessedIds
      OBVIOUS
    <3>1. e \notin ToSet(processed) /\ e \notin excused
      BY <1>6
    <3>2. memory = "list"
      BY <3>1 DEF Remembers, StripeTypeInv
    <3>3. since[e] \in 0 .. MaxProcessedIds /\ processed \in Seq(Events) /\ Len(processed) \in Nat
      BY DEF StripeTypeInv
    <3>4. ASSUME since[e] < MaxProcessedIds PROVE FALSE
      <4> DEFINE i == Len(processed) - since[e]
      <4>1. i \in 1 .. Len(processed) /\ processed[i] = e
        BY <3>2, <3>3, <3>4 DEF Remembers
      <4>2. DOMAIN processed = 1 .. Len(processed)
        BY <3>3
      <4> QED
        BY <3>1, <4>1, <4>2 DEF ToSet
    <3> QED
      BY <3>2, <3>3, <3>4
  <2>3. \A o \in Deliveries : o # d /\ Handling(o, e) => e \in excused'
    BY <1>6 DEF Overlaps, Handling
  <2>4. Passed'
    BY <1>2, <1>6, <2>2, <2>3, PassedStarts
  <2> QED
    BY <2>1, <2>4
<1>7. excused' = excused \cup {e} => e \in excused' /\ excused \subseteq excused'
  OBVIOUS
<1>8. excused' = excused \cup {x \in {e} : Overlaps(d, x)}
        => excused \subseteq excused' /\ (e \in excused' \/ ~Overlaps(d, e))
  OBVIOUS
<1> QED
  BY <1>1, <1>4, <1>5, <1>6, <1>7, <1>8

LEMMA FinishStep ==
  ASSUME StripeInv, NEW d \in Deliveries, Finish(d)
  PROVE  StripeInv'
<1> USE DEF StripeInv
<1> DEFINE e == delivery[d].event
<1>1. delivery[d].pc = "handling" /\ delivery[d] \in Progress /\ UNCHANGED <<memory, deliveries>>
  BY DEF Finish, StripeTypeInv
<1>2. e \in Events /\ Handling(d, e) /\ NoDelivery \in Progress
  BY <1>1 DEF Progress, NoDelivery, Handling
<1>3. CASE Record(e) /\ Handle(d, e) /\ UNCHANGED excused
  <2>1. handled' \in [Events -> Nat] /\ \A x \in Events : x # e => handled'[x] = handled[x]
    BY <1>2, <1>3 DEF Handle, StripeTypeInv
  <2>2. /\ processed' \in Seq(Events) /\ since' \in [Events -> 0 .. MaxProcessedIds] /\ Remembers'
        /\ \A x \in Events : x # e /\ since[x] = MaxProcessedIds => since'[x] = MaxProcessedIds
    BY <1>1, <1>2, <1>3, <2>1, RecordRemembers
  <2>3. Passed'
    BY <1>1, <1>2, <1>3, <2>1, <2>2, PassedEnds DEF Handle
  <2> QED
    BY <1>1, <1>2, <1>3, <2>1, <2>2, <2>3 DEF StripeTypeInv, Handle
<1>4. CASE /\ memory = "table"
           /\ Handle(d, e) /\ excused' = excused \cup {e} /\ UNCHANGED <<processed, since>>
  <2>1. handled' \in [Events -> Nat] /\ \A x \in Events : x # e => handled'[x] = handled[x]
    BY <1>2, <1>4 DEF Handle, StripeTypeInv
  <2>2. Remembers'
    BY <1>1, <1>2, <1>4, <2>1 DEF Remembers, ToSet
  <2>3. Passed'
    BY <1>1, <1>2, <1>4, <2>1, PassedEnds DEF Handle
  <2> QED
    BY <1>1, <1>2, <1>4, <2>1, <2>2, <2>3 DEF StripeTypeInv, Handle
<1>5. CASE /\ delivery' = [delivery EXCEPT ![d] = NoDelivery]
           /\ UNCHANGED <<processed, handled, since, excused>>
  <2>1. Passed'
    BY <1>1, <1>2, <1>5, PassedEnds
  <2> QED
    BY <1>1, <1>2, <1>5, <2>1 DEF StripeTypeInv, Remembers, ToSet
<1> QED
  BY <1>3, <1>4, <1>5 DEF Finish

LEMMA StripeStep == StripeInv /\ [StripeNext]_stripeVars => StripeInv'
<1>1. ASSUME StripeInv, UNCHANGED stripeVars PROVE StripeInv'
  BY <1>1 DEF stripeVars, StripeInv, StripeTypeInv, Remembers, Passed, Handling, ToSet
<1> QED
  BY <1>1, DeliverStep, FinishStep DEF StripeNext

(* An event that was handled is not handled again while the list keeps it; *)
(* with the table it never is, unless the table failed or two deliveries   *)
(* of it overlapped: for every number of deliveries, events and kept ids.  *)
THEOREM HandledStaysRemembered == StripeSpec => HandledIsRemembered
<1> DEFINE Forgotten == \A e \in Events :
       handled[e] > 0 /\ handled'[e] > handled[e] /\ e \notin excused' =>
         memory = "list" /\ since[e] = MaxProcessedIds
<1>1. ASSUME StripeInv, [StripeNext]_stripeVars PROVE Forgotten
  <2>0. StripeTypeInv /\ Remembers /\ Passed
    BY <1>1 DEF StripeInv
  <2>1. ASSUME NEW e \in Events, handled[e] > 0, handled'[e] > handled[e], e \notin excused',
               NEW d \in Deliveries, Deliver(d)
        PROVE  memory = "list" /\ since[e] = MaxProcessedIds
    <3>1. PICK x \in Events : /\ memory = "list" /\ x \notin ToSet(processed)
                              /\ Handle(d, x)
      BY <2>0, <2>1 DEF Deliver, StripeTypeInv
    <3>2. x = e
      BY <2>0, <2>1, <3>1 DEF Handle, StripeTypeInv
    <3>3. since[e] \in 0 .. MaxProcessedIds /\ processed \in Seq(Events) /\ Len(processed) \in Nat
      BY <2>0 DEF StripeTypeInv
    <3>4. ASSUME since[e] < MaxProcessedIds PROVE FALSE
      <4> DEFINE i == Len(processed) - since[e]
      <4>1. i \in 1 .. Len(processed) /\ processed[i] = e
        BY <2>0, <2>1, <3>1, <3>3, <3>4 DEF Remembers
      <4>2. DOMAIN processed = 1 .. Len(processed)
        BY <3>3
      <4> QED
        BY <3>1, <3>2, <4>1, <4>2 DEF ToSet
    <3> QED
      BY <3>1, <3>3, <3>4
  <2>2. ASSUME NEW e \in Events, handled[e] > 0, handled'[e] > handled[e], e \notin excused',
               NEW d \in Deliveries, Finish(d)
        PROVE  memory = "list" /\ since[e] = MaxProcessedIds
    <3> DEFINE x == delivery[d].event
    <3>1. (Handle(d, x) /\ excused \subseteq excused') \/ UNCHANGED handled
      BY <2>2 DEF Finish
    <3>2. delivery[d].pc = "handling" /\ delivery[d] \in Progress
      BY <2>0, <2>2 DEF Finish, StripeTypeInv
    <3>3. x \in Events /\ Handling(d, x)
      BY <3>2 DEF Progress, NoDelivery, Handling
    <3>4. x = e /\ e \notin excused
      BY <2>0, <2>2, <3>1, <3>3 DEF Handle, StripeTypeInv
    <3> QED
      BY <2>0, <2>2, <3>3, <3>4 DEF Passed
  <2>3. CASE UNCHANGED stripeVars
    BY <2>0, <2>3 DEF stripeVars, StripeTypeInv
  <2> QED
    BY <1>1, <2>1, <2>2, <2>3 DEF StripeNext
<1>2. StripeInv /\ [StripeNext]_stripeVars => [Forgotten]_stripeVars
  BY <1>1
<1> QED
  BY <1>2, StripeInitially, StripeStep, PTL DEF StripeSpec, HandledIsRemembered

-----------------------------------------------------------------------------
(* MailPolling, for every mailbox and calendar, every set of addresses and *)
(* every bound of items, of a page and of polls.                           *)

USE PollBounds DEF Pollers

Tokens == {None} \cup Nat
PollType == [pc: {"idle", "list", "item", "create"}, pageToken: Tokens, completed: Tokens,
             next: Tokens, page: SUBSET Nat, done: SUBSET Nat, timeUp: BOOLEAN]

MailTypeInv ==
  /\ unique \in BOOLEAN
  /\ contacts \in [Text -> Nat]
  /\ overtaken \subseteq Pollers
  /\ cursor \in [Pollers -> Tokens]
  /\ synced \in [Pollers -> SUBSET Nat]
  /\ poll \in [Pollers -> PollType]
  /\ polls \in [Pollers -> Nat]

(* A page is of the account, and a contact is made for an item of it.      *)
PageInv(k) ==
  /\ poll[k].page \subseteq Items(k)
  /\ poll[k].pc = "create" => poll[k].page # {}

LEMMA ItemsAre == ASSUME NEW k \in Pollers
                  PROVE  /\ Items(k) = 1 .. Len(Mailbox[k]) /\ Len(Mailbox[k]) \in Nat
                         /\ \A i \in Items(k) : i \in Nat /\ i > 0 /\ Mailbox[k][i] \in Text
<1>1. Mailbox[k] \in Seq(Text)
  BY PollAddresses
<1>2. DOMAIN Mailbox[k] = 1 .. Len(Mailbox[k]) /\ Len(Mailbox[k]) \in Nat
  BY <1>1
<1>3. \A i \in 1 .. Len(Mailbox[k]) : Mailbox[k][i] \in Text
  BY <1>1
<1> QED
  BY <1>2, <1>3 DEF Items

(* First names an item of the page.                                        *)
LEMMA FirstIn == ASSUME NEW page, page \subseteq Nat, page # {} PROVE First(page) \in page
<1>1. \E i \in page : \A j \in page : i <= j
  BY LeastOf
<1> QED
  BY <1>1 DEF First

(* The token after a page names its last item.                             *)
LEMMA TokenAfterIs ==
  ASSUME NEW k \in Pollers, NEW page, page \subseteq Items(k), page # {}
  PROVE  \/ TokenAfter(k, page) = None
         \/ TokenAfter(k, page) \in page /\ \A i \in page : i <= TokenAfter(k, page)
<1>1. page \subseteq Nat /\ Len(Mailbox[k]) \in Nat /\ \A i \in page : i <= Len(Mailbox[k])
  BY ItemsAre
<1>2. \E j \in page : \A i \in page : i <= j
  BY <1>1, GreatestOf
<1> DEFINE last == CHOOSE j \in page : \A i \in page : i <= j
<1>3. last \in page /\ \A i \in page : i <= last
  BY <1>2
<1> QED
  BY <1>3 DEF TokenAfter

LEMMA AddressIs ==
  ASSUME MailTypeInv, NEW k \in Pollers, PageInv(k), poll[k].page # {}
  PROVE  AddressOf(k) \in Text /\ Person[AddressOf(k)] = AddressOf(k)
<1>1. poll[k].page \subseteq Nat
  BY DEF MailTypeInv, PollType
<1>2. First(poll[k].page) \in Items(k)
  BY <1>1, FirstIn DEF PageInv
<1>3. Mailbox[k][First(poll[k].page)] \in Text
  BY <1>2, ItemsAre
<1> QED
  BY <1>3, PollAddresses DEF AddressOf, Normalized

MailTyped == MailTypeInv /\ \A k \in Pollers : PageInv(k)

LEMMA MailTypedInitially == MailInit => MailTyped
BY DEF MailInit, MailTyped, MailTypeInv, PageInv, PollType, Tokens, None, NoPoll, Items

(* The poll of one poller becomes another of the type.                     *)
LEMMA TypedMove ==
  ASSUME MailTyped, NEW k \in Pollers, poll' = [poll EXCEPT ![k] = poll'[k]],
         poll'[k] \in PollType, PageInv(k)'
  PROVE  poll' \in [Pollers -> PollType] /\ \A o \in Pollers : PageInv(o)'
<1>1. \A o \in Pollers : o # k => poll'[o] = poll[o]
  BY DEF MailTyped, MailTypeInv
<1> QED
  BY <1>1 DEF MailTyped, MailTypeInv, PageInv

LEMMA NoPollTyped == NoPoll \in PollType /\ NoPoll.page = {} /\ NoPoll.pc = "idle"
BY DEF NoPoll, PollType, Tokens, None

(* A poll returns or throws.                                               *)
LEMMA PollEnds ==
  ASSUME MailTyped, NEW k \in Pollers, poll' = [poll EXCEPT ![k] = NoPoll]
  PROVE  poll' \in [Pollers -> PollType] /\ \A o \in Pollers : PageInv(o)'
<1>1. poll'[k] = NoPoll /\ poll' = [poll EXCEPT ![k] = poll'[k]]
  BY DEF MailTyped, MailTypeInv
<1>2. PageInv(k)'
  BY <1>1, NoPollTyped DEF PageInv
<1> QED
  BY <1>1, <1>2, NoPollTyped, TypedMove

LEMMA ReturnsTyped ==
  ASSUME MailTyped, NEW k \in Pollers, NEW p \in PollType, NEW token \in Tokens,
         Returns(k, p, token)
  PROVE  /\ poll' \in [Pollers -> PollType] /\ \A o \in Pollers : PageInv(o)'
         /\ cursor' \in [Pollers -> Tokens] /\ synced' \in [Pollers -> SUBSET Nat]
BY PollEnds DEF Returns, MailTyped, MailTypeInv, PollType

LEMMA ItemTyped ==
  ASSUME MailTyped, NEW k \in Pollers, poll[k].page # {}
  PROVE  /\ Item(k) \in PollType /\ Item(k).page \subseteq Items(k) /\ Item(k).pc = "item"
         /\ Item(k).completed = poll[k].completed /\ Item(k).pageToken = poll[k].pageToken
         /\ Item(k).next = poll[k].next
         /\ Item(k).page = poll[k].page \ {First(poll[k].page)}
         /\ Item(k).done = poll[k].done \cup {First(poll[k].page)}
<1>1. poll[k] \in PollType /\ poll[k].page \subseteq Items(k)
  BY DEF MailTyped, MailTypeInv, PageInv
<1>2. First(poll[k].page) \in Nat
  BY <1>1, FirstIn DEF PollType
<1> QED
  BY <1>1, <1>2 DEF Item, PollType

(* An item is done, one way or another, or its poll throws.                *)
LEMMA AfterItemTyped ==
  ASSUME MailTyped, NEW k \in Pollers, poll[k].page # {},
         poll' = [poll EXCEPT ![k] = Item(k)]
  PROVE  poll' \in [Pollers -> PollType] /\ \A o \in Pollers : PageInv(o)'
<1>1. poll'[k] = Item(k) /\ poll' = [poll EXCEPT ![k] = poll'[k]]
  BY DEF MailTyped, MailTypeInv
<1>2. PageInv(k)'
  BY <1>1, ItemTyped DEF PageInv
<1> QED
  BY <1>1, <1>2, ItemTyped, TypedMove

LEMMA AfterPageTyped ==
  ASSUME NEW p \in PollType
  PROVE  /\ AfterPage(p) \in PollType /\ AfterPage(p).pc = "list" /\ AfterPage(p).page = {}
         /\ AfterPage(p).pageToken = p.next /\ AfterPage(p).done = p.done
         /\ AfterPage(p).completed = (IF p.page = {} THEN p.next ELSE p.completed)
         /\ AfterPage(p).timeUp = p.timeUp
BY DEF AfterPage, PollType

(* A page that was listed is worked on.                                    *)
Listed(p, page, token) ==
  [[[p EXCEPT !.pc = "item"] EXCEPT !.page = page] EXCEPT !.next = token]

LEMMA PageTyped ==
  ASSUME MailTyped, NEW k \in Pollers, NEW page \in Pages(k, poll[k]), page # {},
         poll' = [poll EXCEPT ![k].pc = "item", ![k].page = page, ![k].next = TokenAfter(k, page)]
  PROVE  /\ poll' \in [Pollers -> PollType] /\ \A o \in Pollers : PageInv(o)'
         /\ poll'[k].pc = "item" /\ poll'[k].page = page /\ poll'[k].next = TokenAfter(k, page)
         /\ poll'[k].pageToken = poll[k].pageToken /\ poll'[k].completed = poll[k].completed
         /\ poll'[k].done = poll[k].done
<1>1. page \subseteq Items(k)
  BY DEF Pages
<1>2. page \in SUBSET Nat /\ TokenAfter(k, page) \in Tokens
  BY <1>1, ItemsAre, TokenAfterIs DEF Tokens
<1>3. \A p \in PollType : \A t \in Tokens : \A s \in SUBSET Nat :
        /\ Listed(p, s, t) \in PollType /\ Listed(p, s, t).pc = "item"
        /\ Listed(p, s, t).page = s /\ Listed(p, s, t).next = t
        /\ Listed(p, s, t).pageToken = p.pageToken /\ Listed(p, s, t).completed = p.completed
        /\ Listed(p, s, t).done = p.done
  BY ZenonT(40) DEF Listed, PollType
<1>4. poll[k] \in PollType
  BY DEF MailTyped, MailTypeInv
<1>5. poll'[k] = Listed(poll[k], page, TokenAfter(k, page))
  BY DEF MailTyped, MailTypeInv, Listed
<1>6. poll' = [poll EXCEPT ![k] = poll'[k]]
  BY DEF MailTyped, MailTypeInv
<1>7. /\ poll'[k] \in PollType /\ poll'[k].pc = "item" /\ poll'[k].page = page
      /\ poll'[k].next = TokenAfter(k, page)
      /\ poll'[k].pageToken = poll[k].pageToken /\ poll'[k].completed = poll[k].completed
      /\ poll'[k].done = poll[k].done
  BY <1>2, <1>3, <1>4, <1>5
<1>8. PageInv(k)'
  BY <1>1, <1>7 DEF PageInv
<1> QED
  BY <1>6, <1>7, <1>8, TypedMove

LEMMA CreateTyped ==
  ASSUME MailTyped, NEW k \in Pollers, poll[k].page # {},
         poll' = [poll EXCEPT ![k] = [@ EXCEPT !.pc = "create"]]
  PROVE  /\ poll' \in [Pollers -> PollType] /\ \A o \in Pollers : PageInv(o)'
         /\ poll'[k].pc = "create" /\ poll'[k].page = poll[k].page /\ poll'[k].next = poll[k].next
         /\ poll'[k].pageToken = poll[k].pageToken /\ poll'[k].completed = poll[k].completed
         /\ poll'[k].done = poll[k].done
<1>1. \A p \in PollType : LET q == [p EXCEPT !.pc = "create"] IN
        /\ q \in PollType /\ q.pc = "create" /\ q.page = p.page /\ q.next = p.next
        /\ q.pageToken = p.pageToken /\ q.completed = p.completed /\ q.done = p.done
  BY DEF PollType
<1>2. poll'[k] = [poll[k] EXCEPT !.pc = "create"] /\ poll[k] \in PollType
  BY DEF MailTyped, MailTypeInv
<1>3. poll' = [poll EXCEPT ![k] = poll'[k]]
  BY DEF MailTyped, MailTypeInv
<1>4. /\ poll'[k] \in PollType /\ poll'[k].pc = "create" /\ poll'[k].page = poll[k].page
      /\ poll'[k].next = poll[k].next
      /\ poll'[k].pageToken = poll[k].pageToken /\ poll'[k].completed = poll[k].completed
      /\ poll'[k].done = poll[k].done
  BY <1>1, <1>2
<1>5. PageInv(k)'
  BY <1>4 DEF PageInv, MailTyped
<1> QED
  BY <1>3, <1>4, <1>5, TypedMove

LEMMA StartTyped ==
  ASSUME MailTyped, NEW k \in Pollers, StartPoll(k)
  PROVE  /\ poll' \in [Pollers -> PollType] /\ \A o \in Pollers : PageInv(o)'
         /\ poll'[k].pc = "list" /\ poll'[k].page = {} /\ poll'[k].done = {}
         /\ poll'[k].pageToken = cursor[k] /\ poll'[k].completed = cursor[k]
<1>1. \A t \in Tokens : LET q == [NoPoll EXCEPT !.pc = "list", !.pageToken = t, !.completed = t] IN
        /\ q \in PollType /\ q.pc = "list" /\ q.page = {} /\ q.done = {}
        /\ q.pageToken = t /\ q.completed = t
  BY DEF NoPoll, PollType, Tokens, None
<1>2. cursor[k] \in Tokens
  BY DEF MailTyped, MailTypeInv
<1>3. poll'[k] = [NoPoll EXCEPT !.pc = "list", !.pageToken = cursor[k], !.completed = cursor[k]]
  BY DEF StartPoll, MailTyped, MailTypeInv
<1>4. poll' = [poll EXCEPT ![k] = poll'[k]]
  BY DEF StartPoll, MailTyped, MailTypeInv
<1>5. /\ poll'[k] \in PollType /\ poll'[k].pc = "list" /\ poll'[k].page = {} /\ poll'[k].done = {}
      /\ poll'[k].pageToken = cursor[k] /\ poll'[k].completed = cursor[k]
  BY <1>1, <1>2, <1>3, ZenonT(40)
<1>6. PageInv(k)'
  BY <1>5 DEF PageInv
<1> QED
  BY <1>4, <1>5, <1>6, TypedMove

LEMMA TimeUpTyped ==
  ASSUME MailTyped, NEW k \in Pollers, TimeUp(k)
  PROVE  /\ poll' \in [Pollers -> PollType] /\ \A o \in Pollers : PageInv(o)'
         /\ poll'[k].pc = poll[k].pc /\ poll'[k].page = poll[k].page /\ poll'[k].next = poll[k].next
         /\ poll'[k].pageToken = poll[k].pageToken /\ poll'[k].completed = poll[k].completed
         /\ poll'[k].done = poll[k].done /\ poll'[k].timeUp
<1>1. \A p \in PollType : LET q == [p EXCEPT !.timeUp = TRUE] IN
        /\ q \in PollType /\ q.pc = p.pc /\ q.page = p.page /\ q.next = p.next
        /\ q.pageToken = p.pageToken /\ q.completed = p.completed /\ q.done = p.done /\ q.timeUp
  BY DEF PollType
<1>2. poll'[k] = [poll[k] EXCEPT !.timeUp = TRUE] /\ poll[k] \in PollType
  BY DEF TimeUp, MailTyped, MailTypeInv
<1>3. poll' = [poll EXCEPT ![k] = poll'[k]]
  BY DEF TimeUp, MailTyped, MailTypeInv
<1>4. /\ poll'[k] \in PollType /\ poll'[k].pc = poll[k].pc /\ poll'[k].page = poll[k].page
      /\ poll'[k].next = poll[k].next
      /\ poll'[k].pageToken = poll[k].pageToken /\ poll'[k].completed = poll[k].completed
      /\ poll'[k].done = poll[k].done /\ poll'[k].timeUp
  BY <1>1, <1>2
<1>5. PageInv(k)'
  BY <1>4 DEF PageInv, MailTyped
<1> QED
  BY <1>3, <1>4, <1>5, TypedMove

LEMMA NextCursorTyped == ASSUME NEW k, NEW p \in PollType PROVE NextCursor(k, p) \in Tokens
BY DEF NextCursor, PollType

LEMMA LeftPageTyped ==
  ASSUME MailTyped, NEW k \in Pollers, poll' = [poll EXCEPT ![k] = AfterPage(poll[k])]
  PROVE  /\ poll'[k] = AfterPage(poll[k])
         /\ poll' \in [Pollers -> PollType] /\ \A o \in Pollers : PageInv(o)'
<1>1. poll[k] \in PollType /\ poll'[k] = AfterPage(poll[k]) /\ poll' = [poll EXCEPT ![k] = poll'[k]]
  BY DEF MailTyped, MailTypeInv
<1>2. poll'[k] \in PollType /\ PageInv(k)'
  BY <1>1, AfterPageTyped DEF PageInv
<1> QED
  BY <1>1, <1>2, TypedMove

LEMMA WithoutContactTyped ==
  ASSUME MailTyped, NEW k \in Pollers, poll[k].page # {}, WithoutContact(k)
  PROVE  /\ poll' \in [Pollers -> PollType] /\ \A o \in Pollers : PageInv(o)'
         /\ UNCHANGED <<cursor, synced>>
BY AfterItemTyped, PollEnds DEF WithoutContact, Throws

LEMMA MailTypedStep == MailTyped /\ [MailNext]_mailVars => MailTyped'
<1> SUFFICES ASSUME MailTyped, [MailNext]_mailVars PROVE MailTyped'
  OBVIOUS
<1>0. MailTypeInv /\ (\A k \in Pollers : PageInv(k) /\ poll[k] \in PollType)
  BY DEF MailTyped, MailTypeInv
<1>1. ASSUME NEW k \in Pollers, StartPoll(k) PROVE MailTyped'
  <2>1. poll' \in [Pollers -> PollType] /\ \A o \in Pollers : PageInv(o)'
    BY <1>0, <1>1, StartTyped
  <2>2. polls' \in [Pollers -> Nat]
    BY <1>0, <1>1 DEF StartPoll, MailTypeInv
  <2> QED
    BY <1>0, <1>1, <2>1, <2>2 DEF StartPoll, MailTyped, MailTypeInv
<1>2. ASSUME NEW k \in Pollers, TimeUp(k) PROVE MailTyped'
  BY <1>0, <1>2, TimeUpTyped DEF TimeUp, MailTyped, MailTypeInv
<1>3. ASSUME NEW k \in Pollers, ListPage(k) PROVE MailTyped'
  <2>1. /\ poll' \in [Pollers -> PollType] /\ \A o \in Pollers : PageInv(o)'
        /\ cursor' \in [Pollers -> Tokens] /\ synced' \in [Pollers -> SUBSET Nat]
    <3>1. ASSUME Returns(k, poll[k], NextCursor(k, poll[k]))
          PROVE  /\ poll' \in [Pollers -> PollType] /\ \A o \in Pollers : PageInv(o)'
                 /\ cursor' \in [Pollers -> Tokens] /\ synced' \in [Pollers -> SUBSET Nat]
      BY <1>0, <3>1, ReturnsTyped, NextCursorTyped
    <3>2. ASSUME Throws(k)
          PROVE  /\ poll' \in [Pollers -> PollType] /\ \A o \in Pollers : PageInv(o)'
                 /\ cursor' \in [Pollers -> Tokens] /\ synced' \in [Pollers -> SUBSET Nat]
      BY <1>0, <3>2, PollEnds DEF Throws, MailTypeInv
    <3>3. ASSUME NEW page \in Pages(k, poll[k]), page # {}, UNCHANGED <<cursor, synced>>,
                 poll' = [poll EXCEPT ![k].pc = "item", ![k].page = page,
                                      ![k].next = TokenAfter(k, page)]
          PROVE  /\ poll' \in [Pollers -> PollType] /\ \A o \in Pollers : PageInv(o)'
                 /\ cursor' \in [Pollers -> Tokens] /\ synced' \in [Pollers -> SUBSET Nat]
      BY <1>0, <3>3, PageTyped DEF MailTypeInv
    <3> QED
      BY <1>3, <3>1, <3>2, <3>3 DEF ListPage
  <2> QED
    BY <1>0, <1>3, <2>1 DEF ListPage, MailTyped, MailTypeInv
<1>4. ASSUME NEW k \in Pollers, LeavePage(k) PROVE MailTyped'
  <2>1. /\ poll' \in [Pollers -> PollType] /\ \A o \in Pollers : PageInv(o)'
        /\ cursor' \in [Pollers -> Tokens] /\ synced' \in [Pollers -> SUBSET Nat]
    <3>1. CASE Returns(k, AfterPage(poll[k]), NextCursor(k, AfterPage(poll[k])))
      BY <1>0, <3>1, ReturnsTyped, NextCursorTyped, AfterPageTyped
    <3>2. CASE poll' = [poll EXCEPT ![k] = AfterPage(poll[k])] /\ UNCHANGED <<cursor, synced>>
      BY <1>0, <3>2, LeftPageTyped DEF MailTypeInv
    <3> QED
      BY <1>4, <3>1, <3>2 DEF LeavePage
  <2> QED
    BY <1>0, <1>4, <2>1 DEF LeavePage, MailTyped, MailTypeInv
<1>5. ASSUME NEW k \in Pollers, FindContact(k) PROVE MailTyped'
  <2>1. /\ poll' \in [Pollers -> PollType] /\ \A o \in Pollers : PageInv(o)'
        /\ UNCHANGED <<cursor, synced>>
    BY <1>0, <1>5, WithoutContactTyped, AfterItemTyped, CreateTyped DEF FindContact
  <2> QED
    BY <1>0, <1>5, <2>1 DEF FindContact, MailTyped, MailTypeInv
<1>6. ASSUME NEW k \in Pollers, CreateContact(k) PROVE MailTyped'
  <2>1. poll[k].page # {}
    BY <1>0, <1>6 DEF CreateContact, PageInv
  <2>2. /\ poll' \in [Pollers -> PollType] /\ \A o \in Pollers : PageInv(o)'
        /\ UNCHANGED <<cursor, synced>>
    BY <1>0, <1>6, <2>1, WithoutContactTyped, AfterItemTyped DEF CreateContact
  <2>3. contacts' \in [Text -> Nat]
    BY <1>0, <1>6, <2>1, AddressIs DEF CreateContact, MailTypeInv
  <2>4. overtaken' \subseteq Pollers
    BY <1>0, <1>6 DEF CreateContact, Creating, MailTypeInv
  <2> QED
    BY <1>0, <1>6, <2>2, <2>3, <2>4 DEF CreateContact, MailTyped, MailTypeInv
<1>7. ASSUME contacts' \in [Text -> Nat], overtaken' \subseteq Pollers,
             UNCHANGED <<unique, cursor, synced, poll, polls>>
      PROVE  MailTyped'
  BY <1>0, <1>7 DEF MailTyped, MailTypeInv, PageInv
<1>8. ASSUME NEW t \in Text, AddContact(t) PROVE MailTyped'
  <2>1. contacts' \in [Text -> Nat]
    BY <1>0, <1>8 DEF AddContact, MailTypeInv
  <2>2. overtaken' \subseteq Pollers
    BY <1>0, <1>8 DEF AddContact, Creating, MailTypeInv
  <2> QED
    BY <1>7, <1>8, <2>1, <2>2 DEF AddContact
<1>9. ASSUME NEW t \in Text, DeleteContact(t) PROVE MailTyped'
  BY <1>0, <1>7, <1>9 DEF DeleteContact, MailTypeInv
<1>10. ASSUME NEW t \in Text, NEW u \in Text, UpdateContact(t, u) PROVE MailTyped'
  <2>1. contacts' \in [Text -> Nat]
    BY <1>0, <1>10 DEF UpdateContact, MailTypeInv
  <2>2. overtaken' \subseteq Pollers
    BY <1>0, <1>10 DEF UpdateContact, Creating, MailTypeInv
  <2> QED
    BY <1>7, <1>10, <2>1, <2>2 DEF UpdateContact
<1>11. CASE UNCHANGED mailVars
  BY <1>0, <1>11 DEF mailVars, MailTyped, MailTypeInv, PageInv
<1> QED
  BY <1>1, <1>2, <1>3, <1>4, <1>5, <1>6, <1>8, <1>9, <1>10, <1>11 DEF MailNext

-----------------------------------------------------------------------------
(* The cursor of Gmail *)

Reached(n) == \A i \in Items("gmail") : i <= n => i \in synced["gmail"] \cup poll["gmail"].done

(* Up to the last page that was worked off every message was done in this  *)
(* poll or its activities were returned by an earlier one; a page that is  *)
(* asked for begins there; and a page that is worked on ends there but for *)
(* what is left of it.                                                     *)
CursorInv ==
  /\ CursorPassesNothing
  /\ poll["gmail"].pc # "idle" => Reached(poll["gmail"].completed)
  /\ poll["gmail"].pc = "list" /\ ~AtBound(poll["gmail"])
       => poll["gmail"].pageToken = poll["gmail"].completed
  /\ poll["gmail"].pc \in {"item", "create"} /\ poll["gmail"].next # None =>
       \A i \in Items("gmail") : i <= poll["gmail"].next =>
         i \in synced["gmail"] \cup poll["gmail"].done \cup poll["gmail"].page

(* A step of the calendar leaves Gmail's alone.                            *)
LEMMA GmailFrame ==
  ASSUME CursorInv, poll'["gmail"] = poll["gmail"], cursor'["gmail"] = cursor["gmail"],
         synced'["gmail"] = synced["gmail"]
  PROVE  CursorInv'
BY DEF CursorInv, CursorPassesNothing, Reached, AtBound

LEMMA GmailEnds ==
  ASSUME MailTyped, CursorInv, poll' = [poll EXCEPT !["gmail"] = NoPoll],
         \/ UNCHANGED <<cursor, synced>>
         \/ /\ \E n \in Tokens : /\ cursor' = [cursor EXCEPT !["gmail"] = n]
                                 /\ Reached(n)
            /\ synced' = [synced EXCEPT !["gmail"] = @ \cup poll["gmail"].done]
  PROVE  CursorInv'
<1>1. poll'["gmail"] = NoPoll
  BY DEF MailTyped, MailTypeInv
<1>2. CursorPassesNothing'
  BY DEF MailTyped, MailTypeInv, CursorInv, CursorPassesNothing, Reached
<1> QED
  BY <1>1, <1>2, NoPollTyped DEF CursorInv

LEMMA NothingBefore == \A i \in Items("gmail") : ~(i <= None)
BY ItemsAre DEF None

LEMMA CursorListPage ==
  ASSUME MailTyped, CursorInv, ListPage("gmail")
  PROVE  CursorInv'
<1> DEFINE g == "gmail"
<1>0. poll[g] \in PollType /\ poll[g].pc = "list" /\ Reached(poll[g].completed)
      /\ NextCursor(g, poll[g]) = poll[g].completed /\ poll[g].completed \in Tokens
  BY DEF ListPage, MailTyped, MailTypeInv, CursorInv, NextCursor, PollType
<1>1. CASE Returns(g, poll[g], NextCursor(g, poll[g]))
  BY <1>0, <1>1, GmailEnds DEF Returns
<1>2. CASE Throws(g)
  BY <1>2, GmailEnds DEF Throws
<1>3. ASSUME ~AtBound(poll[g]), NEW page \in Pages(g, poll[g]), page # {},
             poll' = [poll EXCEPT ![g].pc = "item", ![g].page = page,
                                  ![g].next = TokenAfter(g, page)],
             UNCHANGED <<cursor, synced>>
      PROVE  CursorInv'
  <2>1. /\ poll'[g].pc = "item" /\ poll'[g].page = page /\ poll'[g].next = TokenAfter(g, page)
        /\ poll'[g].completed = poll[g].completed /\ poll'[g].done = poll[g].done
    BY <1>3, PageTyped
  <2>2. poll[g].pageToken = poll[g].completed
    BY <1>0, <1>3 DEF CursorInv
  <2> DEFINE from == IF poll[g].pageToken = None THEN 0 ELSE poll[g].pageToken
  <2>3. PICK n \in Int : page = {i \in Items(g) : i > from /\ i <= from + n}
    BY <1>3 DEF Pages
  <2>4. from \in Nat /\ \A i \in Items(g) : i <= from => i \in synced[g] \cup poll[g].done
    BY <1>0, <2>2, ItemsAre DEF Tokens, Reached
  <2>5. ASSUME TokenAfter(g, page) # None, NEW i \in Items(g), i <= TokenAfter(g, page)
        PROVE  i \in synced[g] \cup poll[g].done \cup page
    <3>1. page \subseteq Items(g)
      BY <2>3
    <3>2. TokenAfter(g, page) \in page
      BY <1>3, <2>5, <3>1, TokenAfterIs
    <3>3. TokenAfter(g, page) <= from + n /\ TokenAfter(g, page) \in Nat /\ i \in Nat
      BY <2>3, <3>2, ItemsAre
    <3>4. CASE i <= from
      BY <2>4, <3>4
    <3>5. CASE i > from
      <4>1. i <= from + n
        BY <2>4, <2>5, <3>3
      <4> QED
        BY <2>3, <3>5, <4>1
    <3> QED
      BY <2>4, <3>3, <3>4, <3>5
  <2> QED
    BY <1>0, <1>3, <2>1, <2>5 DEF CursorInv, CursorPassesNothing, Reached
<1> QED
  BY <1>1, <1>2, <1>3 DEF ListPage

LEMMA CursorLeavePage ==
  ASSUME MailTyped, CursorInv, LeavePage("gmail")
  PROVE  CursorInv'
<1> DEFINE g == "gmail"
           p == AfterPage(poll[g])
<1>0. poll[g] \in PollType /\ poll[g].pc = "item"
      /\ (poll[g].page = {} \/ AtBound(poll[g]))
  BY DEF LeavePage, MailTyped, MailTypeInv
<1>1. /\ p \in PollType /\ p.pc = "list" /\ p.pageToken = poll[g].next /\ p.done = poll[g].done
      /\ p.completed = (IF poll[g].page = {} THEN poll[g].next ELSE poll[g].completed)
      /\ p.timeUp = poll[g].timeUp
  BY <1>0, AfterPageTyped
<1>2. p.completed \in Tokens
  BY <1>1 DEF PollType
<1>3. Reached(p.completed)
  BY <1>0, <1>1, NothingBefore DEF CursorInv, Reached
<1> HIDE DEF p
<1>4. CASE Returns(g, p, NextCursor(g, p))
  BY <1>1, <1>3, <1>4, <1>2, GmailEnds DEF Returns, NextCursor
<1>5. CASE poll' = [poll EXCEPT ![g] = p] /\ UNCHANGED <<cursor, synced>>
  <2>1. poll'[g] = p
    BY <1>5 DEF MailTyped, MailTypeInv
  <2>2. AtBound(p) \/ p.pageToken = p.completed
    BY <1>0, <1>1 DEF AtBound
  <2> QED
    BY <1>1, <1>3, <1>5, <2>1, <2>2 DEF CursorInv, CursorPassesNothing, Reached, AtBound
<1> QED
  BY <1>4, <1>5 DEF LeavePage, p

LEMMA CursorStep == MailTyped /\ CursorInv /\ [MailNext]_mailVars => CursorInv'
<1> SUFFICES ASSUME MailTyped, CursorInv, [MailNext]_mailVars PROVE CursorInv'
  OBVIOUS
<1> DEFINE g == "gmail"
<1>0. poll \in [Pollers -> PollType]
  BY DEF MailTyped, MailTypeInv
<1>1. ASSUME StartPoll(g) PROVE CursorInv'
  <2>1. /\ poll'[g].pc = "list" /\ poll'[g].pageToken = cursor[g]
        /\ poll'[g].completed = cursor[g] /\ UNCHANGED <<cursor, synced>>
    BY <1>1, StartTyped DEF StartPoll
  <2> QED
    BY <2>1 DEF CursorInv, CursorPassesNothing, Reached
<1>2. ASSUME TimeUp(g) PROVE CursorInv'
  <2>1. /\ poll'[g].pc = poll[g].pc /\ poll'[g].page = poll[g].page /\ poll'[g].next = poll[g].next
        /\ poll'[g].completed = poll[g].completed /\ poll'[g].done = poll[g].done
        /\ poll'[g].timeUp /\ UNCHANGED <<cursor, synced>>
    BY <1>2, TimeUpTyped DEF TimeUp
  <2> QED
    BY <2>1 DEF CursorInv, CursorPassesNothing, Reached, AtBound
<1>3. ASSUME ListPage(g) PROVE CursorInv'
  BY <1>3, CursorListPage
<1>4. ASSUME LeavePage(g) PROVE CursorInv'
  BY <1>4, CursorLeavePage
<1>5. ASSUME poll[g].page # {}, poll[g].pc \in {"item", "create"},
             poll' = [poll EXCEPT ![g] = Item(g)], UNCHANGED <<cursor, synced>>
      PROVE  CursorInv'
  <2>1. poll'[g] = Item(g)
    BY <1>0, <1>5
  <2> QED
    BY <1>5, <2>1, ItemTyped DEF CursorInv, CursorPassesNothing, Reached
<1>6. ASSUME FindContact(g) PROVE CursorInv'
  <2>1. CASE poll' = [poll EXCEPT ![g] = [@ EXCEPT !.pc = "create"]] /\ UNCHANGED <<cursor, synced>>
    BY <1>6, <2>1, CreateTyped DEF FindContact, CursorInv, CursorPassesNothing, Reached
  <2>2. CASE Throws(g)
    BY <2>2, GmailEnds DEF Throws
  <2> QED
    BY <1>5, <1>6, <2>1, <2>2 DEF FindContact, WithoutContact
<1>7. ASSUME CreateContact(g) PROVE CursorInv'
  <2>1. poll[g].page # {} /\ poll[g].pc = "create"
    BY <1>7 DEF CreateContact, MailTyped, PageInv
  <2>2. CASE Throws(g)
    BY <2>2, GmailEnds DEF Throws
  <2> QED
    BY <1>5, <1>7, <2>1, <2>2 DEF CreateContact, WithoutContact
<1>8. ASSUME NEW k \in Pollers, k # g,
             \/ StartPoll(k) \/ TimeUp(k) \/ ListPage(k) \/ LeavePage(k)
             \/ FindContact(k) \/ CreateContact(k)
      PROVE  CursorInv'
  <2>1. poll'[g] = poll[g] /\ cursor'[g] = cursor[g] /\ synced'[g] = synced[g]
    BY <1>8 DEF MailTyped, MailTypeInv, StartPoll, TimeUp, ListPage, LeavePage, FindContact,
       CreateContact, Returns, Throws, WithoutContact
  <2> QED
    BY <2>1, GmailFrame
<1>9. CASE \/ \E t \in Text : AddContact(t) \/ DeleteContact(t)
           \/ \E t, u \in Text : UpdateContact(t, u)
  BY <1>9, GmailFrame DEF AddContact, DeleteContact, UpdateContact
<1>10. CASE UNCHANGED mailVars
  BY <1>10, GmailFrame DEF mailVars
<1> QED
  BY <1>1, <1>2, <1>3, <1>4, <1>6, <1>7, <1>8, <1>9, <1>10 DEF MailNext

(* Wherever polls of Gmail are interrupted, no message before the cursor   *)
(* is left out: for every mailbox and every bound.                         *)
THEOREM CursorKeepsUp == MailSpec => []CursorPassesNothing
<1>1. MailInit => CursorInv
  BY NothingBefore DEF MailInit, CursorInv, CursorPassesNothing, NoPoll
<1>2. CursorInv => CursorPassesNothing
  BY DEF CursorInv
<1> QED
  BY <1>1, <1>2, MailTypedInitially, MailTypedStep, CursorStep, PTL DEF MailSpec

-----------------------------------------------------------------------------
(* Contacts of one person *)

(* Where a poll is about to create a contact although there is one with    *)
(* the address that it looked for, that one came after it had looked.      *)
ContactInv ==
  \A k \in Pollers : poll[k].pc = "create" /\ contacts[AddressOf(k)] > 0 => k \in overtaken

(* A step that makes no contact and sends no poll to make one.             *)
LEMMA ContactFrame ==
  ASSUME ContactInv, UNCHANGED <<contacts, overtaken>>,
         \A k \in Pollers : poll'[k].pc = "create" =>
           poll[k].pc = "create" /\ poll'[k].page = poll[k].page
  PROVE  ContactInv'
<1>1. \A k \in Pollers : poll'[k].pc = "create" => AddressOf(k)' = AddressOf(k)
  BY DEF AddressOf
<1> QED
  BY <1>1 DEF ContactInv

(* A contact is made with the text a: whoever was about to make one of that *)
(* address is overtaken, and no poll starts to.                            *)
LEMMA ContactMade ==
  ASSUME MailTyped, ContactInv, NEW a \in Text, NEW k,
         \A t \in Text : t # a => contacts'[t] <= contacts[t],
         (overtaken \cup Creating(a)) \ {k} \subseteq overtaken',
         \A o \in Pollers : poll'[o].pc = "create" =>
           o # k /\ poll[o].pc = "create" /\ poll'[o].page = poll[o].page,
         contacts' \in [Text -> Nat]
  PROVE  ContactInv'
<1> SUFFICES ASSUME NEW o \in Pollers, poll'[o].pc = "create", contacts'[AddressOf(o)'] > 0
             PROVE  o \in overtaken'
  BY DEF ContactInv
<1>1. o # k /\ poll[o].pc = "create" /\ AddressOf(o)' = AddressOf(o)
  BY DEF AddressOf
<1>2. AddressOf(o) \in Text
  BY <1>1, AddressIs DEF MailTyped, PageInv
<1>3. CASE AddressOf(o) = a
  BY <1>1, <1>3 DEF Creating
<1>4. CASE AddressOf(o) # a
  <2>1. contacts'[AddressOf(o)] > 0 /\ contacts'[AddressOf(o)] <= contacts[AddressOf(o)]
    BY <1>1, <1>2, <1>4
  <2>2. contacts[AddressOf(o)] > 0
    BY <1>2, <2>1 DEF MailTyped, MailTypeInv
  <2> QED
    BY <1>1, <2>2 DEF ContactInv
<1> QED
  BY <1>3, <1>4

LEMMA ContactCreate ==
  ASSUME MailTyped, ContactInv, NEW k \in Pollers, CreateContact(k)
  PROVE  ContactInv'
<1> DEFINE a == AddressOf(k)
<1>1. poll[k].page # {} /\ poll[k].pc = "create" /\ MailTypeInv /\ PageInv(k)
  BY DEF CreateContact, MailTyped, PageInv
<1>2. a \in Text /\ Person[a] = a
  BY <1>1, AddressIs
<1>3. \A o \in Pollers : o # k => poll'[o] = poll[o]
  BY <1>1 DEF CreateContact, WithoutContact, Throws, MailTypeInv
<1>4. poll'[k].pc # "create"
  BY <1>1, ItemTyped, NoPollTyped DEF CreateContact, WithoutContact, Throws, MailTypeInv
<1>5. \A o \in Pollers : poll'[o].pc = "create" =>
        o # k /\ poll[o].pc = "create" /\ poll'[o].page = poll[o].page
  BY <1>3, <1>4
<1>6. ASSUME UNCHANGED contacts, overtaken' = overtaken \ {k} PROVE ContactInv'
  <2>1. \A o \in Pollers : poll'[o].pc = "create" => AddressOf(o)' = AddressOf(o)
    BY <1>5 DEF AddressOf
  <2> QED
    BY <1>5, <1>6, <2>1 DEF ContactInv
<1>7. ASSUME contacts' = [contacts EXCEPT ![a] = @ + 1],
             overtaken' = (overtaken \cup Creating(a)) \ {k}
      PROVE  ContactInv'
  <2>1. contacts' \in [Text -> Nat] /\ \A t \in Text : t # a => contacts'[t] <= contacts[t]
    BY <1>1, <1>2, <1>7 DEF MailTypeInv
  <2> HIDE DEF a
  <2> QED
    BY <1>2, <1>5, <1>7, <2>1, ContactMade
<1> QED
  BY <1>6, <1>7 DEF CreateContact

LEMMA ContactService ==
  ASSUME MailTyped, ContactInv, NEW t \in Text, NEW u \in Text,
         AddContact(u) \/ DeleteContact(t) \/ UpdateContact(t, u)
  PROVE  ContactInv'
<1>0. contacts \in [Text -> Nat] /\ UNCHANGED poll
  BY DEF MailTyped, MailTypeInv, AddContact, DeleteContact, UpdateContact
<1>1. contacts' \in [Text -> Nat] /\ \A v \in Text : v # u => contacts'[v] <= contacts[v]
  BY <1>0 DEF AddContact, DeleteContact, UpdateContact
<1>2. CASE DeleteContact(t)
  <2>1. \A v \in Text : contacts'[v] <= contacts[v]
    BY <1>0, <1>2 DEF DeleteContact
  <2>2. \A k \in Pollers : poll[k].pc = "create" => AddressOf(k) \in Text
    BY AddressIs DEF MailTyped, PageInv
  <2>3. UNCHANGED overtaken /\ \A k \in Pollers : AddressOf(k)' = AddressOf(k)
    BY <1>0, <1>2 DEF DeleteContact, AddressOf
  <2>4. ASSUME NEW k \in Pollers, poll[k].pc = "create", contacts'[AddressOf(k)] > 0
        PROVE  k \in overtaken
    <3>1. contacts[AddressOf(k)] > 0
      BY <1>0, <1>1, <2>1, <2>2, <2>4
    <3> QED
      BY <2>4, <3>1 DEF ContactInv
  <2> QED
    BY <1>0, <2>3, <2>4 DEF ContactInv
<1>3. CASE AddContact(u) \/ UpdateContact(t, u)
  <2>1. overtaken' = overtaken \cup Creating(u)
    BY <1>3 DEF AddContact, UpdateContact
  <2>2. PICK nobody : nobody \notin Pollers
    BY SMT
  <2>3. \A o \in Pollers : poll'[o].pc = "create" =>
          o # nobody /\ poll[o].pc = "create" /\ poll'[o].page = poll[o].page
    BY <1>0, <2>2
  <2> QED
    BY <1>1, <2>1, <2>3, ContactMade
<1> QED
  BY <1>2, <1>3

LEMMA ContactStep == MailTyped /\ ContactInv /\ [MailNext]_mailVars => ContactInv'
<1> SUFFICES ASSUME MailTyped, ContactInv, [MailNext]_mailVars PROVE ContactInv'
  OBVIOUS
<1>0. poll \in [Pollers -> PollType]
  BY DEF MailTyped, MailTypeInv
<1>1. ASSUME NEW k \in Pollers, UNCHANGED <<contacts, overtaken>>,
             poll' = [poll EXCEPT ![k] = poll'[k]], poll'[k].pc # "create"
      PROVE  ContactInv'
  <2>1. \A o \in Pollers : poll'[o].pc = "create" =>
          poll[o].pc = "create" /\ poll'[o].page = poll[o].page
    BY <1>0, <1>1
  <2> QED
    BY <1>1, <2>1, ContactFrame
<1>2. ASSUME NEW k \in Pollers, Throws(k), UNCHANGED <<contacts, overtaken>>
      PROVE  ContactInv'
  BY <1>0, <1>1, <1>2, NoPollTyped DEF Throws
<1>3. ASSUME NEW k \in Pollers, NEW p, NEW token, Returns(k, p, token),
             UNCHANGED <<contacts, overtaken>>
      PROVE  ContactInv'
  BY <1>0, <1>1, <1>3, NoPollTyped DEF Returns
<1>4. ASSUME NEW k \in Pollers, poll[k].page # {}, poll' = [poll EXCEPT ![k] = Item(k)],
             UNCHANGED <<contacts, overtaken>>
      PROVE  ContactInv'
  BY <1>0, <1>1, <1>4, ItemTyped
<1>5. ASSUME NEW k \in Pollers, StartPoll(k) PROVE ContactInv'
  <2>1. poll'[k].pc = "list" /\ poll' = [poll EXCEPT ![k] = poll'[k]]
    BY <1>0, <1>5, StartTyped DEF StartPoll
  <2> QED
    BY <1>1, <1>5, <2>1 DEF StartPoll
<1>6. ASSUME NEW k \in Pollers, TimeUp(k) PROVE ContactInv'
  <2>1. \A o \in Pollers : poll'[o].pc = poll[o].pc /\ poll'[o].page = poll[o].page
    BY <1>0, <1>6, TimeUpTyped DEF TimeUp
  <2> QED
    BY <1>6, <2>1, ContactFrame DEF TimeUp
<1>7. ASSUME NEW k \in Pollers, ListPage(k) PROVE ContactInv'
  <2>1. ASSUME NEW page \in Pages(k, poll[k]), page # {},
               poll' = [poll EXCEPT ![k].pc = "item", ![k].page = page,
                                    ![k].next = TokenAfter(k, page)]
        PROVE  ContactInv'
    <3>1. poll'[k].pc = "item" /\ poll' = [poll EXCEPT ![k] = poll'[k]]
      BY <1>0, <2>1, PageTyped
    <3> QED
      BY <1>1, <1>7, <3>1 DEF ListPage
  <2> QED
    BY <1>2, <1>3, <1>7, <2>1 DEF ListPage
<1>8. ASSUME NEW k \in Pollers, LeavePage(k) PROVE ContactInv'
  <2>1. CASE poll' = [poll EXCEPT ![k] = AfterPage(poll[k])]
    <3>1. poll'[k].pc = "list" /\ poll' = [poll EXCEPT ![k] = poll'[k]]
      BY <1>0, <2>1, AfterPageTyped
    <3> QED
      BY <1>1, <1>8, <3>1 DEF LeavePage
  <2> QED
    BY <1>3, <1>8, <2>1 DEF LeavePage
<1>9. ASSUME NEW k \in Pollers, FindContact(k) PROVE ContactInv'
  <2>1. CASE contacts[AddressOf(k)] = 0 /\ poll' = [poll EXCEPT ![k] = [@ EXCEPT !.pc = "create"]]
    <3>1. /\ poll'[k].page = poll[k].page
          /\ \A o \in Pollers : o # k => poll'[o] = poll[o]
      BY <1>0, <1>9, <2>1, CreateTyped DEF FindContact
    <3>2. \A o \in Pollers : AddressOf(o)' = AddressOf(o)
      BY <3>1 DEF AddressOf
    <3> QED
      BY <1>9, <2>1, <3>1, <3>2 DEF FindContact, ContactInv
  <2>2. CASE poll' = [poll EXCEPT ![k] = Item(k)]
    BY <1>4, <1>9, <2>2 DEF FindContact
  <2>3. CASE WithoutContact(k)
    BY <1>2, <1>4, <1>9, <2>3 DEF FindContact, WithoutContact
  <2>4. contacts[AddressOf(k)] \in Nat
    BY <1>9, AddressIs DEF FindContact, MailTyped, MailTypeInv
  <2> QED
    BY <1>9, <2>1, <2>2, <2>3, <2>4 DEF FindContact
<1>10. CASE UNCHANGED mailVars
  BY <1>10, ContactFrame DEF mailVars
<1>11. \A k \in Pollers : CreateContact(k) => ContactInv'
  BY ContactCreate
<1>12. \A t, u \in Text : AddContact(u) \/ DeleteContact(t) \/ UpdateContact(t, u) => ContactInv'
  BY ContactService
<1> QED
  BY <1>5, <1>6, <1>7, <1>8, <1>9, <1>10, <1>11, <1>12 DEF MailNext

(* A poll creates a contact for a person who has one only where another    *)
(* call made that one since the poll looked, or where every one is stored  *)
(* in a form that no lookup asks for: for every number of items, polls and *)
(* calls of the contact service, and however the addresses are written.    *)
THEOREM DuplicatesNeedOverlap == MailSpec => DuplicateNeedsOverlap
<1> DEFINE Excused ==
      \A k \in Pollers : \A t \in Text : Makes(k, t) =>
        \/ Known(t) = {}
        \/ k \in overtaken
        \/ \A u \in Known(t) : u # Person[u]
<1>1. MailInit => ContactInv
  BY DEF MailInit, ContactInv, NoPoll
<1>2. MailTyped /\ ContactInv /\ [MailNext]_mailVars => [Excused]_mailVars
  <2> SUFFICES ASSUME MailTyped, ContactInv, [MailNext]_mailVars,
                      NEW k \in Pollers, NEW t \in Text, Makes(k, t)
               PROVE  k \in overtaken \/ \A u \in Known(t) : u # Person[u]
    OBVIOUS
  <2>0. MailTypeInv /\ PageInv(k) /\ poll'[k] # poll[k] /\ contacts'[t] > contacts[t]
    BY DEF MailTyped, Makes
  <2>1. CreateContact(k)
    <3>1. ASSUME NEW o \in Pollers, CreateContact(o), o # k PROVE poll'[k] = poll[k]
      BY <2>0, <3>1 DEF CreateContact, WithoutContact, Throws, MailTypeInv
    <3>2. contacts[t] \in Nat /\ contacts' # contacts
      BY <2>0 DEF MailTypeInv
    <3>3. poll' # poll
      BY <2>0
    <3>4. \E o \in Pollers : CreateContact(o)
      BY <3>2, <3>3 DEF MailNext, mailVars, StartPoll, TimeUp, ListPage, LeavePage, FindContact,
         AddContact, DeleteContact, UpdateContact
    <3> QED
      BY <2>0, <3>1, <3>4
  <2> DEFINE a == AddressOf(k)
  <2>2. poll[k].page # {} /\ poll[k].pc = "create"
    BY <2>0, <2>1 DEF CreateContact, PageInv
  <2>3. a \in Text /\ Person[a] = a
    BY <2>0, <2>2, AddressIs
  <2>4. t = a
    <3>1. contacts' = [contacts EXCEPT ![a] = @ + 1] \/ UNCHANGED contacts
      BY <2>1 DEF CreateContact
    <3> QED
      BY <2>0, <2>3, <3>1 DEF MailTypeInv
  <2>5. ASSUME NEW u \in Known(t), u = Person[u] PROVE k \in overtaken
    <3>1. u = a /\ contacts[u] > 0
      BY <2>3, <2>4, <2>5 DEF Known
    <3> QED
      BY <2>2, <3>1 DEF ContactInv
  <2> QED
    BY <2>5
<1> QED
  BY <1>1, <1>2, MailTypedInitially, MailTypedStep, ContactStep, PTL DEF MailSpec, DuplicateNeedsOverlap

=============================================================================
