---------------------------- MODULE StripeEvents ---------------------------
(***************************************************************************)
(* Webhook events of Stripe, delivered at least once and handled           *)
(* concurrently, with the two ways of telling a repeated one: the bounded  *)
(* list of stripe/webhooks.ts, and, for a handler that checks, works and   *)
(* records with idempotency.ts, the idempotency_keys table, whose lookups  *)
(* and records may fail.                                                   *)
(***************************************************************************)
EXTENDS Integers, Sequences, SequencesExt

CONSTANTS Events,       \* verified events; those in Checkouts fetch their session
          Checkouts,
          Deliveries,   \* deliveries in progress
          MaxDeliveries,
          MaxProcessedIds

ASSUME StripeBounds == /\ Checkouts \subseteq Events /\ MaxDeliveries \in Nat
                       /\ MaxProcessedIds \in Nat \ {0}

VARIABLES
  memory,     \* "list" or "table"
  processed,  \* the ids that are remembered, oldest first
  handled,    \* how often each event was handled
  since,      \* the records after each event's last one, up to MaxProcessedIds
  excused,    \* the events that were handled again for a reason the code leaves open
  delivery, deliveries

stripeVars == <<memory, processed, handled, since, excused, delivery, deliveries>>

NoDelivery == [pc |-> "idle"]

StripeInit ==
  /\ memory \in {"list", "table"}
  /\ processed = <<>>
  /\ handled = [e \in Events |-> 0] /\ since = [e \in Events |-> 0] /\ excused = {}
  /\ delivery = [d \in Deliveries |-> NoDelivery] /\ deliveries = 0

\* FIFO eviction at MAX_PROCESSED_IDS, of the wrong end.
RememberedDroppingLast(e) ==
  IF memory = "list" /\ Len(processed) >= MaxProcessedIds
    THEN Append(Front(processed), e) ELSE Append(processed, e)

\* recordProcessedEvent: FIFO eviction at MAX_PROCESSED_IDS.  The table keeps
\* every key, and refuses a second one.
Remembered(e) ==
  IF memory = "table"
    THEN IF e \in ToSet(processed) THEN processed ELSE Append(processed, e)
    ELSE IF Len(processed) >= MaxProcessedIds
           THEN Append(Tail(processed), e) ELSE Append(processed, e)

Record(e) ==
  /\ processed' = Remembered(e)
  /\ since' = [x \in Events |-> IF x = e THEN 0
                               ELSE IF since[x] < MaxProcessedIds THEN since[x] + 1 ELSE since[x]]

Handle(d, e) ==
  /\ handled' = [handled EXCEPT ![e] = IF @ < 2 THEN @ + 1 ELSE @]
  /\ delivery' = [delivery EXCEPT ![d] = NoDelivery]

\* Another delivery of the event is under way: both passed the check.
Overlaps(d, e) == \E o \in Deliveries \ {d} : delivery[o].pc # "idle" /\ delivery[o].event = e

\* The event arrives and is looked up.  With the list a checkout waits for its
\* session and the others are handled at once; the table is read and written
\* in awaited calls.
Deliver(d) ==
  /\ delivery[d].pc = "idle" /\ deliveries < MaxDeliveries
  /\ deliveries' = deliveries + 1
  /\ \E e \in Events :
       IF e \in ToSet(processed)
         THEN \/ UNCHANGED <<processed, handled, since, excused, delivery>>
              \/ /\ memory = "table"   \* the lookup fails and answers "not a duplicate"
                 /\ excused' = excused \cup {e}
                 /\ delivery' = [delivery EXCEPT ![d] = [pc |-> "handling", event |-> e]]
                 /\ UNCHANGED <<processed, handled, since>>
         ELSE \/ /\ memory = "list" /\ e \notin Checkouts
                 /\ Record(e) /\ Handle(d, e)
                 /\ UNCHANGED excused
              \/ /\ memory = "table" \/ e \in Checkouts
                 /\ excused' = excused \cup {x \in {e} : Overlaps(d, x)}
                 /\ delivery' = [delivery EXCEPT ![d] = [pc |-> "handling", event |-> e]]
                 /\ UNCHANGED <<processed, handled, since>>
  /\ UNCHANGED memory

\* The session arrives, or the provider fails and Stripe delivers again.
Finish(d) ==
  /\ delivery[d].pc = "handling"
  /\ \E e \in {delivery[d].event} :
       \/ /\ Record(e) /\ Handle(d, e) /\ UNCHANGED excused
       \/ /\ memory = "table"   \* the record fails and is only logged
          /\ Handle(d, e) /\ excused' = excused \cup {e} /\ UNCHANGED <<processed, since>>
       \/ /\ delivery' = [delivery EXCEPT ![d] = NoDelivery]
          /\ UNCHANGED <<processed, handled, since, excused>>
  /\ UNCHANGED <<memory, deliveries>>

StripeNext == \E d \in Deliveries : Deliver(d) \/ Finish(d)

StripeSpec == StripeInit /\ [][StripeNext]_stripeVars

-----------------------------------------------------------------------------
(* Properties.                                                             *)

StripeTypeOK ==
  /\ memory = "list" => Len(processed) <= MaxProcessedIds
  /\ \A e \in Events : handled[e] \in 0 .. 2
  /\ deliveries \in 0 .. MaxDeliveries

\* An event is handled a second time only if two deliveries overlapped, if the
\* table failed, or after MAX_PROCESSED_IDS other records: until then one that
\* was handled is remembered.
HandledIsRemembered ==
  [][\A e \in Events :
       handled[e] > 0 /\ handled'[e] > handled[e] /\ e \notin excused' =>
         memory = "list" /\ since[e] = MaxProcessedIds]_stripeVars
=============================================================================
