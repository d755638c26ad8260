---------------------------- MODULE MailPolling ----------------------------
(***************************************************************************)
(* The pollers of Gmail and Google Calendar (gmail/polling.ts,             *)
(* google-calendar/polling.ts), bounded by a number of items and by time,  *)
(* and the contacts that both find or create by e-mail address             *)
(* (shared/contacts.ts), while the contact service of the API makes,       *)
(* changes and deletes others, with addresses as they are written.  A page *)
(* token is the position after which the provider goes on.  The caller     *)
(* keeps the cursor and the activities that a poll returns, and loses both *)
(* when the poll throws.                                                   *)
(***************************************************************************)
EXTENDS Integers, FiniteSets, Sequences

CONSTANTS Mailbox,     \* the items that each poller's account lists: sequences of addresses
          Text,        \* addresses as they are written
          Person,      \* the address that a text means: lower case, trimmed, without a name
          MaxItems,    \* the bound of items of one poll
          BatchSize,   \* the bound of items of one page
          MaxPolls,    \* the bound of polls of each poller
          MaxContacts  \* the bound of contacts that the API makes with one text

ASSUME PollBounds == /\ MaxItems \in Nat \ {0} /\ BatchSize \in Nat \ {0} /\ MaxPolls \in Nat
                     /\ MaxContacts \in Nat
ASSUME PollAddresses == /\ Person \in [Text -> Text]
                        /\ \A t \in Text : Person[Person[t]] = Person[t]
                        /\ Mailbox \in [{"gmail", "calendar"} -> Seq(Text)]

VARIABLES
  unique,     \* whether the database has contacts_org_email_idx: Postgres has
  contacts,   \* how many contacts have each text as their address
  overtaken,  \* the pollers about to create a contact for a person who got one since they looked
  cursor,     \* the token that the caller gives to the next poll, or None
  synced,     \* the items whose activities the caller got
  poll, polls

mailVars == <<unique, contacts, overtaken, cursor, synced, poll, polls>>

Pollers == {"gmail", "calendar"}
None == -1
Items(k) == DOMAIN Mailbox[k]

NoPoll == [pc |-> "idle", pageToken |-> None, completed |-> None, next |-> None,
           page |-> {}, done |-> {}, timeUp |-> FALSE]

-----------------------------------------------------------------------------
(* Addresses.                                                              *)

\* The address as the header has it.
AsWritten(text) == text

\* normalizedEmail
Normalized(text) == Person[text]

-----------------------------------------------------------------------------
(* Polls.                                                                  *)

MailInit ==
  /\ unique \in BOOLEAN
  /\ contacts \in [Text -> 0 .. MaxContacts] /\ overtaken = {}
  /\ unique => \A t \in Text : contacts[t] <= 1
  /\ cursor = [k \in Pollers |-> None] /\ synced = [k \in Pollers |-> {}]
  /\ poll = [k \in Pollers |-> NoPoll] /\ polls = [k \in Pollers |-> 0]

StartPoll(k) ==
  /\ poll[k].pc = "idle" /\ polls[k] < MaxPolls
  /\ poll' = [poll EXCEPT ![k] = [NoPoll EXCEPT !.pc = "list", !.pageToken = cursor[k],
                                                !.completed = cursor[k]]]
  /\ polls' = [polls EXCEPT ![k] = @ + 1]
  /\ UNCHANGED <<unique, contacts, overtaken, cursor, synced>>

\* The time bound passes; each loop of the poll looks at it.
TimeUp(k) ==
  /\ poll[k].pc # "idle" /\ ~poll[k].timeUp
  /\ poll' = [poll EXCEPT ![k].timeUp = TRUE]
  /\ UNCHANGED <<unique, contacts, overtaken, cursor, synced, polls>>

\* The poll throws: the provider or its credentials fail, or a contact cannot be made.
Throws(k) == poll' = [poll EXCEPT ![k] = NoPoll] /\ UNCHANGED <<cursor, synced>>

Returns(k, p, token) ==
  /\ poll' = [poll EXCEPT ![k] = NoPoll]
  /\ cursor' = [cursor EXCEPT ![k] = token]
  /\ synced' = [synced EXCEPT ![k] = @ \cup p.done]

\* The token that the next poll gets: where the calendar goes on ...
NextCursorByPage(k, p) == p.pageToken

\* ... and for Gmail the last page that was worked off.
NextCursor(k, p) == IF k = "gmail" THEN p.completed ELSE p.pageToken

\* A page: at most what was asked for, or one more, as in the tests.
Pages(k, p) ==
  LET from == IF p.pageToken = None THEN 0 ELSE p.pageToken
      most == IF BatchSize < MaxItems - Cardinality(p.done)
                THEN BatchSize ELSE MaxItems - Cardinality(p.done)
  IN  {{i \in Items(k) : i > from /\ i <= from + n} : n \in 1 .. most + 1}

\* The token after a page, None after the last one.
TokenAfter(k, page) ==
  IF \E i \in Items(k) : \A j \in page : i > j
    THEN CHOOSE j \in page : \A i \in page : i <= j
    ELSE None

AtBound(p) == p.timeUp \/ Cardinality(p.done) >= MaxItems

\* One page is asked for, unless a bound is reached.
ListPage(k) ==
  /\ poll[k].pc = "list"
  /\ \/ /\ AtBound(poll[k])
        /\ Returns(k, poll[k], NextCursor(k, poll[k]))
     \/ /\ ~AtBound(poll[k])
        /\ \/ Throws(k)
           \/ \E page \in Pages(k, poll[k]) :
                IF page = {} THEN Returns(k, poll[k], NextCursor(k, poll[k]))
                ELSE /\ poll' = [poll EXCEPT ![k].pc = "item", ![k].page = page,
                                             ![k].next = TokenAfter(k, page)]
                     /\ UNCHANGED <<cursor, synced>>
  /\ UNCHANGED <<unique, contacts, overtaken, polls>>

\* The page is left, worked off or not.
AfterPage(p) ==
  [p EXCEPT !.pc = "list", !.pageToken = p.next, !.page = {},
            !.completed = IF p.page = {} THEN p.next ELSE @]

LeavePage(k) ==
  /\ poll[k].pc = "item"
  /\ poll[k].page = {} \/ AtBound(poll[k])
  /\ \E p \in {AfterPage(poll[k])} :
       IF p.pageToken = None THEN Returns(k, p, NextCursor(k, p))
       ELSE poll' = [poll EXCEPT ![k] = p] /\ UNCHANGED <<cursor, synced>>
  /\ UNCHANGED <<unique, contacts, overtaken, polls>>

First(page) == CHOOSE i \in page : \A j \in page : i <= j
AddressOf(k) == Normalized(Mailbox[k][First(poll[k].page)])

Item(k) ==
  [poll[k] EXCEPT !.pc = "item", !.page = @ \ {First(@)},
                  !.done = @ \cup {First(poll[k].page)}]

\* An item whose contact is not found and not made ends a poll of Gmail; the
\* calendar goes on without the attendee.
WithoutContact(k) ==
  IF k = "gmail" THEN Throws(k)
  ELSE poll' = [poll EXCEPT ![k] = Item(k)] /\ UNCHANGED <<cursor, synced>>

\* findOrCreateContactFromEmail: an exact match ends the item.
FindContact(k) ==
  /\ poll[k].pc = "item" /\ poll[k].page # {} /\ ~AtBound(poll[k])
  /\ \/ WithoutContact(k)
     \/ /\ poll' = [poll EXCEPT ![k] = IF contacts[AddressOf(k)] > 0 THEN Item(k)
                                       ELSE [@ EXCEPT !.pc = "create"]]
        /\ UNCHANGED <<cursor, synced>>
  /\ UNCHANGED <<unique, contacts, overtaken, polls>>

\* The pollers that are about to create a contact of the person whom a text means.
Creating(t) == {k \in Pollers : poll[k].pc = "create" /\ Person[AddressOf(k)] = Person[t]}

\* The index, where there is one, is on the address as it is written.
Refused(t) == unique /\ contacts[t] > 0

\* Without one a contact is created, after the company was looked for; the
\* unique index may refuse it.
CreateContact(k) ==
  /\ poll[k].pc = "create"
  /\ \E a \in {AddressOf(k)} :
       \/ /\ Refused(a)
          /\ WithoutContact(k)
          /\ overtaken' = overtaken \ {k} /\ UNCHANGED contacts
       \/ /\ ~Refused(a)
          /\ contacts' = [contacts EXCEPT ![a] = @ + 1]
          /\ overtaken' = (overtaken \cup Creating(a)) \ {k}
          /\ poll' = [poll EXCEPT ![k] = Item(k)]
          /\ UNCHANGED <<cursor, synced>>
  /\ UNCHANGED <<unique, polls>>

-----------------------------------------------------------------------------
(* The contact service, whose calls come at any time.                      *)

AddContact(t) ==
  /\ contacts[t] < MaxContacts /\ ~Refused(t)
  /\ contacts' = [contacts EXCEPT ![t] = @ + 1]
  /\ overtaken' = overtaken \cup Creating(t)
  /\ UNCHANGED <<unique, cursor, synced, poll, polls>>

DeleteContact(t) ==
  /\ contacts[t] > 0
  /\ contacts' = [contacts EXCEPT ![t] = @ - 1]
  /\ UNCHANGED <<unique, overtaken, cursor, synced, poll, polls>>

\* A contact is given another address.
UpdateContact(t, u) ==
  /\ t # u /\ contacts[t] > 0 /\ contacts[u] < MaxContacts /\ ~Refused(u)
  /\ contacts' = [contacts EXCEPT ![t] = @ - 1, ![u] = @ + 1]
  /\ overtaken' = overtaken \cup Creating(u)
  /\ UNCHANGED <<unique, cursor, synced, poll, polls>>

MailNext ==
  \/ \E k \in Pollers :
       \/ StartPoll(k) \/ TimeUp(k) \/ ListPage(k) \/ LeavePage(k)
       \/ FindContact(k) \/ CreateContact(k)
  \/ \E t \in Text : AddContact(t) \/ DeleteContact(t)
  \/ \E t, u \in Text : UpdateContact(t, u)

MailSpec == MailInit /\ [][MailNext]_mailVars

-----------------------------------------------------------------------------
(* Properties.                                                             *)

MailTypeOK ==
  /\ \A t \in Text : contacts[t] \in 0 .. MaxContacts + Cardinality(Pollers)
  /\ \A k \in overtaken : poll[k].pc = "create"
  /\ \A k \in Pollers : /\ cursor[k] \in {None} \cup Items(k)
                        /\ synced[k] \subseteq Items(k)
                        /\ Cardinality(poll[k].done) <= MaxItems

\* "Only advance the completed cursor when the page was fully processed":
\* wherever a poll of Gmail was interrupted, by time, by its bound or by an
\* error, the activities of every message before the cursor were returned.
CursorPassesNothing ==
  \A i \in Items("gmail") : i <= cursor["gmail"] => i \in synced["gmail"]

\* Step k of a poller makes a contact with text t.
Makes(k, t) == poll'[k] # poll[k] /\ contacts'[t] > contacts[t]

\* The contacts of the person whom a text means, by how they are written.
Known(t) == {u \in Text : Person[u] = Person[t] /\ contacts[u] > 0}

\* A poll makes a contact for a person who has one only where another call
\* made that one since the poll looked, and no index forbids two; or where
\* the contact service stored every one in a form that no lookup asks for.
\* However the poll's own item writes the address.
DuplicateNeedsOverlap ==
  [][\A k \in Pollers : \A t \in Text : Makes(k, t) =>
       \/ Known(t) = {}
       \/ k \in overtaken
       \/ \A u \in Known(t) : u # Person[u]]_mailVars

\* "Dedupe policy: 1. Exact normalized email match (within org)": a poll makes
\* no contact for a person who has one already, unless another call made it
\* since the poll looked.
MatchesNormalized ==
  [][\A k \in Pollers : \A t \in Text : Makes(k, t) => Known(t) = {} \/ k \in overtaken]_mailVars

=============================================================================
