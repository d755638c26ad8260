----------------------------- MODULE ListWalks -----------------------------
(***************************************************************************)
(* Lists that are read page by page while other requests write to them:    *)
(* the SDK's AutoPager over one entity list, and the merged search, which  *)
(* reads every page of several lists side by side and pages the result.    *)
(* A page is computed from all rows of the organization; its cursor is the *)
(* id of the last row it shows, looked up again in the next computation.   *)
(***************************************************************************)
EXTENDS Integers, FiniteSets

CONSTANTS
  Contacts, Deals,   \* the ids of the two lists, positive integers
  Moments,           \* values of updated_at, positive integers
  PageLimit,         \* the limit a client asks for
  FetchLimit,        \* MAX_LIST_LIMIT, the page of an inner list of a search
  MaxRowsPerType,    \* MAX_SEARCH_ROWS_PER_TYPE
  MaxTotalRows,      \* MAX_SEARCH_TOTAL_ROWS
  MaxWrites          \* bound of the model: writes while a client walks

ASSUME WalkAssumption ==
  /\ Contacts \cup Deals \subseteq Nat \ {0} /\ Contacts \cap Deals = {}
  /\ IsFiniteSet(Contacts \cup Deals)
  /\ Moments \subseteq Nat \ {0} /\ \E last \in Moments : \A m \in Moments : m <= last
  /\ PageLimit \in Nat \ {0} /\ FetchLimit \in Nat \ {0}
  /\ MaxRowsPerType \in Nat /\ MaxTotalRows \in Nat /\ MaxWrites \in Nat

Ids == Contacts \cup Deals
Types == {"contacts", "deals"}
IdsOf(t) == IF t = "contacts" THEN Contacts ELSE Deals
Gone == 0
None == 0

VARIABLES
  rows,     \* updated_at of each row, or Gone
  walk,     \* the client: what it lists, where it is, what it was shown
  fetch,    \* the lists a search is reading: rows so far, cursor, state
  kept,     \* rows that were there all the time since the walk began
  still,    \* rows nobody even updated since
  anchors,  \* rows a cursor of this walk was made of
  ever,     \* rows that were there at any time
  writes    \* writes so far

vars == <<rows, walk, fetch, kept, still, anchors, ever, writes>>

(***************************************************************************)
(* runArrayQuery: filter and search keep the rows, sort, cursor, page.     *)
(***************************************************************************)

(* Deals sort by updated_at, contacts by created_at, which never changes:  *)
(* their keys are equal here and the id decides.                           *)
DealKey(id) == rows[id]
ContactKey(id) == 0

Entry(t, id, page) == [id |-> id, updated |-> rows[id], page |-> page,
                       key |-> IF t = "contacts" THEN ContactKey(id) ELSE DealKey(id)]

KeyPrecedes(a, b) == a.key > b.key

(* The id breaks ties in the direction of the last sort, here descending;  *)
(* a row that is twice in a merged list keeps the order it was read in.    *)
Precedes(a, b) == \/ KeyPrecedes(a, b)
                  \/ a.key = b.key /\ a.id > b.id
                  \/ a.key = b.key /\ a.id = b.id /\ a.page < b.page

FirstOf(list, limit) == {e \in list : Cardinality({f \in list : Precedes(f, e)}) < limit}

(* A cursor names the last row of a page that is not the last page.        *)
CursorOf(data, ahead) ==
  IF data = ahead THEN None
  ELSE (CHOOSE e \in data : \A f \in data \ {e} : Precedes(f, e)).id

Finds(list, cursor) == cursor = None \/ \E e \in list : e.id = cursor

(* findIndex: what follows the first entry of the cursor's row. Mutant:    *)
(* the page starts with that row.                                          *)
AfterOrAt(list, cursor) ==
  IF cursor = None THEN list
  ELSE {e \in list : \E mark \in list : mark.id = cursor /\ (Precedes(mark, e) \/ mark = e)}

After(list, cursor) ==
  IF cursor = None THEN list
  ELSE {e \in list : \E mark \in list : mark.id = cursor /\ Precedes(mark, e)}

Page(list, cursor, limit) ==
  LET ahead == After(list, cursor)
      data == FirstOf(ahead, limit)
  IN [ok |-> Finds(list, cursor), data |-> data, next |-> CursorOf(data, ahead)]

ListPage(t, cursor, limit, page) ==
  Page({Entry(t, id, page) : id \in {i \in IdsOf(t) : rows[i] # Gone}}, cursor, limit)

(* The lists a search does not ask for count as read.                         *)
NoFetch == [state |-> "idle", cursor |-> None, pages |-> 0, read |-> {}]
StartFetch(asked) == [t \in Types |-> IF t \in asked THEN [NoFetch EXCEPT !.state = "reading"]
                                                     ELSE [NoFetch EXCEPT !.state = "read"]]

(***************************************************************************)
(* A client lists contacts or deals, or searches both lists or contacts    *)
(* only. Only the rows of the lists it asks for matter to it.              *)
(***************************************************************************)
Kinds == {<<"list", {"contacts"}>>, <<"list", {"deals"}>>,
          <<"search", Types>>, <<"search", {"contacts"}>>}

Asked == UNION {IdsOf(t) : t \in walk.asked}

Init ==
  /\ walk \in {[kind |-> k[1], asked |-> k[2], cursor |-> None, state |-> "walking",
                shown |-> [id \in Ids |-> 0]] : k \in Kinds}
  /\ rows \in {r \in [Ids -> Moments \cup {Gone}] : \A id \in Ids \ Asked : r[id] = Gone}
  /\ fetch = [t \in Types |-> NoFetch]
  /\ kept = {id \in Ids : rows[id] # Gone} /\ still = kept /\ ever = kept
  /\ anchors = {}
  /\ writes = 0

(* What the client keeps of a page: how often it saw each row (twice at    *)
(* most is counted), and the cursor it continues from.                     *)
Show(page) ==
  LET times(id) == walk.shown[id] + Cardinality({e \in page.data : e.id = id})
  IN walk' = [walk EXCEPT !.shown = [id \in Ids |-> IF times(id) > 2 THEN 2 ELSE times(id)],
                          !.cursor = page.next,
                          !.state = IF page.next = None THEN "done" ELSE "walking"]

Anchor(page) == anchors' = IF page.next = None THEN anchors ELSE anchors \cup {page.next}

Refuse(code) == walk' = [walk EXCEPT !.state = code]

Listing == walk.state = "walking" /\ walk.kind = "list"
Searching == walk.state = "walking" /\ walk.kind = "search"

(* AutoPager: the next page of one list.                                   *)
NextPage ==
  /\ Listing
  /\ \E t \in walk.asked : \E page \in {ListPage(t, walk.cursor, PageLimit, 0)} :
       \/ page.ok /\ Show(page) /\ Anchor(page)
       \/ ~page.ok /\ Refuse("INVALID_CURSOR") /\ UNCHANGED anchors
  /\ UNCHANGED <<rows, fetch, kept, still, ever, writes>>

(* A search request starts its lists anew, whatever its own cursor.        *)
Search ==
  /\ Searching /\ \A t \in Types : fetch[t].state = "idle"
  /\ fetch' = StartFetch(walk.asked)
  /\ UNCHANGED <<rows, walk, kept, still, anchors, ever, writes>>

(* fetchAllPages, after a page: on, at the end, or refused at the row cap. *)
FetchState(read, next) ==
  IF next = None THEN "read"
  ELSE IF Cardinality(read) >= MaxRowsPerType THEN "refused" ELSE "reading"

(* One page of one list; a list that fails fails the search.               *)
FetchPage(t) ==
  /\ Searching /\ fetch[t].state = "reading"
  /\ \E page \in {ListPage(t, fetch[t].cursor, FetchLimit, fetch[t].pages)} :
     \E read \in {fetch[t].read \cup page.data} :
       \/ /\ ~page.ok
          /\ Refuse("INVALID_CURSOR") /\ UNCHANGED <<fetch, anchors>>
       \/ /\ page.ok /\ FetchState(read, page.next) = "refused"
          /\ Refuse("TOO_LARGE") /\ UNCHANGED <<fetch, anchors>>
       \/ /\ page.ok /\ FetchState(read, page.next) # "refused"
          /\ fetch' = [fetch EXCEPT ![t] =
               [state |-> FetchState(read, page.next), cursor |-> page.next,
                pages |-> fetch[t].pages + 1, read |-> read]]
          /\ Anchor(page)
          /\ UNCHANGED walk
  /\ UNCHANGED <<rows, kept, still, ever, writes>>

(* The merged rows sort by the updated_at they were read with.             *)
Merged == {[e EXCEPT !.key = e.updated] : e \in fetch["contacts"].read \cup fetch["deals"].read}

Answer ==
  /\ Searching /\ \A t \in Types : fetch[t].state = "read"
  /\ \E page \in {Page(Merged, walk.cursor, PageLimit)} :
       \/ /\ Cardinality(Merged) > MaxTotalRows
          /\ Refuse("TOO_LARGE") /\ UNCHANGED anchors
       \/ /\ Cardinality(Merged) <= MaxTotalRows /\ ~page.ok
          /\ Refuse("INVALID_CURSOR") /\ UNCHANGED anchors
       \/ /\ Cardinality(Merged) <= MaxTotalRows /\ page.ok
          /\ Show(page) /\ Anchor(page)
  /\ fetch' = [t \in Types |-> NoFetch]
  /\ UNCHANGED <<rows, kept, still, ever, writes>>

(* Other requests create, update and delete rows; updated_at is the time   *)
(* of the write, and an id is not used again.                              *)
Now == CHOOSE moment \in Moments : \A m \in Moments : m <= moment

Write ==
  /\ writes < MaxWrites /\ walk.state = "walking"
  /\ \E id \in Asked, moment \in {Now, Gone} :
       /\ rows[id] # moment
       /\ id \in ever => rows[id] # Gone
       /\ rows' = [rows EXCEPT ![id] = moment]
       /\ kept' = IF moment = Gone THEN kept \ {id} ELSE kept
       /\ still' = still \ {id}
       /\ ever' = ever \cup {id}
  /\ writes' = writes + 1
  /\ UNCHANGED <<walk, fetch, anchors>>

Reading == NextPage \/ Search \/ (\E t \in Types : FetchPage(t)) \/ Answer

Next == Reading \/ Write

(* A client that walks asks for the next page, and a request is answered.  *)
Spec == Init /\ [][Next]_vars /\ WF_vars(Reading)

-----------------------------------------------------------------------------
Entries == [id : Ids, updated : Moments, page : 0..Cardinality(Ids) + MaxWrites,
            key : Moments \cup {0}]

(* TypeOK: rows, walks and fetched lists have their shapes.                *)
TypeOK ==
  /\ rows \in [Ids -> Moments \cup {Gone}]
  /\ walk \in [kind : {"list", "search"}, asked : SUBSET Types, cursor : Ids \cup {None},
               state : {"walking", "done", "INVALID_CURSOR", "TOO_LARGE"}, shown : [Ids -> 0..2]]
  /\ \A t \in Types : /\ fetch[t].state \in {"idle", "reading", "read"}
                      /\ fetch[t].cursor \in Ids \cup {None}
                      /\ fetch[t].read \subseteq Entries
  /\ still \subseteq kept /\ kept \subseteq ever /\ ever \subseteq Ids /\ anchors \subseteq Ids

(* Every row of the lists asked for, of the given ones, was shown once.    *)
EachShownOnce(given) == \A t \in walk.asked, id \in given :
                          id \in IdsOf(t) => walk.shown[id] = 1

(* A list in the order of creation that was read to its end showed every   *)
(* row that was there all the time exactly once, whatever was created,     *)
(* updated or deleted meanwhile: a cursor whose row is deleted ends the    *)
(* walk with INVALID_CURSOR and never with a gap. A list in the order of   *)
(* updates, and a merged search, promise this only for rows nobody         *)
(* updated, and only while the rows their cursors name were not updated    *)
(* either; a search the row limits cut short never passes for a complete   *)
(* one (search-service.ts, fetchAllPages).                                 *)
FinishedWalkIsExact ==
  walk.state = "done" =>
    /\ walk.kind = "list" /\ walk.asked = {"contacts"} => EachShownOnce(kept)
    /\ anchors \subseteq still => EachShownOnce(still)

(* Once the list is left alone every walk ends, with its last page or with *)
(* an error.                                                               *)
WalkEnds == <>(walk.state # "walking")

=============================================================================
