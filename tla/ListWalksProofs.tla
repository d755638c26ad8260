-------------------------- MODULE ListWalksProofs --------------------------
(* Theorems of ListWalks, for lists and pages of any size, any limits of a *)
(* search and any writes between the pages.                                *)
EXTENDS ListWalks, NaturalExtremes, FiniteSetTheorems

-----------------------------------------------------------------------------
(* Lists.  Entries are ordered by key, id and page; no list has two of one *)
(* row and one page.                                                       *)

EntryType == [id : Ids, updated : Moments, page : Nat, key : Moments \cup {0}]

IsList(L) ==
  /\ L \subseteq EntryType /\ IsFiniteSet(L)
  /\ \A e, f \in L : e.id = f.id /\ e.page = f.page => e = f

LEMMA EntryFields ==
  ASSUME NEW e \in EntryType
  PROVE  /\ e.id \in Nat /\ e.id # None /\ e.page \in Nat /\ e.key \in Nat /\ e.id \in Ids
         /\ e.updated \in Moments /\ e.updated \in Nat
<1>1. e.id \in Ids /\ e.page \in Nat /\ e.key \in Moments \cup {0} /\ e.updated \in Moments
  BY DEF EntryType
<1>2. /\ \A i \in Ids : i \in Nat /\ i # 0
      /\ \A m \in Moments : m \in Nat
  BY WalkAssumption DEF Ids
<1>3. e.id \in Nat /\ e.id # 0
  BY <1>1, <1>2
<1>4. e.key \in Nat /\ e.updated \in Nat
  BY <1>1, <1>2
<1> QED
  BY <1>1, <1>3, <1>4 DEF None

LEMMA SubList == ASSUME NEW L, IsList(L), NEW M, M \subseteq L PROVE IsList(M)
<1>1. IsFiniteSet(M)
  BY FS_Subset DEF IsList
<1> QED
  BY <1>1 DEF IsList

(* Precedes is a strict total order on a list.                             *)
LEMMA Orders ==
  ASSUME NEW L, IsList(L)
  PROVE  /\ \A e \in L : ~Precedes(e, e)
         /\ \A e, f \in L : e # f => Precedes(e, f) \/ Precedes(f, e)
         /\ \A e, f, g \in L : Precedes(e, f) /\ Precedes(f, g) => Precedes(e, g)
         /\ \A e, f \in L : Precedes(e, f) => ~Precedes(f, e)
<1>1. \A e \in L : e.id \in Nat /\ e.page \in Nat /\ e.key \in Nat
  BY EntryFields DEF IsList
<1>2. \A e, f \in L : e.id = f.id /\ e.page = f.page => e = f
  BY DEF IsList
<1>3. \A e, f \in L : e # f => Precedes(e, f) \/ Precedes(f, e)
  BY <1>1, <1>2 DEF Precedes, KeyPrecedes
<1>4. \A e, f, g \in L : Precedes(e, f) /\ Precedes(f, g) => Precedes(e, g)
  BY <1>1 DEF Precedes, KeyPrecedes
<1>5. \A e \in L : ~Precedes(e, e)
  BY <1>1 DEF Precedes, KeyPrecedes
<1> QED
  BY <1>3, <1>4, <1>5

Ahead(L, e) == {f \in L : Precedes(f, e)}

LEMMA AheadGrows ==
  ASSUME NEW L, IsList(L), NEW e \in L, NEW f \in L, Precedes(e, f)
  PROVE  /\ Cardinality(Ahead(L, e)) \in Nat /\ Cardinality(Ahead(L, f)) \in Nat
         /\ Cardinality(Ahead(L, e)) < Cardinality(Ahead(L, f))
<1>1. Ahead(L, e) \subseteq Ahead(L, f) /\ e \in Ahead(L, f) /\ e \notin Ahead(L, e)
  BY Orders DEF Ahead
<1>2. Ahead(L, f) \subseteq L
  BY DEF Ahead
<1>3. IsFiniteSet(Ahead(L, f))
  BY <1>2, FS_Subset DEF IsList
<1>4. IsFiniteSet(Ahead(L, e)) /\ Cardinality(Ahead(L, e)) <= Cardinality(Ahead(L, f))
      /\ (Cardinality(Ahead(L, f)) = Cardinality(Ahead(L, e)) => Ahead(L, f) = Ahead(L, e))
  BY <1>1, <1>3, FS_Subset
<1> QED
  BY <1>1, <1>3, <1>4, FS_CardinalityType

LEMMA AheadCounts ==
  ASSUME NEW L, IsList(L), NEW e \in L
  PROVE  Cardinality(Ahead(L, e)) \in Nat /\ Cardinality(Ahead(L, e)) <= Cardinality(L)
         /\ Cardinality(L) \in Nat
<1>1. Ahead(L, e) \in SUBSET L /\ IsFiniteSet(L)
  BY DEF Ahead, IsList
<1>2. IsFiniteSet(Ahead(L, e)) /\ Cardinality(Ahead(L, e)) <= Cardinality(L)
  BY <1>1, FS_Subset
<1> QED
  BY <1>1, <1>2, FS_CardinalityType

LEMMA FirstEntry ==
  ASSUME NEW L, IsList(L), L # {}
  PROVE  \E e \in L : Ahead(L, e) = {}
<1> DEFINE Count == {Cardinality(Ahead(L, e)) : e \in L}
<1>1. Count \subseteq Nat /\ Count # {}
  BY AheadCounts
<1>2. PICK m \in Count : \A n \in Count : m <= n
  <2> HIDE DEF Count
  <2> QED
    BY <1>1, LeastOf
<1>3. PICK e \in L : m = Cardinality(Ahead(L, e))
  OBVIOUS
<1>4. ASSUME NEW f \in L, Precedes(f, e) PROVE FALSE
  <2>1. Cardinality(Ahead(L, f)) < m /\ Cardinality(Ahead(L, f)) \in Nat /\ m \in Nat
    BY <1>3, <1>4, AheadGrows
  <2>2. m <= Cardinality(Ahead(L, f))
    BY <1>2
  <2> QED
    BY <2>1, <2>2
<1> QED
  BY <1>4 DEF Ahead

LEMMA LastEntry ==
  ASSUME NEW L, IsList(L), L # {}
  PROVE  \E e \in L : \A f \in L \ {e} : Precedes(f, e)
<1> DEFINE Count == {Cardinality(Ahead(L, e)) : e \in L}
<1>1. Count \subseteq Nat /\ Count # {} /\ Cardinality(L) \in Nat
      /\ \A n \in Count : n <= Cardinality(L)
  BY AheadCounts
<1>2. PICK m \in Count : \A n \in Count : n <= m
  <2> HIDE DEF Count
  <2> QED
    BY <1>1, GreatestOf
<1>3. PICK e \in L : m = Cardinality(Ahead(L, e))
  OBVIOUS
<1>4. ASSUME NEW f \in L \ {e}, ~Precedes(f, e) PROVE FALSE
  <2>1. Precedes(e, f)
    BY <1>4, Orders
  <2>2. m < Cardinality(Ahead(L, f)) /\ Cardinality(Ahead(L, f)) \in Nat /\ m \in Nat
    BY <1>3, <2>1, AheadGrows
  <2>3. Cardinality(Ahead(L, f)) <= m
    BY <1>2
  <2> QED
    BY <2>2, <2>3
<1> QED
  BY <1>4

-----------------------------------------------------------------------------
(* Pages.  A page is the rows after the cursor up to its last one, or all  *)
(* of them when no cursor follows.                                         *)

LEMMA AfterIn == ASSUME NEW L, NEW c PROVE After(L, c) \subseteq L
BY DEF After

LEMMA FirstOfIs ==
  ASSUME NEW L, IsList(L), NEW limit \in Nat \ {0}
  PROVE  /\ FirstOf(L, limit) \subseteq L
         /\ L # {} => FirstOf(L, limit) # {}
         /\ \A e \in FirstOf(L, limit), f \in L : Precedes(f, e) => f \in FirstOf(L, limit)
<1>1. FirstOf(L, limit) = {e \in L : Cardinality(Ahead(L, e)) < limit}
  BY DEF FirstOf, Ahead
<1>2. ASSUME L # {} PROVE FirstOf(L, limit) # {}
  <2>1. PICK e \in L : Ahead(L, e) = {}
    BY <1>2, FirstEntry
  <2>2. Cardinality(Ahead(L, e)) = 0
    BY <2>1, FS_EmptySet
  <2> QED
    BY <1>1, <2>2
<1>3. ASSUME NEW e \in FirstOf(L, limit), NEW f \in L, Precedes(f, e)
      PROVE  f \in FirstOf(L, limit)
  <2>1. e \in L /\ Cardinality(Ahead(L, e)) < limit
    BY <1>1, <1>3
  <2>2. Cardinality(Ahead(L, f)) < Cardinality(Ahead(L, e))
        /\ Cardinality(Ahead(L, f)) \in Nat /\ Cardinality(Ahead(L, e)) \in Nat
    BY <1>3, <2>1, AheadGrows
  <2> QED
    BY <1>1, <2>1, <2>2
<1> QED
  BY <1>1, <1>2, <1>3

LEMMA PageIs ==
  ASSUME NEW L, IsList(L), NEW c, NEW limit \in Nat \ {0}
  PROVE  /\ Page(L, c, limit).data \subseteq After(L, c)
         /\ Page(L, c, limit).ok <=> Finds(L, c)
         /\ \/ Page(L, c, limit).next = None /\ Page(L, c, limit).data = After(L, c)
            \/ /\ Page(L, c, limit).next # None
               /\ \E last \in After(L, c) :
                    /\ Page(L, c, limit).next = last.id
                    /\ Page(L, c, limit).data = {f \in After(L, c) : f = last \/ Precedes(f, last)}
<1> DEFINE A == After(L, c)
           D == FirstOf(A, limit)
<1>1. IsList(A)
  BY AfterIn, SubList
<1>2. /\ Page(L, c, limit).data = D /\ Page(L, c, limit).next = CursorOf(D, A)
      /\ Page(L, c, limit).ok = Finds(L, c)
  BY DEF Page
<1> HIDE DEF A
<1>3. /\ D \subseteq A /\ (A # {} => D # {})
      /\ \A e \in D, f \in A : Precedes(f, e) => f \in D
  BY <1>1, FirstOfIs
<1> HIDE DEF D
<1>4. CASE D = A
  BY <1>2, <1>4 DEF CursorOf, A
<1>5. CASE D # A
  <2>1. D # {} /\ IsList(D)
    BY <1>1, <1>3, <1>5, SubList
  <2> DEFINE last == CHOOSE e \in D : \A f \in D \ {e} : Precedes(f, e)
  <2>2. last \in D /\ \A f \in D \ {last} : Precedes(f, last)
    BY <2>1, LastEntry
  <2>3. CursorOf(D, A) = last.id
    BY <1>5 DEF CursorOf
  <2> HIDE DEF last
  <2>4. last.id # None
    BY <1>1, <1>3, <2>2, EntryFields DEF IsList
  <2>5. D = {f \in A : f = last \/ Precedes(f, last)}
    BY <1>3, <2>2
  <2> QED
    BY <1>2, <1>3, <2>2, <2>3, <2>4, <2>5 DEF A
<1> QED
  BY <1>4, <1>5

-----------------------------------------------------------------------------
(* Places.  What a page shows of a row that stands once in the list, after *)
(* a cursor whose row stands once: the rows that the cursor has not        *)
(* reached and the next one has.  A merged list is ordered as the deals.   *)

KeyOf(t, id) == IF t = "contacts" THEN ContactKey(id) ELSE DealKey(id)
Leads(t, c, g) == KeyOf(t, c) > KeyOf(t, g) \/ (KeyOf(t, c) = KeyOf(t, g) /\ c > g)
Reached(t, c, g) == c # None /\ ~Leads(t, c, g)

Stands(L, t, id) == \E e \in L : /\ e.id = id /\ e.key = KeyOf(t, id)
                                 /\ \A f \in L : f.id = id => f = e
Missing(L, id) == \A e \in L : e.id # id

LEMMA PlacesAgree ==
  ASSUME NEW L, IsList(L), NEW t, NEW e \in L, NEW f \in L,
         e.key = KeyOf(t, e.id), f.key = KeyOf(t, f.id), e.id # f.id
  PROVE  Precedes(e, f) <=> Leads(t, e.id, f.id)
<1>1. e.id \in Nat /\ f.id \in Nat /\ e.key \in Nat /\ f.key \in Nat
  BY EntryFields DEF IsList
<1> QED
  BY <1>1 DEF Precedes, KeyPrecedes, Leads

LEMMA PageShows ==
  ASSUME NEW L, IsList(L), NEW t, NEW c, NEW limit \in Nat \ {0}, NEW g,
         Stands(L, t, g), c # None => Stands(L, t, c),
         NEW next, next = Page(L, c, limit).next, next # None => Stands(L, t, next),
         NEW data, data = Page(L, c, limit).data
  PROVE  /\ Reached(t, c, g) => Missing(data, g) /\ (next # None => Reached(t, next, g))
         /\ ~Reached(t, c, g) /\ (next = None \/ Reached(t, next, g)) => Stands(data, t, g)
         /\ ~Reached(t, c, g) /\ next # None /\ ~Reached(t, next, g) => Missing(data, g)
<1>1. PICK e \in L : e.id = g /\ e.key = KeyOf(t, g) /\ \A f \in L : f.id = g => f = e
  BY DEF Stands
<1>2. ~Leads(t, g, g)
  <2>1. g \in Nat /\ KeyOf(t, g) \in Nat
    BY <1>1, EntryFields DEF IsList
  <2> QED
    BY <2>1 DEF Leads
<1>3. e \in After(L, c) <=> ~Reached(t, c, g)
  <2>1. CASE c = None
    BY <1>1, <2>1 DEF After, Reached
  <2>2. CASE c # None
    <3>1. PICK mark \in L : mark.id = c /\ mark.key = KeyOf(t, c)
                            /\ \A f \in L : f.id = c => f = mark
      BY <2>2 DEF Stands
    <3>2. e \in After(L, c) <=> Precedes(mark, e)
      BY <1>1, <2>2, <3>1 DEF After
    <3>3. CASE c = g
      <4>1. mark = e
        BY <1>1, <3>1, <3>3
      <4> QED
        BY <1>2, <2>2, <3>2, <3>3, <4>1, Orders DEF Reached
    <3>4. CASE c # g
      <4>1. Precedes(mark, e) <=> Leads(t, c, g)
        BY <1>1, <3>1, <3>4, PlacesAgree
      <4> QED
        BY <2>2, <3>2, <4>1 DEF Reached
    <3> QED
      BY <3>3, <3>4
  <2> QED
    BY <2>1, <2>2
<1>4. data \subseteq After(L, c) /\ After(L, c) \subseteq L
  BY PageIs, AfterIn
<1>5. e \in data => Stands(data, t, g)
  BY <1>1, <1>4 DEF Stands
<1>6. e \notin data => Missing(data, g)
  BY <1>1, <1>4 DEF Missing
<1>7. CASE next = None
  <2>1. data = After(L, c)
    BY <1>7, PageIs
  <2> QED
    BY <1>3, <1>5, <1>6, <1>7, <2>1
<1>8. CASE next # None
  <2>1. PICK last \in After(L, c) :
          /\ next = last.id
          /\ data = {f \in After(L, c) : f = last \/ Precedes(f, last)}
    BY <1>8, PageIs
  <2>2. last \in L /\ last.key = KeyOf(t, next)
    BY <1>4, <1>8, <2>1 DEF Stands
  <2>3. Precedes(e, last) \/ e = last <=> Reached(t, next, g)
    <3>1. CASE e = last
      BY <1>1, <1>2, <1>8, <2>1, <3>1 DEF Reached
    <3>2. CASE e # last
      <4>1. g # next
        BY <1>1, <2>1, <2>2, <3>2
      <4>2. Precedes(last, e) <=> Leads(t, next, g)
        BY <1>1, <2>1, <2>2, <4>1, PlacesAgree
      <4> QED
        BY <1>1, <1>8, <2>2, <3>2, <4>2, Orders DEF Reached
    <3> QED
      BY <3>1, <3>2
  <2>4. ASSUME Reached(t, c, g) PROVE Reached(t, next, g)
    <3>1. e \notin After(L, c)
      BY <1>3, <2>4
    <3>2. ~Precedes(last, e)
      <4>1. CASE c = None
        BY <2>4, <4>1 DEF Reached
      <4>2. CASE c # None
        <5>1. PICK mark \in L : mark.id = c /\ Precedes(mark, last)
          BY <2>1, <4>2 DEF After
        <5>2. Precedes(last, e) => Precedes(mark, e)
          BY <1>1, <2>2, <5>1, Orders
        <5> QED
          BY <1>1, <3>1, <4>2, <5>1, <5>2 DEF After
      <4> QED
        BY <4>1, <4>2
    <3> QED
      BY <1>1, <2>1, <2>2, <2>3, <3>1, <3>2, Orders
  <2> QED
    BY <1>3, <1>5, <1>6, <1>8, <2>1, <2>3, <2>4
<1> QED
  BY <1>7, <1>8

-----------------------------------------------------------------------------
(* Types.  What was read of a list by pages is a list again: the pages are *)
(* numbered.  Rows that were kept are there; what is not asked for is not. *)

WalkType == [kind : {"list", "search"}, asked : SUBSET Types, cursor : Ids \cup {None},
             state : {"walking", "done", "INVALID_CURSOR", "TOO_LARGE"}, shown : [Ids -> 0..2]]
FetchType == [state : {"idle", "reading", "read"}, cursor : Ids \cup {None}, pages : Nat,
              read : SUBSET EntryType]

ReadSoFar(t, f) ==
  /\ IsList(f.read)
  /\ \A e \in f.read : e.id \in IdsOf(t) /\ e.page < f.pages

Typed ==
  /\ rows \in [Ids -> Moments \cup {Gone}]
  /\ walk \in WalkType
  /\ walk.kind = "list" => \E t \in Types : walk.asked = {t}
  /\ fetch \in [Types -> FetchType] /\ \A t \in Types : ReadSoFar(t, fetch[t])
  /\ still \subseteq kept /\ kept \subseteq Ids /\ \A id \in kept : rows[id] # Gone
  /\ \A id \in Ids \ Asked : rows[id] = Gone

LEMMA NoList == IsList({})
BY FS_EmptySet DEF IsList

LEMMA NoFetchTyped ==
  ASSUME NEW t, NEW s \in {"idle", "reading", "read"}
  PROVE  /\ [NoFetch EXCEPT !.state = s] \in FetchType
         /\ ReadSoFar(t, [NoFetch EXCEPT !.state = s])
BY NoList DEF NoFetch, FetchType, ReadSoFar, None

LEMMA IdsAre == ASSUME NEW t \in Types PROVE IdsOf(t) \subseteq Ids /\ IsFiniteSet(IdsOf(t))
                                             /\ \A id \in IdsOf(t), u \in Types : id \in IdsOf(u) => u = t
<1>1. IdsOf(t) \subseteq Ids
  BY DEF IdsOf, Ids
<1>2. IsFiniteSet(IdsOf(t))
  BY <1>1, WalkAssumption, FS_Subset DEF Ids
<1> QED
  BY <1>1, <1>2, WalkAssumption DEF IdsOf, Types

Rows(t, page) == {Entry(t, id, page) : id \in {i \in IdsOf(t) : rows[i] # Gone}}

LEMMA EntryIs ==
  ASSUME Typed, NEW t \in Types, NEW page \in Nat, NEW id \in IdsOf(t), rows[id] # Gone
  PROVE  /\ Entry(t, id, page) \in EntryType /\ Entry(t, id, page).id = id
         /\ Entry(t, id, page).page = page /\ Entry(t, id, page).updated = rows[id]
         /\ Entry(t, id, page).key = KeyOf(t, id)
<1>1. id \in Ids /\ rows[id] \in Moments
  BY IdsAre DEF Typed
<1> QED
  BY <1>1 DEF Entry, EntryType, KeyOf, DealKey, ContactKey

LEMMA RowsAre ==
  ASSUME Typed, NEW t \in Types, NEW page \in Nat
  PROVE  /\ IsList(Rows(t, page))
         /\ \A e \in Rows(t, page) : e.id \in IdsOf(t) /\ e.page = page /\ e.updated = rows[e.id]
         /\ \A id \in IdsOf(t) : rows[id] # Gone => Stands(Rows(t, page), t, id)
         /\ \A e \in Rows(t, page) : Stands(Rows(t, page), t, e.id)
<1> DEFINE There == {i \in IdsOf(t) : rows[i] # Gone}
<1>1. \A e \in Rows(t, page) : \E id \in There : e = Entry(t, id, page)
  BY DEF Rows
<1>2. \A id \in There : Entry(t, id, page) \in Rows(t, page)
  BY DEF Rows
<1>3. \A e \in Rows(t, page) : e \in EntryType /\ e.id \in There /\ e = Entry(t, e.id, page)
                               /\ e.page = page /\ e.updated = rows[e.id] /\ e.key = KeyOf(t, e.id)
  BY <1>1, EntryIs
<1>4. IsFiniteSet(Rows(t, page))
  <2> DEFINE f == [id \in There |-> Entry(t, id, page)]
  <2>1. f \in Surjection(There, Rows(t, page))
    BY <1>1, <1>2 DEF Surjection
  <2>2. IsFiniteSet(There)
    BY IdsAre, FS_Subset
  <2> HIDE DEF f
  <2> QED
    BY <2>1, <2>2, FS_Surjection
<1>5. IsList(Rows(t, page))
  BY <1>3, <1>4 DEF IsList
<1>6. ASSUME NEW id \in There PROVE Stands(Rows(t, page), t, id)
  BY <1>2, <1>3, <1>6, EntryIs DEF Stands
<1> QED
  BY <1>3, <1>5, <1>6

(* A page of a list is a list, and its cursor an id.                       *)
LEMMA PageTyped ==
  ASSUME NEW L, IsList(L), NEW c, NEW limit \in Nat \ {0}
  PROVE  /\ Page(L, c, limit).next \in Ids \cup {None}
         /\ IsList(Page(L, c, limit).data) /\ Page(L, c, limit).data \subseteq L
         /\ Page(L, c, limit).next # None => \E e \in L : e.id = Page(L, c, limit).next
<1>1. Page(L, c, limit).data \subseteq L
  BY PageIs, AfterIn
<1>2. IsList(Page(L, c, limit).data)
  BY <1>1, SubList
<1>3. CASE Page(L, c, limit).next = None
  BY <1>1, <1>2, <1>3
<1>4. CASE Page(L, c, limit).next # None
  <2>1. PICK last \in After(L, c) : Page(L, c, limit).next = last.id
    BY <1>4, PageIs
  <2>2. last \in L /\ last.id \in Ids
    BY <2>1, AfterIn, EntryFields DEF IsList
  <2> QED
    BY <1>1, <1>2, <2>1, <2>2
<1> QED
  BY <1>3, <1>4

LEMMA Counted ==
  ASSUME NEW D, IsList(D), NEW g
  PROVE  /\ Cardinality({e \in D : e.id = g}) \in Nat
         /\ Missing(D, g) => Cardinality({e \in D : e.id = g}) = 0
         /\ \A t : Stands(D, t, g) => Cardinality({e \in D : e.id = g}) = 1
<1>1. IsFiniteSet({e \in D : e.id = g})
  BY FS_Subset DEF IsList
<1>2. Missing(D, g) => {e \in D : e.id = g} = {}
  BY DEF Missing
<1>3. ASSUME NEW t, Stands(D, t, g) PROVE \E e : {f \in D : f.id = g} = {e}
  BY <1>3 DEF Stands
<1> QED
  BY <1>1, <1>2, <1>3, FS_CardinalityType, FS_EmptySet, FS_Singleton

LEMMA ShowIs ==
  ASSUME Typed, NEW page, Show(page), IsList(page.data), page.next \in Ids \cup {None}
  PROVE  /\ walk' \in WalkType /\ walk'.kind = walk.kind /\ walk'.asked = walk.asked
         /\ walk'.cursor = page.next
         /\ walk'.state = IF page.next = None THEN "done" ELSE "walking"
         /\ \A g \in Ids : Missing(page.data, g) => walk'.shown[g] = walk.shown[g]
         /\ \A g \in Ids : \A t : Stands(page.data, t, g) /\ walk.shown[g] = 0 => walk'.shown[g] = 1
<1> DEFINE count(id) == Cardinality({e \in page.data : e.id = id})
           times(id) == walk.shown[id] + count(id)
           shown == [id \in Ids |-> IF times(id) > 2 THEN 2 ELSE times(id)]
<1>1. /\ walk' = [walk EXCEPT !.shown = shown, !.cursor = page.next,
                              !.state = IF page.next = None THEN "done" ELSE "walking"]
      /\ walk \in WalkType
  BY DEF Show, Typed
<1>2. \A id \in Ids : /\ count(id) \in Nat /\ walk.shown[id] \in 0..2
                      /\ Missing(page.data, id) => count(id) = 0
                      /\ \A t : Stands(page.data, t, id) => count(id) = 1
  BY Counted, <1>1 DEF WalkType
<1> HIDE DEF count
<1>3. shown \in [Ids -> 0..2]
  BY <1>2
<1>4. walk' \in WalkType /\ walk'.kind = walk.kind /\ walk'.asked = walk.asked
      /\ walk'.cursor = page.next /\ walk'.shown = shown
      /\ walk'.state = IF page.next = None THEN "done" ELSE "walking"
  <2> HIDE DEF shown
  <2> QED
    BY <1>1, <1>3 DEF WalkType
<1>5. ASSUME NEW g \in Ids, Missing(page.data, g) PROVE walk'.shown[g] = walk.shown[g]
  BY <1>2, <1>4, <1>5
<1>6. ASSUME NEW g \in Ids, NEW t, Stands(page.data, t, g), walk.shown[g] = 0
      PROVE  walk'.shown[g] = 1
  BY <1>2, <1>4, <1>6
<1> QED
  BY <1>4, <1>5, <1>6

LEMMA UnionIsList ==
  ASSUME NEW L, IsList(L), NEW M, IsList(M), \A e \in L, f \in M : ~(e.id = f.id /\ e.page = f.page)
  PROVE  IsList(L \cup M)
<1>1. IsFiniteSet(L \cup M)
  BY FS_Union DEF IsList
<1> QED
  BY <1>1 DEF IsList

(* The row was read once, with the time of its last update.                *)
Held(t, g) == \E e \in fetch[t].read : /\ e.id = g /\ e.updated = rows[g]
                                       /\ \A f \in fetch[t].read : f.id = g => f = e

LEMMA MergedIs ==
  ASSUME Typed
  PROVE  /\ IsList(Merged)
         /\ \A t \in Types : \A g \in IdsOf(t) : Held(t, g) => Stands(Merged, "deals", g)
<1> DEFINE B == fetch["contacts"].read \cup fetch["deals"].read
           m(e) == [e EXCEPT !.key = e.updated]
<1>1. ReadSoFar("contacts", fetch["contacts"]) /\ ReadSoFar("deals", fetch["deals"])
  BY DEF Typed, Types
<1>2. \A e \in fetch["contacts"].read, f \in fetch["deals"].read : e.id # f.id
  BY <1>1, WalkAssumption DEF ReadSoFar, IdsOf
<1>3. IsList(B)
  BY <1>1, <1>2, UnionIsList DEF ReadSoFar
<1>4. Merged = {m(e) : e \in B}
  BY DEF Merged
<1>b. \A t \in Types : \A g \in IdsOf(t) : \A f \in B : f.id = g => f \in fetch[t].read
  BY <1>1, IdsAre DEF ReadSoFar, Types
<1>c. \A t \in Types : fetch[t].read \subseteq B
  BY DEF Types
<1> HIDE DEF B
<1>5. \A e \in B : /\ m(e) \in EntryType /\ m(e).id = e.id /\ m(e).page = e.page
                   /\ m(e).key = e.updated /\ m(e).updated = e.updated
  BY <1>3 DEF IsList, EntryType
<1> HIDE DEF m
<1>6. IsFiniteSet(Merged)
  <2> DEFINE f == [e \in B |-> m(e)]
  <2>1. f \in Surjection(B, Merged)
    BY <1>4 DEF Surjection
  <2> HIDE DEF f
  <2> QED
    BY <1>3, <2>1, FS_Surjection DEF IsList
<1>7. IsList(Merged)
  BY <1>3, <1>4, <1>5, <1>6 DEF IsList
<1>8. ASSUME NEW t \in Types, NEW g \in IdsOf(t), Held(t, g) PROVE Stands(Merged, "deals", g)
  <2>1. PICK e \in fetch[t].read : /\ e.id = g /\ e.updated = rows[g]
                                   /\ \A f \in fetch[t].read : f.id = g => f = e
    BY <1>8 DEF Held
  <2>2. e \in B /\ \A f \in B : f.id = g => f = e
    BY <1>b, <1>c, <2>1
  <2>3. \A f \in Merged : f.id = g => f = m(e)
    BY <1>4, <1>5, <2>2
  <2>4. m(e) \in Merged /\ m(e).id = g /\ m(e).key = KeyOf("deals", g)
    BY <1>4, <1>5, <2>1, <2>2 DEF KeyOf, DealKey
  <2> QED
    BY <2>3, <2>4 DEF Stands
<1> QED
  BY <1>7, <1>8

LEMMA TypedInit == Init => Typed
<1> SUFFICES ASSUME Init PROVE Typed
  OBVIOUS
<1>1. \A t \in Types : fetch[t] = NoFetch /\ NoFetch \in FetchType /\ ReadSoFar(t, NoFetch)
  BY NoList DEF Init, NoFetch, FetchType, ReadSoFar, None
<1>2. fetch \in [Types -> FetchType]
  BY <1>1 DEF Init
<1>3. walk \in WalkType /\ (walk.kind = "list" => \E t \in Types : walk.asked = {t})
  <2>1. PICK k \in Kinds : walk = [kind |-> k[1], asked |-> k[2], cursor |-> None,
                                   state |-> "walking", shown |-> [id \in Ids |-> 0]]
    BY DEF Init
  <2>2. /\ k[1] \in {"list", "search"} /\ k[2] \subseteq Types
        /\ k[1] = "list" => \E t \in Types : k[2] = {t}
    BY DEF Kinds, Types
  <2> QED
    BY <2>1, <2>2 DEF WalkType, None
<1>4. rows \in [Ids -> Moments \cup {Gone}] /\ \A id \in Ids \ Asked : rows[id] = Gone
  BY DEF Init
<1> QED
  BY <1>1, <1>2, <1>3, <1>4 DEF Typed, Init

LEMMA NowIs == Now \in Moments
BY WalkAssumption DEF Now

LEMMA AskedStays == ASSUME walk'.asked = walk.asked PROVE Asked' = Asked
BY DEF Asked

LEMMA RefuseTyped ==
  ASSUME Typed, NEW code \in {"INVALID_CURSOR", "TOO_LARGE"}, Refuse(code)
  PROVE  walk' \in WalkType /\ walk'.kind = walk.kind /\ walk'.asked = walk.asked
         /\ walk'.state = code
BY DEF Refuse, Typed, WalkType

LEMMA TypedReads ==
  ASSUME Typed, UNCHANGED <<rows, kept, still>>, walk' \in WalkType,
         walk'.kind = walk.kind, walk'.asked = walk.asked,
         fetch' \in [Types -> FetchType], \A t \in Types : ReadSoFar(t, fetch'[t])
  PROVE  Typed'
BY AskedStays DEF Typed

LEMMA NextPageTyped == ASSUME Typed, NextPage PROVE Typed'
<1>1. PICK t \in walk.asked : \E page \in {ListPage(t, walk.cursor, PageLimit, 0)} :
       \/ page.ok /\ Show(page) /\ Anchor(page)
       \/ ~page.ok /\ Refuse("INVALID_CURSOR") /\ UNCHANGED anchors
  BY DEF NextPage
<1> DEFINE page == ListPage(t, walk.cursor, PageLimit, 0)
<1>2. page = Page(Rows(t, 0), walk.cursor, PageLimit)
  BY DEF ListPage, Rows
<1>3. t \in Types
  BY DEF Typed, WalkType
<1>4. IsList(Rows(t, 0))
  BY <1>3, RowsAre
<1>5. IsList(page.data) /\ page.next \in Ids \cup {None}
  BY <1>2, <1>4, PageTyped, WalkAssumption
<1> HIDE DEF page
<1>6. Show(page) \/ Refuse("INVALID_CURSOR")
  BY <1>1 DEF page
<1>7. walk' \in WalkType /\ walk'.kind = walk.kind /\ walk'.asked = walk.asked
  BY <1>5, <1>6, ShowIs, RefuseTyped
<1>8. UNCHANGED <<rows, fetch, kept, still>>
  BY DEF NextPage
<1> QED
  BY <1>7, <1>8, TypedReads DEF Typed

LEMMA SearchTyped == ASSUME Typed, Search PROVE Typed'
<1>1. fetch' = StartFetch(walk.asked) /\ UNCHANGED <<rows, walk, kept, still>>
  BY DEF Search
<1>2. \A t \in Types : fetch'[t] \in FetchType /\ ReadSoFar(t, fetch'[t])
  BY <1>1, NoFetchTyped DEF StartFetch
<1>3. fetch' \in [Types -> FetchType]
  BY <1>1, <1>2 DEF StartFetch
<1> QED
  BY <1>1, <1>2, <1>3, TypedReads DEF Typed

(* A page that a list of a search goes on with.                            *)
Fetched(t, page) == [state |-> FetchState(fetch[t].read \cup page.data, page.next),
                     cursor |-> page.next, pages |-> fetch[t].pages + 1,
                     read |-> fetch[t].read \cup page.data]

LEMMA FetchedTyped ==
  ASSUME Typed, NEW t \in Types,
         NEW page, page = ListPage(t, fetch[t].cursor, FetchLimit, fetch[t].pages),
         FetchState(fetch[t].read \cup page.data, page.next) # "refused"
  PROVE  Fetched(t, page) \in FetchType /\ ReadSoFar(t, Fetched(t, page))
<1> DEFINE L == Rows(t, fetch[t].pages)
<1>1. page = Page(L, fetch[t].cursor, FetchLimit)
  BY DEF ListPage, Rows
<1>2. fetch[t] \in FetchType /\ ReadSoFar(t, fetch[t]) /\ fetch[t].pages \in Nat
  BY DEF Typed, FetchType
<1>3. IsList(L) /\ \A e \in L : e.id \in IdsOf(t) /\ e.page = fetch[t].pages
  BY <1>2, RowsAre
<1> HIDE DEF L
<1>4. IsList(page.data) /\ page.next \in Ids \cup {None} /\ page.data \subseteq L
  BY <1>1, <1>3, PageTyped, WalkAssumption
<1>5. \A e \in fetch[t].read : e \in EntryType /\ e.page \in Nat /\ e.page < fetch[t].pages
                               /\ e.id \in IdsOf(t)
  BY <1>2, EntryFields DEF ReadSoFar, IsList
<1>6. IsList(fetch[t].read \cup page.data)
  <2>1. \A e \in fetch[t].read, f \in page.data : e.page # f.page
    BY <1>2, <1>3, <1>4, <1>5
  <2> QED
    BY <1>2, <1>4, <2>1, UnionIsList DEF ReadSoFar
<1>7. FetchState(fetch[t].read \cup page.data, page.next) \in {"read", "reading"}
  BY DEF FetchState
<1>8. Fetched(t, page) \in FetchType
  BY <1>2, <1>4, <1>6, <1>7 DEF Fetched, FetchType, IsList
<1>9. \A e \in fetch[t].read \cup page.data : e.id \in IdsOf(t) /\ e.page < fetch[t].pages + 1
  BY <1>2, <1>3, <1>4, <1>5
<1> QED
  BY <1>6, <1>8, <1>9 DEF ReadSoFar, Fetched

LEMMA FetchPageCases ==
  ASSUME Typed, NEW t \in Types, FetchPage(t)
  PROVE  LET page == ListPage(t, fetch[t].cursor, FetchLimit, fetch[t].pages) IN
         \/ /\ Refuse("INVALID_CURSOR") \/ Refuse("TOO_LARGE")
            /\ UNCHANGED <<fetch, anchors>>
         \/ /\ page.ok /\ FetchState(fetch[t].read \cup page.data, page.next) # "refused"
            /\ fetch' = [fetch EXCEPT ![t] = Fetched(t, page)]
            /\ Anchor(page) /\ UNCHANGED walk
BY DEF FetchPage, Fetched

LEMMA FetchPageTyped == ASSUME Typed, NEW t \in Types, FetchPage(t) PROVE Typed'
<1> DEFINE page == ListPage(t, fetch[t].cursor, FetchLimit, fetch[t].pages)
<1>0. UNCHANGED <<rows, kept, still>>
  BY DEF FetchPage
<1>1. CASE (Refuse("INVALID_CURSOR") \/ Refuse("TOO_LARGE")) /\ UNCHANGED fetch
  BY <1>0, <1>1, RefuseTyped, TypedReads DEF Typed
<1>2. CASE /\ FetchState(fetch[t].read \cup page.data, page.next) # "refused"
           /\ fetch' = [fetch EXCEPT ![t] = Fetched(t, page)] /\ UNCHANGED walk
  <2>1. Fetched(t, page) \in FetchType /\ ReadSoFar(t, Fetched(t, page))
    BY <1>2, FetchedTyped
  <2>2. fetch' \in [Types -> FetchType] /\ \A u \in Types : ReadSoFar(u, fetch'[u])
    BY <1>2, <2>1 DEF Typed
  <2> QED
    BY <1>0, <1>2, <2>2, TypedReads DEF Typed
<1> QED
  BY <1>1, <1>2, FetchPageCases

LEMMA AnswerTyped == ASSUME Typed, Answer PROVE Typed'
<1> DEFINE page == Page(Merged, walk.cursor, PageLimit)
<1>1. IsList(page.data) /\ page.next \in Ids \cup {None}
  BY MergedIs, PageTyped, WalkAssumption
<1> HIDE DEF page
<1>2. Show(page) \/ Refuse("INVALID_CURSOR") \/ Refuse("TOO_LARGE")
  BY DEF Answer, page
<1>3. walk' \in WalkType /\ walk'.kind = walk.kind /\ walk'.asked = walk.asked
  BY <1>1, <1>2, ShowIs, RefuseTyped
<1>4. fetch' = [t \in Types |-> NoFetch] /\ UNCHANGED <<rows, kept, still>>
  BY DEF Answer
<1>5. NoFetch \in FetchType /\ \A t : ReadSoFar(t, NoFetch)
  BY NoList DEF NoFetch, FetchType, ReadSoFar, None
<1> QED
  BY <1>3, <1>4, <1>5, TypedReads

(* A write touches one row that is asked for, which is not still then.     *)
LEMMA WriteIs ==
  ASSUME Typed, Write
  PROVE  /\ UNCHANGED <<walk, fetch, anchors>> /\ walk.state = "walking"
         /\ \E id \in Asked :
              /\ rows' \in [Ids -> Moments \cup {Gone}]
              /\ \A g \in Ids \ {id} : rows'[g] = rows[g]
              /\ still' = still \ {id} /\ kept' \subseteq kept
              /\ id \in kept' => rows'[id] # Gone
<1>1. PICK id \in Asked, moment \in {Now, Gone} :
       /\ rows' = [rows EXCEPT ![id] = moment]
       /\ kept' = IF moment = Gone THEN kept \ {id} ELSE kept
       /\ still' = still \ {id}
  BY DEF Write
<1>2. UNCHANGED <<walk, fetch, anchors>> /\ walk.state = "walking"
  BY DEF Write
<1>3. moment \in Moments \cup {Gone}
  BY NowIs
<1>4. id \in Ids
  BY IdsAre DEF Asked, Typed, WalkType
<1>5. id \in kept' => rows'[id] # Gone
  <2>1. moment # Gone => moment \in Moments
    BY <1>3
  <2> QED
    BY <1>1, <1>4, <2>1 DEF Typed
<1> QED
  BY <1>1, <1>2, <1>3, <1>5 DEF Typed

LEMMA WriteTyped == ASSUME Typed, Write PROVE Typed'
<1>1. PICK id \in Asked :
              /\ rows' \in [Ids -> Moments \cup {Gone}]
              /\ \A g \in Ids \ {id} : rows'[g] = rows[g]
              /\ still' = still \ {id} /\ kept' \subseteq kept
              /\ id \in kept' => rows'[id] # Gone
  BY WriteIs
<1>2. UNCHANGED <<walk, fetch>> /\ Asked' = Asked
  BY WriteIs, AskedStays
<1>3. still' \subseteq kept'
  BY <1>1 DEF Typed, Write
<1> QED
  BY <1>1, <1>2, <1>3 DEF Typed

LEMMA TypedStep == Typed /\ [Next]_vars => Typed'
<1> SUFFICES ASSUME Typed, [Next]_vars PROVE Typed'
  OBVIOUS
<1>1. CASE UNCHANGED vars
  BY <1>1, AskedStays DEF vars, Typed
<1> QED
  BY <1>1, NextPageTyped, SearchTyped, FetchPageTyped, AnswerTyped, WriteTyped DEF Next, Reading

-----------------------------------------------------------------------------
(* Walks.  A client has seen a row, of those that are firm in the list,    *)
(* once its cursor has reached the row's place, and not before; a list of  *)
(* a search has read it in the same way.                                   *)

Firm(t) == {g \in IdsOf(t) : g \in IF t = "contacts" THEN kept ELSE still}
Trusted(t) == t = "contacts" \/ anchors \subseteq still

Seen(t, g) == walk.shown[g] = IF walk.state = "done" \/ Reached(t, walk.cursor, g) THEN 1 ELSE 0
Going == walk.state \in {"walking", "done"}

ListInv ==
  \A t \in Types : Going /\ walk.kind = "list" /\ walk.asked = {t} /\ Trusted(t) =>
    \A g \in Firm(t) : Seen(t, g)

SearchInv ==
  Going /\ walk.kind = "search" /\ anchors \subseteq still =>
    \A g \in still : Seen("deals", g)

ReadAt(t, g) ==
  /\ fetch[t].state = "reading" =>
       IF Reached(t, fetch[t].cursor, g) THEN Held(t, g) ELSE Missing(fetch[t].read, g)
  /\ fetch[t].state = "read" => Held(t, g)

FetchInv == anchors \subseteq still => \A t \in Types : \A g \in still \cap IdsOf(t) : ReadAt(t, g)

CursorInv ==
  /\ walk.cursor # None => walk.cursor \in anchors
  /\ \A t \in Types : fetch[t].cursor # None => fetch[t].cursor \in anchors

WalkInv == Typed /\ ListInv /\ SearchInv /\ FetchInv /\ CursorInv

LEMMA StillIs ==
  ASSUME Typed, NEW g \in still
  PROVE  /\ g \in Ids /\ rows[g] # Gone /\ \E t \in walk.asked : t \in Types /\ g \in IdsOf(t)
         /\ \A t \in Types : g \in IdsOf(t) => t \in walk.asked
<1>1. g \in Ids /\ rows[g] # Gone
  BY DEF Typed
<1>2. g \in Asked
  BY <1>1 DEF Typed
<1>3. PICK t \in walk.asked : t \in Types /\ g \in IdsOf(t)
  BY <1>2 DEF Asked, Typed, WalkType
<1> QED
  BY <1>1, <1>3, IdsAre

LEMMA FirmIs ==
  ASSUME Typed, NEW t \in Types, NEW g \in Firm(t)
  PROVE  g \in Ids /\ g \in IdsOf(t) /\ rows[g] # Gone
BY IdsAre DEF Firm, Typed

LEMMA WalkInit == Init => WalkInv
<1> SUFFICES ASSUME Init PROVE WalkInv
  OBVIOUS
<1>1. Typed
  BY TypedInit
<1>2. \A t \in Types : fetch[t] = NoFetch /\ NoFetch.state = "idle" /\ NoFetch.cursor = None
  BY DEF Init, NoFetch
<1>3. walk.cursor = None /\ walk.state = "walking" /\ \A g \in Ids : walk.shown[g] = 0
  BY DEF Init
<1>4. \A g \in Ids : \A t : Seen(t, g)
  BY <1>3 DEF Seen, Reached
<1>5. ListInv
  BY <1>1, <1>4, FirmIs DEF ListInv
<1>6. SearchInv
  BY <1>1, <1>4, StillIs DEF SearchInv
<1>7. FetchInv
  BY <1>2 DEF FetchInv, ReadAt
<1> QED
  BY <1>1, <1>2, <1>3, <1>5, <1>6, <1>7 DEF WalkInv, CursorInv

(* A page that is shown moves the client on from its cursor to the next.   *)
LEMMA ShowSees ==
  ASSUME Typed, NEW L, IsList(L), NEW t, NEW g \in Ids, Seen(t, g), walk.state = "walking",
         Stands(L, t, g), walk.cursor # None => Stands(L, t, walk.cursor),
         NEW page, page = Page(L, walk.cursor, PageLimit), page.next # None => Stands(L, t, page.next),
         Show(page), rows' = rows
  PROVE  Seen(t, g)'
<1>1. IsList(page.data) /\ page.next \in Ids \cup {None}
  BY PageTyped, WalkAssumption
<1>2. /\ walk'.cursor = page.next
      /\ walk'.state = IF page.next = None THEN "done" ELSE "walking"
      /\ Missing(page.data, g) => walk'.shown[g] = walk.shown[g]
      /\ Stands(page.data, t, g) /\ walk.shown[g] = 0 => walk'.shown[g] = 1
  BY <1>1, ShowIs
<1>3. /\ Reached(t, walk.cursor, g) =>
            Missing(page.data, g) /\ (page.next # None => Reached(t, page.next, g))
      /\ ~Reached(t, walk.cursor, g) /\ (page.next = None \/ Reached(t, page.next, g)) =>
            Stands(page.data, t, g)
      /\ ~Reached(t, walk.cursor, g) /\ page.next # None /\ ~Reached(t, page.next, g) =>
            Missing(page.data, g)
  BY PageShows, WalkAssumption
<1>4. Reached(t, walk.cursor, g)' <=> Reached(t, page.next, g)
  BY <1>2 DEF Reached, Leads, KeyOf, ContactKey, DealKey
<1>5. walk.shown[g] = IF Reached(t, walk.cursor, g) THEN 1 ELSE 0
  BY DEF Seen
<1>6. page.next = None => ~Reached(t, page.next, g)
  BY DEF Reached
<1>7. Seen(t, g)' <=> walk'.shown[g] = IF page.next = None \/ Reached(t, page.next, g) THEN 1 ELSE 0
  BY <1>2, <1>4 DEF Seen
<1> QED
  BY <1>2, <1>3, <1>5, <1>6, <1>7

LEMMA CursorStands ==
  ASSUME Typed, NEW t \in Types, NEW page \in Nat, NEW c, Finds(Rows(t, page), c), c # None
  PROVE  Stands(Rows(t, page), t, c)
<1>1. PICK e \in Rows(t, page) : e.id = c
  BY DEF Finds
<1> QED
  BY <1>1, RowsAre

LEMMA NextStands ==
  ASSUME Typed, NEW t \in Types, NEW page \in Nat, NEW c, NEW limit \in Nat \ {0},
         Page(Rows(t, page), c, limit).next # None
  PROVE  Stands(Rows(t, page), t, Page(Rows(t, page), c, limit).next)
<1>1. IsList(Rows(t, page))
  BY RowsAre
<1>2. PICK e \in Rows(t, page) : e.id = Page(Rows(t, page), c, limit).next
  BY <1>1, PageTyped
<1> QED
  BY <1>2, RowsAre

LEMMA RefusedWalk ==
  ASSUME WalkInv, NEW code \in {"INVALID_CURSOR", "TOO_LARGE"}, Refuse(code),
         UNCHANGED <<rows, kept, still, anchors>>,
         fetch' = fetch \/ fetch' = [t \in Types |-> NoFetch], Typed'
  PROVE  WalkInv'
<1>1. walk'.state = code /\ walk'.cursor = walk.cursor
  BY DEF WalkInv, Typed, Refuse, WalkType
<1>2. ~Going'
  BY <1>1 DEF Going
<1>3. ListInv' /\ SearchInv'
  BY <1>2 DEF ListInv, SearchInv
<1>4. CASE fetch' = fetch
  <2>1. FetchInv'
    BY <1>4 DEF WalkInv, FetchInv, ReadAt, Held, Missing, Reached, Leads, KeyOf, ContactKey, DealKey
  <2> QED
    BY <1>1, <1>3, <1>4, <2>1 DEF WalkInv, CursorInv
<1>5. CASE fetch' = [t \in Types |-> NoFetch]
  <2>1. \A t \in Types : fetch'[t].state = "idle" /\ fetch'[t].cursor = None
    BY <1>5 DEF NoFetch
  <2>2. FetchInv'
    BY <2>1 DEF FetchInv, ReadAt
  <2> QED
    BY <1>1, <1>3, <2>1, <2>2 DEF WalkInv, CursorInv
<1> QED
  BY <1>4, <1>5

LEMMA AnchorIs ==
  ASSUME NEW page, Anchor(page)
  PROVE  anchors \subseteq anchors' /\ (page.next # None => page.next \in anchors')
BY DEF Anchor

LEMMA FetchFrame ==
  ASSUME FetchInv, UNCHANGED <<rows, fetch, still>>, anchors \subseteq anchors'
  PROVE  FetchInv'
<1>1. \A t \in Types : \A g : ReadAt(t, g)' <=> ReadAt(t, g)
  BY DEF ReadAt, Held, Missing, Reached, Leads, KeyOf, ContactKey, DealKey
<1> QED
  BY <1>1 DEF FetchInv

LEMMA NextPageWalk == ASSUME WalkInv, NextPage PROVE WalkInv'
<1>1. Typed /\ Typed'
  BY NextPageTyped DEF WalkInv
<1>2. PICK t \in walk.asked : \E page \in {ListPage(t, walk.cursor, PageLimit, 0)} :
       \/ page.ok /\ Show(page) /\ Anchor(page)
       \/ ~page.ok /\ Refuse("INVALID_CURSOR") /\ UNCHANGED anchors
  BY DEF NextPage
<1>3. /\ UNCHANGED <<rows, fetch, kept, still>> /\ walk.state = "walking" /\ walk.kind = "list"
      /\ t \in Types /\ walk.asked = {t}
  BY <1>1, <1>2 DEF NextPage, Listing, Typed, WalkType
<1> DEFINE L == Rows(t, 0)
           page == Page(L, walk.cursor, PageLimit)
<1>4. page = ListPage(t, walk.cursor, PageLimit, 0)
  BY DEF ListPage, Rows
<1>5. IsList(L) /\ PageLimit \in Nat \ {0}
  BY <1>1, <1>3, RowsAre, WalkAssumption
<1> HIDE DEF L, page
<1>6. CASE Refuse("INVALID_CURSOR") /\ UNCHANGED anchors
  BY <1>1, <1>3, <1>6, RefusedWalk
<1>7. CASE page.ok /\ Show(page) /\ Anchor(page)
  <2>1. anchors \subseteq anchors' /\ (page.next # None => page.next \in anchors')
    BY <1>7, AnchorIs
  <2>2. walk.cursor # None => Stands(L, t, walk.cursor)
    BY <1>1, <1>3, <1>5, <1>7, PageIs, CursorStands DEF L, page
  <2>3. page.next # None => Stands(L, t, page.next)
    BY <1>1, <1>3, <1>5, NextStands DEF L, page
  <2>4. /\ walk'.kind = walk.kind /\ walk'.asked = walk.asked /\ walk'.cursor = page.next
    BY <1>1, <1>5, <1>7, PageTyped, ShowIs DEF page
  <2>5. ASSUME Trusted(t)', NEW g \in Firm(t)' PROVE Seen(t, g)'
    <3>1. Trusted(t) /\ g \in Firm(t) /\ Going
      BY <1>3, <2>1, <2>5 DEF Trusted, Firm, Going
    <3>2. Seen(t, g)
      BY <1>3, <3>1 DEF WalkInv, ListInv
    <3>3. g \in Ids /\ Stands(L, t, g)
      BY <1>1, <1>3, <3>1, FirmIs, RowsAre DEF L
    <3> QED
      BY <1>1, <1>3, <1>5, <1>7, <2>2, <2>3, <3>2, <3>3, ShowSees DEF page
  <2>6. ListInv'
    <3> SUFFICES ASSUME NEW u \in Types, walk'.asked = {u}, Trusted(u)', NEW g \in Firm(u)'
                 PROVE  Seen(u, g)'
      BY DEF ListInv
    <3>1. u = t
      BY <1>3, <2>4
    <3> QED
      BY <2>5, <3>1
  <2>7. SearchInv'
    BY <1>3, <2>4 DEF SearchInv
  <2>8. FetchInv'
    BY <1>3, <2>1, FetchFrame DEF WalkInv
  <2>9. CursorInv'
    BY <1>3, <2>1, <2>4 DEF WalkInv, CursorInv
  <2> QED
    BY <1>1, <2>6, <2>7, <2>8, <2>9 DEF WalkInv
<1> QED
  BY <1>2, <1>4, <1>6, <1>7

LEMMA SearchWalk == ASSUME WalkInv, Search PROVE WalkInv'
<1>1. Typed /\ Typed'
  BY SearchTyped DEF WalkInv
<1>2. fetch' = StartFetch(walk.asked) /\ UNCHANGED <<rows, walk, kept, still, anchors>>
  BY DEF Search
<1>3. \A t \in Types : /\ fetch'[t].cursor = None /\ fetch'[t].read = {}
                       /\ fetch'[t].state = IF t \in walk.asked THEN "reading" ELSE "read"
  BY <1>2 DEF StartFetch, NoFetch
<1>4. ListInv' /\ SearchInv'
  BY <1>2 DEF WalkInv, ListInv, SearchInv, Going, Trusted, Firm, Seen, Reached, Leads, KeyOf,
              ContactKey, DealKey
<1>5. FetchInv'
  <2> SUFFICES ASSUME NEW t \in Types, NEW g \in still, g \in IdsOf(t) PROVE ReadAt(t, g)'
    BY <1>2 DEF FetchInv
  <2>1. t \in walk.asked
    BY <1>1, StillIs
  <2> QED
    BY <1>3, <2>1 DEF ReadAt, Reached, Missing
<1>6. CursorInv'
  BY <1>2, <1>3 DEF WalkInv, CursorInv
<1> QED
  BY <1>1, <1>4, <1>5, <1>6 DEF WalkInv

LEMMA FetchPageWalk == ASSUME WalkInv, NEW t \in Types, FetchPage(t) PROVE WalkInv'
<1>1. Typed /\ Typed'
  BY FetchPageTyped DEF WalkInv
<1>2. UNCHANGED <<rows, kept, still>> /\ fetch[t].state = "reading" /\ walk.kind = "search"
      /\ fetch[t] \in FetchType /\ fetch[t].pages \in Nat
  BY <1>1 DEF FetchPage, Searching, Typed, FetchType
<1> DEFINE L == Rows(t, fetch[t].pages)
           page == Page(L, fetch[t].cursor, FetchLimit)
<1>3. page = ListPage(t, fetch[t].cursor, FetchLimit, fetch[t].pages)
  BY DEF ListPage, Rows
<1>4. IsList(L) /\ FetchLimit \in Nat \ {0} /\ \A e \in L : e.updated = rows[e.id]
  BY <1>1, <1>2, RowsAre, WalkAssumption
<1> HIDE DEF L, page
<1>5. CASE (Refuse("INVALID_CURSOR") \/ Refuse("TOO_LARGE")) /\ UNCHANGED <<fetch, anchors>>
  BY <1>1, <1>2, <1>5, RefusedWalk
<1>6. CASE /\ page.ok /\ FetchState(fetch[t].read \cup page.data, page.next) # "refused"
           /\ fetch' = [fetch EXCEPT ![t] = Fetched(t, page)]
           /\ Anchor(page) /\ UNCHANGED walk
  <2>1. anchors \subseteq anchors' /\ (page.next # None => page.next \in anchors')
    BY <1>6, AnchorIs
  <2>2. fetch[t].cursor # None => Stands(L, t, fetch[t].cursor)
    BY <1>1, <1>2, <1>4, <1>6, PageIs, CursorStands DEF L, page
  <2>3. page.next # None => Stands(L, t, page.next)
    BY <1>1, <1>2, <1>4, NextStands DEF L, page
  <2>4. /\ fetch'[t].cursor = page.next /\ fetch'[t].read = fetch[t].read \cup page.data
        /\ fetch'[t].state = FetchState(fetch[t].read \cup page.data, page.next)
        /\ \A u \in Types : u # t => fetch'[u] = fetch[u]
    BY <1>1, <1>6 DEF Typed, Fetched
  <2>5. fetch'[t].state = IF page.next = None THEN "read" ELSE "reading"
    BY <1>6, <2>4 DEF FetchState
  <2>6. ASSUME anchors' \subseteq still', NEW u \in Types, NEW g \in still' \cap IdsOf(u), u # t
        PROVE  ReadAt(u, g)'
    <3>1. ReadAt(u, g)
      BY <1>2, <2>1, <2>6 DEF WalkInv, FetchInv
    <3> QED
      BY <1>2, <2>4, <2>6, <3>1 DEF ReadAt, Held, Missing, Reached, Leads, KeyOf, ContactKey, DealKey
  <2>7. ASSUME anchors' \subseteq still', NEW g \in still' \cap IdsOf(t) PROVE ReadAt(t, g)'
    <3> DEFINE c == fetch[t].cursor
    <3>1. IF Reached(t, c, g) THEN Held(t, g) ELSE Missing(fetch[t].read, g)
      BY <1>2, <2>1, <2>7 DEF WalkInv, FetchInv, ReadAt
    <3>2. Stands(L, t, g)
      BY <1>1, <1>2, <2>7, StillIs, RowsAre DEF L
    <3>3. /\ Reached(t, c, g) => Missing(page.data, g) /\ (page.next # None => Reached(t, page.next, g))
          /\ ~Reached(t, c, g) /\ (page.next = None \/ Reached(t, page.next, g)) => Stands(page.data, t, g)
          /\ ~Reached(t, c, g) /\ page.next # None /\ ~Reached(t, page.next, g) => Missing(page.data, g)
      BY <1>4, <2>2, <2>3, <3>2, PageShows DEF page
    <3>4. page.data \subseteq L
      BY <1>4, PageTyped DEF page
    <3>5. Held(t, g) /\ Missing(page.data, g) => Held(t, g)'
      BY <1>2, <2>4 DEF Held, Missing
    <3>6. ASSUME Stands(page.data, t, g), Missing(fetch[t].read, g) PROVE Held(t, g)'
      <4>1. PICK e \in page.data : e.id = g /\ \A f \in page.data : f.id = g => f = e
        BY <3>6 DEF Stands
      <4>2. e.updated = rows[g]
        BY <1>4, <3>4, <4>1
      <4> QED
        BY <1>2, <2>4, <3>6, <4>1, <4>2 DEF Held, Missing
    <3>7. Missing(fetch[t].read, g) /\ Missing(page.data, g) => Missing(fetch'[t].read, g)
      BY <2>4 DEF Missing
    <3>8. Reached(t, fetch[t].cursor, g)' <=> Reached(t, page.next, g)
      BY <1>2, <2>4 DEF Reached, Leads, KeyOf, ContactKey, DealKey
    <3> HIDE DEF c
    <3>9. CASE Reached(t, c, g)
      BY <2>5, <3>1, <3>3, <3>5, <3>8, <3>9 DEF ReadAt
    <3>10. CASE ~Reached(t, c, g) /\ (page.next = None \/ Reached(t, page.next, g))
      BY <2>5, <3>1, <3>3, <3>6, <3>8, <3>10 DEF ReadAt
    <3>11. CASE ~Reached(t, c, g) /\ page.next # None /\ ~Reached(t, page.next, g)
      BY <2>5, <3>1, <3>3, <3>7, <3>8, <3>11 DEF ReadAt, Missing
    <3> QED
      BY <3>9, <3>10, <3>11
  <2>8. FetchInv'
    BY <2>6, <2>7 DEF FetchInv
  <2>9. ListInv'
    BY <1>2, <1>6 DEF ListInv
  <2>10. SearchInv'
    BY <1>2, <1>6, <2>1 DEF WalkInv, SearchInv, Going, Seen, Reached, Leads, KeyOf, ContactKey, DealKey
  <2>11. CursorInv'
    BY <1>6, <2>1, <2>4 DEF WalkInv, CursorInv
  <2> QED
    BY <1>1, <2>8, <2>9, <2>10, <2>11 DEF WalkInv
<1> QED
  BY <1>1, <1>3, <1>5, <1>6, FetchPageCases

(* When every list was read, the rows nobody updated stand in the merged   *)
(* list, those that the cursors name among them.                           *)
LEMMA AllStand ==
  ASSUME WalkInv, anchors \subseteq still, \A t \in Types : fetch[t].state = "read",
         NEW g \in still
  PROVE  Stands(Merged, "deals", g)
<1>1. PICK t \in Types : g \in IdsOf(t)
  BY StillIs DEF WalkInv
<1>2. Held(t, g)
  BY <1>1 DEF WalkInv, FetchInv, ReadAt
<1> QED
  BY <1>1, <1>2, MergedIs DEF WalkInv

LEMMA AnswerWalk == ASSUME WalkInv, Answer PROVE WalkInv'
<1>1. Typed /\ Typed'
  BY AnswerTyped DEF WalkInv
<1>2. /\ UNCHANGED <<rows, kept, still>> /\ walk.kind = "search" /\ walk.state = "walking"
      /\ \A t \in Types : fetch[t].state = "read"
      /\ fetch' = [t \in Types |-> NoFetch]
  BY DEF Answer, Searching
<1> DEFINE page == Page(Merged, walk.cursor, PageLimit)
<1>3. IsList(Merged) /\ PageLimit \in Nat \ {0}
  BY <1>1, MergedIs, WalkAssumption
<1>4. \/ Refuse("TOO_LARGE") /\ UNCHANGED anchors
      \/ Refuse("INVALID_CURSOR") /\ UNCHANGED anchors
      \/ Show(page) /\ Anchor(page)
  BY DEF Answer
<1> HIDE DEF page
<1>5. CASE (Refuse("INVALID_CURSOR") \/ Refuse("TOO_LARGE")) /\ UNCHANGED anchors
  BY <1>1, <1>2, <1>5, RefusedWalk
<1>6. CASE Show(page) /\ Anchor(page)
  <2>1. anchors \subseteq anchors' /\ (page.next # None => page.next \in anchors')
    BY <1>6, AnchorIs
  <2>2. /\ walk'.kind = walk.kind /\ walk'.cursor = page.next
    BY <1>1, <1>3, <1>6, PageTyped, ShowIs DEF page
  <2>3. ASSUME anchors' \subseteq still', NEW g \in still' PROVE Seen("deals", g)'
    <3>1. anchors \subseteq still /\ g \in still /\ Going
      BY <1>2, <2>1, <2>3 DEF Going
    <3>2. Seen("deals", g)
      BY <1>2, <3>1 DEF WalkInv, SearchInv
    <3>3. Stands(Merged, "deals", g) /\ g \in Ids
      BY <1>1, <1>2, <3>1, AllStand, StillIs
    <3>4. walk.cursor # None => Stands(Merged, "deals", walk.cursor)
      BY <1>2, <3>1, AllStand DEF WalkInv, CursorInv
    <3>5. page.next # None => Stands(Merged, "deals", page.next)
      BY <1>2, <2>1, <2>3, <3>1, AllStand
    <3> QED
      BY <1>1, <1>2, <1>3, <1>6, <3>2, <3>3, <3>4, <3>5, ShowSees DEF page
  <2>4. SearchInv'
    BY <2>3 DEF SearchInv
  <2>5. ListInv'
    BY <1>2, <2>2 DEF ListInv
  <2>6. \A t \in Types : fetch'[t].state = "idle" /\ fetch'[t].cursor = None
    BY <1>2 DEF NoFetch
  <2>7. FetchInv' /\ CursorInv'
    BY <2>1, <2>2, <2>6 DEF FetchInv, ReadAt, CursorInv
  <2> QED
    BY <1>1, <2>4, <2>5, <2>7 DEF WalkInv
<1> QED
  BY <1>4, <1>5, <1>6

(* A write takes its row from those that are firm, and leaves the place of *)
(* every other.                                                            *)
LEMMA WriteWalk == ASSUME WalkInv, Write PROVE WalkInv'
<1>1. Typed /\ Typed'
  BY WriteTyped DEF WalkInv
<1>2. PICK id \in Asked : /\ \A g \in Ids \ {id} : rows'[g] = rows[g]
                          /\ still' = still \ {id} /\ kept' \subseteq kept
  BY <1>1, WriteIs
<1>3. UNCHANGED <<walk, fetch, anchors>>
  BY <1>1, WriteIs
<1>4. \A g \in still' : g \in still /\ g \in Ids /\ rows'[g] = rows[g]
  BY <1>1, <1>2 DEF Typed
<1>5. \A c, g : Reached("contacts", c, g)' <=> Reached("contacts", c, g)
  BY DEF Reached, Leads, KeyOf, ContactKey
<1>6. \A t \in Types : \A c \in still' \cup {None} : \A g \in still' :
        Reached(t, c, g)' <=> Reached(t, c, g)
  BY <1>4 DEF Reached, Leads, KeyOf, ContactKey, DealKey
<1>7. ListInv'
  <2> SUFFICES ASSUME NEW t \in Types, Going', walk'.kind = "list", walk'.asked = {t}, Trusted(t)',
                      NEW g \in Firm(t)'
               PROVE  Seen(t, g)'
    BY DEF ListInv
  <2>1. Trusted(t) /\ g \in Firm(t) /\ Going
    BY <1>2, <1>3 DEF Trusted, Firm, Going
  <2>2. Seen(t, g)
    BY <1>3, <2>1 DEF WalkInv, ListInv
  <2>3. CASE t = "contacts"
    BY <1>3, <1>5, <2>2, <2>3 DEF Seen
  <2>4. CASE t # "contacts"
    <3>1. g \in still' /\ walk.cursor \in still' \cup {None}
      BY <1>3, <2>4 DEF Firm, Trusted, WalkInv, CursorInv
    <3> QED
      BY <1>3, <1>6, <2>2, <3>1 DEF Seen
  <2> QED
    BY <2>3, <2>4
<1>8. SearchInv'
  <2> SUFFICES ASSUME Going', walk'.kind = "search", anchors' \subseteq still', NEW g \in still'
               PROVE  Seen("deals", g)'
    BY DEF SearchInv
  <2>1. Seen("deals", g)
    BY <1>2, <1>3 DEF WalkInv, SearchInv, Going
  <2>2. walk.cursor \in still' \cup {None}
    BY <1>3 DEF WalkInv, CursorInv
  <2> QED
    BY <1>3, <1>6, <2>1, <2>2 DEF Seen, Types
<1>9. FetchInv'
  <2> SUFFICES ASSUME anchors' \subseteq still', NEW t \in Types, NEW g \in still' \cap IdsOf(t)
               PROVE  ReadAt(t, g)'
    BY DEF FetchInv
  <2>1. ReadAt(t, g)
    BY <1>2, <1>3 DEF WalkInv, FetchInv
  <2>2. fetch[t].cursor \in still' \cup {None}
    BY <1>3 DEF WalkInv, CursorInv
  <2>3. Reached(t, fetch[t].cursor, g)' <=> Reached(t, fetch[t].cursor, g)
    <3>1. \A c : c \in still' \cup {None} => (Reached(t, c, g)' <=> Reached(t, c, g))
      BY <1>6
    <3> QED
      BY <1>3, <2>2, <3>1 DEF Reached, Leads, KeyOf, ContactKey, DealKey
  <2>4. Held(t, g)' <=> Held(t, g)
    BY <1>3, <1>4 DEF Held
  <2> QED
    BY <1>3, <2>1, <2>3, <2>4 DEF ReadAt, Missing
<1>10. CursorInv'
  BY <1>3 DEF WalkInv, CursorInv
<1> QED
  BY <1>1, <1>7, <1>8, <1>9, <1>10 DEF WalkInv

LEMMA WalkStep == WalkInv /\ [Next]_vars => WalkInv'
<1> SUFFICES ASSUME WalkInv, [Next]_vars PROVE WalkInv'
  OBVIOUS
<1>1. CASE UNCHANGED vars
  <2>1. Typed'
    BY <1>1, TypedStep DEF WalkInv
  <2>2. UNCHANGED <<rows, walk, fetch, kept, still, anchors>>
    BY <1>1 DEF vars
  <2>3. FetchInv'
    BY <2>2, FetchFrame DEF WalkInv
  <2>4. ListInv' /\ SearchInv'
    BY <2>2 DEF WalkInv, ListInv, SearchInv, Going, Trusted, Firm, Seen, Reached, Leads, KeyOf,
                ContactKey, DealKey
  <2>5. CursorInv'
    BY <2>2 DEF WalkInv, CursorInv
  <2> QED
    BY <2>1, <2>3, <2>4, <2>5 DEF WalkInv
<1> QED
  BY <1>1, NextPageWalk, SearchWalk, FetchPageWalk, AnswerWalk, WriteWalk DEF Next, Reading

(* A walk of the contacts that ends has shown every row that was there all *)
(* the time exactly once, whatever was written; a walk of the deals, and   *)
(* of a merged search, every row nobody updated, if its cursors' rows were *)
(* not updated either (AutoPager, runArrayQuery, fetchAllPages).           *)
THEOREM WalksAreExact == Spec => []FinishedWalkIsExact
<1>1. WalkInv => FinishedWalkIsExact
  <2> SUFFICES ASSUME WalkInv, walk.state = "done" PROVE FinishedWalkIsExact
    BY DEF FinishedWalkIsExact
  <2>1. Typed /\ Going /\ \A t, g : Seen(t, g) <=> walk.shown[g] = 1
    BY DEF WalkInv, Going, Seen
  <2>2. ASSUME walk.kind = "list", NEW t \in Types, walk.asked = {t}, Trusted(t), NEW g \in Firm(t)
        PROVE  walk.shown[g] = 1
    BY <2>1, <2>2 DEF WalkInv, ListInv
  <2>3. ASSUME walk.kind = "list", walk.asked = {"contacts"} PROVE EachShownOnce(kept)
    BY <2>2, <2>3 DEF EachShownOnce, Trusted, Firm, Types
  <2>4. ASSUME anchors \subseteq still, walk.kind = "list" PROVE EachShownOnce(still)
    <3>1. PICK t \in Types : walk.asked = {t}
      BY <2>1, <2>4 DEF Typed
    <3>2. \A g \in still : g \in IdsOf(t) => g \in Firm(t)
      BY <2>1 DEF Firm, Typed
    <3> QED
      BY <2>2, <2>4, <3>1, <3>2 DEF EachShownOnce, Trusted
  <2>5. ASSUME anchors \subseteq still, walk.kind = "search" PROVE EachShownOnce(still)
    BY <2>1, <2>5 DEF WalkInv, SearchInv, EachShownOnce
  <2>6. walk.kind \in {"list", "search"}
    BY <2>1 DEF Typed, WalkType
  <2> QED
    BY <2>3, <2>4, <2>5, <2>6 DEF FinishedWalkIsExact
<1> QED
  BY <1>1, WalkInit, WalkStep, PTL DEF Spec
=============================================================================
