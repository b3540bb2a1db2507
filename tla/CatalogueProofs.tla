---------------------------- MODULE CatalogueProofs ----------------------------
(* What Catalogue promises, for any lists, limits, clocks and requests.    *)
EXTENDS Catalogue, FiniteSetTheorems, SequenceTheorems, WellFoundedInduction, TLAPS

USE CatalogueAssumption DEF CatalogueConstants

-----------------------------------------------------------------------------
(* Types.                                                                  *)

Keys == Slugs \cup (Ids \X Variants) \cup Ids

Codes == {{}} \cup { generateSkuCode(k, v) : k \in Keys, v \in Variants } \cup { {k} : k \in Keys }

RowType == [ list : Lists, id : Ids, key : Keys, code : Codes, at : Nat, archived : BOOLEAN ]

RequestType ==
  {NoRequest}
  \cup [ list : {"products"}, key : Slugs, since : Nat ]
  \cup [ list : {"skus"}, key : Ids \X Variants, since : Nat, code : Codes ]

WalkType ==
  { NotWalking, [list |-> "end"] } \cup [ list : Lists, cursor : RowType ]

CatalogueTypes ==
  /\ now \in Nat
  /\ rows \in SUBSET RowType
  /\ \A r \in rows : r.list = "products" => r.key \in Slugs
  /\ request \in [Requests -> RequestType]
  /\ walk \in WalkType
  /\ pages \in Seq(SUBSET RowType)
  /\ steady \in SUBSET Ids

-----------------------------------------------------------------------------
(* The order of a list.                                                    *)

\* The rows of a list, or of a part of it: no two with the same id.
Distinct(S) == \A r, s \in S : r.id = s.id => r = s

LEMMA NewerOrder ==
  ASSUME NEW r \in RowType, NEW s \in RowType
  PROVE  /\ ~Newer(r, r)
         /\ ~(Newer(r, s) /\ Newer(s, r))
         /\ r.id # s.id => Newer(r, s) \/ Newer(s, r)
<1>1. r.at \in Nat /\ s.at \in Nat /\ r.id \in Nat /\ s.id \in Nat
  BY DEF RowType
<1> QED BY <1>1 DEF Newer

LEMMA NewerTransitive ==
  ASSUME NEW r \in RowType, NEW s \in RowType, NEW t \in RowType, Newer(r, s), Newer(s, t)
  PROVE  Newer(r, t)
<1>1. /\ r.at \in Nat /\ s.at \in Nat /\ t.at \in Nat
      /\ r.id \in Nat /\ s.id \in Nat /\ t.id \in Nat
  BY DEF RowType
<1> QED BY <1>1 DEF Newer

\* What has numbers has a least one.
Below == { x \in Nat \X Nat : x[1] < x[2] }

LEMMA Least ==
  ASSUME NEW T \in SUBSET Nat, T # {}
  PROVE  \E n \in T : \A m \in T : n <= m
<1>1. IsWellFoundedOn(Below, Nat)
  <2>1. Below = OpToRel(<, Nat)
    BY Zenon DEF OpToRel, Below
  <2> QED BY <2>1, NatLessThanWellFounded, Zenon
<1>2. PICK n \in T : \A m \in T : << m, n >> \notin Below
  BY <1>1, WFMin
<1>3. ASSUME NEW m \in T PROVE n <= m
  <2>1. m \in Nat /\ n \in Nat
    OBVIOUS
  <2>2. << m, n >> \in Nat \X Nat /\ << m, n >>[1] = m /\ << m, n >>[2] = n
    BY <2>1
  <2>3. ~(m < n)
    BY <1>2, <2>2 DEF Below
  <2> QED BY <2>1, <2>3
<1> QED BY <1>3

\* A page has a last row.
LEMMA Oldest ==
  ASSUME NEW S \in SUBSET RowType, S # {}, Distinct(S)
  PROVE  \E r \in S : \A s \in S : s = r \/ Newer(s, r)
<1>1. \A r \in S : r.at \in Nat /\ r.id \in Nat
  BY DEF RowType
<1>2. PICK t \in { r.at : r \in S } : \A u \in { r.at : r \in S } : t <= u
  <2>1. { r.at : r \in S } \in SUBSET Nat /\ { r.at : r \in S } # {}
    BY <1>1
  <2> QED BY <2>1, Least
<1> DEFINE last == { r \in S : r.at = t }
<1>3. PICK i \in { r.id : r \in last } : \A j \in { r.id : r \in last } : i <= j
  <2>1. { r.id : r \in last } \in SUBSET Nat /\ { r.id : r \in last } # {}
    BY <1>1, <1>2
  <2> QED BY <2>1, Least
<1>4. PICK r \in last : r.id = i
  BY <1>3
<1>5. ASSUME NEW s \in S PROVE s = r \/ Newer(s, r)
  <2>1. /\ r \in S /\ r.at = t /\ r.id = i
        /\ t \in Nat /\ i \in Nat /\ s.at \in Nat /\ s.id \in Nat
    BY <1>1, <1>4
  <2>2. t <= s.at
    BY <1>2
  <2>3. s.at = t => i <= s.id
    BY <1>3
  <2>4. s.id = r.id => s = r
    BY <2>1 DEF Distinct
  <2> QED BY <2>1, <2>2, <2>3, <2>4 DEF Newer
<1> QED BY <1>4, <1>5

\* How many rows of S come before r.
Before(S, r) == { s \in S : Newer(s, r) }

LEMMA BeforeIsFinite ==
  ASSUME NEW S \in SUBSET RowType, IsFiniteSet(S), NEW r
  PROVE  IsFiniteSet(Before(S, r)) /\ Cardinality(Before(S, r)) \in Nat
<1>1. Before(S, r) \in SUBSET S
  BY DEF Before
<1> QED BY <1>1, FS_Subset, FS_CardinalityType

LEMMA BeforeGrows ==
  ASSUME NEW S \in SUBSET RowType, IsFiniteSet(S),
         NEW r \in S, NEW s \in S, Newer(s, r)
  PROVE  Cardinality(Before(S, s)) < Cardinality(Before(S, r))
<1>1. Before(S, s) \in SUBSET Before(S, r)
  BY NewerTransitive DEF Before
<1>2. s \in Before(S, r) /\ s \notin Before(S, s)
  BY NewerOrder DEF Before
<1>3. /\ IsFiniteSet(Before(S, r)) /\ Cardinality(Before(S, r)) \in Nat
      /\ Cardinality(Before(S, s)) \in Nat
  BY BeforeIsFinite
<1>4. /\ Cardinality(Before(S, s)) <= Cardinality(Before(S, r))
      /\ Cardinality(Before(S, s)) # Cardinality(Before(S, r))
  BY <1>1, <1>2, <1>3, FS_Subset
<1> QED BY <1>3, <1>4

LEMMA FirstRowsBefore ==
  ASSUME NEW S, NEW n
  PROVE  FirstRows(S, n) = { r \in S : Cardinality(Before(S, r)) < n }
  BY DEF FirstRows, Before

\* Of the rows that are in T and not in F the one with the least before it.
LEMMA FirstOf ==
  ASSUME NEW S \in SUBSET RowType, IsFiniteSet(S), NEW T \in SUBSET S, T # {}
  PROVE  \E r \in T : \A s \in T : ~Newer(s, r)
<1> DEFINE ranks == { Cardinality(Before(S, r)) : r \in T }
<1>1. ranks \in SUBSET Nat /\ ranks # {}
  BY BeforeIsFinite
<1>2. PICK k \in ranks : \A m \in ranks : k <= m
  BY <1>1, Least
<1>3. PICK r \in T : k = Cardinality(Before(S, r))
  BY <1>2
<1>4. ASSUME NEW s \in T, Newer(s, r) PROVE FALSE
  <2>1. Cardinality(Before(S, s)) < Cardinality(Before(S, r))
    BY <1>4, BeforeGrows
  <2>2. k <= Cardinality(Before(S, s))
    BY <1>2
  <2>3. Cardinality(Before(S, s)) \in Nat /\ Cardinality(Before(S, r)) \in Nat
    BY BeforeIsFinite
  <2> QED BY <1>3, <2>1, <2>2, <2>3
<1> QED BY <1>4

\* What a page shows of the rows C that a query leaves: it shows something when
\* there is more to come, everything when not, and no row before it skips one.
LEMMA PageFacts ==
  ASSUME NEW C \in SUBSET RowType, IsFiniteSet(C), Distinct(C),
         NEW fetched, fetched = Fetched(C),
         NEW items, items = FirstRows(fetched, PageLimit)
  PROVE  /\ items \subseteq fetched /\ fetched \subseteq C
         /\ fetched # items => items # {}
         /\ fetched = items => C = items
         /\ \A c \in items, r \in C : r = c \/ Newer(r, c) => r \in items
<1>1. fetched = { r \in C : Cardinality(Before(C, r)) < PageLimit + 1 }
  BY FirstRowsBefore DEF Fetched
<1>2. items = { r \in fetched : Cardinality(Before(fetched, r)) < PageLimit }
  BY FirstRowsBefore
<1>3. /\ items \subseteq fetched /\ fetched \subseteq C
      /\ fetched \in SUBSET RowType /\ IsFiniteSet(fetched)
  <2>1. items \subseteq fetched /\ fetched \in SUBSET C
    BY <1>1, <1>2
  <2> QED BY <2>1, FS_Subset
<1>4. \A r : /\ IsFiniteSet(Before(C, r)) /\ Cardinality(Before(C, r)) \in Nat
             /\ IsFiniteSet(Before(fetched, r)) /\ Cardinality(Before(fetched, r)) \in Nat
  BY <1>3, BeforeIsFinite
<1>5. ASSUME fetched # items PROVE items # {}
  <2>1. fetched # {}
    BY <1>3, <1>5
  <2>2. PICK r \in fetched : \A s \in fetched : ~Newer(s, r)
    BY <1>3, <2>1, FirstOf
  <2>3. Before(fetched, r) = {}
    BY <2>2 DEF Before
  <2>4. Cardinality(Before(fetched, r)) = 0
    BY <2>3, FS_EmptySet
  <2> QED BY <1>2, <2>2, <2>4
<1>6. ASSUME NEW c \in items, NEW r \in C, r = c \/ Newer(r, c) PROVE r \in items
  <2>1. CASE r = c
    BY <2>1
  <2>2. CASE Newer(r, c)
    <3>1. c \in C /\ c \in fetched
      BY <1>3
    <3>2. Cardinality(Before(C, r)) < Cardinality(Before(C, c))
      BY <2>2, <3>1, BeforeGrows
    <3>3. Cardinality(Before(C, c)) < PageLimit + 1
      BY <1>1, <3>1
    <3>4. r \in fetched
      <4>1. Cardinality(Before(C, r)) \in Nat /\ Cardinality(Before(C, c)) \in Nat
        BY <1>4
      <4>2. Cardinality(Before(C, r)) < PageLimit + 1
        BY <3>2, <3>3, <4>1
      <4> QED BY <1>1, <4>2
    <3>5. Cardinality(Before(fetched, r)) < Cardinality(Before(fetched, c))
      BY <1>3, <2>2, <3>1, <3>4, BeforeGrows
    <3>6. Cardinality(Before(fetched, c)) < PageLimit
      BY <1>2
    <3>7. Cardinality(Before(fetched, r)) < PageLimit
      <4>1. Cardinality(Before(fetched, r)) \in Nat /\ Cardinality(Before(fetched, c)) \in Nat
        BY <1>4
      <4> QED BY <3>5, <3>6, <4>1
    <3> QED BY <1>2, <3>4, <3>7
  <2> QED BY <1>6, <2>1, <2>2
<1>7. ASSUME fetched = items, C # items PROVE FALSE
  <2>1. C \ items # {} /\ C \ items \in SUBSET C
    BY <1>3, <1>7
  <2>2. PICK r \in C \ items : \A s \in C \ items : ~Newer(s, r)
    BY <2>1, FirstOf
  <2> DEFINE ahead == Before(C, r)
  <2>3. ahead \in SUBSET items /\ ahead \in SUBSET C
    BY <2>2 DEF Before
  <2>4. ~(Cardinality(ahead) < PageLimit + 1)
    BY <1>1, <1>7, <2>2
  <2>5. IsFiniteSet(ahead) /\ Cardinality(ahead) \in Nat
    BY <1>4
  <2> HIDE DEF ahead
  <2>6. ahead # {}
    <3>1. Cardinality({}) = 0
      BY FS_EmptySet
    <3> QED BY <2>4, <3>1
  <2>7. Distinct(ahead) /\ ahead \in SUBSET RowType
    BY <2>3 DEF Distinct
  <2>8. PICK t \in ahead : \A s \in ahead : s = t \/ Newer(s, t)
    BY <2>6, <2>7, Oldest
  <2>9. Cardinality(Before(fetched, t)) < PageLimit
    BY <1>2, <2>3
  <2>10. ahead \ {t} \in SUBSET Before(fetched, t)
    BY <1>3, <2>3, <2>8 DEF Before
  <2>11. Cardinality(ahead \ {t}) = Cardinality(ahead) - 1
    BY <2>5, FS_RemoveElement
  <2>12. Cardinality(ahead \ {t}) <= Cardinality(Before(fetched, t))
    BY <1>4, <2>10, FS_Subset
  <2>13. Cardinality(Before(fetched, t)) \in Nat
    BY <1>4
  <2> QED BY <2>4, <2>5, <2>9, <2>11, <2>12, <2>13
<1> QED BY <1>3, <1>5, <1>6, <1>7

-----------------------------------------------------------------------------
(* The invariant.                                                          *)

ShownIds == { r.id : r \in Shown }

\* A walk has shown what is newer than its cursor; of the rows that were listed
\* all the while it has shown those that do not come after the cursor.
WalkInv ==
  /\ walk = NotWalking => pages = << >> /\ steady = {}
  /\ walk.list \in Lists =>
       \A i \in DOMAIN pages : \A r \in pages[i] : r = walk.cursor \/ Newer(r, walk.cursor)
  /\ steady \subseteq { r.id : r \in rows }
  /\ \A r \in rows : r.id \in steady =>
       /\ ~r.archived
       /\ walk.list \in Lists =>
            r.list = walk.list /\ (r.id \in ShownIds \/ Newer(walk.cursor, r))

CatalogueInv ==
  CatalogueTypes /\ Distinct(rows) /\ WalkInv /\ PagesGoDown /\ NothingMissed

LEMMA CatalogueStart == CatalogueInit => CatalogueInv
<1> SUFFICES ASSUME CatalogueInit PROVE CatalogueInv
  OBVIOUS
<1> USE DEF CatalogueInit
<1>1. CatalogueTypes
  <2>1. << >> \in Seq(SUBSET RowType)
    OBVIOUS
  <2> QED BY <2>1 DEF CatalogueTypes, RequestType, WalkType
<1>2. Distinct(rows)
  BY DEF Distinct
<1>3. NotWalking.list = "none" /\ "none" \notin Lists
  BY DEF NotWalking, Lists
<1>4. WalkInv
  BY <1>3 DEF WalkInv
<1>5. PagesGoDown /\ NothingMissed
  BY DEF PagesGoDown, NothingMissed
<1> QED BY <1>1, <1>2, <1>4, <1>5 DEF CatalogueInv

LEMMA RowsAreFinite ==
  ASSUME CatalogueTypes, Distinct(rows)
  PROVE  IsFiniteSet(rows)
<1> DEFINE idOf == [ r \in rows |-> r.id ]
<1>1. idOf \in [rows -> Ids]
  BY DEF CatalogueTypes, RowType
<1>2. idOf \in Injection(rows, Ids)
  BY <1>1 DEF Distinct, Injection, IsInjective
<1> QED BY <1>2, FS_Injection

\* New rows do not disturb a walk: they were not there when it began.
LEMMA CommitKeepsInv ==
  ASSUME CatalogueInv, NEW set \in SUBSET RowType, Commits(set),
         \A r \in set : r.list = "products" => r.key \in Slugs,
         request' \in [Requests -> RequestType]
  PROVE  CatalogueInv'
<1> USE DEF CatalogueInv
<1>1. /\ \A r \in set, s \in set \cup rows : r.id = s.id => r = s
      /\ rows' = rows \cup set
      /\ UNCHANGED << now, walk, pages, steady >>
  BY DEF Commits
<1>2. CatalogueTypes'
  BY <1>1 DEF CatalogueTypes
<1>3. Distinct(rows)'
  BY <1>1 DEF Distinct
<1>4. \A r \in rows' : r.id \in steady => r \in rows
  BY <1>1 DEF WalkInv
<1>5. ShownIds' = ShownIds
  BY <1>1 DEF ShownIds, Shown
<1>6. WalkInv'
  BY <1>1, <1>4, <1>5 DEF WalkInv
<1>7. PagesGoDown' /\ NothingMissed'
  BY <1>1 DEF PagesGoDown, NothingMissed, Shown
<1> QED BY <1>2, <1>3, <1>6, <1>7

LEMMA ArchiveKeepsInv ==
  ASSUME CatalogueInv, NEW p \in rows, ArchiveProduct(p)
  PROVE  CatalogueInv'
<1> USE DEF CatalogueInv
<1> DEFINE away == Archived(p)
<1>1. /\ p.list = "products"
      /\ rows' = (rows \ {p}) \cup { away }
      /\ steady' = steady \ {p.id}
      /\ UNCHANGED << now, request, walk, pages >>
  BY DEF ArchiveProduct
<1>2. /\ away \in RowType /\ away.id = p.id /\ away.key = p.key /\ away.code = p.code
      /\ away.list = p.list
  BY DEF CatalogueTypes, RowType, Archived
<1> HIDE DEF away
<1>3. CatalogueTypes'
  BY <1>1, <1>2 DEF CatalogueTypes
<1>4. \A r \in rows \ {p} : r.id # p.id
  BY DEF Distinct
<1>5. Distinct(rows)'
  BY <1>1, <1>2, <1>4 DEF Distinct
<1>6. ShownIds' = ShownIds
  BY <1>1 DEF ShownIds, Shown
<1>7. WalkInv'
  <2>1. \A r \in rows' : r.id \in steady' => r \in rows
    BY <1>1, <1>2
  <2>2. steady' \subseteq { r.id : r \in rows' }
    BY <1>1, <1>2 DEF WalkInv
  <2> QED BY <1>1, <1>6, <2>1, <2>2 DEF WalkInv
<1>8. PagesGoDown' /\ NothingMissed'
  BY <1>1 DEF PagesGoDown, NothingMissed, Shown
<1> QED BY <1>3, <1>5, <1>7, <1>8

LEMMA RequestsKeepInv ==
  ASSUME CatalogueInv, request' \in [Requests -> RequestType], now' \in Nat,
         UNCHANGED << rows, walk, pages, steady >>
  PROVE  CatalogueInv'
  BY DEF CatalogueInv, CatalogueTypes, Distinct, WalkInv, PagesGoDown, NothingMissed,
     ShownIds, Shown

-----------------------------------------------------------------------------
(* A page.                                                                 *)

\* A page is made of rows C that come after all that was shown and that hold
\* what has been listed all the while and was not shown.
LEMMA AnswerKeepsInv ==
  ASSUME CatalogueInv, NEW list \in Lists, NEW C \in SUBSET rows, Answer(list, C),
         \A i \in DOMAIN pages : \A r \in pages[i], s \in C : Newer(r, s),
         UNCHANGED << now, rows, request >>,
         steady' \subseteq { r.id : r \in rows },
         \A r \in rows : r.id \in steady' =>
           ~r.archived /\ r.list = list /\ (r.id \in ShownIds \/ r \in C)
  PROVE  CatalogueInv'
<1> USE DEF CatalogueInv
<1> DEFINE fetched == Fetched(C)
           items == FirstRows(fetched, PageLimit)
<1>1. C \in SUBSET RowType /\ IsFiniteSet(C) /\ Distinct(C)
  <2>1. IsFiniteSet(rows) /\ rows \in SUBSET RowType
    BY RowsAreFinite DEF CatalogueTypes
  <2> QED BY <2>1, FS_Subset DEF Distinct
<1>2. /\ items \subseteq fetched /\ fetched \subseteq C
      /\ fetched # items => items # {}
      /\ fetched = items => C = items
      /\ \A c \in items, r \in C : r = c \/ Newer(r, c) => r \in items
  BY <1>1, PageFacts
<1>3. /\ pages' = Append(pages, items)
      /\ walk' = IF fetched # items
                 THEN [list |-> list, cursor |-> LastOf(items, fetched)]
                 ELSE [list |-> "end"]
  BY DEF Answer
<1> HIDE DEF fetched, items
<1>4. items \in SUBSET RowType /\ items \in SUBSET C
  BY <1>1, <1>2
<1>5. pages \in Seq(SUBSET RowType)
  BY DEF CatalogueTypes
<1>6. /\ pages' \in Seq(SUBSET RowType)
      /\ Len(pages) \in Nat
      /\ DOMAIN pages = 1..Len(pages) /\ DOMAIN pages' = 1..(Len(pages) + 1)
      /\ \A i \in DOMAIN pages : pages'[i] = pages[i]
      /\ pages'[Len(pages) + 1] = items
  <2>1. /\ pages' \in Seq(SUBSET RowType)
        /\ Len(pages') = Len(pages) + 1
        /\ \A i \in 1..Len(pages) : pages'[i] = pages[i]
        /\ pages'[Len(pages) + 1] = items
    BY <1>3, <1>4, <1>5, AppendProperties
  <2>2. DOMAIN pages = 1..Len(pages) /\ DOMAIN pages' = 1..Len(pages') /\ Len(pages) \in Nat
    BY <1>5, <2>1
  <2> QED BY <2>1, <2>2
<1>7. \A i \in DOMAIN pages' : i \in DOMAIN pages \/ i = Len(pages) + 1
  BY <1>6
<1>8. PagesGoDown'
  <2> SUFFICES ASSUME NEW i \in DOMAIN pages', NEW j \in DOMAIN pages', i < j,
                      NEW r \in pages'[i], NEW s \in pages'[j]
               PROVE  Newer(r, s)
    BY DEF PagesGoDown
  <2>1. i \in DOMAIN pages
    BY <1>6, <1>7
  <2>2. CASE j \in DOMAIN pages
    BY <1>6, <2>1, <2>2 DEF PagesGoDown
  <2>3. CASE j = Len(pages) + 1
    BY <1>4, <1>6, <2>1, <2>3
  <2> QED BY <1>7, <2>2, <2>3
<1>9. ShownIds \subseteq ShownIds' /\ \A r \in items : r.id \in ShownIds'
  <2>1. \A i \in DOMAIN pages : i \in DOMAIN pages' /\ pages'[i] = pages[i]
    BY <1>6
  <2>2. Len(pages) + 1 \in DOMAIN pages' /\ pages'[Len(pages) + 1] = items
    BY <1>6
  <2>3. Shown \subseteq Shown' /\ items \subseteq Shown'
    BY <2>1, <2>2 DEF Shown
  <2> QED BY <2>3 DEF ShownIds
<1>10. Distinct(rows)'
  BY DEF Distinct
<1>11. "none" \notin Lists /\ "end" \notin Lists /\ NotWalking.list = "none"
  BY DEF Lists, NotWalking
<1>12. steady' \in SUBSET Ids
  BY DEF CatalogueTypes, RowType
<1>13. CASE fetched # items
  <2> DEFINE c == LastOf(items, fetched)
  <2>1. items # {} /\ Distinct(items)
    BY <1>1, <1>2, <1>4, <1>13 DEF Distinct
  <2>2. \E r \in items : \A s \in items : s = r \/ Newer(s, r)
    BY <1>4, <2>1, Oldest
  <2>3. c \in items /\ \A s \in items : s = c \/ Newer(s, c)
    BY <2>2 DEF LastOf
  <2>4. c \in RowType /\ c \in C
    BY <1>4, <2>3
  <2>5. walk' = [list |-> list, cursor |-> c]
    BY <1>3, <1>13
  <2> HIDE DEF c
  <2>6. /\ walk' \in WalkType /\ walk' # NotWalking
        /\ walk'.list = list /\ walk'.list # "end" /\ walk'.cursor = c
    BY <1>11, <2>4, <2>5 DEF WalkType
  <2>7. CatalogueTypes'
    BY <1>6, <1>12, <2>6 DEF CatalogueTypes
  <2>8. \A i \in DOMAIN pages' : \A r \in pages'[i] : r = c \/ Newer(r, c)
    BY <1>6, <1>7, <2>3, <2>4
  <2>9. ASSUME NEW r \in rows, r.id \in steady'
        PROVE  r.id \in ShownIds' \/ Newer(c, r)
    <3>1. CASE r.id \in ShownIds
      BY <1>9, <3>1
    <3>2. CASE r \in C
      <4>1. CASE r = c \/ Newer(r, c)
        BY <1>2, <1>9, <2>3, <3>2, <4>1
      <4>2. CASE ~(r = c \/ Newer(r, c))
        <5>1. r \in RowType /\ r.id # c.id
          BY <1>1, <2>4, <3>2, <4>2 DEF Distinct
        <5> QED BY <2>4, <4>2, <5>1, NewerOrder
      <4> QED BY <4>1, <4>2
    <3> QED BY <2>9, <3>1, <3>2
  <2>10. WalkInv'
    BY <2>6, <2>8, <2>9 DEF WalkInv
  <2>11. NothingMissed'
    BY <2>6 DEF NothingMissed
  <2> QED BY <1>8, <1>10, <2>7, <2>10, <2>11
<1>14. CASE fetched = items
  <2>1. walk' = [list |-> "end"] /\ walk'.list = "end" /\ walk' \in WalkType
    BY <1>3, <1>14 DEF WalkType
  <2>2. CatalogueTypes'
    BY <1>6, <1>12, <2>1 DEF CatalogueTypes
  <2>3. walk' # NotWalking /\ walk'.list \notin Lists
    BY <1>11, <2>1
  <2>4. WalkInv'
    BY <2>3 DEF WalkInv
  <2>5. \A r \in rows : r.id \in steady' => r.id \in ShownIds'
    BY <1>2, <1>9, <1>14
  <2>6. NothingMissed'
    BY <2>5 DEF NothingMissed, ShownIds
  <2> QED BY <1>8, <1>10, <2>2, <2>4, <2>6
<1> QED BY <1>13, <1>14

LEMMA FirstPageKeepsInv ==
  ASSUME CatalogueInv, NEW list \in Lists, FirstPage(list)
  PROVE  CatalogueInv'
<1>1. /\ walk = NotWalking /\ Answer(list, Listed(list))
      /\ steady' = { r.id : r \in Listed(list) }
      /\ UNCHANGED << now, rows, request >>
  BY DEF FirstPage
<1>2. Listed(list) \in SUBSET rows
  BY DEF Listed
<1>3. pages = << >>
  BY <1>1 DEF CatalogueInv, WalkInv
<1>4. \A r \in rows : r.id \in steady' => r \in Listed(list)
  BY <1>1, <1>2 DEF CatalogueInv, Distinct
<1>5. \A r \in Listed(list) : ~r.archived /\ r.list = list
  BY DEF Listed
<1> QED BY <1>1, <1>2, <1>3, <1>4, <1>5, AnswerKeepsInv

LEMMA NextPageKeepsInv ==
  ASSUME CatalogueInv, NextPage
  PROVE  CatalogueInv'
<1> DEFINE C == { r \in Listed(walk.list) : Beyond(walk.cursor, r) }
<1>1. /\ walk.list \in Lists /\ Answer(walk.list, C)
      /\ UNCHANGED << now, rows, request, steady >>
  BY DEF NextPage
<1>2. C \in SUBSET rows /\ \A s \in C : Newer(walk.cursor, s)
  BY DEF Listed, Beyond
<1>3. walk.cursor \in RowType
  <2>1. "end" \notin Lists /\ "none" \notin Lists
    BY DEF Lists
  <2> QED BY <1>1, <2>1 DEF CatalogueInv, CatalogueTypes, WalkType, NotWalking
<1>4. ASSUME NEW i \in DOMAIN pages, NEW r \in pages[i], NEW s \in C
      PROVE  Newer(r, s)
  <2>1. r \in RowType /\ s \in RowType
    BY <1>2 DEF CatalogueInv, CatalogueTypes
  <2>2. r = walk.cursor \/ Newer(r, walk.cursor)
    BY <1>1 DEF CatalogueInv, WalkInv
  <2> QED BY <1>2, <1>3, <2>1, <2>2, NewerTransitive
<1>5. ASSUME NEW r \in rows, r.id \in steady
      PROVE  ~r.archived /\ r.list = walk.list /\ (r.id \in ShownIds \/ r \in C)
  BY <1>1, <1>5 DEF CatalogueInv, WalkInv, Listed, Beyond
<1>6. steady \subseteq { r.id : r \in rows }
  BY DEF CatalogueInv, WalkInv
<1> HIDE DEF C
<1> QED BY <1>1, <1>2, <1>4, <1>5, <1>6, AnswerKeepsInv

LEMMA EndWalkKeepsInv ==
  ASSUME CatalogueInv, EndWalk
  PROVE  CatalogueInv'
<1>1. /\ walk' = NotWalking /\ pages' = << >> /\ steady' = {}
      /\ UNCHANGED << now, rows, request >>
  BY DEF EndWalk
<1>2. << >> \in Seq(SUBSET RowType) /\ NotWalking \in WalkType
  BY DEF WalkType
<1>3. CatalogueTypes' /\ Distinct(rows)'
  BY <1>1, <1>2 DEF CatalogueInv, CatalogueTypes, Distinct
<1>4. NotWalking.list \notin Lists /\ NotWalking.list # "end"
  BY DEF NotWalking, Lists
<1>5. WalkInv'
  BY <1>1, <1>4 DEF WalkInv
<1>6. PagesGoDown' /\ NothingMissed'
  BY <1>1, <1>4 DEF PagesGoDown, NothingMissed
<1> QED BY <1>3, <1>5, <1>6 DEF CatalogueInv

-----------------------------------------------------------------------------
(* Every step.                                                             *)

LEMMA RowIsTyped ==
  ASSUME NEW list \in Lists, NEW id \in Ids, NEW key \in Keys, NEW code \in Codes, NEW at \in Nat
  PROVE  /\ Row(list, id, key, code, at) \in RowType
         /\ Row(list, id, key, code, at).list = list
         /\ Row(list, id, key, code, at).id = id
         /\ Row(list, id, key, code, at).key = key
  BY DEF Row, RowType

LEMMA RequestForgotten ==
  ASSUME CatalogueTypes, NEW q \in Requests, NEW r \in RequestType, Works(q, r)
  PROVE  request' \in [Requests -> RequestType]
  BY DEF CatalogueTypes, Works

LEMMA InsertKeepsInv ==
  ASSUME CatalogueInv
  PROVE  /\ \A q \in Requests, at \in 0..now, id \in Ids, V \in SUBSET Variants :
              \A skuId \in [V -> Ids \ {id}] : CreateProduct(q, at, id, skuId) => CatalogueInv'
         /\ \A q \in Requests, at \in 0..now, id \in Ids : CreateSku(q, at, id) => CatalogueInv'
         /\ \A u \in Users, at \in 0..now, id \in Ids : OrderCreated(u, at, id) => CatalogueInv'
<1> USE DEF CatalogueInv
<1>1. /\ "products" \in Lists /\ "skus" \in Lists /\ Users \subseteq Lists
      /\ "products" \notin Users /\ "skus" \notin Users
      /\ \A u \in Users : u # "products"
  BY DEF Lists
<1>2. NoRequest \in RequestType /\ NoRequest.list = "none"
  BY DEF RequestType, NoRequest
<1>3. {} \in Codes /\ Ids \subseteq Keys /\ Slugs \subseteq Keys /\ Ids \X Variants \subseteq Keys
  BY DEF Codes, Keys
<1>4. \A k \in Keys, v \in Variants : generateSkuCode(k, v) \in Codes
  BY DEF Codes
<1>5. \A at \in 0..now : at \in Nat
  BY DEF CatalogueTypes
<1>6. ASSUME NEW q \in Requests, NEW at \in 0..now, NEW id \in Ids, NEW V \in SUBSET Variants,
             NEW skuId \in [V -> Ids \ {id}], CreateProduct(q, at, id, skuId)
      PROVE  CatalogueInv'
  <2> DEFINE slug == request[q].key
             sku(v) == Row("skus", skuId[v], << id, v >>, generateSkuCode(slug, v), at)
             product == Row("products", id, slug, {}, at)
             set == {product} \cup { sku(v) : v \in V }
  <2>1. request[q].list = "products" /\ Commits(set) /\ Works(q, NoRequest)
    BY <1>6 DEF CreateProduct
  <2>2. slug \in Slugs
    BY <1>2, <2>1 DEF CatalogueTypes, RequestType
  <2>3. product \in RowType /\ product.list = "products" /\ product.key = slug
    <3>1. "products" \in Lists /\ slug \in Keys /\ {} \in Codes /\ at \in Nat
      BY <1>1, <1>3, <1>5, <2>2
    <3> HIDE DEF slug
    <3> QED BY ONLY <3>1, id \in Ids, RowIsTyped
  <2>4. ASSUME NEW v \in V PROVE sku(v) \in RowType /\ sku(v).list = "skus"
    <3>1. /\ "skus" \in Lists /\ << id, v >> \in Keys
          /\ generateSkuCode(slug, v) \in Codes /\ skuId[v] \in Ids /\ at \in Nat
      BY <1>1, <1>3, <1>4, <1>5, <2>2
    <3> HIDE DEF slug
    <3> QED BY ONLY <3>1, RowIsTyped
  <2>5. request' \in [Requests -> RequestType]
    BY <1>2, <2>1, RequestForgotten
  <2>6. set \in SUBSET RowType /\ \A r \in set : /\ r.list = "products" => r.key \in Slugs
                                                 /\ r.list \in Users => r.key = r.id
    BY <1>1, <2>2, <2>3, <2>4
  <2> HIDE DEF set
  <2> QED BY <2>1, <2>5, <2>6, CommitKeepsInv
<1>7. ASSUME NEW q \in Requests, NEW at \in 0..now, NEW id \in Ids, CreateSku(q, at, id)
      PROVE  CatalogueInv'
  <2> DEFINE row == Row("skus", id, request[q].key, request[q].code, at)
  <2>1. request[q].list = "skus" /\ Commits({row}) /\ Works(q, NoRequest)
    BY <1>7 DEF CreateSku
  <2>2. request[q].key \in Keys /\ request[q].code \in Codes
    BY <1>2, <1>3, <2>1 DEF CatalogueTypes, RequestType
  <2>3. row \in RowType /\ row.list = "skus"
    BY <1>1, <1>5, <2>2, RowIsTyped
  <2>4. request' \in [Requests -> RequestType]
    BY <1>2, <2>1, RequestForgotten
  <2> HIDE DEF row
  <2>5. {row} \in SUBSET RowType /\ \A r \in {row} : /\ r.list = "products" => r.key \in Slugs
                                                     /\ r.list \in Users => r.key = r.id
    BY <1>1, <2>3
  <2> QED BY <2>1, <2>4, <2>5, CommitKeepsInv
<1>8. ASSUME NEW u \in Users, NEW at \in 0..now, NEW id \in Ids, OrderCreated(u, at, id)
      PROVE  CatalogueInv'
  <2> DEFINE row == Row(u, id, id, {}, at)
  <2>1. Commits({row}) /\ UNCHANGED request
    BY <1>8 DEF OrderCreated
  <2>2. row \in RowType /\ row.list = u /\ row.key = id /\ row.id = id
    BY <1>1, <1>3, <1>5, RowIsTyped
  <2> HIDE DEF row
  <2>3. {row} \in SUBSET RowType /\ \A r \in {row} : /\ r.list = "products" => r.key \in Slugs
                                                     /\ r.list \in Users => r.key = r.id
    BY <1>1, <2>2
  <2>4. request' \in [Requests -> RequestType]
    BY <2>1 DEF CatalogueTypes
  <2> QED BY <2>1, <2>3, <2>4, CommitKeepsInv
<1> QED BY <1>6, <1>7, <1>8

LEMMA BatchKeepsInv ==
  ASSUME CatalogueInv, NEW list \in {"products", "skus"}, NEW batch \in SUBSET Ids,
         NEW keyOf \in [batch -> Keys], InsertBatched(list, keyOf),
         list = "products" => \A id \in batch : keyOf[id] \in Slugs
  PROVE  CatalogueInv'
<1> DEFINE row(id) == Row(list, id, keyOf[id], {keyOf[id]}, now)
           set == { row(id) : id \in batch }
<1>1. Commits(set) /\ UNCHANGED request
  BY DEF InsertBatched
<1>2. list \in Lists /\ list \notin Users /\ now \in Nat
  BY DEF Lists, CatalogueInv, CatalogueTypes
<1>3. ASSUME NEW id \in batch
      PROVE  row(id) \in RowType /\ row(id).list = list /\ row(id).key = keyOf[id]
  <2>1. id \in Ids /\ keyOf[id] \in Keys /\ {keyOf[id]} \in Codes
    BY DEF Codes
  <2> QED BY <1>2, <2>1, RowIsTyped
<1>4. set \in SUBSET RowType /\ \A r \in set : /\ r.list = "products" => r.key \in Slugs
                                               /\ r.list \in Users => r.key = r.id
  BY <1>2, <1>3
<1>5. request' \in [Requests -> RequestType]
  BY <1>1 DEF CatalogueInv, CatalogueTypes
<1> HIDE DEF set
<1> QED BY <1>1, <1>4, <1>5, CommitKeepsInv

LEMMA SeedKeepsInv ==
  ASSUME CatalogueInv, NEW batch \in SUBSET Ids, Seed(batch)
  PROVE  CatalogueInv'
<1>1. ASSUME NEW slug \in [batch -> Slugs], InsertBatched("products", slug)
      PROVE  CatalogueInv'
  <2>1. slug \in [batch -> Keys] /\ \A id \in batch : slug[id] \in Slugs
    BY DEF Keys
  <2> QED BY <1>1, <2>1, BatchKeepsInv
<1>2. ASSUME NEW key \in [batch -> { p.id : p \in { r \in rows : r.list = "products" } } \X Variants],
             InsertBatched("skus", key)
      PROVE  CatalogueInv'
  <2>1. { p.id : p \in { r \in rows : r.list = "products" } } \subseteq Ids
    BY DEF CatalogueInv, CatalogueTypes, RowType
  <2>2. key \in [batch -> Keys]
    BY <2>1 DEF Keys
  <2> QED BY <1>2, <2>2, BatchKeepsInv
<1> QED BY <1>1, <1>2 DEF Seed

LEMMA LookKeepsInv ==
  ASSUME CatalogueInv
  PROVE  /\ \A q \in Requests : InsertFails(q) => CatalogueInv'
         /\ \A q \in Requests, s \in Slugs : FindProductBySlug(q, s) => CatalogueInv'
         /\ \A q \in Requests, p \in rows, v \in Variants :
              FindSkuByVariant(q, p, v) => CatalogueInv'
         /\ Tick => CatalogueInv'
<1>1. CatalogueTypes /\ now \in Nat
  BY DEF CatalogueInv, CatalogueTypes
<1>2. ASSUME NEW q \in Requests, InsertFails(q) PROVE CatalogueInv'
  <2>1. NoRequest \in RequestType
    BY DEF RequestType
  <2> QED BY <1>1, <1>2, <2>1, RequestForgotten, RequestsKeepInv DEF InsertFails
<1>3. ASSUME NEW q \in Requests, NEW s \in Slugs, FindProductBySlug(q, s) PROVE CatalogueInv'
  <2>1. [list |-> "products", key |-> s, since |-> now] \in RequestType
    BY <1>1 DEF RequestType
  <2> QED BY <1>1, <1>3, <2>1, RequestForgotten, RequestsKeepInv DEF FindProductBySlug
<1>4. ASSUME NEW q \in Requests, NEW p \in rows, NEW v \in Variants, FindSkuByVariant(q, p, v)
      PROVE  CatalogueInv'
  <2>1. p.id \in Ids /\ p.list = "products" /\ p.key \in Slugs
    BY <1>1, <1>4 DEF CatalogueTypes, RowType, FindSkuByVariant
  <2>2. generateSkuCode(p.key, v) \in Codes
    BY <2>1 DEF Codes, Keys
  <2>3. [list |-> "skus", key |-> << p.id, v >>, since |-> now,
         code |-> generateSkuCode(p.key, v)] \in RequestType
    BY <1>1, <2>1, <2>2 DEF RequestType
  <2> QED BY <1>1, <1>4, <2>3, RequestForgotten, RequestsKeepInv DEF FindSkuByVariant
<1>5. ASSUME Tick PROVE CatalogueInv'
  <2>1. now' \in Nat /\ request' \in [Requests -> RequestType]
    BY <1>1, <1>5 DEF Tick, CatalogueTypes
  <2> QED BY <1>5, <2>1, RequestsKeepInv DEF Tick
<1> QED BY <1>2, <1>3, <1>4, <1>5

LEMMA CatalogueStep == CatalogueInv /\ [CatalogueNext]_catalogueVars => CatalogueInv'
<1> SUFFICES ASSUME CatalogueInv, [CatalogueNext]_catalogueVars PROVE CatalogueInv'
  OBVIOUS
<1>1. CASE UNCHANGED catalogueVars
  <2>1. UNCHANGED << rows, walk, pages, steady, request, now >>
    BY <1>1 DEF catalogueVars
  <2>2. request' \in [Requests -> RequestType] /\ now' \in Nat
    BY <2>1 DEF CatalogueInv, CatalogueTypes
  <2> QED BY <2>1, <2>2, RequestsKeepInv
<1>2. CASE \/ \E q \in Requests : InsertFails(q)
           \/ \E q \in Requests, s \in Slugs : FindProductBySlug(q, s)
           \/ \E q \in Requests, p \in rows, v \in Variants : FindSkuByVariant(q, p, v)
           \/ Tick
  BY <1>2, LookKeepsInv
<1>3. CASE \/ \E q \in Requests, at \in 0..now, id \in Ids, V \in SUBSET Variants :
                \E skuId \in [V -> Ids \ {id}] : CreateProduct(q, at, id, skuId)
           \/ \E q \in Requests, at \in 0..now, id \in Ids : CreateSku(q, at, id)
           \/ \E u \in Users, at \in 0..now, id \in Ids : OrderCreated(u, at, id)
  BY <1>3, InsertKeepsInv, Zenon
<1>4. CASE \/ \E batch \in SUBSET Ids \ {{}} : Seed(batch)
           \/ \E p \in rows : ArchiveProduct(p)
  BY <1>4, SeedKeepsInv, ArchiveKeepsInv
<1>5. CASE (\E list \in Lists : FirstPage(list)) \/ NextPage \/ EndWalk
  BY <1>5, FirstPageKeepsInv, NextPageKeepsInv, EndWalkKeepsInv
<1> QED BY <1>1, <1>2, <1>3, <1>4, <1>5, Zenon DEF CatalogueNext

\* The invariant of the catalogue and of a walk through a list.
THEOREM CatalogueInvariant == CatalogueSpec => []CatalogueInv
  BY CatalogueStart, CatalogueStep, PTL DEF CatalogueSpec

\* For every PageLimit, of however many rows with the same created_at: no page
\* shows a row again.
THEOREM ListsGoDown == CatalogueSpec => []PagesGoDown
<1>1. CatalogueInv => PagesGoDown
  BY DEF CatalogueInv
<1> QED BY <1>1, CatalogueInvariant, PTL

\* Nor is a row skipped between two pages.
THEOREM ListsAreComplete == CatalogueSpec => []NothingMissed
<1>1. CatalogueInv => NothingMissed
  BY DEF CatalogueInv
<1> QED BY <1>1, CatalogueInvariant, PTL

================================================================================
