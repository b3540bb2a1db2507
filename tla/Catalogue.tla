------------------------------- MODULE Catalogue -------------------------------
(***************************************************************************)
(* The catalogue (src/src/modules/product) and the lists of the API: an    *)
(* administrator's requests look before they insert, a client walks a list *)
(* page by page with the cursor of the page before, and rows are inserted  *)
(* and archived between two pages.  The three lists (products, SKUs, the   *)
(* orders of a user) use one paging, src/src/common/pagination/cursor.ts.  *)
(***************************************************************************)
EXTENDS Integers, FiniteSets, Sequences

CONSTANTS
  Ids,        \* the UUIDs there may be; only their order matters
  Slugs,      \* slugs of products
  Variants,   \* sizes and colours of a product's SKUs
  SkuCode,    \* SkuCode[slug, v]: the sku_code made of a slug, a size, a colour
  Users,      \* buyers with a list of orders
  Requests,   \* requests of administrators that are in work at a time
  PageLimit,  \* ?limit= of a list
  MaxTime     \* bound: milliseconds that pass

CatalogueConstants ==
  /\ Ids \subseteq Nat /\ IsFiniteSet(Ids)
  /\ { "products", "skus", "none", "end" } \cap Users = {}
  /\ PageLimit \in Nat \ {0}
  /\ MaxTime \in Nat

ASSUME CatalogueAssumption == CatalogueConstants

VARIABLES
  now,      \* the clock that gives rows their created_at, a TIMESTAMP(3)
  rows,     \* what is committed: products, SKUs and orders
  request,  \* what a request has looked up and is about to insert
  walk,     \* the walk of a client through a list
  pages,    \* the pages it has been shown, each a set of rows
  steady    \* history: ids that were listed when the walk began and ever since

catalogueVars == << now, rows, request, walk, pages, steady >>

Lists == { "products", "skus" } \cup Users

\* Cut letters and a hash of 4 places: two SKUs may come by the same code.
generateSkuCode(slug, v) == SkuCode[slug, v]

\* A row: the list it is of, what must be unique there, when it was created.
\* Only SKUs have a code.
Row(list, id, key, code, at) ==
  [list |-> list, id |-> id, key |-> key, code |-> code, at |-> at, archived |-> FALSE]

NoRequest == [list |-> "none"]

NotWalking == [list |-> "none"]

CatalogueInit ==
  /\ now = 0
  /\ rows = {}
  /\ request = [q \in Requests |-> NoRequest]
  /\ walk = NotWalking
  /\ pages = << >>
  /\ steady = {}

\* The lists of SKUs and of orders leave nothing out.
Listed(list) == { r \in rows : r.list = list /\ ~r.archived }

Has(list, key) == \E r \in rows : r.list = list /\ r.key = key

\* The UNIQUE constraints: slug, (productId, size, color), sku_code.
Unique(set) ==
  \A r, s \in set :
    r.list = s.list /\ r.list \notin Users =>
      (r.key = s.key \/ (r.list = "skus" /\ r.code = s.code) => r = s)

-----------------------------------------------------------------------------
(* Writing *)

Works(q, r) == request' = [request EXCEPT ![q] = r]

\* createProduct and addSku look whether the key is taken; 409 when it is.
FindProductBySlug(q, slug) ==
  /\ request[q] = NoRequest
  /\ ~Has("products", slug)
  /\ Works(q, [list |-> "products", key |-> slug, since |-> now])
  /\ UNCHANGED << now, rows, walk, pages, steady >>

FindSkuByVariant(q, p, v) ==
  /\ request[q] = NoRequest
  /\ p.list = "products"
  /\ ~Has("skus", << p.id, v >>)
  /\ Works(q, [list |-> "skus", key |-> << p.id, v >>, since |-> now,
              code |-> generateSkuCode(p.key, v)])
  /\ UNCHANGED << now, rows, walk, pages, steady >>

\* A transaction commits; created_at is from before the commit.
Commits(set) ==
  /\ \A r \in set, s \in set \cup rows : r.id = s.id => r = s
  /\ Unique(rows \cup set)
  /\ rows' = rows \cup set
  /\ UNCHANGED << now, walk, pages, steady >>

\* The product and its first SKUs, together.
CreateProduct(q, at, id, skuId) ==
  /\ request[q].list = "products"
  /\ at >= request[q].since
  /\ Commits({ Row("products", id, request[q].key, {}, at) }
             \cup { Row("skus", skuId[v], << id, v >>, generateSkuCode(request[q].key, v), at) : v \in DOMAIN skuId })
  /\ Works(q, NoRequest)

CreateSku(q, at, id) ==
  /\ request[q].list = "skus"
  /\ at >= request[q].since
  /\ Commits({ Row("skus", id, request[q].key, request[q].code, at) })
  /\ Works(q, NoRequest)

\* A broken UNIQUE, two like SKUs in one body, a database that is away: 500.
InsertFails(q) ==
  /\ request[q] # NoRequest
  /\ Works(q, NoRequest)
  /\ UNCHANGED << now, rows, walk, pages, steady >>

\* An order of the user; OrderFlow says how it comes about.
OrderCreated(u, at, id) ==
  /\ Commits({ Row(u, id, id, {}, at) })
  /\ UNCHANGED request

\* One INSERT of a batch of rows: they have one created_at.  The codes of the
\* seed are not hashed; each belongs to its product and variant.
InsertBatched(list, keyOf) ==
  /\ Commits({ Row(list, id, keyOf[id], {keyOf[id]}, now) : id \in DOMAIN keyOf })
  /\ UNCHANGED request

\* The seed script: batches of products, then batches of their SKUs, each its
\* own transaction.
Seed(batch) ==
  \/ \E slug \in [batch -> Slugs] : InsertBatched("products", slug)
  \/ \E key \in [batch -> { p.id : p \in { r \in rows : r.list = "products" } } \X Variants] :
       InsertBatched("skus", key)

Archived(r) ==
  [list |-> r.list, id |-> r.id, key |-> r.key, code |-> r.code, at |-> r.at, archived |-> TRUE]

\* Nothing ever takes a product out of the archive.
ArchiveProduct(p) ==
  /\ p.list = "products"
  /\ rows' = (rows \ {p}) \cup { Archived(p) }
  /\ steady' = steady \ {p.id}
  /\ UNCHANGED << now, request, walk, pages >>

Tick ==
  /\ now < MaxTime
  /\ now' = now + 1
  /\ UNCHANGED << rows, request, walk, pages, steady >>

-----------------------------------------------------------------------------
(* Reading *)

\* (createdAt, id) in descending order.
Newer(r, s) == r.at > s.at \/ (r.at = s.at /\ r.id > s.id)

BeyondSameTime(cursor, r) == r.at <= cursor.at

BeyondByTime(cursor, r) == r.at < cursor.at

\* WHERE: the rows a cursor leaves.
Beyond(cursor, r) == Newer(cursor, r)

\* LIMIT: the rows that fewer than n others come before.
FirstRows(set, n) ==
  { r \in set : Cardinality({ s \in set : Newer(s, r) }) < n }

FetchedToLimit(set) == FirstRows(set, PageLimit)

\* One row more than a page holds, to know whether there are more.
Fetched(set) == FirstRows(set, PageLimit + 1)

LastFetched(items, fetched) ==
  CHOOSE r \in fetched : \A s \in fetched : s = r \/ Newer(s, r)

\* The last row that is shown makes the cursor, not the one that is surplus.
LastOf(items, fetched) ==
  CHOOSE r \in items : \A s \in items : s = r \/ Newer(s, r)

\* paginate: what is shown of the rows fetched, and where to go on.
Answer(list, candidates) ==
  LET fetched == Fetched(candidates)
      items == FirstRows(fetched, PageLimit)
  IN  /\ pages' = Append(pages, items)
      /\ walk' = IF fetched # items
                 THEN [list |-> list, cursor |-> LastOf(items, fetched)]
                 ELSE [list |-> "end"]

\* A client begins a list: the walk before, if any, is forgotten.
FirstPage(list) ==
  /\ walk = NotWalking
  /\ Answer(list, Listed(list))
  /\ steady' = { r.id : r \in Listed(list) }
  /\ UNCHANGED << now, rows, request >>

NextPage ==
  /\ walk.list \in Lists
  /\ Answer(walk.list, { r \in Listed(walk.list) : Beyond(walk.cursor, r) })
  /\ UNCHANGED << now, rows, request, steady >>

\* The client leaves the list.
EndWalk ==
  /\ walk # NotWalking
  /\ walk' = NotWalking /\ pages' = << >> /\ steady' = {}
  /\ UNCHANGED << now, rows, request >>

-----------------------------------------------------------------------------
CatalogueNext ==
  \/ \E q \in Requests : InsertFails(q)
  \/ \E q \in Requests, s \in Slugs : FindProductBySlug(q, s)
  \/ \E q \in Requests, p \in rows, v \in Variants : FindSkuByVariant(q, p, v)
  \/ \E q \in Requests, at \in 0..now, id \in Ids, V \in SUBSET Variants :
       \E skuId \in [V -> Ids \ {id}] : CreateProduct(q, at, id, skuId)
  \/ \E q \in Requests, at \in 0..now, id \in Ids : CreateSku(q, at, id)
  \/ \E u \in Users, at \in 0..now, id \in Ids : OrderCreated(u, at, id)
  \/ \E batch \in SUBSET Ids \ {{}} : Seed(batch)
  \/ \E p \in rows : ArchiveProduct(p)
  \/ Tick
  \/ \E list \in Lists : FirstPage(list)
  \/ NextPage
  \/ EndWalk

CatalogueSpec == CatalogueInit /\ [][CatalogueNext]_catalogueVars

-----------------------------------------------------------------------------
(* Properties *)

Shown == UNION { pages[i] : i \in DOMAIN pages }

\* Page by page a list only goes back in time: a row on a page is newer than
\* every row on a page after it, so none is shown twice, whatever is inserted,
\* committed late or archived in between (cursor.ts:13-16).
PagesGoDown ==
  \A i, j \in DOMAIN pages :
    i < j => \A r \in pages[i], s \in pages[j] : Newer(r, s)

\* Who reads to the end has seen every row that was listed all the while
\* (docs/specs/phase2-product-inventory.md: no row is missed between pages).
NothingMissed ==
  walk.list = "end" => steady \subseteq { r.id : r \in Shown }

=============================================================================
