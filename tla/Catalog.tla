------------------------------- MODULE Catalog -------------------------------
(***************************************************************************)
(* The merchant's catalog and the list of it kept in Redis                 *)
(* (backend/commerce/catalog).  An edit writes its rows and then deletes   *)
(* the list; a reader that finds none puts together a new one, statement   *)
(* by statement, and stores it for a few seconds.                          *)
(***************************************************************************)
EXTENDS Faults, Integers, FiniteSets

CONSTANTS
  ProductIds, VariantIds,
  DefaultVariant,    \* per product: the id of the variant created with it
  Contents,          \* what a row may say
  Editors, Readers   \* requests that may run at once

ASSUME CatalogAssumption ==
  /\ DefaultVariant \in [ProductIds -> VariantIds]
  /\ None \notin Contents

VARIABLES
  product,   \* products: the content of each row
  variant,   \* product_variants: the product and the content of each row
  carted,    \* variants in cart_items
  cached,    \* the list in Redis, and whether something excuses its being old
  editor,    \* per request: whether its invalidation is still to come
  reader     \* each ListProducts, and whether an invalidation passed it by

catalogVars == <<product, variant, carted, cached, editor, reader>>

VariantRow == [of : ProductIds, content : Contents]
ASSUME NoneIsNoVariant == None \notin VariantRow

NoReader == [pc |-> "idle", todo |-> {}, got |-> {}, row |-> None, raced |-> FALSE]

VariantsOf(p) == {v \in VariantIds : variant[v] # None /\ variant[v].of = p}

\* What GetProduct answers: the row as it was read, and its variants.
RowOf(p) == [id |-> p, content |-> product[p]]
Described(row) ==
  [id |-> row.id, content |-> row.content,
   variants |-> {<<v, variant[v].content>> : v \in VariantsOf(row.id)}]
Detail(p) == Described(RowOf(p))
OnSale == {p \in ProductIds : product[p] # None}
Listing == {Detail(p) : p \in OnSale}

CatalogTypeOK ==
  /\ product \in [ProductIds -> Contents \cup {None}]
  /\ variant \in [VariantIds -> VariantRow \cup {None}]
  /\ carted \subseteq VariantIds
  /\ editor \in [Editors -> {"idle", "invalidate"}]
  /\ \A r \in Readers : reader[r].pc \in {"idle", "read", "variants", "store"} /\ reader[r].todo \subseteq ProductIds
  /\ \A v \in VariantIds : variant[v] # None => variant[v].of \in OnSale
  /\ \A v \in carted : variant[v] # None

CatalogInit ==
  /\ product = [p \in ProductIds |-> None]
  /\ variant = [v \in VariantIds |-> None]
  /\ carted = {}
  /\ cached = None
  /\ editor = [e \in Editors |-> "idle"]
  /\ reader = [r \in Readers |-> NoReader]

------------------------------------------------------------------------------
\* Edits.

\* A write that changed something is followed by the invalidation.
Written(e) ==
  /\ editor[e] = "idle"
  /\ editor' = [editor EXCEPT ![e] = "invalidate"]
  /\ UNCHANGED <<carted, cached, reader>>

\* One transaction: the product and its default variant.
CreateProduct(e, p, c) ==
  /\ product[p] = None /\ variant[DefaultVariant[p]] = None
  /\ product' = [product EXCEPT ![p] = c]
  /\ variant' = [variant EXCEPT ![DefaultVariant[p]] = [of |-> p, content |-> c]]
  /\ Written(e)

\* The default variant does not follow.
UpdateProduct(e, p, c) ==
  /\ product[p] # None
  /\ product' = [product EXCEPT ![p] = c]
  /\ UNCHANGED variant
  /\ Written(e)

\* The variants go with it; a cart item forbids it.
DeleteProduct(e, p) ==
  /\ product[p] # None /\ VariantsOf(p) \cap carted = {}
  /\ product' = [product EXCEPT ![p] = None]
  /\ variant' = [v \in VariantIds |-> IF v \in VariantsOf(p) THEN None ELSE variant[v]]
  /\ Written(e)

\* Mutant: the list is left as it is.
CreateVariant_KeepsList(e, v, p, c) ==
  /\ editor[e] = "idle"
  /\ variant[v] = None /\ product[p] # None
  /\ variant' = [variant EXCEPT ![v] = [of |-> p, content |-> c]]
  /\ UNCHANGED <<product, carted, cached, editor, reader>>

\* The id must be free and the product there.
CreateVariant(e, v, p, c) ==
  /\ variant[v] = None /\ product[p] # None
  /\ variant' = [variant EXCEPT ![v] = [of |-> p, content |-> c]]
  /\ UNCHANGED product
  /\ Written(e)

UpdateVariant(e, v, c) ==
  /\ variant[v] # None
  /\ variant' = [variant EXCEPT ![v] = [of |-> @.of, content |-> c]]
  /\ UNCHANGED product
  /\ Written(e)

\* Mutant: a variant somebody has in a cart goes too.
DeleteVariant_Carted(e, v) ==
  /\ variant[v] # None
  /\ variant' = [variant EXCEPT ![v] = None]
  /\ UNCHANGED product
  /\ Written(e)

\* Also the last one of its product.
DeleteVariant(e, v) ==
  /\ variant[v] # None /\ v \notin carted
  /\ variant' = [variant EXCEPT ![v] = None]
  /\ UNCHANGED product
  /\ Written(e)

\* Readers on their way are not reached by an invalidation.
PassReaders ==
  reader' = [r \in Readers |-> IF reader[r].pc = "idle" THEN reader[r]
                               ELSE [reader[r] EXCEPT !.raced = TRUE]]

\* DEL; that it failed is logged and the list stays until its time is up.
Invalidate(e) ==
  /\ editor[e] = "invalidate"
  /\ editor' = [editor EXCEPT ![e] = "idle"]
  /\ \/ cached' = None
     \/ MayFail /\ cached' = IF cached = None THEN None ELSE [cached EXCEPT !.excused = TRUE]
  /\ PassReaders
  /\ UNCHANGED <<product, variant, carted>>

\* Shoppers' carts.
EditCartItem(v) ==
  /\ carted' = IF v \in carted THEN carted \ {v}
               ELSE carted \cup {w \in {v} : variant[w] # None}
  /\ UNCHANGED <<product, variant, cached, editor, reader>>

------------------------------------------------------------------------------
\* ListProducts.

ReaderGoto(r, pc, todo, got, row) ==
  reader' = [reader EXCEPT ![r] =
    [pc |-> pc, todo |-> todo, got |-> got, row |-> row, raced |-> @.raced]]
StopReading(r) == reader' = [reader EXCEPT ![r] = NoReader]

\* A miss, or a cache that does not answer: the ids are read first.
ReadIds(r) ==
  /\ reader[r].pc = "idle"
  /\ cached = None \/ MayFail
  /\ ReaderGoto(r, IF OnSale = {} THEN "store" ELSE "read", OnSale, {}, None)
  /\ UNCHANGED <<product, variant, carted, cached, editor>>

\* GetProduct for each, first its row; one that is gone by then fails the whole list.
ReadProduct(r) ==
  /\ reader[r].pc = "read"
  /\ \E p \in reader[r].todo :
       IF product[p] = None THEN StopReading(r)
       ELSE ReaderGoto(r, "variants", reader[r].todo, reader[r].got, RowOf(p))
  /\ UNCHANGED <<product, variant, carted, cached, editor>>

\* Then its variants: none, if the product has gone since.
ReadVariants(r) ==
  LET w == reader[r]
      todo == w.todo \ {w.row.id}
  IN  /\ w.pc = "variants"
      /\ ReaderGoto(r, IF todo = {} THEN "store" ELSE "read", todo, w.got \cup {Described(w.row)}, None)
      /\ UNCHANGED <<product, variant, carted, cached, editor>>

\* A statement fails, or the request's time is up.
BreakReader(r) ==
  /\ MayFail /\ reader[r].pc # "idle"
  /\ StopReading(r)
  /\ UNCHANGED <<product, variant, carted, cached, editor>>

\* SET with its time to live; that it failed is only logged.
StoreList(r) ==
  /\ reader[r].pc = "store"
  /\ \/ cached' = [list |-> reader[r].got, excused |-> reader[r].raced]
     \/ MayFail /\ UNCHANGED cached
  /\ StopReading(r)
  /\ UNCHANGED <<product, variant, carted, editor>>

\* The time to live is over.
ExpireList ==
  /\ cached # None
  /\ cached' = None
  /\ UNCHANGED <<product, variant, carted, editor, reader>>

EditStep(e) ==
  \/ Invalidate(e)
  \/ \E p \in ProductIds : DeleteProduct(e, p) \/ \E c \in Contents : CreateProduct(e, p, c) \/ UpdateProduct(e, p, c)
  \/ \E v \in VariantIds :
       \/ DeleteVariant(e, v)
       \/ \E c \in Contents : UpdateVariant(e, v, c) \/ \E p \in ProductIds : CreateVariant(e, v, p, c)

CatalogNext ==
  \/ \E e \in Editors : EditStep(e)
  \/ \E v \in VariantIds : EditCartItem(v)
  \/ \E r \in Readers : ReadIds(r) \/ ReadProduct(r) \/ ReadVariants(r) \/ StoreList(r) \/ BreakReader(r)
  \/ ExpireList

CatalogSpec == CatalogInit /\ [][CatalogNext]_catalogVars

------------------------------------------------------------------------------
\* Properties.

\* A list that no longer says what the rows say is served for one of three reasons
\* only: the edit's invalidation is still to come, it failed, or the list's reader
\* had begun before it and stored its list after it.
StaleOnlyWhenRaced ==
  cached # None /\ cached.list # Listing =>
    cached.excused \/ \E e \in Editors : editor[e] = "invalidate"

\* The inductive invariant: when no invalidation is to come, a reader that none passed
\* by has seen the rows as they are, and has yet to see the others: of one it knows the
\* row and not yet the variants.
Settled == \A e \in Editors : editor[e] # "invalidate"

SeesTheRows(r) ==
  reader[r].pc # "idle" =>
    /\ reader[r].pc = "store" => reader[r].todo = {}
    /\ reader[r].pc = "variants" =>
         /\ reader[r].row.id \in reader[r].todo
         /\ Settled /\ ~reader[r].raced => reader[r].row = RowOf(reader[r].row.id)
    /\ Settled /\ ~reader[r].raced =>
         Listing = reader[r].got \cup {Detail(p) : p \in reader[r].todo}

CatalogInv ==
  /\ DOMAIN reader = Readers /\ \A r \in Readers : DOMAIN reader[r] = DOMAIN NoReader
  /\ DOMAIN editor = Editors
  /\ \A r \in Readers : SeesTheRows(r)
  /\ cached # None => DOMAIN cached = {"list", "excused"}
  /\ StaleOnlyWhenRaced
==============================================================================
