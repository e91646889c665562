---------------------------- MODULE CatalogQuery ----------------------------
(***************************************************************************)
(* Catalog search: which items a query returns, and the facets that count  *)
(* what each further choice would return.                                  *)
(*                                                                         *)
(* A query has a category (leaf or family) or none, a view of the Ethernet *)
(* transceivers, a status, chosen manufacturers, availability, chosen      *)
(* locations, chosen texts of one attribute, a range of the distance, and  *)
(* search words (not numbers).  The order of a listing, the weights of a   *)
(* search and the paging of facet values are left out.                     *)
(***************************************************************************)
EXTENDS Catalog, FiniteSetsExt

CONSTANTS
  Family,    \* the family of each leaf
  Ethernet,  \* the leaf transceiver_ethernet
  LongReach, \* metres from which a transceiver is a long range one
  Copper,    \* words that name an RJ45 connector
  Queries    \* the queries that are asked

Views == {"default", "long_range", "rj45"}

\* The keys of the facets that are no attributes.
FixedKeys == {"category", "manufacturer", "availability", "location"}

ASSUME QueryAssumption ==
  /\ IsFiniteSet(Items) /\ None \notin Leaves /\ Ethernet \in Transceivers
  /\ \A l \in Leaves : Family[l] \notin Leaves /\ DOMAIN Definitions[l] \cap FixedKeys = {}
  /\ \A q \in Queries :
       /\ DOMAIN q = {"category", "view", "status", "makers", "availability", "locations",
                      "key", "texts", "metres", "words"}
       /\ q.view \in Views /\ q.texts \cup q.words \subseteq Texts

-----------------------------------------------------------------------------
(* Which items match                                                        *)

\* scope_category_ids: a family stands for its leaves.
Scope(category) == {l \in Leaves : category \in {l, Family[l]}}

\* The queries that build_catalog_query_spec accepts: attributes are filtered
\* only in a category that has them.
Accepted(q) ==
  LET has(k, type) == q.category # None /\ \E l \in Scope(q.category) :
                        k \in DOMAIN Definitions[l] /\ Definitions[l][k].type = type
  IN /\ q.view = "rj45" => q.category = Ethernet
     /\ q.texts # {} => has(q.key, "TEXT")
     /\ q.metres # None => has("reach_m", "INTEGER")

\* long_range_predicate
LongRange(i) ==
  items[i].leaf = Ethernet /\ items[i].attributes["reach_m"].value >= LongReach

\* rj45_transceiver_predicate
RJ45(i) == items[i].leaf = Ethernet /\ items[i].attributes["connector"].value.word \in Copper

\* The view narrows the Ethernet transceivers, also if none is chosen.
InView(q, i) ==
  CASE q.view = "rj45" -> RJ45(i)
    [] q.view = "long_range" -> LongRange(i)
    [] q.view = "default" /\ q.category = Ethernet -> ~LongRange(i) /\ ~RJ45(i)
    [] OTHER -> TRUE

InStock(i) == \E l \in Locations : <<i, l>> \in stock

\* Case is folded, compatibility characters are not.
Reads(text, word) == text # None /\ Compared(text) = Compared(word)

\* _attribute_filter_predicate, with eq on the text attribute q.key and with
\* gte and lte on the distance.
HasText(q, i) ==
  q.key \in DOMAIN items[i].attributes
    /\ \E w \in q.texts : Reads(items[i].attributes[q.key].value, w)

Metered(i) == "reach_m" \in DOMAIN items[i].attributes

InRange(q, i) ==
  Metered(i) /\ items[i].attributes["reach_m"].value \in q.metres.min .. q.metres.max

\* _search_predicate: every word is in the name, the model, the manufacturer
\* or an attribute.
Found(i, word) ==
  \/ items[i].normalized_name = Compared(word)
  \/ items[i].normalized_model = Compared(word)
  \/ Reads(items[i].maker, word)
  \/ \E k \in DOMAIN items[i].attributes :
       items[i].attributes[k].type = "TEXT" /\ Reads(items[i].attributes[k].value, word)

\* Mutant: the facet's own choice is applied to it as well.
PredicatesOwn(q, i, exclude) ==
  /\ items[i].status = q.status
  /\ q.category # None => items[i].leaf \in Scope(q.category)
  /\ InView(q, i)
  /\ q.makers # {} => items[i].maker \in q.makers
  /\ q.availability # "ANY" => InStock(i) = (q.availability = "IN_STOCK")
  /\ q.locations # {} => \E l \in q.locations : <<i, l>> \in stock
  /\ \A w \in q.words : Found(i, w)
  /\ q.texts # {} => HasText(q, i)
  /\ q.metres # None => InRange(q, i)

\* _item_predicates
Predicates(q, i, exclude) ==
  /\ items[i].status = q.status
  /\ q.category # None => items[i].leaf \in Scope(q.category)
  /\ InView(q, i)
  /\ q.makers # {} /\ "manufacturer" \notin exclude => items[i].maker \in q.makers
  /\ q.availability # "ANY" /\ "availability" \notin exclude =>
       InStock(i) = (q.availability = "IN_STOCK")
  /\ q.locations # {} /\ "location" \notin exclude => \E l \in q.locations : <<i, l>> \in stock
  /\ \A w \in q.words : Found(i, w)
  /\ q.texts # {} /\ q.key \notin exclude => HasText(q, i)
  /\ q.metres # None /\ "reach_m" \notin exclude => InRange(q, i)

\* _matching_items; query_catalog_items excludes nothing
Matching(q, exclude) == {i \in Live : Predicates(q, i, exclude)}

-----------------------------------------------------------------------------
(* Facets: the values on offer and their counts                             *)

\* The values with items, of a function from values to the items that have
\* them, and how many items: GROUP BY and count.
Counts(having) ==
  [v \in {w \in DOMAIN having : having[w] # {}} |-> Cardinality(having[v])]

CategoryFacet(q) ==
  Counts([l \in Leaves |-> {i \in Matching(q, {"category"}) : items[i].leaf = l}])

ManufacturerFacet(q) ==
  Counts([m \in makers |-> {i \in Matching(q, {"manufacturer"}) : items[i].maker = m}])

AvailabilityFacet(q) ==
  Counts([a \in {"IN_STOCK", "OUT_OF_STOCK"} |->
            {i \in Matching(q, {"availability"}) : InStock(i) = (a = "IN_STOCK")}])

LocationFacet(q) ==
  Counts([l \in Locations |-> {i \in Matching(q, {"location"}) : <<i, l>> \in stock}])

\* _exact_attribute_facet groups texts by their lower case and offers one of
\* the texts for each group.
TextFacet(q) ==
  LET matching == {i \in Matching(q, {q.key}) : q.key \in DOMAIN items[i].attributes}
      texts == {items[i].attributes[q.key].value : i \in matching}
      shown == {CHOOSE w \in texts : Compared(w) = v : v \in {Compared(w) : w \in texts}}
  IN Counts([w \in shown |-> {i \in matching : Reads(items[i].attributes[q.key].value, w)}])

\* _range_attribute_facet: the least and the greatest distance.
RangeFacet(q) ==
  LET metres == {items[i].attributes["reach_m"].value :
                   i \in {j \in Matching(q, {"reach_m"}) : Metered(j)}}
  IN IF metres = {} THEN None ELSE [min |-> Min(metres), max |-> Max(metres)]

\* query_catalog_facets.  Without a key it leaves out the facets that offer no
\* choice.
FacetKeys(q) ==
  {"manufacturer", "availability", "location"}
    \cup IF q.category = None THEN {"category"}
         ELSE {k \in {q.key, "reach_m"} : \E l \in Scope(q.category) : k \in DOMAIN Definitions[l]}

Facet(q, key) ==
  CASE key = "category"     -> CategoryFacet(q)
    [] key = "manufacturer" -> ManufacturerFacet(q)
    [] key = "availability" -> AvailabilityFacet(q)
    [] key = "location"     -> LocationFacet(q)
    [] key = "reach_m"      -> RangeFacet(q)
    [] OTHER                -> TextFacet(q)

OffersChoice(key, facet) ==
  IF key = "reach_m" THEN facet # None /\ facet.min # facet.max ELSE Cardinality(DOMAIN facet) > 1

Facets(q, only) ==
  LET keys == {k \in FacetKeys(q) : k = only \/ (only = None /\ OffersChoice(k, Facet(q, k)))}
  IN [k \in keys |-> Facet(q, k)]

-----------------------------------------------------------------------------
(* Properties                                                               *)

\* What a query returns when a category is chosen: all the views of it, if no
\* view is.
ChosenLeaf(q, l) ==
  UNION {Matching([q EXCEPT !.category = l, !.view = v], {}) :
           v \in IF q.view = "default" /\ l = Ethernet THEN Views ELSE {q.view}}

\* The items that a query returns when a value of the facet is chosen.
Chosen(q, key, v) ==
  CASE key = "category"     -> ChosenLeaf(q, v)
    [] key = "manufacturer" -> Matching([q EXCEPT !.makers = {v}], {})
    [] key = "availability" -> Matching([q EXCEPT !.availability = v], {})
    [] key = "location"     -> Matching([q EXCEPT !.locations = {v}], {})
    [] OTHER                -> Matching([q EXCEPT !.texts = {v}], {})

\* The values that might be chosen.
Selectable(key, facet) ==
  CASE key = "category"     -> Leaves
    [] key = "manufacturer" -> makers
    [] key = "availability" -> {"IN_STOCK", "OUT_OF_STOCK"}
    [] key = "location"     -> Locations
    [] OTHER                -> DOMAIN facet

\* A facet offers the values for which the query returns something, with the
\* number of items that it then returns, whatever else is chosen (for a
\* category, over all its views); the bounds of the distance lose no item.
FacetsAgree ==
  (\A t \in Txns : pc[t] = "idle") =>
    \A q \in {p \in Queries : Accepted(p)} : \A only \in FacetKeys(q) \cup {None} :
      LET facets == Facets(q, only) IN
      \A key \in DOMAIN facets :
        IF key = "reach_m"
        THEN \A i \in Matching(q, {key}) : Metered(i) =>
               i \in Matching([q EXCEPT !.metres = facets[key]], {})
        ELSE \A v \in Selectable(key, facets[key]) :
               Cardinality(Chosen(q, key, v)) =
                 IF v \in DOMAIN facets[key] THEN facets[key][v] ELSE 0
=============================================================================
