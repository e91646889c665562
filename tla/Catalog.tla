------------------------------ MODULE Catalog ------------------------------
(***************************************************************************)
(* Items and manufacturers of the catalog, edited by several people at the *)
(* same time.                                                              *)
(*                                                                         *)
(* A request is a transaction: it locks its item, reads it, merges and     *)
(* validates the edit (Lock), writes the row (Write), enters the row's key *)
(* in a unique index, where it may have to wait (Index), and commits after *)
(* the deferred triggers (Commit).  A key is the signature of an item or   *)
(* the normalized name of a manufacturer.  Of the uses of an item there    *)
(* are its movements, which other parts of the system make (SetStock).     *)
(*                                                                         *)
(* A text is a word in one of three forms, which tell the two ways of      *)
(* comparing texts apart: comparison folds the case, identity also folds   *)
(* compatibility characters.  Whitespace is left out but for the text that *)
(* is nothing else.                                                        *)
(***************************************************************************)
EXTENDS Integers, FiniteSets, Sequences, Functions

CONSTANTS
  Items,         \* item ids; an id is never used again
  Locations,
  Leaves,        \* leaf categories
  Manufactured,  \* MANUFACTURED_LEAVES
  Transceivers,  \* leaves whose key begins with transceiver_
  Definitions,   \* the attributes of each leaf: their type, and if required
  Words,         \* what texts say
  Metres,        \* what normalize_reach makes of a text, 0 if it refuses it
  MaxScale,      \* MAX_DECIMAL_SCALE
  Names,         \* names that manufacturers are created with
  Drafts,        \* items that are asked for
  Patches,       \* edits that are asked for
  Initials,      \* drafts of the items the catalog may start with
  Stocked,       \* the items whose stock changes
  Txns,
  None

Forms == {"plain", "upper", "wide"}
Blank == [word |-> "", form |-> "plain"]
Texts == [word : Words, form : Forms]

\* The value of an attribute is what its type says.
Typed(v) == /\ v.type = "TEXT" => v.value \in Texts
            /\ v.type = "DECIMAL" => v.value \in [digits : Nat, scale : Nat]

\* ItemCreate, and the fields that ItemPatch may have.
IsPatch(p) ==
  /\ DOMAIN p \subseteq {"maker", "name", "model", "attributes"}
  /\ "maker" \in DOMAIN p => p.maker \in Texts \cup {None}
  /\ "name" \in DOMAIN p => p.name \in Texts
  /\ "model" \in DOMAIN p => p.model \in Texts \cup {None}
  /\ "attributes" \in DOMAIN p => \A k \in DOMAIN p.attributes : Typed(p.attributes[k])

IsDraft(d) ==
  /\ DOMAIN d = {"leaf", "maker", "name", "model", "attributes"} /\ d.leaf \in Leaves
  /\ d.maker \in Texts \cup {None} /\ d.name \in Texts /\ d.model \in Texts \cup {None}
  /\ \A k \in DOMAIN d.attributes : Typed(d.attributes[k])

Power(n) == 10 ^ n

ASSUME CatalogAssumption ==
  /\ Manufactured \subseteq Leaves /\ Transceivers \subseteq Leaves
  /\ \A l \in Leaves : \A k \in DOMAIN Definitions[l] :
       Definitions[l][k] \in [type : {"TEXT", "INTEGER", "DECIMAL", "BOOLEAN"},
                              required : BOOLEAN]
  /\ \A l \in Leaves : "reach_m" \in DOMAIN Definitions[l] <=> l \in Transceivers
  /\ \A l \in Transceivers :
       /\ "reach" \in DOMAIN Definitions[l] /\ Definitions[l]["reach"] = [type |-> "TEXT", required |-> TRUE]
       /\ Definitions[l]["reach_m"].type = "INTEGER"
  /\ Metres \in [Words -> Nat]
  /\ "" \in Words /\ Names \subseteq Texts
  /\ (\A d \in Drafts : IsDraft(d)) /\ (\A p \in Patches : IsPatch(p))
  /\ Stocked \subseteq Items /\ None \notin Items \cup Texts

\* A decimal has the same value with all MaxScale digits behind the point.
ASSUME ScaleAssumption ==
  /\ MaxScale \in Nat
  /\ \A s \in 0 .. MaxScale :
       Power(s) \in Nat \ {0} /\ Power(s) * Power(MaxScale - s) = Power(MaxScale)

VARIABLES
  items,     \* items with their attribute values
  makers,    \* the names of the manufacturers
  stock,     \* stock balances: the items that are at a location
  moved,     \* the items with movements
  pc,        \* the stage each transaction is at
  op,        \* its request, and the row it writes
  intended   \* what the committed requests asked each item to be

tables == <<items, makers, stock, moved, intended>>
vars   == <<items, makers, stock, moved, pc, op, intended>>

-----------------------------------------------------------------------------
(* Normalization                                                            *)

\* Mutant: names are compared as they are written.
ComparedVerbatim(text) == text

\* normalize_comparison, catalog_normalize_comparison
Compared(text) == [text EXCEPT !.form = IF @ = "upper" THEN "plain" ELSE @]

\* Mutant: identity is no more than comparison.
IdentityTextCompared(text) == IF text = None THEN Blank ELSE Compared(text)

\* identity_text, catalog_identity_text; none is like the empty text
IdentityText(text) == IF text = None THEN Blank ELSE [text EXCEPT !.form = "plain"]

\* decimal_identity_text, catalog_decimal_identity: the scale does not count
DecimalIdentity(d) == d.digits * Power(MaxScale - d.scale)

IdentityValue(v) ==
  CASE v.type = "TEXT"    -> IdentityText(v.value)
    [] v.type = "DECIMAL" -> DecimalIdentity(v.value)
    [] OTHER              -> v.value

\* item_signature, catalog_item_signature: the name of an item is not in it
Signature(leaf, maker, model, values) ==
  [leaf |-> leaf, maker |-> IdentityText(maker), model |-> IdentityText(model),
   values |-> [k \in DOMAIN values |-> IdentityValue(values[k])]]

\* normalize_optional_inline_text
Inline(text) == IF text = Blank THEN None ELSE text

-----------------------------------------------------------------------------
(* Validation of an item                                                    *)

\* A value that _prepare_attribute_value drops, unless it is required.
Omitted(v) == v.type = "TEXT" /\ v.value = Blank

\* _prepare_attribute_value: the type, and the bounds of numbers.
Fits(definition, v) ==
  /\ v.type = definition.type
  /\ v.type = "INTEGER" => v.value >= 1
  /\ v.type = "DECIMAL" => v.value.digits > 0 /\ v.value.scale <= MaxScale
  /\ definition.required => ~Omitted(v)

Reach(d) == IF "reach" \in DOMAIN d.attributes THEN Metres[d.attributes["reach"].value.word] ELSE 0

\* The attributes with the distance in metres that follows from the text.
Derived(d) ==
  IF d.leaf \in Transceivers
  THEN [k \in DOMAIN d.attributes \cup {"reach_m"} |->
          IF k = "reach_m" THEN [type |-> "INTEGER", value |-> Reach(d)] ELSE d.attributes[k]]
  ELSE d.attributes

\* prepare_identity, with validate_attribute_values, for a manufacturer that
\* exists.
Complete(d) ==
  LET known == Definitions[d.leaf]
      given == Derived(d)
  IN /\ d.leaf \in Manufactured => d.maker # None /\ d.model \notin {None, Blank}
     /\ d.leaf \in Transceivers =>
          /\ Reach(d) > 0
          /\ "reach_m" \in DOMAIN d.attributes => given = d.attributes
     /\ DOMAIN given \subseteq DOMAIN known
     /\ \A k \in DOMAIN known : known[k].required => k \in DOMAIN given
     /\ \A k \in DOMAIN given : Fits(known[k], given[k])
     /\ d.name # Blank

Valid(d) == Complete(d) /\ (d.maker # None => d.maker \in makers)

Values(d) == Restrict(Derived(d), {k \in DOMAIN Derived(d) : ~Omitted(Derived(d)[k])})

\* What create_item and update_item write alike.
Row(d, status, normalized_model) ==
  [status |-> status, leaf |-> d.leaf, maker |-> d.maker,
   name |-> d.name, normalized_name |-> Compared(d.name),
   model |-> Inline(d.model), normalized_model |-> normalized_model,
   attributes |-> Values(d),
   signature |-> Signature(d.leaf, d.maker, d.model, Values(d))]

\* create_item normalizes the model as it was given,
CreatedRow(d) == Row(d, "ACTIVE", IF d.model = None THEN None ELSE Compared(d.model))

\* Mutant: as create_item does.
UpdatedRowAsGiven(d, status) ==
  Row(d, status, IF d.model = None THEN None ELSE Compared(d.model))

\* update_item as it is stored.
UpdatedRow(d, status) ==
  Row(d, status, IF Inline(d.model) = None THEN None ELSE Compared(d.model))

\* dict.update: the entries of f, and of g for other keys.
Over(f, g) == [k \in DOMAIN f \cup DOMAIN g |-> IF k \in DOMAIN f THEN f[k] ELSE g[k]]

\* update_item merges the edit into the item; the metres of an item whose
\* attributes are not edited are derived again.
Merged(row, patch) ==
  Over(patch,
       [leaf |-> row.leaf, maker |-> row.maker, name |-> row.name, model |-> row.model,
        attributes |-> Restrict(row.attributes, DOMAIN row.attributes \ {"reach_m"})])

\* catalog_item_signature, from the stored row and its attribute values.
StoredSignature(row) == Signature(row.leaf, row.maker, row.model, row.attributes)

\* The deferred triggers.  assert_catalog_item_identity: normalized columns and
\* signature are those of the row.
IdentityAsserted(row) ==
  /\ row.normalized_name = Compared(row.name)
  /\ row.normalized_model = IF row.model = None THEN None ELSE Compared(row.model)
  /\ row.signature = StoredSignature(row)

\* enforce_item_required_attributes
RequiredPresent(row) ==
  \A k \in DOMAIN Definitions[row.leaf] :
    Definitions[row.leaf][k].required => k \in DOMAIN row.attributes

\* validate_item_attribute_value_data_type
TypesMatch(row) ==
  \A k \in DOMAIN row.attributes : row.attributes[k].type = Definitions[row.leaf][k].type

TriggersAccept(row) == IdentityAsserted(row) /\ RequiredPresent(row) /\ TypesMatch(row)

-----------------------------------------------------------------------------
(* Transactions                                                             *)

NoItem == [status |-> "NEW"]
Gone   == [status |-> "DELETED"]
Live   == {i \in Items : items[i] \notin {NoItem, Gone}}
NoOp   == [kind |-> "none"]

\* What the catalog starts with has been accepted: complete items of different
\* signatures, and manufacturers of different names.
ASSUME InitialsAssumption ==
  \A started \in Initials :
    /\ DOMAIN started \subseteq Items
    /\ \A i \in DOMAIN started : IsDraft(started[i]) /\ Complete(started[i])
    /\ \A i, j \in DOMAIN started :
         /\ CreatedRow(started[i]).signature = CreatedRow(started[j]).signature => i = j
         /\ started[i].maker # None /\ started[j].maker # None
            /\ Compared(started[i].maker) = Compared(started[j].maker)
            => started[i].maker = started[j].maker

Init ==
  \E started \in Initials :
    /\ makers = {started[i].maker : i \in DOMAIN started} \ {None}
    /\ items = [i \in Items |-> IF i \in DOMAIN started THEN CreatedRow(started[i]) ELSE NoItem]
    /\ intended = [i \in Items |-> IF i \in DOMAIN started THEN started[i] ELSE None]
    /\ stock = {} /\ moved = {}
    /\ pc = [t \in Txns |-> "idle"]
    /\ op = [t \in Txns |-> NoOp]

Finish(t) ==
  /\ pc' = [pc EXCEPT ![t] = "idle"]
  /\ op' = [op EXCEPT ![t] = NoOp]

Start(t, request, stage) ==
  /\ pc[t] = "idle"
  /\ pc' = [pc EXCEPT ![t] = stage]
  /\ op' = [op EXCEPT ![t] = request]
  /\ UNCHANGED tables

\* Mutant: update_item reads the item without FOR UPDATE.
UnlockedEdits(t, i) ==
  \A s \in Txns \ {t} :
    pc[s] \in {"write", "index", "commit"} /\ op[s].item = i => op[s].kind = "update" /\ op[t].kind = "update"

\* Nobody else has the item's row locked.
Unlocked(t, i) ==
  \A s \in Txns \ {t} : pc[s] \in {"write", "index", "commit"} => op[s].item # i

\* The keys that a transaction leaves in the unique indexes and may still
\* take out, so that others have to wait: the old key of a row from its write
\* on, the new one from its entry in the index on.
Touches(t) ==
  LET old == IF pc[t] \in {"index", "commit"} /\ op[t].item \in Live
             THEN {items[op[t].item].signature} ELSE {}
      new == IF pc[t] = "commit" THEN {op[t].key} ELSE {}
  IN old \cup new

\* The keys of committed rows, but for the item's own.
Keys(i) == {items[j].signature : j \in Live \ {i}} \cup {Compared(m) : m \in makers}

\* Ids that uuid4 has not handed out.
Unused == {i \in Items : items[i] = NoItem /\ \A s \in Txns : pc[s] # "idle" => op[s].item # i}

\* post_item: create_item validates the draft before it writes.
PostItem(t) ==
  \E d \in Drafts, i \in Unused :
    /\ Valid(d) /\ \A j \in Unused : i <= j
    /\ Start(t, [kind |-> "create", item |-> i, asked |-> d, row |-> CreatedRow(d),
                 key |-> CreatedRow(d).signature], "index")

\* post_manufacturer: create_manufacturer looks for the name first.
PostManufacturer(t) ==
  \E n \in Names :
    /\ \A m \in makers : Compared(m) # Compared(n)
    /\ Start(t, [kind |-> "maker", item |-> None, row |-> n, key |-> Compared(n)], "index")

\* patch_item, archive_item, unarchive_item, delete_item, up to the lock.
PatchItem(t) ==
  \E i \in Items \ Unused, p \in Patches :
    Start(t, [kind |-> "update", item |-> i, asked |-> p, row |-> None, key |-> None], "lock")

ArchiveItem(t) ==
  \E i \in Items \ Unused, status \in {"ACTIVE", "ARCHIVED"} :
    Start(t, [kind |-> "archive", item |-> i, asked |-> status, row |-> None, key |-> None], "lock")

DeleteItem(t) ==
  \E i \in Items \ Unused :
    Start(t, [kind |-> "delete", item |-> i, asked |-> None, row |-> None, key |-> None], "lock")

\* The row that a request writes once it has read its item under the lock,
\* none if it is refused or has nothing to do.
Prepared(request) ==
  LET i == request.item
      r == items[i]
      d == Merged(r, request.asked)
  IN IF i \notin Live THEN None
     ELSE CASE request.kind = "update"  -> IF Valid(d) THEN UpdatedRow(d, r.status) ELSE None
            [] request.kind = "archive" ->
                 IF r.status = request.asked THEN None ELSE [r EXCEPT !.status = request.asked]
            [] request.kind = "delete"  ->
                 IF i \in moved \/ \E l \in Locations : <<i, l>> \in stock THEN None ELSE Gone

Lock(t) ==
  LET row == Prepared(op[t]) IN
  /\ pc[t] = "lock" /\ Unlocked(t, op[t].item)
  /\ IF row = None
     THEN Finish(t)
     ELSE /\ pc' = [pc EXCEPT ![t] = "write"]
          /\ op' = [op EXCEPT ![t].row = row,
                              ![t].key = IF row = Gone THEN items[op[t].item].signature
                                         ELSE row.signature]
  /\ UNCHANGED tables

\* The flush writes the row; an insert has no old key, so it starts after it.
\* The triggers' lock of the item's identity is free for who has locked the row.
Write(t) ==
  /\ pc[t] = "write"
  /\ pc' = [pc EXCEPT ![t] = "index"]
  /\ UNCHANGED <<tables, op>>

\* The unique index makes a writer wait for whoever may still free its key or
\* keep it.
WaitsFor(t, s) == s # t /\ pc[t] = "index" /\ op[t].key \in Touches(s)

Index(t) ==
  /\ pc[t] = "index" /\ \A s \in Txns : ~WaitsFor(t, s)
  /\ IF op[t].key \in Keys(op[t].item)
     THEN Finish(t)
     ELSE pc' = [pc EXCEPT ![t] = "commit"] /\ UNCHANGED op
  /\ UNCHANGED tables

\* Commit, unless a deferred trigger objects.
Commit(t) ==
  LET o == op[t] IN
  /\ pc[t] = "commit"
  /\ Finish(t)
  /\ UNCHANGED <<stock, moved>>
  /\ \/ /\ o.kind = "maker"
        /\ makers' = makers \cup {o.row}
        /\ UNCHANGED <<items, intended>>
     \/ /\ o.kind \in {"create", "update"} /\ TriggersAccept(o.row)
        /\ items' = [items EXCEPT ![o.item] = o.row]
        /\ intended' = [intended EXCEPT ![o.item] =
                          IF o.kind = "create" THEN o.asked ELSE Over(o.asked, @)]
        /\ UNCHANGED makers
     \/ /\ o.kind \in {"create", "update"} /\ ~TriggersAccept(o.row)
        /\ UNCHANGED <<items, makers, intended>>
     \/ /\ o.kind \in {"archive", "delete"}
        /\ items' = [items EXCEPT ![o.item] = o.row]
        /\ intended' = [intended EXCEPT ![o.item] = IF o.row = Gone THEN None ELSE @]
        /\ UNCHANGED makers

\* A lost connection, a timeout, the deadlock detector.
Abort(t) == pc[t] # "idle" /\ Finish(t) /\ UNCHANGED tables

\* External: a movement puts an item in a location or takes the last one out.
SetStock ==
  \E i \in Live \cap Stocked, l \in Locations :
    /\ \A s \in Txns : Unlocked(s, i)
    /\ stock' = IF <<i, l>> \in stock THEN stock \ {<<i, l>>} ELSE stock \cup {<<i, l>>}
    /\ moved' = moved \cup {i}
    /\ UNCHANGED <<items, makers, pc, op, intended>>

Next ==
  \/ \E t \in Txns : \/ PostItem(t) \/ PostManufacturer(t) \/ PatchItem(t)
                     \/ ArchiveItem(t) \/ DeleteItem(t)
                     \/ Lock(t) \/ Write(t) \/ Index(t) \/ Commit(t) \/ Abort(t)
  \/ SetStock

Spec == Init /\ [][Next]_vars

-----------------------------------------------------------------------------
(* Properties                                                               *)

\* Every field of an item is what the last committed request that mentions
\* the field asked for, whoever edited other fields at the same time.
EditsSurvive ==
  \A i \in Live :
    LET r == items[i]
        w == intended[i]
    IN /\ r.name = w.name /\ r.maker = w.maker /\ r.model = Inline(w.model)
       /\ r.attributes = Values(w)

\* How a text reads, whatever its form.
Word(text) == IF text = None THEN "" ELSE text.word

SameValue(v, w) ==
  /\ v.type = "TEXT" => Word(v.value) = Word(w.value)
  /\ v.type = "DECIMAL" =>
       v.value.digits * Power(w.value.scale) = w.value.digits * Power(v.value.scale)
  /\ v.type \notin {"TEXT", "DECIMAL"} => v.value = w.value

\* Items that read the same are one item, archived ones included, however their
\* texts are written: the names of their manufacturers may be written differently too.
ItemsUnique ==
  \A i, j \in Live :
    /\ items[i].leaf = items[j].leaf
    /\ Word(items[i].maker) = Word(items[j].maker)
    /\ Word(items[i].model) = Word(items[j].model)
    /\ DOMAIN items[i].attributes = DOMAIN items[j].attributes
    /\ \A k \in DOMAIN items[i].attributes :
         SameValue(items[i].attributes[k], items[j].attributes[k])
    => i = j

SameButCase(m, n) == m.word = n.word /\ (m.form = "wide" <=> n.form = "wide")

\* create_manufacturer folds the case and no more: names that differ in width are
\* two manufacturers.
ManufacturersUnique == \A m, n \in makers : SameButCase(m, n) => m = n

\* No equipment is entered twice, although two people enter and edit it at the same
\* time: no two items read the same in whatever case, width or scale they are
\* written, and no two manufacturers have names that differ in case alone.
EquipmentUnique == ItemsUnique /\ ManufacturersUnique

\* A trigger refuses nothing that the service accepted, but for an item that
\* is created with a blank model.
DatabaseAgrees ==
  \A t \in Txns : pc[t] = "commit" /\ op[t].kind \in {"create", "update"} =>
    TriggersAccept(op[t].row) \/ (op[t].kind = "create" /\ op[t].asked.model = Blank)
=============================================================================
