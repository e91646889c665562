---------------------------- MODULE CatalogProofs ----------------------------
(***************************************************************************)
(* Theorems about modules Catalog and CatalogQuery, for any number of      *)
(* transactions, items, categories and queries.                            *)
(***************************************************************************)
EXTENDS CatalogQuery, FiniteLemmas

\* The stages at which a transaction has its item's row locked.
Held == {"write", "index", "commit"}

Functional ==
  /\ pc \in [Txns -> {"idle", "lock"} \cup Held]
  /\ op = [t \in Txns |-> op[t]]
  /\ items = [i \in Items |-> items[i]]
  /\ intended = [i \in Items |-> intended[i]]

\* A live item is the row that create_item would write for what it is meant to
\* be, but for its status and for the normalized model, in which create_item
\* and update_item differ.
RowsIntended ==
  \A i \in Live :
    /\ IsDraft(intended[i]) /\ Complete(intended[i])
    /\ items[i].status \in {"ACTIVE", "ARCHIVED"}
    /\ items[i] = Row(intended[i], items[i].status, items[i].normalized_model)

\* What a request is about, and under the lock of its item the row it writes.
MakerClaim(t) ==
  /\ pc[t] \in {"index", "commit"} /\ op[t].item = None
  /\ op[t].row \in Texts /\ op[t].key = Compared(op[t].row)

CreateClaim(t) ==
  /\ pc[t] \in {"index", "commit"} /\ op[t].item \in Items
  /\ IsDraft(op[t].asked) /\ Complete(op[t].asked)
  /\ op[t].row = CreatedRow(op[t].asked) /\ op[t].key = op[t].row.signature
  /\ items[op[t].item] = NoItem

UpdateClaim(t) ==
  LET r == items[op[t].item]
      d == Merged(r, op[t].asked)
  IN /\ IsPatch(op[t].asked)
     /\ pc[t] \in Held =>
          /\ op[t].item \in Live /\ Complete(d)
          /\ op[t].row = UpdatedRow(d, r.status) /\ op[t].key = op[t].row.signature

ArchiveClaim(t) ==
  LET r == items[op[t].item]
  IN /\ op[t].asked \in {"ACTIVE", "ARCHIVED"}
     /\ pc[t] \in Held =>
          /\ op[t].item \in Live
          /\ op[t].row = [r EXCEPT !.status = op[t].asked] /\ op[t].key = r.signature

DeleteClaim(t) ==
  pc[t] \in Held => op[t].item \in Live /\ op[t].row = Gone

Claim(t) ==
  \/ pc[t] = "idle"
  \/ op[t].kind = "maker" /\ MakerClaim(t)
  \/ op[t].kind = "create" /\ CreateClaim(t)
  \/ /\ op[t].kind \in {"update", "archive", "delete"} /\ op[t].item \in Items
     /\ DOMAIN op[t] = {"kind", "item", "asked", "row", "key"}
     /\ op[t].kind = "update" => UpdateClaim(t)
     /\ op[t].kind = "archive" => ArchiveClaim(t)
     /\ op[t].kind = "delete" => DeleteClaim(t)

\* A row is locked by one transaction.
LocksExclusive ==
  \A s, t \in Txns :
    s # t /\ pc[s] \in Held /\ pc[t] \in Held /\ op[s].item \in Items => op[s].item # op[t].item

\* The unique indexes: committed keys differ, and what is about to be committed
\* is neither among them nor about to be committed by somebody else.
KeysUnique ==
  /\ \A i, j \in Live : items[i].signature = items[j].signature => i = j
  /\ makers \subseteq Texts
  /\ \A m, n \in makers : Compared(m) = Compared(n) => m = n
  /\ \A t \in Txns : pc[t] = "commit" => op[t].key \notin Keys(op[t].item)
  /\ \A s, t \in Txns :
       s # t /\ pc[s] = "commit" /\ pc[t] = "commit" => op[s].key # op[t].key

\* The inductive invariant: rows are what they are meant to be, and a request
\* knows of the row it has locked, and of the key it has entered, whatever it
\* will rely on when it commits.
IInv ==
  /\ Functional /\ RowsIntended /\ LocksExclusive /\ KeysUnique
  /\ \A t \in Txns : Claim(t)

-----------------------------------------------------------------------------
(* Rows                                                                     *)

\* The blank text is a text in its plain form, and none is no text.
LEMMA BlankIsText == Blank \in Texts /\ None \notin Texts /\ None # Blank
<1>1. Blank \in Texts
  BY CatalogAssumption DEF Blank, Texts, Forms
<1>2. None \notin Texts
  BY CatalogAssumption
<1> QED
  BY <1>1, <1>2

LEMMA BlankIdentity == [Blank EXCEPT !.form = "plain"] = Blank
<1>1. Blank \in Texts /\ Blank.form = "plain"
  BY BlankIsText DEF Blank
<1> QED
  BY <1>1 DEF Texts

\* The signature of a row does not depend on how a blank model is stored.
LEMMA RowFacts ==
  ASSUME NEW d, NEW st, NEW nm
  PROVE  LET r == Row(d, st, nm) IN
         /\ r.status = st /\ r.leaf = d.leaf /\ r.maker = d.maker /\ r.name = d.name
         /\ r.model = Inline(d.model) /\ r.normalized_model = nm
         /\ r.normalized_name = Compared(d.name)
         /\ r.attributes = Values(d)
         /\ r.signature = Signature(d.leaf, d.maker, d.model, Values(d))
         /\ r.signature = StoredSignature(r)
<1>1. IdentityText(Inline(d.model)) = IdentityText(d.model)
  BY BlankIsText, BlankIdentity DEF Inline, IdentityText
<1>2. Signature(d.leaf, d.maker, Inline(d.model), Values(d))
      = Signature(d.leaf, d.maker, d.model, Values(d))
  BY <1>1 DEF Signature
<1> QED
  BY <1>2 DEF Row, StoredSignature

\* Archiving changes nothing of a row but its status.
LEMMA StatusChanged ==
  ASSUME NEW d, NEW st, NEW nm, NEW r, r = Row(d, st, nm), NEW s2
  PROVE  [r EXCEPT !.status = s2] = Row(d, s2, nm)
BY DEF Row

\* What the service accepts has its required attributes and their types.
LEMMA ValuesComplete ==
  ASSUME NEW d, d.leaf \in Leaves, Complete(d)
  PROVE  /\ \A k \in DOMAIN Definitions[d.leaf] :
              Definitions[d.leaf][k].required => k \in DOMAIN Values(d)
         /\ \A k \in DOMAIN Values(d) : Values(d)[k].type = Definitions[d.leaf][k].type
<1>1. DOMAIN Values(d) = {k \in DOMAIN Derived(d) : ~Omitted(Derived(d)[k])}
  BY DEF Values, Restrict
<1>2. \A k \in DOMAIN Values(d) : Values(d)[k] = Derived(d)[k]
  BY DEF Values, Restrict
<1>3. \A k \in DOMAIN Derived(d) :
        /\ k \in DOMAIN Definitions[d.leaf]
        /\ Derived(d)[k].type = Definitions[d.leaf][k].type
        /\ Definitions[d.leaf][k].required => ~Omitted(Derived(d)[k])
  BY DEF Complete, Fits
<1>4. \A k \in DOMAIN Definitions[d.leaf] :
        Definitions[d.leaf][k].required => k \in DOMAIN Derived(d)
  BY DEF Complete
<1> QED
  BY <1>1, <1>2, <1>3, <1>4

\* The triggers accept the row of what the service accepts, if the normalized
\* model is that of the model that is stored: of every edited item, and of a new
\* one whose model is not blank.
LEMMA RowAccepted ==
  ASSUME NEW d, d.leaf \in Leaves, Complete(d), NEW st, NEW nm,
         nm = IF Inline(d.model) = None THEN None ELSE Compared(Inline(d.model))
  PROVE  TriggersAccept(Row(d, st, nm))
<1> DEFINE r == Row(d, st, nm)
<1>1. IdentityAsserted(r)
  BY RowFacts DEF IdentityAsserted
<1>2. RequiredPresent(r) /\ TypesMatch(r)
  BY RowFacts, ValuesComplete DEF RequiredPresent, TypesMatch
<1> QED
  BY <1>1, <1>2 DEF TriggersAccept

LEMMA CreatedAccepted ==
  ASSUME NEW d, d.leaf \in Leaves, Complete(d), d.model # Blank
  PROVE  TriggersAccept(CreatedRow(d))
<1>1. Inline(d.model) = d.model
  BY DEF Inline
<1> QED
  BY <1>1, RowAccepted DEF CreatedRow

LEMMA UpdatedAccepted ==
  ASSUME NEW d, d.leaf \in Leaves, Complete(d), NEW st
  PROVE  TriggersAccept(UpdatedRow(d, st))
<1>1. Inline(d.model) # None => Inline(d.model) = d.model
  BY DEF Inline
<1> QED
  BY <1>1, RowAccepted DEF UpdatedRow

-----------------------------------------------------------------------------
(* Edits                                                                    *)

\* The metres of an item are derived again from what is stored of it.
LEMMA DerivedAgain ==
  ASSUME NEW w, IsDraft(w), Complete(w), NEW d, d.leaf = w.leaf,
         d.attributes = Restrict(Values(w), DOMAIN Values(w) \ {"reach_m"})
  PROVE  Values(d) = Values(w)
<1> DEFINE V == Values(w)
           K == DOMAIN V
           A == d.attributes
<1>1. /\ K = {k \in DOMAIN Derived(w) : ~Omitted(Derived(w)[k])}
      /\ V = [k \in K |-> Derived(w)[k]]
  BY DEF Values, Restrict
<1>2. DOMAIN A = K \ {"reach_m"} /\ \A k \in DOMAIN A : A[k] = V[k]
  BY DEF Restrict
<1>3. DOMAIN Derived(w) \subseteq DOMAIN Definitions[w.leaf] /\ w.leaf \in Leaves
  BY DEF Complete, IsDraft
<1>4. CASE w.leaf \notin Transceivers
  <2>1. "reach_m" \notin K
    BY <1>1, <1>3, <1>4, CatalogAssumption
  <2>2. Derived(d) = A
    BY <1>4 DEF Derived
  <2>3. DOMAIN Derived(d) = K /\ \A k \in K : Derived(d)[k] = V[k]
    BY <1>2, <2>1, <2>2
  <2>4. \A k \in K : ~Omitted(V[k])
    BY <1>1
  <2> HIDE DEF V, K, A
  <2>5. {k \in DOMAIN Derived(d) : ~Omitted(Derived(d)[k])} = K
    BY <2>3, <2>4
  <2>6. Values(d) = [k \in K |-> Derived(d)[k]]
    BY <2>5 DEF Values, Restrict
  <2> QED
    BY <1>1, <2>3, <2>6 DEF V
<1>5. CASE w.leaf \in Transceivers
  <2> DEFINE m == [type |-> "INTEGER", value |-> Reach(w)]
  <2>1. /\ DOMAIN Derived(w) = DOMAIN w.attributes \cup {"reach_m"}
        /\ Derived(w)["reach_m"] = m
        /\ \A k \in DOMAIN w.attributes \ {"reach_m"} : Derived(w)[k] = w.attributes[k]
    BY <1>5 DEF Derived
  <2>2. "reach" \in DOMAIN w.attributes
    BY <1>5 DEF Complete, Reach
  <2>3. "reach" # "reach_m"
    OBVIOUS
  <2>4. "reach" \in K /\ V["reach"] = w.attributes["reach"]
    <3>1. Definitions[w.leaf]["reach"].required
      <4>1. Definitions[w.leaf]["reach"] = [type |-> "TEXT", required |-> TRUE]
        BY <1>5, CatalogAssumption
      <4>2. [type |-> "TEXT", required |-> TRUE].required
        OBVIOUS
      <4> QED
        BY <4>1, <4>2
    <3>2. "reach" \in DOMAIN Derived(w) /\ Derived(w)["reach"] = w.attributes["reach"]
      BY <2>1, <2>2, <2>3
    <3>3. Fits(Definitions[w.leaf]["reach"], Derived(w)["reach"])
      BY <3>2 DEF Complete
    <3>4. ~Omitted(Derived(w)["reach"])
      BY <3>1, <3>3 DEF Fits
    <3> QED
      BY <1>1, <3>2, <3>4
  <2>5. Reach(d) = Reach(w)
    <3>1. "reach" \in DOMAIN A /\ A["reach"] = w.attributes["reach"]
      BY <1>2, <2>3, <2>4
    <3> QED
      BY <2>2, <3>1 DEF Reach
  <2>6. "reach_m" \in K /\ V["reach_m"] = m
    <3>1. m.type = "INTEGER"
      OBVIOUS
    <3>2. ~Omitted(m)
      BY <3>1 DEF Omitted
    <3> HIDE DEF m
    <3> QED
      BY <1>1, <2>1, <3>2
  <2>7. Derived(d) = [k \in DOMAIN A \cup {"reach_m"} |-> IF k = "reach_m" THEN m ELSE A[k]]
    BY <1>5, <2>5 DEF Derived
  <2> HIDE DEF V, A, m
  <2>8. DOMAIN Derived(d) = K /\ \A k \in K : Derived(d)[k] = V[k]
    BY <1>2, <2>6, <2>7
  <2>9. \A k \in K : ~Omitted(V[k])
    BY <1>1
  <2> HIDE DEF K
  <2>10. {k \in DOMAIN Derived(d) : ~Omitted(Derived(d)[k])} = K
    BY <2>8, <2>9
  <2>11. Values(d) = [k \in K |-> Derived(d)[k]]
    BY <2>10 DEF Values, Restrict
  <2> QED
    BY <1>1, <2>8, <2>11 DEF V
<1> QED
  BY <1>4, <1>5

\* What an edit makes of the stored row is what it makes of the item as it is
\* meant to be.
LEMMA EditIntended ==
  ASSUME NEW w, IsDraft(w), Complete(w), NEW st, NEW nm, NEW p, IsPatch(p),
         NEW d, d = Merged(Row(w, st, nm), p), Complete(d), NEW v, v = Over(p, w)
  PROVE  /\ IsDraft(v) /\ Complete(v) /\ d.leaf \in Leaves
         /\ \A s2, n2 : Row(d, s2, n2) = Row(v, s2, n2)
<1> DEFINE stored == [leaf |-> w.leaf, maker |-> w.maker, name |-> w.name,
                      model |-> Inline(w.model),
                      attributes |-> Restrict(Values(w), DOMAIN Values(w) \ {"reach_m"})]
<1>1. d = Over(p, stored)
  <2> DEFINE r == Row(w, st, nm)
  <2>1. /\ r.leaf = w.leaf /\ r.maker = w.maker /\ r.name = w.name
        /\ r.model = Inline(w.model) /\ r.attributes = Values(w)
    BY RowFacts
  <2> HIDE DEF r
  <2>2. Merged(r, p) = Over(p, stored)
    BY <2>1 DEF Merged
  <2> QED
    BY <2>2 DEF r
<1>2. /\ DOMAIN stored = {"leaf", "maker", "name", "model", "attributes"}
      /\ stored.leaf = w.leaf /\ stored.maker = w.maker /\ stored.name = w.name
      /\ stored.model = Inline(w.model)
      /\ stored.attributes = Restrict(Values(w), DOMAIN Values(w) \ {"reach_m"})
  OBVIOUS
<1>3. /\ DOMAIN w = {"leaf", "maker", "name", "model", "attributes"}
      /\ DOMAIN p \subseteq {"maker", "name", "model", "attributes"}
  BY DEF IsDraft, IsPatch
<1> HIDE DEF stored
<1>4. /\ DOMAIN v = {"leaf", "maker", "name", "model", "attributes"}
      /\ \A k \in {"leaf", "maker", "name", "model", "attributes"} :
           /\ k \in DOMAIN p => d[k] = p[k] /\ v[k] = p[k]
           /\ k \notin DOMAIN p => d[k] = stored[k] /\ v[k] = w[k]
  BY <1>1, <1>2, <1>3 DEF Over
<1>5. d.leaf = w.leaf /\ v.leaf = w.leaf
  BY <1>2, <1>3, <1>4
<1>6. d.maker = v.maker /\ d.name = v.name
  BY <1>2, <1>4
<1>7. /\ Inline(d.model) = Inline(v.model) /\ IdentityText(d.model) = IdentityText(v.model)
      /\ v.model \in {None, Blank} => d.model \in {None, Blank}
  <2>1. CASE "model" \in DOMAIN p
    BY <1>4, <2>1
  <2>2. CASE "model" \notin DOMAIN p
    <3>1. d.model = Inline(v.model)
      BY <1>2, <1>4, <2>2
    <3> QED
      BY <3>1, BlankIsText, BlankIdentity DEF Inline, IdentityText
  <2> QED
    BY <2>1, <2>2
<1>8. Values(d) = Values(v)
  <2>1. CASE "attributes" \in DOMAIN p
    <3>1. d.attributes = v.attributes
      BY <1>4, <2>1
    <3>2. Derived(d) = Derived(v)
      BY <1>5, <3>1 DEF Derived, Reach
    <3> QED
      BY <3>2 DEF Values
  <2>2. CASE "attributes" \notin DOMAIN p
    <3>1. /\ d.attributes = Restrict(Values(w), DOMAIN Values(w) \ {"reach_m"})
          /\ v.attributes = w.attributes
      BY <1>2, <1>4, <2>2
    <3>2. Values(d) = Values(w)
      BY <1>5, <3>1, DerivedAgain
    <3>3. Derived(v) = Derived(w)
      BY <1>5, <3>1 DEF Derived, Reach
    <3> QED
      BY <3>2, <3>3 DEF Values
  <2> QED
    BY <2>1, <2>2
<1>9. \A s2, n2 : Row(d, s2, n2) = Row(v, s2, n2)
  <2>1. Signature(d.leaf, d.maker, d.model, Values(d)) = Signature(v.leaf, v.maker, v.model, Values(v))
    BY <1>5, <1>6, <1>7, <1>8 DEF Signature
  <2> QED
    BY <1>5, <1>6, <1>7, <1>8, <2>1 DEF Row
<1>10. IsDraft(v)
  <2>1. v.leaf \in Leaves
    BY <1>5 DEF IsDraft
  <2>2. v.maker \in Texts \cup {None} /\ v.name \in Texts /\ v.model \in Texts \cup {None}
    BY <1>4 DEF IsDraft, IsPatch
  <2>3. \/ "attributes" \in DOMAIN p /\ v.attributes = p.attributes
        \/ v.attributes = w.attributes
    BY <1>4
  <2>4. \A k \in DOMAIN v.attributes : Typed(v.attributes[k])
    BY <2>3 DEF IsDraft, IsPatch
  <2> QED
    BY <1>4, <2>1, <2>2, <2>4 DEF IsDraft
<1>11. Complete(v)
  <2>1. PICK e \in {d, w} : e.attributes = v.attributes /\ e.leaf = v.leaf /\ Complete(e)
    <3>1. CASE "attributes" \in DOMAIN p
      BY <1>4, <1>5, <3>1
    <3>2. CASE "attributes" \notin DOMAIN p
      BY <1>4, <1>5, <3>2
    <3> QED
      BY <3>1, <3>2
  <2>2. Derived(e) = Derived(v) /\ Reach(e) = Reach(v)
    BY <2>1 DEF Derived, Reach
  <2>3. /\ v.leaf \in Manufactured => v.maker # None /\ v.model \notin {None, Blank}
        /\ v.name # Blank
    BY <1>5, <1>6, <1>7 DEF Complete
  <2>4. /\ v.leaf \in Transceivers =>
             /\ Reach(v) > 0
             /\ "reach_m" \in DOMAIN v.attributes => Derived(v) = v.attributes
        /\ DOMAIN Derived(v) \subseteq DOMAIN Definitions[v.leaf]
        /\ \A k \in DOMAIN Definitions[v.leaf] :
             Definitions[v.leaf][k].required => k \in DOMAIN Derived(v)
        /\ \A k \in DOMAIN Derived(v) : Fits(Definitions[v.leaf][k], Derived(v)[k])
    BY <2>1, <2>2 DEF Complete
  <2> QED
    BY <2>3, <2>4 DEF Complete
<1> QED
  BY <1>5, <1>9, <1>10, <1>11 DEF IsDraft

-----------------------------------------------------------------------------
(* Identity                                                                 *)

\* Texts that read the same have the same identity; no text reads like the
\* empty one.
LEMMA TextIdentity ==
  ASSUME NEW a \in Texts \cup {None}, NEW b \in Texts \cup {None}, Word(a) = Word(b)
  PROVE  IdentityText(a) = IdentityText(b)
<1>1. \A x, y \in Texts : x.word = y.word =>
        [x EXCEPT !.form = "plain"] = [y EXCEPT !.form = "plain"]
  BY DEF Texts
<1>2. Blank.word = ""
  BY DEF Blank
<1>3. ASSUME NEW x \in Texts, x.word = "" PROVE [x EXCEPT !.form = "plain"] = Blank
  <2>1. [x EXCEPT !.form = "plain"] = [Blank EXCEPT !.form = "plain"]
    BY <1>1, <1>2, <1>3, BlankIsText
  <2> QED
    BY <2>1, BlankIdentity
<1>4. CASE a \in Texts /\ b \in Texts
  BY <1>1, <1>4, BlankIsText DEF IdentityText, Word
<1>5. CASE a = None /\ b \in Texts
  BY <1>3, <1>5, BlankIsText DEF IdentityText, Word
<1>6. CASE a \in Texts /\ b = None
  BY <1>3, <1>6, BlankIsText DEF IdentityText, Word
<1> QED
  BY <1>4, <1>5, <1>6

\* Arithmetic of decimals that are written with different scales.
LEMMA Cancel ==
  ASSUME NEW x \in Nat, NEW y \in Nat, NEW m \in Nat \ {0}, x * m = y * m
  PROVE  x = y
OBVIOUS

LEMMA CrossMultiply ==
  ASSUME NEW a \in Nat, NEW b \in Nat, NEW p \in Nat, NEW q \in Nat, NEW u \in Nat, NEW v \in Nat,
         NEW m \in Nat \ {0}, p * u = m, q * v = m, a * q = b * p
  PROVE  a * u = b * v
<1>1. a * u \in Nat /\ b * v \in Nat
  OBVIOUS
<1>2. (a * u) * (q * v) = (a * q) * (u * v)
  OBVIOUS
<1>3. (b * p) * (u * v) = (b * v) * (p * u)
  OBVIOUS
<1>4. (a * u) * m = (b * v) * m
  BY <1>2, <1>3
<1> QED
  BY <1>1, <1>4, Cancel

\* Decimals that are equal have the same identity, whatever their scale.
LEMMA DecimalsEqual ==
  ASSUME NEW c \in [digits : Nat, scale : Nat], NEW d \in [digits : Nat, scale : Nat],
         c.scale <= MaxScale, d.scale <= MaxScale,
         c.digits * Power(d.scale) = d.digits * Power(c.scale)
  PROVE  DecimalIdentity(c) = DecimalIdentity(d)
<1>1. /\ MaxScale \in Nat /\ c.scale \in 0 .. MaxScale /\ d.scale \in 0 .. MaxScale
      /\ c.digits \in Nat /\ d.digits \in Nat
  BY ScaleAssumption
<1>2. /\ MaxScale - c.scale \in 0 .. MaxScale /\ MaxScale - d.scale \in 0 .. MaxScale
      /\ MaxScale \in 0 .. MaxScale
  BY <1>1
<1>3. /\ Power(c.scale) \in Nat /\ Power(d.scale) \in Nat
      /\ Power(MaxScale - c.scale) \in Nat /\ Power(MaxScale - d.scale) \in Nat
      /\ Power(MaxScale) \in Nat \ {0}
      /\ Power(c.scale) * Power(MaxScale - c.scale) = Power(MaxScale)
      /\ Power(d.scale) * Power(MaxScale - d.scale) = Power(MaxScale)
  BY <1>1, <1>2, ScaleAssumption
<1>4. c.digits * Power(MaxScale - c.scale) = d.digits * Power(MaxScale - d.scale)
  <2> DEFINE a == c.digits
             b == d.digits
             p == Power(c.scale)
             q == Power(d.scale)
             u == Power(MaxScale - c.scale)
             v == Power(MaxScale - d.scale)
             m == Power(MaxScale)
  <2>1. /\ a \in Nat /\ b \in Nat /\ p \in Nat /\ q \in Nat /\ u \in Nat /\ v \in Nat
        /\ m \in Nat \ {0} /\ p * u = m /\ q * v = m /\ a * q = b * p
    BY <1>1, <1>3
  <2> HIDE DEF a, b, p, q, u, v, m
  <2>2. a * u = b * v
    BY <2>1, CrossMultiply
  <2> QED
    BY <2>2 DEF a, b, u, v
<1> QED
  BY <1>4 DEF DecimalIdentity

\* The values of an item are of their types, and decimals have few digits
\* behind the point.
LEMMA ValuesTyped ==
  ASSUME NEW w, IsDraft(w), Complete(w), NEW k \in DOMAIN Values(w)
  PROVE  /\ Typed(Values(w)[k]) /\ Values(w)[k].type = Definitions[w.leaf][k].type
         /\ Values(w)[k].type = "DECIMAL" => Values(w)[k].value.scale <= MaxScale
<1>1. k \in DOMAIN Derived(w) /\ Values(w)[k] = Derived(w)[k]
  BY DEF Values, Restrict
<1>2. Fits(Definitions[w.leaf][k], Derived(w)[k])
  BY <1>1 DEF Complete
<1>3. Typed(Derived(w)[k])
  <2>1. CASE w.leaf \notin Transceivers \/ k # "reach_m"
    <3>1. k \in DOMAIN w.attributes /\ Derived(w)[k] = w.attributes[k]
      BY <1>1, <2>1 DEF Derived
    <3> QED
      BY <3>1 DEF IsDraft
  <2>2. CASE w.leaf \in Transceivers /\ k = "reach_m"
    <3>1. Derived(w)[k].type = "INTEGER"
      BY <1>1, <2>2 DEF Derived
    <3> QED
      BY <3>1 DEF Typed
  <2> QED
    BY <2>1, <2>2
<1> QED
  BY <1>1, <1>2, <1>3 DEF Fits

\* Items that describe the same equipment have the same signature.
LEMMA SameSignature ==
  ASSUME NEW w, NEW x, IsDraft(w), Complete(w), IsDraft(x), Complete(x),
         w.leaf = x.leaf, Word(w.maker) = Word(x.maker),
         Word(Inline(w.model)) = Word(Inline(x.model)),
         DOMAIN Values(w) = DOMAIN Values(x),
         \A k \in DOMAIN Values(w) : SameValue(Values(w)[k], Values(x)[k])
  PROVE  Signature(w.leaf, w.maker, w.model, Values(w)) = Signature(x.leaf, x.maker, x.model, Values(x))
<1>1. IdentityText(w.maker) = IdentityText(x.maker)
  BY TextIdentity DEF IsDraft
<1>2. IdentityText(w.model) = IdentityText(x.model)
  <2>1. ASSUME NEW y \in Texts \cup {None} PROVE Word(Inline(y)) = Word(y)
    <3>1. Blank.word = ""
      BY DEF Blank
    <3>2. CASE y = Blank
      BY <3>1, <3>2, BlankIsText DEF Word, Inline
    <3>3. CASE y # Blank
      BY <3>3 DEF Inline
    <3> QED
      BY <3>2, <3>3
  <2> QED
    BY <2>1, TextIdentity DEF IsDraft
<1>3. ASSUME NEW k \in DOMAIN Values(w)
      PROVE  IdentityValue(Values(w)[k]) = IdentityValue(Values(x)[k])
  <2> DEFINE v == Values(w)[k]
             y == Values(x)[k]
  <2>1. /\ Typed(v) /\ Typed(y) /\ v.type = y.type /\ SameValue(v, y)
        /\ v.type = "DECIMAL" => v.value.scale <= MaxScale /\ y.value.scale <= MaxScale
    BY ValuesTyped
  <2> SUFFICES IdentityValue(v) = IdentityValue(y)
    OBVIOUS
  <2> HIDE DEF v, y
  <2>2. CASE v.type = "TEXT"
    <3>1. v.value \in Texts /\ y.value \in Texts /\ Word(v.value) = Word(y.value)
      BY <2>1, <2>2 DEF Typed, SameValue
    <3>2. IdentityText(v.value) = IdentityText(y.value)
      BY <3>1, TextIdentity
    <3> QED
      BY <2>1, <2>2, <3>2 DEF IdentityValue
  <2>3. CASE v.type = "DECIMAL"
    <3>1. /\ v.value \in [digits : Nat, scale : Nat] /\ y.value \in [digits : Nat, scale : Nat]
          /\ v.value.digits * Power(y.value.scale) = y.value.digits * Power(v.value.scale)
      BY <2>1, <2>3 DEF Typed, SameValue
    <3>2. DecimalIdentity(v.value) = DecimalIdentity(y.value)
      BY <2>1, <2>3, <3>1, DecimalsEqual
    <3> QED
      BY <2>1, <2>3, <3>2 DEF IdentityValue
  <2>4. CASE v.type \notin {"TEXT", "DECIMAL"}
    BY <2>1, <2>4 DEF IdentityValue, SameValue
  <2> QED
    BY <2>2, <2>3, <2>4
<1> QED
  BY <1>1, <1>2, <1>3 DEF Signature

-----------------------------------------------------------------------------
(* The inductive invariant                                                  *)

\* Neither an id that is not used yet nor one of a deleted item is live.
LEMMA Statuses ==
  /\ NoItem.status = "NEW" /\ Gone.status = "DELETED" /\ NoItem # Gone
  /\ "NEW" \notin {"ACTIVE", "ARCHIVED"} /\ "DELETED" \notin {"ACTIVE", "ARCHIVED"}
BY DEF NoItem, Gone

\* The catalog starts with rows that the service accepted.
LEMMA Beginning == Init => IInv
<1> SUFFICES ASSUME Init PROVE IInv
  OBVIOUS
<1>1. PICK started \in Initials :
        /\ makers = {started[i].maker : i \in DOMAIN started} \ {None}
        /\ items = [i \in Items |-> IF i \in DOMAIN started THEN CreatedRow(started[i]) ELSE NoItem]
        /\ intended = [i \in Items |-> IF i \in DOMAIN started THEN started[i] ELSE None]
        /\ pc = [t \in Txns |-> "idle"]
        /\ op = [t \in Txns |-> NoOp]
  BY DEF Init
<1>2. /\ DOMAIN started \subseteq Items
      /\ \A i \in DOMAIN started : IsDraft(started[i]) /\ Complete(started[i])
      /\ \A i, j \in DOMAIN started :
           CreatedRow(started[i]).signature = CreatedRow(started[j]).signature => i = j
      /\ \A i, j \in DOMAIN started :
           started[i].maker # None /\ started[j].maker # None
           /\ Compared(started[i].maker) = Compared(started[j].maker)
           => started[i].maker = started[j].maker
  BY InitialsAssumption
<1>3. Functional
  BY <1>1 DEF Functional
<1>4. \A i \in Live : i \in DOMAIN started /\ items[i] = CreatedRow(started[i]) /\ intended[i] = started[i]
  BY <1>1 DEF Live
<1>5. RowsIntended
  <2> SUFFICES ASSUME NEW i \in Live
               PROVE  /\ IsDraft(intended[i]) /\ Complete(intended[i])
                      /\ items[i].status \in {"ACTIVE", "ARCHIVED"}
                      /\ items[i] = Row(intended[i], items[i].status, items[i].normalized_model)
    BY DEF RowsIntended
  <2>1. IsDraft(intended[i]) /\ Complete(intended[i])
    BY <1>2, <1>4
  <2>2. PICK nm : items[i] = Row(intended[i], "ACTIVE", nm)
    BY <1>4 DEF CreatedRow
  <2>3. items[i].status = "ACTIVE" /\ items[i].normalized_model = nm
    BY <2>2, RowFacts
  <2> QED
    BY <2>1, <2>2, <2>3
<1>6. LocksExclusive /\ \A t \in Txns : Claim(t)
  BY <1>1 DEF LocksExclusive, Claim, Held
<1>7. KeysUnique
  <2>1. \A i, j \in Live : items[i].signature = items[j].signature => i = j
    BY <1>2, <1>4
  <2>2. makers \subseteq Texts
    BY <1>1, <1>2 DEF IsDraft
  <2>3. \A m, n \in makers : Compared(m) = Compared(n) => m = n
    <3> SUFFICES ASSUME NEW m \in makers, NEW n \in makers, Compared(m) = Compared(n)
                 PROVE  m = n
      OBVIOUS
    <3>1. m # None /\ n # None
      BY <1>1
    <3>2. PICK i \in DOMAIN started : m = started[i].maker
      BY <1>1
    <3>3. PICK j \in DOMAIN started : n = started[j].maker
      BY <1>1
    <3> QED
      BY <1>2, <3>1, <3>2, <3>3
  <2>4. \A t \in Txns : pc[t] # "commit"
    BY <1>1
  <2> QED
    BY <2>1, <2>2, <2>3, <2>4 DEF KeysUnique
<1> QED
  BY <1>3, <1>5, <1>6, <1>7 DEF IInv

\* A step of a request that commits nothing.
LEMMA StageKeeps ==
  ASSUME IInv, NEW t \in Txns, UNCHANGED tables,
         NEW stage \in {"idle", "lock"} \cup Held, pc' = [pc EXCEPT ![t] = stage],
         op' = [s \in Txns |-> op'[s]], \A s \in Txns \ {t} : op'[s] = op[s],
         Claim(t)',
         stage \in Held =>
           \A s \in Txns \ {t} : pc[s] \in Held /\ op'[t].item \in Items => op[s].item # op'[t].item,
         stage = "commit" =>
           /\ op'[t].key \notin Keys(op'[t].item)
           /\ \A s \in Txns \ {t} : pc[s] = "commit" => op[s].key # op'[t].key
  PROVE  IInv'
<1>1. /\ items' = items /\ intended' = intended /\ makers' = makers /\ Live' = Live
      /\ \A i : Keys(i)' = Keys(i)
  BY DEF tables, Live, Keys
<1>2. /\ pc'[t] = stage /\ \A s \in Txns \ {t} : pc'[s] = pc[s] /\ op'[s] = op[s]
      /\ pc' \in [Txns -> {"idle", "lock"} \cup Held]
  BY DEF IInv, Functional
<1>3. Functional'
  BY <1>1, <1>2 DEF IInv, Functional
<1>4. RowsIntended'
  BY <1>1 DEF IInv, RowsIntended
<1>5. LocksExclusive'
  <2> SUFFICES ASSUME NEW s \in Txns, NEW r \in Txns, s # r, pc'[s] \in Held, pc'[r] \in Held,
                      op'[s].item \in Items
               PROVE  op'[s].item # op'[r].item
    BY DEF LocksExclusive
  <2>1. CASE s # t /\ r # t
    BY <1>2, <2>1 DEF IInv, LocksExclusive
  <2>2. CASE s = t
    BY <1>2, <2>2
  <2>3. CASE r = t
    BY <1>2, <2>3
  <2> QED
    BY <2>1, <2>2, <2>3
<1>6. KeysUnique'
  <2>1. ASSUME NEW s \in Txns, pc'[s] = "commit" PROVE op'[s].key \notin Keys(op'[s].item)
    BY <1>2, <2>1 DEF IInv, KeysUnique
  <2>2. ASSUME NEW s \in Txns, NEW r \in Txns, s # r, pc'[s] = "commit", pc'[r] = "commit"
        PROVE  op'[s].key # op'[r].key
    <3>1. CASE s # t /\ r # t
      BY <1>2, <2>2, <3>1 DEF IInv, KeysUnique
    <3>2. CASE s = t
      BY <1>2, <2>2, <3>2
    <3>3. CASE r = t
      BY <1>2, <2>2, <3>3
    <3> QED
      BY <3>1, <3>2, <3>3
  <2>3. \A i, j \in Live' : items'[i].signature = items'[j].signature => i = j
    BY <1>1 DEF IInv, KeysUnique
  <2>4. makers' \subseteq Texts /\ \A m, n \in makers' : Compared(m) = Compared(n) => m = n
    BY <1>1 DEF IInv, KeysUnique
  <2> QED
    BY <1>1, <2>1, <2>2, <2>3, <2>4 DEF KeysUnique
<1>7. ASSUME NEW s \in Txns, s # t PROVE Claim(s)'
  <2>1. Claim(s) /\ pc'[s] = pc[s] /\ op'[s] = op[s]
    BY <1>2, <1>7 DEF IInv
  <2> QED
    BY <1>1, <2>1 DEF Claim, MakerClaim, CreateClaim, UpdateClaim, ArchiveClaim, DeleteClaim
<1> QED
  BY <1>3, <1>4, <1>5, <1>6, <1>7 DEF IInv

\* A rollback, a refusal or an abort.
LEMMA FinishKeeps ==
  ASSUME IInv, NEW t \in Txns, Finish(t), UNCHANGED tables
  PROVE  IInv'
<1>1. /\ pc' = [pc EXCEPT ![t] = "idle"] /\ pc'[t] = "idle"
      /\ op' = [s \in Txns |-> op'[s]] /\ \A s \in Txns \ {t} : op'[s] = op[s]
  BY DEF Finish, IInv, Functional
<1>2. Claim(t)'
  BY <1>1 DEF Claim
<1>3. "idle" \notin Held /\ "idle" # "commit"
  BY DEF Held
<1> QED
  BY <1>1, <1>2, <1>3, StageKeeps

\* A request begins; one that creates an item takes an id of its own.
LEMMA StartKeeps ==
  ASSUME IInv, NEW t \in Txns, NEW request, NEW stage \in {"lock", "index"}, Start(t, request, stage),
         Claim(t)',
         stage = "index" /\ request.item \in Items =>
           \A s \in Txns : pc[s] # "idle" => op[s].item # request.item
  PROVE  IInv'
<1>1. /\ pc' = [pc EXCEPT ![t] = stage] /\ op'[t] = request /\ UNCHANGED tables
      /\ op' = [s \in Txns |-> op'[s]] /\ \A s \in Txns \ {t} : op'[s] = op[s]
  BY DEF Start, IInv, Functional
<1>2. stage \in {"idle", "lock"} \cup Held /\ stage # "commit" /\ (stage \in Held => stage = "index")
  BY DEF Held
<1>3. ASSUME NEW s \in Txns \ {t}, stage \in Held, pc[s] \in Held, op'[t].item \in Items
      PROVE  op[s].item # op'[t].item
  <2>1. pc[s] # "idle"
    BY <1>3 DEF Held
  <2> QED
    BY <1>1, <1>2, <1>3, <2>1
<1> QED
  BY <1>1, <1>2, <1>3, StageKeeps

LEMMA PostItemKeeps ==
  ASSUME IInv, NEW t \in Txns, PostItem(t)
  PROVE  IInv'
<1>1. PICK d \in Drafts, i \in Unused :
        /\ Valid(d)
        /\ Start(t, [kind |-> "create", item |-> i, asked |-> d, row |-> CreatedRow(d),
                     key |-> CreatedRow(d).signature], "index")
  BY DEF PostItem
<1> DEFINE request == [kind |-> "create", item |-> i, asked |-> d, row |-> CreatedRow(d),
                       key |-> CreatedRow(d).signature]
<1>2. /\ request.kind = "create" /\ request.item = i /\ request.asked = d
      /\ request.row = CreatedRow(d) /\ request.key = CreatedRow(d).signature
  OBVIOUS
<1>3. Start(t, request, "index")
  BY <1>1
<1> HIDE DEF request
<1>4. pc'[t] = "index" /\ op'[t] = request /\ items' = items
  BY <1>3 DEF Start, tables, IInv, Functional
<1>5. /\ i \in Items /\ items[i] = NoItem /\ \A s \in Txns : pc[s] # "idle" => op[s].item # i
      /\ IsDraft(d) /\ Complete(d)
  BY <1>1, CatalogAssumption DEF Unused, Valid
<1>6. Claim(t)'
  BY <1>2, <1>4, <1>5 DEF Claim, CreateClaim
<1> QED
  BY <1>2, <1>3, <1>5, <1>6, StartKeeps

LEMMA PostManufacturerKeeps ==
  ASSUME IInv, NEW t \in Txns, PostManufacturer(t)
  PROVE  IInv'
<1>1. PICK n \in Names :
        Start(t, [kind |-> "maker", item |-> None, row |-> n, key |-> Compared(n)], "index")
  BY DEF PostManufacturer
<1> DEFINE request == [kind |-> "maker", item |-> None, row |-> n, key |-> Compared(n)]
<1>2. request.kind = "maker" /\ request.item = None /\ request.row = n /\ request.key = Compared(n)
  OBVIOUS
<1>3. Start(t, request, "index")
  BY <1>1
<1> HIDE DEF request
<1>4. pc'[t] = "index" /\ op'[t] = request
  BY <1>3 DEF Start, IInv, Functional
<1>5. n \in Texts /\ None \notin Items
  BY CatalogAssumption
<1>6. Claim(t)'
  BY <1>2, <1>4, <1>5 DEF Claim, MakerClaim
<1> QED
  BY <1>2, <1>3, <1>5, <1>6, StartKeeps

\* The requests that begin with the lock of their item.
LEMMA EditKeeps ==
  ASSUME IInv, NEW t \in Txns, PatchItem(t) \/ ArchiveItem(t) \/ DeleteItem(t)
  PROVE  IInv'
<1>1. PICK kind \in {"update", "archive", "delete"}, i \in Items :
        \E asked :
          /\ Start(t, [kind |-> kind, item |-> i, asked |-> asked, row |-> None, key |-> None], "lock")
          /\ kind = "update" => IsPatch(asked)
          /\ kind = "archive" => asked \in {"ACTIVE", "ARCHIVED"}
  <2>1. CASE PatchItem(t)
    <3>1. PICK i \in Items \ Unused, p \in Patches :
            Start(t, [kind |-> "update", item |-> i, asked |-> p, row |-> None, key |-> None], "lock")
      BY <2>1 DEF PatchItem
    <3>2. IsPatch(p)
      BY CatalogAssumption
    <3> QED
      BY <3>1, <3>2
  <2>2. CASE ArchiveItem(t)
    <3>1. PICK i \in Items \ Unused, status \in {"ACTIVE", "ARCHIVED"} :
            Start(t, [kind |-> "archive", item |-> i, asked |-> status, row |-> None, key |-> None], "lock")
      BY <2>2 DEF ArchiveItem
    <3> QED
      BY <3>1
  <2>3. CASE DeleteItem(t)
    <3>1. PICK i \in Items \ Unused :
            Start(t, [kind |-> "delete", item |-> i, asked |-> None, row |-> None, key |-> None], "lock")
      BY <2>3 DEF DeleteItem
    <3> QED
      BY <3>1
  <2> QED
    BY <2>1, <2>2, <2>3
<1>2. PICK asked :
        /\ Start(t, [kind |-> kind, item |-> i, asked |-> asked, row |-> None, key |-> None], "lock")
        /\ kind = "update" => IsPatch(asked)
        /\ kind = "archive" => asked \in {"ACTIVE", "ARCHIVED"}
  BY <1>1
<1> DEFINE request == [kind |-> kind, item |-> i, asked |-> asked, row |-> None, key |-> None]
<1>3. /\ request.kind = kind /\ request.item = i /\ request.asked = asked
      /\ DOMAIN request = {"kind", "item", "asked", "row", "key"}
  OBVIOUS
<1>4. Start(t, request, "lock")
  BY <1>2
<1> HIDE DEF request
<1>5. pc'[t] = "lock" /\ op'[t] = request
  BY <1>4 DEF Start, IInv, Functional
<1>6. "lock" \notin Held
  BY DEF Held
<1>7. Claim(t)'
  BY <1>2, <1>3, <1>5, <1>6 DEF Claim, UpdateClaim, ArchiveClaim, DeleteClaim
<1> QED
  BY <1>4, <1>7, StartKeeps

\* Nobody else has the row locked, so what is prepared from it stays true.
LEMMA LockKeeps ==
  ASSUME IInv, NEW t \in Txns, Lock(t)
  PROVE  IInv'
<1> DEFINE o   == op[t]
           i   == o.item
           r   == items[i]
           row == Prepared(o)
           key == IF row = Gone THEN r.signature ELSE row.signature
<1>1. pc[t] = "lock" /\ Unlocked(t, i) /\ UNCHANGED tables
  BY DEF Lock
<1>2. CASE row = None
  BY <1>1, <1>2, FinishKeeps DEF Lock
<1>3. CASE row # None
  <2>1. /\ pc' = [pc EXCEPT ![t] = "write"]
        /\ op' = [op EXCEPT ![t] = [o EXCEPT !.row = row, !.key = key]]
    BY <1>3 DEF Lock
  <2>2. /\ o.kind \in {"update", "archive", "delete"} /\ i \in Items
        /\ DOMAIN o = {"kind", "item", "asked", "row", "key"}
        /\ o.kind = "update" => UpdateClaim(t)
        /\ o.kind = "archive" => ArchiveClaim(t)
    BY <1>1 DEF IInv, Claim, MakerClaim, CreateClaim
  <2>3. i \in Live
    BY <1>3, <2>2 DEF Prepared
  <2>4. /\ o.kind = "update" => Complete(Merged(r, o.asked)) /\ row = UpdatedRow(Merged(r, o.asked), r.status)
        /\ o.kind = "archive" => row = [r EXCEPT !.status = o.asked]
        /\ o.kind = "delete" => row = Gone
    BY <1>3, <2>2, <2>3 DEF Prepared, Valid
  <2>5. RowsIntended
    BY DEF IInv
  <2>6. o.kind \in {"update", "archive"} => row # Gone
    <3>1. PICK st, nm : r = Row(intended[i], st, nm) /\ st \in {"ACTIVE", "ARCHIVED"} /\ r.status = st
      BY <2>3, <2>5 DEF RowsIntended
    <3>2. o.kind = "update" => row.status = st
      BY <2>4, <3>1, RowFacts DEF UpdatedRow
    <3>3. o.kind = "archive" => row.status = o.asked /\ o.asked \in {"ACTIVE", "ARCHIVED"}
      <4>1. [r EXCEPT !.status = o.asked].status = o.asked
        BY <3>1 DEF Row
      <4> QED
        BY <2>2, <2>4, <4>1 DEF ArchiveClaim
    <3> QED
      BY <3>1, <3>2, <3>3, Statuses
  <2>7. o.kind = "archive" => key = r.signature
    <3>1. PICK st, nm : r = Row(intended[i], st, nm)
      BY <2>3, <2>5 DEF RowsIntended
    <3>2. [r EXCEPT !.status = o.asked].signature = r.signature
      BY <3>1 DEF Row
    <3> QED
      BY <2>4, <2>6, <3>2
  <2>8. o.kind = "update" => key = row.signature
    BY <2>6
  <2> HIDE DEF row, key
  <2>9. /\ op'[t] = [o EXCEPT !.row = row, !.key = key] /\ pc'[t] = "write"
        /\ op' = [s \in Txns |-> op'[s]] /\ \A s \in Txns \ {t} : op'[s] = op[s]
    BY <2>1 DEF IInv, Functional
  <2>10. /\ op'[t].kind = o.kind /\ op'[t].item = i /\ op'[t].asked = o.asked
         /\ op'[t].row = row /\ op'[t].key = key
         /\ DOMAIN op'[t] = {"kind", "item", "asked", "row", "key"}
    BY <2>2, <2>9
  <2>11. items' = items /\ Live' = Live
    BY <1>1 DEF tables, Live
  <2>12. o.kind = "update" => UpdateClaim(t)'
    <3>1. o.kind = "update" => IsPatch(o.asked)
      BY <2>2 DEF UpdateClaim
    <3> QED
      BY <2>3, <2>4, <2>8, <2>10, <2>11, <3>1 DEF UpdateClaim
  <2>13. o.kind = "archive" => ArchiveClaim(t)'
    <3>1. o.kind = "archive" => o.asked \in {"ACTIVE", "ARCHIVED"}
      BY <2>2 DEF ArchiveClaim
    <3> QED
      BY <2>3, <2>4, <2>7, <2>10, <2>11, <3>1 DEF ArchiveClaim
  <2>14. o.kind = "delete" => DeleteClaim(t)'
    BY <2>3, <2>4, <2>10, <2>11 DEF DeleteClaim
  <2>15. Claim(t)'
    BY <2>2, <2>10, <2>12, <2>13, <2>14 DEF Claim
  <2>16. \A s \in Txns \ {t} : pc[s] \in Held => op[s].item # op'[t].item
    BY <1>1, <2>10 DEF Unlocked, Held
  <2>17. "write" \in Held /\ "write" # "commit"
    BY DEF Held
  <2> QED
    BY <1>1, <2>1, <2>9, <2>15, <2>16, <2>17, StageKeeps
<1> QED
  BY <1>2, <1>3

\* The write and the entry in the index keep what the request is about.
LEMMA AdvanceKeeps ==
  ASSUME IInv, NEW t \in Txns, pc[t] \in {"write", "index"}, NEW stage \in {"index", "commit"},
         pc' = [pc EXCEPT ![t] = stage], UNCHANGED <<tables, op>>,
         stage = "commit" =>
           /\ op[t].key \notin Keys(op[t].item)
           /\ \A s \in Txns \ {t} : pc[s] = "commit" => op[s].key # op[t].key
  PROVE  IInv'
<1>1. /\ op' = op /\ op' = [s \in Txns |-> op'[s]] /\ UNCHANGED tables
      /\ pc'[t] = stage /\ items' = items /\ Live' = Live
  BY DEF IInv, Functional, tables, Live
<1>2. pc[t] \in Held /\ stage \in Held /\ pc[t] # "idle" /\ stage \in {"idle", "lock"} \cup Held
  BY DEF Held
<1>3. Claim(t)'
  BY <1>1, <1>2 DEF IInv, Claim, MakerClaim, CreateClaim, UpdateClaim, ArchiveClaim, DeleteClaim
<1>4. \A s \in Txns \ {t} : pc[s] \in Held /\ op[t].item \in Items => op[s].item # op[t].item
  BY <1>2 DEF IInv, LocksExclusive
<1> QED
  BY <1>1, <1>2, <1>3, <1>4, StageKeeps

LEMMA WriteKeeps ==
  ASSUME IInv, NEW t \in Txns, Write(t)
  PROVE  IInv'
BY AdvanceKeeps DEF Write

\* A key is entered when nobody else has entered it or may bring it back.
LEMMA IndexKeeps ==
  ASSUME IInv, NEW t \in Txns, Index(t)
  PROVE  IInv'
<1>1. pc[t] = "index" /\ UNCHANGED tables /\ \A s \in Txns : ~WaitsFor(t, s)
  BY DEF Index
<1>2. CASE op[t].key \in Keys(op[t].item)
  BY <1>1, <1>2, FinishKeeps DEF Index
<1>3. CASE op[t].key \notin Keys(op[t].item)
  <2>1. pc' = [pc EXCEPT ![t] = "commit"] /\ UNCHANGED <<tables, op>>
    BY <1>1, <1>3 DEF Index
  <2>2. \A s \in Txns \ {t} : pc[s] = "commit" => op[s].key # op[t].key
    BY <1>1 DEF WaitsFor, Touches
  <2> QED
    BY <1>1, <1>3, <2>1, <2>2, AdvanceKeeps
<1> QED
  BY <1>2, <1>3

\* A committed row of an item: it is gone, or meant to be as it is.
LEMMA RowKeeps ==
  ASSUME IInv, NEW t \in Txns, pc[t] = "commit", Finish(t), makers' = makers,
         NEW i \in Items, op[t].item = i, NEW row, NEW w,
         items' = [items EXCEPT ![i] = row], intended' = [intended EXCEPT ![i] = w],
         \/ row = Gone
         \/ /\ IsDraft(w) /\ Complete(w) /\ row.status \in {"ACTIVE", "ARCHIVED"}
            /\ row = Row(w, row.status, row.normalized_model) /\ row.signature = op[t].key
  PROVE  IInv'
<1>1. /\ items'[i] = row /\ intended'[i] = w
      /\ \A j \in Items \ {i} : items'[j] = items[j] /\ intended'[j] = intended[j]
      /\ items' = [j \in Items |-> items'[j]] /\ intended' = [j \in Items |-> intended'[j]]
  BY DEF IInv, Functional
<1>2. /\ pc'[t] = "idle" /\ \A s \in Txns \ {t} : pc'[s] = pc[s] /\ op'[s] = op[s]
      /\ pc' \in [Txns -> {"idle", "lock"} \cup Held] /\ op' = [s \in Txns |-> op'[s]]
  BY DEF Finish, IInv, Functional
<1>3. /\ \A j \in Items \ {i} : j \in Live' <=> j \in Live
      /\ i \in Live' => row # Gone
      /\ Live' \subseteq Items
  BY <1>1 DEF Live
<1>4. Functional'
  BY <1>1, <1>2 DEF Functional
<1>5. RowsIntended'
  <2> SUFFICES ASSUME NEW j \in Live'
               PROVE  /\ IsDraft(intended'[j]) /\ Complete(intended'[j])
                      /\ items'[j].status \in {"ACTIVE", "ARCHIVED"}
                      /\ items'[j] = Row(intended'[j], items'[j].status, items'[j].normalized_model)
    BY DEF RowsIntended
  <2>1. CASE j = i
    BY <1>1, <1>3, <2>1
  <2>2. CASE j # i
    BY <1>1, <1>3, <2>2 DEF IInv, RowsIntended
  <2> QED
    BY <2>1, <2>2
<1>6. LocksExclusive'
  BY <1>2 DEF IInv, LocksExclusive, Held
<1>7. op[t].key \notin Keys(i) /\ \A s \in Txns \ {t} : pc[s] = "commit" => op[s].key # op[t].key
  BY DEF IInv, KeysUnique
<1>8. KeysUnique'
  <2>1. ASSUME NEW j \in Live', NEW k \in Live', items'[j].signature = items'[k].signature
        PROVE  j = k
    <3>1. ASSUME NEW x \in Live' \ {i} PROVE items'[x].signature # op[t].key
      BY <1>1, <1>3, <1>7, <3>1 DEF Keys
    <3>2. i \in Live' => items'[i].signature = op[t].key
      BY <1>1, <1>3
    <3>3. CASE j # i /\ k # i
      BY <1>1, <1>3, <2>1, <3>3 DEF IInv, KeysUnique
    <3>4. CASE j = i \/ k = i
      BY <2>1, <3>1, <3>2, <3>4
    <3> QED
      BY <3>3, <3>4
  <2>2. makers' \subseteq Texts /\ \A m, n \in makers' : Compared(m) = Compared(n) => m = n
    BY DEF IInv, KeysUnique
  <2>3. ASSUME NEW x PROVE Keys(x)' \subseteq Keys(x) \cup {op[t].key}
    <3> SUFFICES ASSUME NEW k \in Keys(x)', k # op[t].key PROVE k \in Keys(x)
      OBVIOUS
    <3>1. CASE \E m \in makers' : k = Compared(m)
      BY <3>1 DEF Keys
    <3>2. CASE \E j \in Live' \ {x} : k = items'[j].signature
      <4>1. PICK j \in Live' \ {x} : k = items'[j].signature
        BY <3>2
      <4>2. j # i
        BY <1>1, <1>3, <4>1
      <4> QED
        BY <1>1, <1>3, <4>1, <4>2 DEF Keys
    <3> QED
      BY <3>1, <3>2 DEF Keys
  <2>4. ASSUME NEW s \in Txns, pc'[s] = "commit"
        PROVE  (op[s].key \notin Keys(op[s].item))' /\ s # t
    <3>1. s # t /\ pc[s] = "commit" /\ op'[s] = op[s]
      BY <1>2, <2>4
    <3>2. op[s].key \notin Keys(op[s].item)
      BY <3>1 DEF IInv, KeysUnique
    <3>3. Keys(op[s].item)' \subseteq Keys(op[s].item) \cup {op[t].key}
      BY <2>3, <3>1 DEF Keys
    <3> QED
      BY <1>7, <3>1, <3>2, <3>3
  <2>5. ASSUME NEW s \in Txns, NEW r \in Txns, s # r, pc'[s] = "commit", pc'[r] = "commit"
        PROVE  op'[s].key # op'[r].key
    BY <1>2, <2>4, <2>5 DEF IInv, KeysUnique
  <2> QED
    BY <2>1, <2>2, <2>4, <2>5 DEF KeysUnique
<1>9. ASSUME NEW s \in Txns PROVE Claim(s)'
  <2>1. CASE s = t
    BY <1>2, <2>1 DEF Claim
  <2>2. CASE s # t
    <3>1. Claim(s) /\ pc'[s] = pc[s] /\ op'[s] = op[s]
      BY <1>2, <2>2 DEF IInv
    <3>2. "commit" \in Held /\ "index" \in Held
      BY DEF Held
    <3>3. pc[s] \in Held => op[s].item # i
      BY <2>2, <3>2 DEF IInv, LocksExclusive
    <3>4. pc[s] \in Held /\ op[s].item \in Items =>
            items'[op[s].item] = items[op[s].item] /\ (op[s].item \in Live' <=> op[s].item \in Live)
      BY <1>1, <1>3, <3>3
    <3>5. MakerClaim(s) => MakerClaim(s)'
      BY <3>1 DEF MakerClaim
    <3>6. CreateClaim(s) => CreateClaim(s)'
      BY <3>1, <3>2, <3>4 DEF CreateClaim
    <3>7. op[s].item \in Items /\ UpdateClaim(s) => UpdateClaim(s)'
      BY <3>1, <3>4 DEF UpdateClaim
    <3>8. op[s].item \in Items /\ ArchiveClaim(s) => ArchiveClaim(s)'
      BY <3>1, <3>4 DEF ArchiveClaim
    <3>9. op[s].item \in Items /\ DeleteClaim(s) => DeleteClaim(s)'
      BY <3>1, <3>4 DEF DeleteClaim
    <3> QED
      BY <3>1, <3>5, <3>6, <3>7, <3>8, <3>9 DEF Claim
  <2> QED
    BY <2>1, <2>2
<1> QED
  BY <1>4, <1>5, <1>6, <1>8, <1>9 DEF IInv

\* A committed manufacturer.
LEMMA MakerKeeps ==
  ASSUME IInv, NEW t \in Txns, pc[t] = "commit", Finish(t), op[t].kind = "maker",
         makers' = makers \cup {op[t].row}, UNCHANGED <<items, intended>>
  PROVE  IInv'
<1> DEFINE n == op[t].row
<1>1. n \in Texts /\ op[t].key = Compared(n)
  BY DEF IInv, Claim, MakerClaim
<1>2. /\ pc'[t] = "idle" /\ \A s \in Txns \ {t} : pc'[s] = pc[s] /\ op'[s] = op[s]
      /\ pc' \in [Txns -> {"idle", "lock"} \cup Held] /\ op' = [s \in Txns |-> op'[s]]
  BY DEF Finish, IInv, Functional
<1>3. items' = items /\ intended' = intended /\ Live' = Live
  BY DEF Live
<1>4. Functional' /\ RowsIntended'
  BY <1>2, <1>3 DEF IInv, Functional, RowsIntended
<1>5. LocksExclusive'
  BY <1>2 DEF IInv, LocksExclusive, Held
<1>6. op[t].key \notin Keys(op[t].item) /\ \A s \in Txns \ {t} : pc[s] = "commit" => op[s].key # op[t].key
  BY DEF IInv, KeysUnique
<1>7. KeysUnique'
  <2>1. \A i, j \in Live' : items'[i].signature = items'[j].signature => i = j
    BY <1>3 DEF IInv, KeysUnique
  <2>2. makers' \subseteq Texts
    BY <1>1 DEF IInv, KeysUnique
  <2>3. \A m \in makers : Compared(m) # Compared(n)
    BY <1>1, <1>6 DEF Keys
  <2>4. \A m, q \in makers' : Compared(m) = Compared(q) => m = q
    BY <2>3 DEF IInv, KeysUnique
  <2>5. \A x : Keys(x)' = Keys(x) \cup {op[t].key}
    BY <1>1, <1>3 DEF Keys
  <2>6. ASSUME NEW s \in Txns, pc'[s] = "commit" PROVE (op[s].key \notin Keys(op[s].item))' /\ s # t
    <3>1. s # t /\ pc[s] = "commit" /\ op'[s] = op[s]
      BY <1>2, <2>6
    <3>2. op[s].key \notin Keys(op[s].item)
      BY <3>1 DEF IInv, KeysUnique
    <3>3. Keys(op[s].item)' = Keys(op[s].item) \cup {op[t].key}
      BY <1>1, <1>3, <3>1 DEF Keys
    <3> QED
      BY <1>6, <3>1, <3>2, <3>3
  <2>7. ASSUME NEW s \in Txns, NEW r \in Txns, s # r, pc'[s] = "commit", pc'[r] = "commit"
        PROVE  op'[s].key # op'[r].key
    BY <1>2, <2>6, <2>7 DEF IInv, KeysUnique
  <2> QED
    BY <2>1, <2>2, <2>4, <2>6, <2>7 DEF KeysUnique
<1>8. ASSUME NEW s \in Txns PROVE Claim(s)'
  <2>1. CASE s = t
    BY <1>2, <2>1 DEF Claim
  <2>2. CASE s # t
    <3>1. Claim(s) /\ pc'[s] = pc[s] /\ op'[s] = op[s]
      BY <1>2, <2>2 DEF IInv
    <3> QED
      BY <1>3, <3>1 DEF Claim, MakerClaim, CreateClaim, UpdateClaim, ArchiveClaim, DeleteClaim
  <2> QED
    BY <2>1, <2>2
<1> QED
  BY <1>4, <1>5, <1>7, <1>8 DEF IInv

\* What is committed is what was prepared, from the row as it still is.
LEMMA CommitKeeps ==
  ASSUME IInv, NEW t \in Txns, Commit(t)
  PROVE  IInv'
<1> DEFINE o == op[t]
           i == o.item
           r == items[i]
<1>1. pc[t] = "commit" /\ Finish(t) /\ UNCHANGED <<stock, moved>> /\ "commit" \in Held
  BY DEF Commit, Held
<1>2. /\ o.kind = "maker" => MakerClaim(t)
      /\ o.kind = "create" => CreateClaim(t)
      /\ o.kind = "update" => UpdateClaim(t)
      /\ o.kind = "archive" => ArchiveClaim(t)
      /\ o.kind = "delete" => DeleteClaim(t)
      /\ o.kind \in {"create", "update", "archive", "delete"} => i \in Items
  BY <1>1 DEF IInv, Claim, CreateClaim
<1>3. RowsIntended /\ Functional
  BY DEF IInv
<1>4. CASE o.kind = "maker"
  BY <1>1, <1>4, MakerKeeps DEF Commit
<1>5. CASE o.kind \in {"create", "update"} /\ ~TriggersAccept(o.row)
  <2>1. UNCHANGED tables
    BY <1>1, <1>5 DEF Commit, tables
  <2> QED
    BY <1>1, <2>1, FinishKeeps
<1>6. CASE o.kind = "create" /\ TriggersAccept(o.row)
  <2>1. /\ items' = [items EXCEPT ![i] = o.row] /\ intended' = [intended EXCEPT ![i] = o.asked]
        /\ makers' = makers
    BY <1>6 DEF Commit
  <2>2. /\ IsDraft(o.asked) /\ Complete(o.asked) /\ o.row = CreatedRow(o.asked)
        /\ o.key = o.row.signature
    BY <1>2, <1>6 DEF CreateClaim
  <2>3. PICK nm : o.row = Row(o.asked, "ACTIVE", nm)
    BY <2>2 DEF CreatedRow
  <2>4. o.row.status = "ACTIVE" /\ o.row.normalized_model = nm
    BY <2>3, RowFacts
  <2>5. o.row = Row(o.asked, o.row.status, o.row.normalized_model)
    BY <2>3, <2>4
  <2> QED
    BY <1>1, <1>2, <1>6, <2>1, <2>2, <2>4, <2>5, RowKeeps
<1>7. CASE o.kind = "update" /\ TriggersAccept(o.row)
  <2> DEFINE w == intended[i]
             d == Merged(r, o.asked)
             v == Over(o.asked, w)
  <2>1. /\ items' = [items EXCEPT ![i] = o.row] /\ intended' = [intended EXCEPT ![i] = v]
        /\ makers' = makers
    BY <1>2, <1>3, <1>7 DEF Commit, Functional
  <2>2. /\ IsPatch(o.asked) /\ i \in Live /\ Complete(d) /\ o.row = UpdatedRow(d, r.status)
        /\ o.key = o.row.signature
    BY <1>1, <1>2, <1>7 DEF UpdateClaim
  <2>3. /\ IsDraft(w) /\ Complete(w) /\ r.status \in {"ACTIVE", "ARCHIVED"}
        /\ r = Row(w, r.status, r.normalized_model)
    BY <1>3, <2>2 DEF RowsIntended
  <2>4. d = Merged(Row(w, r.status, r.normalized_model), o.asked)
    BY <2>3
  <2>5. IsDraft(v) /\ Complete(v) /\ \A s2, n2 : Row(d, s2, n2) = Row(v, s2, n2)
    <3> HIDE DEF w, d, v, r
    <3>1. v = Over(o.asked, w)
      BY DEF v
    <3> QED
      BY <2>2, <2>3, <2>4, <3>1, EditIntended
  <2>6. PICK nm : o.row = Row(d, r.status, nm)
    BY <2>2 DEF UpdatedRow
  <2>7. o.row = Row(v, r.status, nm)
    BY <2>5, <2>6
  <2>8. o.row.status = r.status /\ o.row.normalized_model = nm
    BY <2>7, RowFacts
  <2>9. o.row = Row(v, o.row.status, o.row.normalized_model)
    BY <2>7, <2>8
  <2> QED
    BY <1>1, <1>2, <1>7, <2>1, <2>2, <2>3, <2>5, <2>8, <2>9, RowKeeps
<1>8. CASE o.kind \in {"archive", "delete"}
  <2> DEFINE w == IF o.row = Gone THEN None ELSE intended[i]
  <2>1. /\ items' = [items EXCEPT ![i] = o.row] /\ intended' = [intended EXCEPT ![i] = w]
        /\ makers' = makers
    BY <1>2, <1>3, <1>8 DEF Commit, Functional
  <2>2. CASE o.kind = "delete"
    <3>1. o.row = Gone
      BY <1>1, <1>2, <2>2 DEF DeleteClaim
    <3> QED
      BY <1>1, <1>2, <2>1, <2>2, <3>1, RowKeeps
  <2>3. CASE o.kind = "archive"
    <3>1. /\ i \in Live /\ o.asked \in {"ACTIVE", "ARCHIVED"}
          /\ o.row = [r EXCEPT !.status = o.asked] /\ o.key = r.signature
      BY <1>1, <1>2, <2>3 DEF ArchiveClaim
    <3>2. /\ IsDraft(intended[i]) /\ Complete(intended[i])
          /\ r = Row(intended[i], r.status, r.normalized_model)
      BY <1>3, <3>1 DEF RowsIntended
    <3>3. o.row = Row(intended[i], o.asked, r.normalized_model)
      BY <3>1, <3>2, StatusChanged
    <3>4. /\ o.row.status = o.asked /\ o.row.normalized_model = r.normalized_model
          /\ o.row.signature = o.key
      BY <3>1, <3>2, <3>3, RowFacts
    <3>5. o.row # Gone
      BY <3>1, <3>4, Statuses
    <3>6. w = intended[i]
      BY <3>5
    <3>7. o.row = Row(w, o.row.status, o.row.normalized_model)
      BY <3>3, <3>4, <3>6
    <3> QED
      BY <1>1, <1>2, <2>1, <2>3, <3>1, <3>2, <3>4, <3>6, <3>7, RowKeeps
  <2> QED
    BY <1>8, <2>2, <2>3
<1> QED
  BY <1>4, <1>5, <1>6, <1>7, <1>8 DEF Commit

\* Movements change nothing the invariant is about.
LEMMA SameKeeps ==
  ASSUME IInv, UNCHANGED <<items, makers, pc, op, intended>>
  PROVE  IInv'
<1>1. Live' = Live /\ \A x : Keys(x)' = Keys(x)
  BY DEF Live, Keys
<1>2. Functional' /\ RowsIntended' /\ LocksExclusive'
  BY <1>1 DEF IInv, Functional, RowsIntended, LocksExclusive
<1>3. KeysUnique'
  <2>1. \A t \in Txns : Keys(op[t].item)' = Keys(op[t].item)
    BY <1>1 DEF Keys
  <2> QED
    BY <1>1, <2>1 DEF IInv, KeysUnique
<1>4. ASSUME NEW t \in Txns PROVE Claim(t)'
  BY <1>1 DEF IInv, Claim, MakerClaim, CreateClaim, UpdateClaim, ArchiveClaim, DeleteClaim
<1> QED
  BY <1>2, <1>3, <1>4 DEF IInv

LEMMA NextKeeps == IInv /\ [Next]_vars => IInv'
<1> SUFFICES ASSUME IInv, [Next]_vars PROVE IInv'
  OBVIOUS
<1>1. CASE UNCHANGED vars
  BY <1>1, SameKeeps DEF vars
<1>2. CASE SetStock
  BY <1>2, SameKeeps DEF SetStock
<1>3. ASSUME NEW t \in Txns, PostItem(t) PROVE IInv'
  BY <1>3, PostItemKeeps
<1>4. ASSUME NEW t \in Txns, PostManufacturer(t) PROVE IInv'
  BY <1>4, PostManufacturerKeeps
<1>5. ASSUME NEW t \in Txns, PatchItem(t) \/ ArchiveItem(t) \/ DeleteItem(t) PROVE IInv'
  BY <1>5, EditKeeps
<1>6. ASSUME NEW t \in Txns, Lock(t) PROVE IInv'
  BY <1>6, LockKeeps
<1>7. ASSUME NEW t \in Txns, Write(t) PROVE IInv'
  BY <1>7, WriteKeeps
<1>8. ASSUME NEW t \in Txns, Index(t) PROVE IInv'
  BY <1>8, IndexKeeps
<1>9. ASSUME NEW t \in Txns, Commit(t) PROVE IInv'
  BY <1>9, CommitKeeps
<1>10. ASSUME NEW t \in Txns, Abort(t) PROVE IInv'
  BY <1>10, FinishKeeps DEF Abort
<1> QED
  BY <1>1, <1>2, <1>3, <1>4, <1>5, <1>6, <1>7, <1>8, <1>9, <1>10 DEF Next

LEMMA Inductive == Spec => []IInv
BY Beginning, NextKeeps, PTL DEF Spec

-----------------------------------------------------------------------------
(* Facets                                                                   *)

\* A query that chooses the Ethernet transceivers has a category.
LEMMA EthernetIsLeaf == Ethernet \in Leaves /\ Ethernet # None
<1>1. Ethernet \in Leaves
  BY QueryAssumption, CatalogAssumption, Zenon
<1> QED
  BY <1>1, QueryAssumption, Zenon

\* What the query specification accepts: texts of an attribute, in a category
\* that has it, and the view of the RJ45 ones in its own.
LEMMA QueryFacts ==
  ASSUME NEW q \in Queries, Accepted(q)
  PROVE  /\ q.view \in Views
         /\ q.texts # {} => q.key \notin FixedKeys \cup {"reach_m"}
         /\ q.category = None => q.texts = {} /\ q.metres = None /\ q.view # "rj45"
<1>1. q.category = None => q.view # "rj45"
  BY EthernetIsLeaf DEF Accepted
<1>2. q.texts # {} =>
        /\ q.category # None
        /\ \E l \in Leaves : q.key \in DOMAIN Definitions[l] /\ Definitions[l][q.key].type = "TEXT"
  BY DEF Accepted, Scope
<1>3. \A l \in Leaves : "reach_m" \in DOMAIN Definitions[l] => Definitions[l]["reach_m"].type = "INTEGER"
  BY CatalogAssumption
<1>4. q.texts # {} => q.key \notin FixedKeys \cup {"reach_m"}
  BY <1>2, <1>3, QueryAssumption
<1>5. q.metres # None => q.category # None
  BY DEF Accepted
<1> QED
  BY <1>1, <1>2, <1>4, <1>5, QueryAssumption

\* A count is the number of the items that have the value; values without
\* items are left out.
LEMMA CountsCount ==
  ASSUME NEW having, NEW v \in DOMAIN having
  PROVE  Cardinality(having[v]) = IF v \in DOMAIN Counts(having) THEN Counts(having)[v] ELSE 0
<1>1. Cardinality({}) = 0
  BY FS_EmptySet
<1> QED
  BY <1>1 DEF Counts

\* A manufacturer is chosen in place of those that were.
LEMMA ChosenMaker ==
  ASSUME NEW q \in Queries, Accepted(q), NEW v
  PROVE  Matching([q EXCEPT !.makers = {v}], {}) =
           {i \in Matching(q, {"manufacturer"}) : items[i].maker = v}
<1> DEFINE r == [q EXCEPT !.makers = {v}]
<1>1. /\ r.makers = {v} /\ r.category = q.category /\ r.view = q.view /\ r.status = q.status
      /\ r.availability = q.availability /\ r.locations = q.locations /\ r.key = q.key
      /\ r.texts = q.texts /\ r.metres = q.metres /\ r.words = q.words
  BY QueryAssumption
<1>2. q.texts # {} => q.key # "manufacturer"
  BY QueryFacts DEF FixedKeys
<1> HIDE DEF r
<1>3. \A i : /\ InView(r, i) <=> InView(q, i)
             /\ HasText(r, i) <=> HasText(q, i)
             /\ InRange(r, i) <=> InRange(q, i)
  BY <1>1 DEF InView, HasText, InRange
<1>4. \A i : Predicates(r, i, {}) <=> Predicates(q, i, {"manufacturer"}) /\ items[i].maker = v
  BY <1>1, <1>2, <1>3 DEF Predicates
<1>5. Matching(r, {}) = {i \in Matching(q, {"manufacturer"}) : items[i].maker = v}
  BY <1>4 DEF Matching
<1> QED
  BY <1>5 DEF r

\* So is the availability,
LEMMA ChosenAvailability ==
  ASSUME NEW q \in Queries, Accepted(q), NEW v \in {"IN_STOCK", "OUT_OF_STOCK"}
  PROVE  Matching([q EXCEPT !.availability = v], {}) =
           {i \in Matching(q, {"availability"}) : InStock(i) = (v = "IN_STOCK")}
<1> DEFINE r == [q EXCEPT !.availability = v]
<1>1. /\ r.availability = v /\ r.category = q.category /\ r.view = q.view /\ r.status = q.status
      /\ r.makers = q.makers /\ r.locations = q.locations /\ r.key = q.key
      /\ r.texts = q.texts /\ r.metres = q.metres /\ r.words = q.words
  BY QueryAssumption
<1>2. q.texts # {} => q.key # "availability"
  BY QueryFacts DEF FixedKeys
<1> HIDE DEF r
<1>3. \A i : /\ InView(r, i) <=> InView(q, i)
             /\ HasText(r, i) <=> HasText(q, i)
             /\ InRange(r, i) <=> InRange(q, i)
  BY <1>1 DEF InView, HasText, InRange
<1>4. \A i : Predicates(r, i, {}) <=>
               Predicates(q, i, {"availability"}) /\ InStock(i) = (v = "IN_STOCK")
  BY <1>1, <1>2, <1>3 DEF Predicates
<1>5. Matching(r, {}) = {i \in Matching(q, {"availability"}) : InStock(i) = (v = "IN_STOCK")}
  BY <1>4 DEF Matching
<1> QED
  BY <1>5 DEF r

\* the location,
LEMMA ChosenLocation ==
  ASSUME NEW q \in Queries, Accepted(q), NEW v
  PROVE  Matching([q EXCEPT !.locations = {v}], {}) =
           {i \in Matching(q, {"location"}) : <<i, v>> \in stock}
<1> DEFINE r == [q EXCEPT !.locations = {v}]
<1>1. /\ r.locations = {v} /\ r.category = q.category /\ r.view = q.view /\ r.status = q.status
      /\ r.makers = q.makers /\ r.availability = q.availability /\ r.key = q.key
      /\ r.texts = q.texts /\ r.metres = q.metres /\ r.words = q.words
  BY QueryAssumption
<1>2. q.texts # {} => q.key # "location"
  BY QueryFacts DEF FixedKeys
<1> HIDE DEF r
<1>3. \A i : /\ InView(r, i) <=> InView(q, i)
             /\ HasText(r, i) <=> HasText(q, i)
             /\ InRange(r, i) <=> InRange(q, i)
  BY <1>1 DEF InView, HasText, InRange
<1>4. \A i : Predicates(r, i, {}) <=> Predicates(q, i, {"location"}) /\ <<i, v>> \in stock
  BY <1>1, <1>2, <1>3 DEF Predicates
<1>5. Matching(r, {}) = {i \in Matching(q, {"location"}) : <<i, v>> \in stock}
  BY <1>4 DEF Matching
<1> QED
  BY <1>5 DEF r

\* and the text of the attribute.
LEMMA ChosenText ==
  ASSUME NEW q \in Queries, NEW v, q.key \notin FixedKeys \cup {"reach_m"}
  PROVE  Matching([q EXCEPT !.texts = {v}], {}) =
           {i \in Matching(q, {q.key}) : q.key \in DOMAIN items[i].attributes
                                         /\ Reads(items[i].attributes[q.key].value, v)}
<1> DEFINE r == [q EXCEPT !.texts = {v}]
<1>1. /\ r.texts = {v} /\ r.category = q.category /\ r.view = q.view /\ r.status = q.status
      /\ r.makers = q.makers /\ r.availability = q.availability /\ r.key = q.key
      /\ r.locations = q.locations /\ r.metres = q.metres /\ r.words = q.words
  BY QueryAssumption
<1> HIDE DEF r
<1>2. \A i : /\ InView(r, i) <=> InView(q, i)
             /\ HasText(r, i) <=> /\ q.key \in DOMAIN items[i].attributes
                                  /\ Reads(items[i].attributes[q.key].value, v)
             /\ InRange(r, i) <=> InRange(q, i)
  BY <1>1 DEF InView, HasText, InRange
<1>3. \A i : Predicates(r, i, {}) <=> Predicates(q, i, {q.key}) /\ HasText(r, i)
  BY <1>1, <1>2 DEF Predicates, FixedKeys
<1>4. Matching(r, {}) = {i \in Matching(q, {q.key}) : q.key \in DOMAIN items[i].attributes
                                         /\ Reads(items[i].attributes[q.key].value, v)}
  BY <1>2, <1>3 DEF Matching
<1> QED
  BY <1>4 DEF r

\* A leaf has no leaves below it.
LEMMA ScopeOfLeaf == \A l \in Leaves : Scope(l) = {l}
BY QueryAssumption DEF Scope

\* Without a category the views of the Ethernet transceivers are shown
\* together: a leaf is what all its views come to.
LEMMA ChosenCategory ==
  ASSUME NEW q \in Queries, Accepted(q), q.category = None, NEW v \in Leaves
  PROVE  ChosenLeaf(q, v) = {i \in Matching(q, {"category"}) : items[i].leaf = v}
<1> DEFINE r(w) == [q EXCEPT !.category = v, !.view = w]
           W == IF q.view = "default" /\ v = Ethernet THEN Views ELSE {q.view}
<1>1. \A w : /\ r(w).category = v /\ r(w).view = w /\ r(w).status = q.status
             /\ r(w).makers = q.makers /\ r(w).availability = q.availability /\ r(w).key = q.key
             /\ r(w).locations = q.locations /\ r(w).texts = q.texts /\ r(w).metres = q.metres
             /\ r(w).words = q.words
  BY QueryAssumption
<1>2. q.texts = {} /\ q.metres = None /\ q.view \in {"default", "long_range"}
  BY QueryFacts DEF Views
<1>3. v # None /\ Scope(v) = {v}
  BY QueryAssumption, ScopeOfLeaf
<1>4. ChosenLeaf(q, v) = UNION {Matching(r(w), {}) : w \in W}
  BY Zenon DEF ChosenLeaf
<1> HIDE DEF r
<1>5. \A i : (\E w \in W : InView(r(w), i)) /\ items[i].leaf = v <=> InView(q, i) /\ items[i].leaf = v
  <2>1. q.category # Ethernet
    BY EthernetIsLeaf
  <2>2. CASE q.view = "default" /\ v = Ethernet
    BY <1>1, <2>1, <2>2 DEF InView, Views
  <2>3. CASE q.view = "default" /\ v # Ethernet
    BY <1>1, <2>1, <2>3 DEF InView
  <2>4. CASE q.view = "long_range"
    BY <1>1, <2>1, <2>4 DEF InView
  <2> QED
    BY <1>2, <2>2, <2>3, <2>4
<1> HIDE DEF W
<1>6. \A i : (\E w \in W : Predicates(r(w), i, {})) <=>
               Predicates(q, i, {"category"}) /\ items[i].leaf = v
  <2> DEFINE Rest(i) ==
               /\ items[i].status = q.status
               /\ q.makers # {} => items[i].maker \in q.makers
               /\ q.availability # "ANY" => InStock(i) = (q.availability = "IN_STOCK")
               /\ q.locations # {} => \E l \in q.locations : <<i, l>> \in stock
               /\ \A word \in q.words : Found(i, word)
  <2>1. \A i : \A w : Predicates(r(w), i, {}) <=> Rest(i) /\ items[i].leaf = v /\ InView(r(w), i)
    <3> SUFFICES ASSUME NEW i, NEW w
                 PROVE  Predicates(r(w), i, {}) <=> Rest(i) /\ items[i].leaf = v /\ InView(r(w), i)
      OBVIOUS
    <3>1. items[i].leaf \in Scope(v) <=> items[i].leaf = v
      BY <1>3
    <3>2. r(w).category # None /\ r(w).texts = {} /\ r(w).metres = None
      BY <1>1, <1>2, <1>3
    <3> QED
      BY <1>1, <3>1, <3>2 DEF Predicates
  <2>2. \A i : Predicates(q, i, {"category"}) <=> Rest(i) /\ InView(q, i)
    BY <1>2 DEF Predicates
  <2> HIDE DEF Rest
  <2> QED
    BY <1>5, <2>1, <2>2
<1> QED
  BY <1>4, <1>6 DEF Matching

\* The distance of a live item is a number, because it follows from the text.
LEMMA MetresAreNumbers ==
  ASSUME IInv, NEW i \in Live, Metered(i)
  PROVE  items[i].attributes["reach_m"].value \in Nat
<1> DEFINE w == intended[i]
<1>1. /\ IsDraft(w) /\ Complete(w)
      /\ items[i] = Row(w, items[i].status, items[i].normalized_model)
  BY DEF IInv, RowsIntended
<1>2. items[i].attributes = Values(w)
  BY <1>1, RowFacts
<1> HIDE DEF w
<1>3. "reach_m" \in DOMAIN Derived(w) /\ Values(w)["reach_m"] = Derived(w)["reach_m"]
  BY <1>2 DEF Metered, Values, Restrict
<1>4. w.leaf \in Transceivers
  BY <1>1, <1>3, CatalogAssumption DEF Complete, IsDraft
<1>5. Values(w)["reach_m"].value = Reach(w)
  BY <1>3, <1>4 DEF Derived
<1>6. Reach(w) \in Nat
  <2>1. CASE "reach" \in DOMAIN w.attributes
    <3>1. Derived(w)["reach"] = w.attributes["reach"]
      BY <1>4, <2>1 DEF Derived
    <3>2. "reach" \in DOMAIN Derived(w)
      BY <1>4, <2>1 DEF Derived
    <3>3. w.attributes["reach"].type = "TEXT"
      <4>1. Definitions[w.leaf]["reach"].type = "TEXT"
        <5>1. Definitions[w.leaf]["reach"] = [type |-> "TEXT", required |-> TRUE]
          BY <1>4, CatalogAssumption, Zenon
        <5> QED
          BY <5>1
      <4>2. Fits(Definitions[w.leaf]["reach"], Derived(w)["reach"])
        BY <1>1, <3>2, Zenon DEF Complete
      <4> QED
        BY <3>1, <4>1, <4>2 DEF Fits
    <3>4. w.attributes["reach"].value \in Texts
      BY <1>1, <2>1, <3>3 DEF IsDraft, Typed
    <3> QED
      BY <2>1, <3>4, CatalogAssumption DEF Reach, Texts
  <2>2. CASE "reach" \notin DOMAIN w.attributes
    BY <2>2 DEF Reach
  <2> QED
    BY <2>1, <2>2
<1> QED
  BY <1>2, <1>5, <1>6

\* The bounds of the distance lose no item.
LEMMA RangeHolds ==
  ASSUME IInv, NEW q \in Queries, Accepted(q), NEW i \in Matching(q, {"reach_m"}), Metered(i)
  PROVE  i \in Matching([q EXCEPT !.metres = RangeFacet(q)], {})
<1> DEFINE M == {j \in Matching(q, {"reach_m"}) : Metered(j)}
           D(j) == items[j].attributes["reach_m"].value
           T == {D(j) : j \in M}
           r == [q EXCEPT !.metres = RangeFacet(q)]
<1>1. M \subseteq Live /\ Live \subseteq Items
  BY DEF Matching, Live
<1>2. T \subseteq Int
  BY <1>1, MetresAreNumbers
<1>3. IsFiniteSet(T)
  <2>1. IsFiniteSet(M)
    <3> HIDE DEF M
    <3> QED
      BY <1>1, QueryAssumption, FS_Subset
  <2>2. IsFiniteSet({D(j) : j \in M})
    <3> HIDE DEF M, D
    <3> DEFINE f == [j \in M |-> D(j)]
    <3>1. f \in Surjection(M, {D(j) : j \in M})
      BY DEF Surjection
    <3> QED
      BY <2>1, <3>1, FS_Surjection
  <2> QED
    BY <2>2
<1>4. i \in M /\ D(i) \in T
  OBVIOUS
<1>5. RangeFacet(q) = [min |-> Min(T), max |-> Max(T)]
  <2>1. T # {}
    BY <1>4
  <2> QED
    BY <2>1, Zenon DEF RangeFacet
<1> HIDE DEF T
<1>6. (\E x \in T : \A y \in T : x <= y) /\ (\E x \in T : \A y \in T : y <= x)
  BY <1>2, <1>3, <1>4, LeastNumber, GreatestNumber
<1>7. Min(T) \in T /\ Max(T) \in T /\ \A y \in T : Min(T) <= y /\ y <= Max(T)
  <2>1. Min(T) \in T /\ \A y \in T : Min(T) <= y
    BY <1>6, Zenon DEF Min
  <2>2. Max(T) \in T /\ \A y \in T : Max(T) >= y
    <3>1. \E x \in T : \A y \in T : x >= y
      BY <1>2, <1>6
    <3> QED
      BY <3>1, Zenon DEF Max
  <2> QED
    BY <1>2, <2>1, <2>2
<1>8. D(i) \in Min(T) .. Max(T)
  <2> HIDE DEF D, M
  <2>1. D(i) \in Int /\ Min(T) \in Int /\ Max(T) \in Int
    BY <1>2, <1>4, <1>7
  <2>2. Min(T) <= D(i) /\ D(i) <= Max(T)
    BY <1>4, <1>7
  <2> QED
    BY <2>1, <2>2
<1>9. /\ r.metres = [min |-> Min(T), max |-> Max(T)] /\ r.category = q.category /\ r.view = q.view
      /\ r.status = q.status /\ r.makers = q.makers /\ r.availability = q.availability
      /\ r.key = q.key /\ r.locations = q.locations /\ r.texts = q.texts /\ r.words = q.words
  BY <1>5, QueryAssumption
<1>10. q.texts # {} => q.key # "reach_m"
  BY QueryFacts
<1> HIDE DEF r
<1>11. InRange(r, i)
  BY <1>4, <1>8, <1>9 DEF InRange
<1> HIDE DEF D
<1>12. (InView(r, i) <=> InView(q, i)) /\ (HasText(r, i) <=> HasText(q, i))
  BY <1>9 DEF InView, HasText
<1>13. Predicates(q, i, {"reach_m"}) /\ i \in Live
  BY DEF Matching
<1>14. Predicates(r, i, {})
  BY <1>9, <1>10, <1>11, <1>12, <1>13 DEF Predicates
<1> QED
  BY <1>13, <1>14 DEF Matching, r

-----------------------------------------------------------------------------
(* Theorems                                                                 *)

\* A field of an item is what the last committed request that mentions it asked
\* for: update_item reads the item under FOR UPDATE, so no two people who edit
\* it at the same time take back each other's fields.
THEOREM EditsKept == Spec => []EditsSurvive
<1>1. IInv => EditsSurvive
  <2> SUFFICES ASSUME RowsIntended PROVE EditsSurvive
    BY DEF IInv
  <2> QED
    BY RowFacts DEF RowsIntended, EditsSurvive
<1> QED
  BY <1>1, Inductive, PTL

\* The unique index on the signature keeps items that read the same apart,
\* because the signature forgets whatever does not change how an item reads: the
\* form of its texts, its manufacturer's included, blank and missing models, the
\* scale of its decimals.
LEMMA ItemsApart == IInv => ItemsUnique
<1> SUFFICES ASSUME RowsIntended, KeysUnique PROVE ItemsUnique
  BY DEF IInv
<1>1. ASSUME NEW i \in Live, NEW j \in Live,
             items[i].leaf = items[j].leaf,
             Word(items[i].maker) = Word(items[j].maker),
             Word(items[i].model) = Word(items[j].model),
             DOMAIN items[i].attributes = DOMAIN items[j].attributes,
             \A k \in DOMAIN items[i].attributes :
               SameValue(items[i].attributes[k], items[j].attributes[k])
      PROVE  i = j
  <2> DEFINE w == intended[i]
             x == intended[j]
  <2>1. /\ IsDraft(w) /\ Complete(w) /\ items[i] = Row(w, items[i].status, items[i].normalized_model)
        /\ IsDraft(x) /\ Complete(x) /\ items[j] = Row(x, items[j].status, items[j].normalized_model)
    BY DEF RowsIntended
  <2> HIDE DEF w, x
  <2>2. /\ items[i].leaf = w.leaf /\ items[i].maker = w.maker /\ items[i].model = Inline(w.model)
        /\ items[i].attributes = Values(w)
        /\ items[i].signature = Signature(w.leaf, w.maker, w.model, Values(w))
    BY <2>1, RowFacts
  <2>3. /\ items[j].leaf = x.leaf /\ items[j].maker = x.maker /\ items[j].model = Inline(x.model)
        /\ items[j].attributes = Values(x)
        /\ items[j].signature = Signature(x.leaf, x.maker, x.model, Values(x))
    BY <2>1, RowFacts
  <2>4. Signature(w.leaf, w.maker, w.model, Values(w)) = Signature(x.leaf, x.maker, x.model, Values(x))
    BY <1>1, <2>1, <2>2, <2>3, SameSignature
  <2> QED
    BY <2>2, <2>3, <2>4 DEF KeysUnique
<1> QED
  BY <1>1 DEF ItemsUnique

\* The unique index on the case-folded name of a manufacturer keeps names that
\* differ in case alone apart, for any number of people who enter them.
LEMMA ManufacturersApart == IInv => ManufacturersUnique
<1> SUFFICES ASSUME KeysUnique, NEW m \in makers, NEW n \in makers, SameButCase(m, n)
             PROVE  m = n
  BY DEF IInv, ManufacturersUnique
<1>1. m \in Texts /\ n \in Texts
  BY DEF KeysUnique
<1>2. Compared(m) = Compared(n)
  BY <1>1 DEF Compared, SameButCase, Texts, Forms
<1> QED
  BY <1>2 DEF KeysUnique

\* create_item, update_item, create_manufacturer: for any drafts, edits and
\* attribute schemas, no equipment and no manufacturer is entered twice.
THEOREM EquipmentStaysUnique == Spec => []EquipmentUnique
<1>1. IInv => EquipmentUnique
  BY ItemsApart, ManufacturersApart DEF EquipmentUnique
<1> QED
  BY <1>1, Inductive, PTL

\* The deferred triggers accept what prepare_identity accepted, but for an item
\* that create_item makes with a blank model.
THEOREM TriggersAgree == Spec => []DatabaseAgrees
<1>1. IInv => DatabaseAgrees
  <2> SUFFICES ASSUME IInv, NEW t \in Txns, pc[t] = "commit", op[t].kind \in {"create", "update"}
               PROVE  TriggersAccept(op[t].row) \/ (op[t].kind = "create" /\ op[t].asked.model = Blank)
    BY DEF DatabaseAgrees
  <2> DEFINE o == op[t]
             r == items[o.item]
  <2>1. /\ o.kind = "create" => CreateClaim(t)
        /\ o.kind = "update" => UpdateClaim(t) /\ o.item \in Items
    BY DEF IInv, Claim
  <2>2. CASE o.kind = "create"
    <3>1. IsDraft(o.asked) /\ Complete(o.asked) /\ o.row = CreatedRow(o.asked)
      BY <2>1, <2>2 DEF CreateClaim
    <3> QED
      BY <2>2, <3>1, CreatedAccepted DEF IsDraft
  <2>3. CASE o.kind = "update"
    <3> DEFINE w == intended[o.item]
               d == Merged(r, o.asked)
    <3>1. /\ IsPatch(o.asked) /\ o.item \in Live /\ Complete(d)
          /\ o.row = UpdatedRow(d, r.status)
      BY <2>1, <2>3 DEF UpdateClaim, Held
    <3>2. IsDraft(w) /\ Complete(w) /\ r = Row(w, r.status, r.normalized_model)
      BY <3>1 DEF IInv, RowsIntended
    <3>3. d = Merged(Row(w, r.status, r.normalized_model), o.asked)
      BY <3>2
    <3>4. d.leaf \in Leaves
      <4> HIDE DEF w, d, r
      <4> QED
        BY <3>1, <3>2, <3>3, EditIntended
    <3> QED
      BY <3>1, <3>4, UpdatedAccepted
  <2> QED
    BY <2>2, <2>3
<1> QED
  BY <1>1, Inductive, PTL

\* A facet of query_catalog_facets offers the values for which the query with
\* that value returns something, and counts what it returns, although the facet
\* is computed without the choice that was made in it; no item with a distance
\* is outside the bounds on offer.
THEOREM FacetsCount == Spec => []FacetsAgree
<1>1. IInv => FacetsAgree
  <2> SUFFICES ASSUME IInv, NEW q \in {p \in Queries : Accepted(p)},
                      NEW only \in FacetKeys(q) \cup {None},
                      NEW key \in DOMAIN Facets(q, only)
               PROVE  IF key = "reach_m"
                      THEN \A i \in Matching(q, {key}) : Metered(i) =>
                             i \in Matching([q EXCEPT !.metres = Facets(q, only)[key]], {})
                      ELSE \A v \in Selectable(key, Facets(q, only)[key]) :
                             Cardinality(Chosen(q, key, v)) =
                               IF v \in DOMAIN Facets(q, only)[key]
                               THEN Facets(q, only)[key][v] ELSE 0
    BY Zenon DEF FacetsAgree
  <2>0. key \in FacetKeys(q) /\ Facets(q, only)[key] = Facet(q, key)
    BY DEF Facets
  <2> SUFFICES IF key = "reach_m"
               THEN \A i \in Matching(q, {key}) : Metered(i) =>
                      i \in Matching([q EXCEPT !.metres = Facet(q, key)], {})
               ELSE \A v \in Selectable(key, Facet(q, key)) :
                      Cardinality(Chosen(q, key, v)) =
                        IF v \in DOMAIN Facet(q, key) THEN Facet(q, key)[v] ELSE 0
    BY <2>0, Zenon
  <2>1. CASE key = "reach_m"
    <3>1. Facet(q, key) = RangeFacet(q)
      BY <2>1 DEF Facet
    <3> QED
      BY <2>0, <2>1, <3>1, RangeHolds
  <2>2. ASSUME key # "reach_m", NEW v \in Selectable(key, Facet(q, key))
        PROVE  Cardinality(Chosen(q, key, v)) =
                 IF v \in DOMAIN Facet(q, key) THEN Facet(q, key)[v] ELSE 0
    <3> SUFFICES \E having : /\ Facet(q, key) = Counts(having)
                             /\ v \in DOMAIN having /\ having[v] = Chosen(q, key, v)
      BY CountsCount
    <3>1. CASE key = "category"
      <4> DEFINE having == [l \in Leaves |-> {i \in Matching(q, {"category"}) : items[i].leaf = l}]
      <4>1. Facet(q, key) = Counts(having) /\ v \in Leaves
        BY <2>2, <3>1 DEF Facet, CategoryFacet, Selectable
      <4>2. q.category = None
        BY <2>0, <3>1, QueryAssumption DEF FacetKeys, FixedKeys, Scope
      <4>3. Chosen(q, key, v) = having[v]
        BY <3>1, <4>1, <4>2, ChosenCategory DEF Chosen
      <4> QED
        BY <4>1, <4>3
    <3>2. CASE key = "manufacturer"
      <4> DEFINE having == [m \in makers |-> {i \in Matching(q, {"manufacturer"}) : items[i].maker = m}]
      <4>1. Facet(q, key) = Counts(having) /\ v \in makers
        BY <2>2, <3>2 DEF Facet, ManufacturerFacet, Selectable
      <4>2. Chosen(q, key, v) = having[v]
        BY <3>2, <4>1, ChosenMaker DEF Chosen
      <4> QED
        BY <4>1, <4>2
    <3>3. CASE key = "availability"
      <4> DEFINE having == [a \in {"IN_STOCK", "OUT_OF_STOCK"} |->
                              {i \in Matching(q, {"availability"}) : InStock(i) = (a = "IN_STOCK")}]
      <4>1. Facet(q, key) = Counts(having) /\ v \in {"IN_STOCK", "OUT_OF_STOCK"}
        BY <2>2, <3>3 DEF Facet, AvailabilityFacet, Selectable
      <4>2. Chosen(q, key, v) = having[v]
        BY <3>3, <4>1, ChosenAvailability DEF Chosen
      <4> QED
        BY <4>1, <4>2
    <3>4. CASE key = "location"
      <4> DEFINE having == [l \in Locations |-> {i \in Matching(q, {"location"}) : <<i, l>> \in stock}]
      <4>1. Facet(q, key) = Counts(having) /\ v \in Locations
        BY <2>2, <3>4 DEF Facet, LocationFacet, Selectable
      <4>2. Chosen(q, key, v) = having[v]
        BY <3>4, <4>1, ChosenLocation DEF Chosen
      <4> QED
        BY <4>1, <4>2
    <3>5. CASE key \notin FixedKeys
      <4> DEFINE matching == {i \in Matching(q, {q.key}) : q.key \in DOMAIN items[i].attributes}
                 texts == {items[i].attributes[q.key].value : i \in matching}
                 shown == {CHOOSE w \in texts : Compared(w) = x : x \in {Compared(w) : w \in texts}}
                 having == [w \in shown |->
                              {i \in matching : Reads(items[i].attributes[q.key].value, w)}]
      <4>1. key = q.key
        BY <2>0, <2>2, <3>5 DEF FacetKeys, FixedKeys
      <4>2. Facet(q, key) = TextFacet(q) /\ v \in DOMAIN Facet(q, key)
        BY <2>2, <3>5 DEF Facet, Selectable, FixedKeys
      <4>3. TextFacet(q) = Counts(having)
        BY Zenon DEF TextFacet
      <4>4. v \in shown
        <5> HIDE DEF shown, matching
        <5> QED
          BY <4>2, <4>3 DEF Counts
      <4>7. having[v] = {i \in matching : Reads(items[i].attributes[q.key].value, v)}
        <5> HIDE DEF shown, matching
        <5> QED
          BY <4>4
      <4>8. v \in DOMAIN having
        <5> HIDE DEF shown, matching
        <5> QED
          BY <4>4
      <4>5. Chosen(q, key, v) = Matching([q EXCEPT !.texts = {v}], {})
        BY <3>5 DEF Chosen, FixedKeys
      <4>6. Chosen(q, key, v) = {i \in matching : Reads(items[i].attributes[q.key].value, v)}
        BY <2>2, <3>5, <4>1, <4>5, ChosenText
      <4> HIDE DEF having
      <4> QED
        BY <4>2, <4>3, <4>6, <4>7, <4>8
    <3> QED
      BY <3>1, <3>2, <3>3, <3>4, <3>5 DEF FixedKeys
  <2> QED
    BY <2>1, <2>2
<1> QED
  BY <1>1, Inductive, PTL
==============================================================================
