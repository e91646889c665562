------------------------------ MODULE MCCatalog ------------------------------
(* An instance of CatalogQuery for TLC: Ethernet transceivers and optical     *)
(* patch cords.                                                               *)
EXTENDS CatalogQuery, TLC

Plain(w) == [word |-> w, form |-> "plain"]
Text(w)  == [type |-> "TEXT", value |-> Plain(w)]

Needed(type)   == [type |-> type, required |-> TRUE]
Optional(type) == [type |-> type, required |-> FALSE]
TwoDefinitions ==
  [ethernet |-> [reach |-> Needed("TEXT"), connector |-> Needed("TEXT"), reach_m |-> Needed("INTEGER")],
   cord     |-> [connector |-> Needed("TEXT"), length_m |-> Needed("DECIMAL"), color |-> Optional("TEXT")]]
TwoFamilies == [ethernet |-> "transceivers", cord |-> "optics"]
ReachWords  == [w \in Words |-> CASE w = "near" -> 1 [] w = "far" -> 3 [] OTHER -> 0]

\* Drafts.
Optic == [reach |-> Text("near"), connector |-> Text("LC")]
Ether == [leaf |-> "ethernet", maker |-> Plain("acme"), name |-> Plain("optic"),
          model |-> Plain("m1"), attributes |-> Optic]
Metre(d, s) == [type |-> "DECIMAL", value |-> [digits |-> d, scale |-> s]]
Cord == [leaf |-> "cord", maker |-> None, name |-> Plain("cord"), model |-> Blank,
         attributes |-> [connector |-> Text("LC"), length_m |-> Metre(15, 1)]]

Second == [Ether EXCEPT !.model = Plain("m2"), !.attributes.connector = Text("RJ45")]
SomeInitials == {1 :> Ether @@ 2 :> Second, 1 :> Ether, 1 :> [Cord EXCEPT !.model = None]}
SomeDrafts ==
  {[Ether EXCEPT !.maker = [word |-> "acme", form |-> "wide"],
                 !.model = [word |-> "m1", form |-> "upper"]],
   [Cord EXCEPT !.attributes.length_m = Metre(150, 2),
                !.attributes.connector = [type |-> "TEXT", value |-> [word |-> "LC", form |-> "upper"]]]}
SomePatches ==
  {("name" :> Plain("new") @@ "attributes" :> [Optic EXCEPT !.reach = Text("far")]),
   ("model" :> [word |-> "m2", form |-> "wide"]),
   ("model" :> Blank)}
SomeNames == [word : {"acme"}, form : {"upper", "wide"}]

SomeQueries ==
  [category : {None, "transceivers", "ethernet"}, view : Views, status : {"ACTIVE"},
   makers : {{}, {Plain("acme")}}, availability : {"ANY", "IN_STOCK"},
   locations : {{}, {1}}, key : {"connector"}, texts : {{}, {Plain("LC")}},
   metres : {None}, words : {{}, {Plain("optic")}}]
TxnSymmetry == Permutations(Txns)
==============================================================================
