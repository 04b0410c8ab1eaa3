------------------------- MODULE PredicateRegistry -------------------------
(***************************************************************************)
(* The predicate registry of one namespace: versioned documents, the rule  *)
(* by which a version may follow another, and operators who register the   *)
(* documents their configuration grants.                                   *)
(*                                                                         *)
(* A document is [version, reserved, kinds, predicates], `predicates` a    *)
(* function from names to definitions; a definition is [subjects, kind,    *)
(* units, variants, cardinality, accumulates, stances, deprecated].        *)
(***************************************************************************)
EXTENDS Naturals, FiniteSets

CONSTANTS
    Operators,  \* who registers documents
    GrantsOf    \* the documents each operator's configuration grants

ASSUME GrantsAreFinite == \A o \in Operators : IsFiniteSet(GrantsOf[o])

VARIABLES
    documents,  \* predicate_registry: the registered documents
    plan        \* the document each operator validated and is about to insert

registryVars == <<documents, plan>>

NoPlan == {}

RegistryInit ==
    /\ documents = {}
    /\ plan = [o \in Operators |-> NoPlan]

-----------------------------------------------------------------------------
(* Documents.                                                              *)

\* PredicateDef::new and ValueType::build, for sets that repeat nothing.
ValidDefinition(def) ==
    /\ def.subjects # {} /\ def.stances # {}
    /\ def.units # {} => def.kind = "decimal"
    /\ def.variants # {} <=> def.kind = "enum"
    /\ def.accumulates => def.cardinality = "many"

\* PredicateSet::new.
ValidDocument(d) ==
    /\ d.version \in Nat \ {0}
    /\ \A p \in DOMAIN d.predicates : /\ ValidDefinition(d.predicates[p])
                                      /\ d.predicates[p].subjects \subseteq d.kinds

ASSUME GrantsAreDocuments == \A o \in Operators : \A d \in GrantsOf[o] : ValidDocument(d)

LatestOf(docs) == CHOOSE d \in docs : \A e \in docs : e.version <= d.version

\* Mutant: units may be withdrawn.
SuccessorDropsUnits(earlier, later) ==
    /\ earlier.kinds \subseteq later.kinds
    /\ \A p \in DOMAIN earlier.predicates :
          /\ p \in DOMAIN later.predicates
          /\ later.predicates[p].cardinality = earlier.predicates[p].cardinality
          /\ later.predicates[p].kind = earlier.predicates[p].kind

\* successor: nothing that a claim may rely on is taken back.
Successor(earlier, later) ==
    /\ earlier.kinds \subseteq later.kinds
    /\ \A p \in DOMAIN earlier.predicates :
          /\ p \in DOMAIN later.predicates
          /\ LET was == earlier.predicates[p]
                 is == later.predicates[p]
             IN  /\ is.cardinality = was.cardinality
                 /\ is.kind = was.kind
                 /\ was.units \subseteq is.units
                 /\ was.variants \subseteq is.variants

\* RegistrySnapshot::check.
CheckDocument(docs, d) ==
    IF d.reserved THEN "reserved_namespace"
    ELSE IF d \in docs THEN "unchanged"
    ELSE IF \E e \in docs : e.version = d.version THEN "conflicting_version"
    ELSE IF docs # {} /\ d.version < LatestOf(docs).version THEN "not_after_latest"
    ELSE IF docs # {} /\ ~Successor(LatestOf(docs), d) THEN "incompatible"
    ELSE "new"

\* RegistrySnapshot::from_sets admits the documents in version order, and
\* fails on the first that could not have followed the ones before it.
Readable(docs) ==
    \A d \in docs : CheckDocument({e \in docs : e.version < d.version}, d) = "new"

\* RegistrySnapshot::predicate.
Declares(docs, name, version) ==
    \E d \in docs : d.version = version /\ name \in DOMAIN d.predicates
Definition(docs, name, version) ==
    (CHOOSE d \in docs : d.version = version).predicates[name]

-----------------------------------------------------------------------------
(* Registration.                                                           *)

\* PredicateRegistryRepo::snapshot, then validate_registration: the exact
\* document is granted, and the registry as read admits it.
Validate(o, d) ==
    /\ plan[o] = NoPlan /\ d \in GrantsOf[o]
    /\ Readable(documents)
    /\ CheckDocument(documents, d) = "new"
    /\ plan' = [plan EXCEPT ![o] = {d}]
    /\ UNCHANGED documents

\* Commit of stage_registration: the primary key is the version.
Register(o) ==
    /\ plan[o] # NoPlan
    /\ plan' = [plan EXCEPT ![o] = NoPlan]
    /\ \E d \in plan[o] :
          documents' = IF \E e \in documents : e.version = d.version
                       THEN documents ELSE documents \cup {d}

RegistryNext ==
    \E o \in Operators : \/ \E d \in GrantsOf[o] : Validate(o, d)
                         \/ Register(o)

-----------------------------------------------------------------------------

\* PredicateRegistryRepo::snapshot reads "through the leader so a
\* registration decides against the latest committed state": every registered
\* version follows the one before it, and the registry stays readable.
RegistryReadable == Readable(documents)

=============================================================================
