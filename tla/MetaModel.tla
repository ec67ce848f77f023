----------------------------- MODULE MetaModel -----------------------------
(***************************************************************************)
(* The request-handler registry of the model classes                       *)
(* (src/tvl/targets/model/meta_model.py).                                  *)
(*                                                                         *)
(* `@base(id)` turns a method into a functools.singledispatchmethod; an    *)
(* `@api(id[, types])` method overloads it for the given types, or for the *)
(* annotated type of its request parameter, whatever the method's name.    *)
(* When a class is created, MetaModel.__new__ walks its MRO, takes for     *)
(* each id the most derived base method and the set of names of all       *)
(* overloads, and registers getattr(new_cls, name) for its types, name by  *)
(* name in the set's iteration order (string hashing), in that base        *)
(* method's dispatcher.  The dispatcher belongs to the singledispatchmethod *)
(* object stored in the class that declared the base, and is shared by     *)
(* every class that inherits it.  A call self.process_l2_request(request)  *)
(* runs the function registered for type(request), or the base method      *)
(* (NotImplementedError) when none is.                                     *)
(*                                                                         *)
(* Classes form a single-inheritance tree under BaseModel; a class is      *)
(* created after its parent, siblings in any order.                        *)
(***************************************************************************)
EXTENDS Naturals, FiniteSets

CONSTANTS
    Classes,     \* the model classes created below BaseModel
    Root,        \* BaseModel, which declares @base("l2_api")
    Parent,      \* the base class of each class
    Types,       \* the L2 request types
    Names,       \* the names of the @api methods
    NameTypes,   \* the request types each @api method name is registered for
    Defines,     \* the @api method names of a class's own body
    OwnBase,     \* the classes that declare @base("l2_api") again
    Default      \* the base method, which raises NotImplementedError

AllClasses == Classes \cup {Root}

\* The constants describe a class tree: Root is not in Classes, Parent maps
\* Classes into AllClasses without cycles, NameTypes maps Names to sets of
\* Types, Defines maps AllClasses to sets of Names, OwnBase is a subset of Classes and Default is no class.

VARIABLES
    created,    \* the classes MetaModel.__new__ has built
    registry,   \* registry[d][t]: the class whose function d's dispatcher
                \* holds for type t
    building,   \* the class whose __new__ is running, as a set of at most one
    pending     \* the names of api_over["l2_api"] it has still to register

vars == <<created, registry, building, pending>>

-----------------------------------------------------------------------------

\* The n-th ancestor of each class (BaseModel is its own parent).
Up[n \in Nat] ==
    IF n = 0 THEN [c \in AllClasses |-> c]
    ELSE [c \in AllClasses |-> IF Up[n - 1][c] = Root THEN Root
                               ELSE Parent[Up[n - 1][c]]]

Depth == Cardinality(AllClasses)

\* new_cls.__mro__ without object, as a set, and the distance along it.
Mro(c) == {Up[n][c] : n \in 0 .. Depth}
Dist(c, a) == CHOOSE n \in 0 .. Depth : Up[n][c] = a /\ \A m \in 0 .. n - 1 : Up[m][c] # a

\* getattr(new_cls, over_name): the class of c's MRO nearest to c whose body
\* defines the method called n.
Owner(c, n) ==
    CHOOSE a \in Mro(c) :
        /\ n \in Defines[a]
        /\ \A b \in Mro(c) : n \in Defines[b] => Dist(c, a) <= Dist(c, b)

\* api_over["l2_api"]: the overload names collected over c's MRO.
OverNames(c) == UNION {Defines[a] : a \in Mro(c)}

\* The overloaded request types c sees.
Overloads(c) == UNION {NameTypes[n] : n \in OverNames(c)}

\* The class holding the singledispatchmethod c uses: api_bases["l2_api"],
\* the most derived class of its MRO that declares the base.
Dispatcher(c) ==
    CHOOSE d \in Mro(c) \cap (OwnBase \cup {Root}) :
        \A b \in Mro(c) \cap (OwnBase \cup {Root}) : Dist(c, d) <= Dist(c, b)

\* The function self.process_l2_request(request) runs on an instance of c.
DispatchL2(c, t) == registry[Dispatcher(c)][t]

-----------------------------------------------------------------------------

Init ==
    /\ created = {Root}
    /\ registry = [d \in OwnBase \cup {Root} |-> [t \in Types |-> Default]]
    /\ building = {}
    /\ pending = {}

\* MetaModel.__new__ for class c, first part: the MRO walk collecting the
\* base method and the overload names.
StartClass ==
    \E c \in Classes \ created :
        /\ building = {}
        /\ Parent[c] \in created
        /\ building' = {c}
        /\ pending' = OverNames(c)
        /\ UNCHANGED <<created, registry>>

\* One turn of `for over_name in api_over[_id]`, in the set's iteration
\* order: getattr(new_cls, over_name) is registered in the dispatcher of c's
\* base method for each of its types, replacing what was registered there.
RegisterOverload ==
    \E c \in building, n \in pending :
        /\ registry' = [registry EXCEPT ![Dispatcher(c)] =
                          [t \in Types |-> IF t \in NameTypes[n] THEN Owner(c, n)
                                           ELSE @[t]]]
        /\ pending' = pending \ {n}
        /\ UNCHANGED <<created, building>>

\* __new__ returns the class once every name is registered.
FinishClass ==
    /\ building # {}
    /\ pending = {}
    /\ created' = created \cup building
    /\ building' = {}
    /\ UNCHANGED <<registry, pending>>

Next == StartClass \/ RegisterOverload \/ FinishClass

Spec == Init /\ [][Next]_vars

-----------------------------------------------------------------------------

TypeOK ==
    /\ created \subseteq AllClasses
    /\ building \subseteq Classes /\ Cardinality(building) <= 1
    /\ pending \subseteq Names
    /\ registry \in [OwnBase \cup {Root} -> [Types -> AllClasses \cup {Default}]]

\* The handler Python's method overriding promises: the one of the class of
\* c's MRO nearest to c that defines an @api method for t, whatever its name.
MroHandler(c, t) ==
    CHOOSE a \in Mro(c) :
        /\ \E n \in Defines[a] : t \in NameTypes[n]
        /\ \A b \in Mro(c) : (\E n \in Defines[b] : t \in NameTypes[n]) => Dist(c, a) <= Dist(c, b)

\* A request sent to an instance of a created class is handled by that
\* class's own handler for the request type, the one a subclass writes to
\* override its parent's (L2API's docstring: "decorate it with the function
\* api"), as attribute lookup along the class's MRO would find it.
DispatchFollowsMro ==
    building = {} =>
    \A c \in created \ {Root}, t \in Types :
        t \in Overloads(c) => DispatchL2(c, t) = MroHandler(c, t)

=============================================================================
