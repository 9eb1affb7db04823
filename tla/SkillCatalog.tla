---------------------------- MODULE SkillCatalog ----------------------------
(***************************************************************************)
(* The names a program may call (crates/runtime/src/catalog.rs, the        *)
(* loaders; crates/canonical/src/bindings.rs, ActionRegistry).  A project  *)
(* has entries, each a version and a profile of a skill.  A load reads     *)
(* some of them in an order of its own and registers every function under  *)
(* its canonical id, under its name qualified by the skill's namespace     *)
(* and, while it is the only one, under its bare name.  A function's WIT   *)
(* name and its Python name correspond one to one, so that the registry's  *)
(* index by local name says no more than the one by model name.            *)
(***************************************************************************)
EXTENDS SequencesExt, FiniteSets

CONSTANTS
    Order,        \* all entries a project may have, as the directories sort
    NamespaceOf,  \* the Python namespace of each skill
    MaxBroken     \* bound: unreadable entries

(* Directories are read one after the other, and so are an entry's exports. *)
ASSUME CatalogAssumption ==
    /\ Order \in Seq(ToSet(Order))
    /\ \A e \in ToSet(Order) : e.exports \in Seq(ToSet(e.exports))

VARIABLES
    installed,   \* the entries in the catalog directory
    broken,      \* those that an installation cut off left unreadable
    loaded,      \* the entries of the last load, in their order
    registry     \* what the last load made

catalogVars == <<installed, broken, loaded, registry>>

Entries == ToSet(Order)
Id(e, f) == <<e.skill, f>>
Qualified(e, f) == <<NamespaceOf[e.skill], f>>
Pair(e) == <<e.skill, e.profile>>

(***************************************************************************)
(* The registry (ActionRegistry::from_skills); each index is a set of      *)
(* pairs, a function as long as no key is in two of them.                  *)
(***************************************************************************)
NoActions ==
    [failed |-> FALSE, actions |-> {}, qualified |-> {}, unique |-> {},
     duplicates |-> {}]
Unreadable == [NoActions EXCEPT !.failed = TRUE]

Keys(index) == {pair[1] : pair \in index}
Put(index, key, value) == {pair \in index : pair[1] # key} \union {<<key, value>>}

(* A mutant: that a bare name has been withdrawn is forgotten.              *)
RegisterAgain(r, f, id) ==
    IF \E pair \in r.unique : pair[1] = f /\ pair[2] # id
    THEN [r EXCEPT !.unique = {pair \in @ : pair[1] # f}]
    ELSE [r EXCEPT !.unique = Put(@, f, id)]

RegisterName(r, f, id) ==
    IF \E pair \in r.unique : pair[1] = f /\ pair[2] # id
    THEN [r EXCEPT !.unique = {pair \in @ : pair[1] # f}, !.duplicates = @ \union {f}]
    ELSE IF f \in r.duplicates THEN r
    ELSE [r EXCEPT !.unique = Put(@, f, id)]

RegisterFunction(r, e, f) ==
    IF r.failed \/ Id(e, f) \in Keys(r.actions) THEN Unreadable
    ELSE RegisterName([r EXCEPT !.actions = Put(@, Id(e, f), e),
                                !.qualified = Put(@, Qualified(e, f), Id(e, f))],
                      f, Id(e, f))

RegisterSkill(r, e) ==
    LET after[n \in 0 .. Len(e.exports)] ==
            IF n = 0 THEN r ELSE RegisterFunction(after[n - 1], e, e.exports[n])
    IN  after[Len(e.exports)]

FromSkills(entries) ==
    LET after[n \in 0 .. Len(entries)] ==
            IF n = 0 THEN NoActions ELSE RegisterSkill(after[n - 1], entries[n])
    IN  after[Len(entries)]

(* The action a name resolves to, as the entry that has it; {} if none.     *)
Definition(id) == {pair[2] : pair \in {p \in registry.actions : p[1] = id}}
ResolveModelAction(name) ==
    IF name \in Keys(registry.qualified)
    THEN UNION {Definition(p[2]) : p \in {q \in registry.qualified : q[1] = name}}
    ELSE UNION {Definition(p[2]) : p \in {q \in registry.unique : <<q[1]>> = name}}

(***************************************************************************)
(* The catalog directory and its loaders                                   *)
(***************************************************************************)
CatalogInit ==
    /\ installed = {} /\ broken = {} /\ loaded = <<>> /\ registry = NoActions

InstallEntry(e) ==
    /\ installed' = installed \union {e}
    /\ broken' \in {broken \ {e}, broken \union {e}} /\ Cardinality(broken') <= MaxBroken
    /\ UNCHANGED <<loaded, registry>>

Load(entries) ==
    /\ loaded' = entries
    /\ registry' = IF ToSet(entries) \cap broken # {} THEN Unreadable ELSE FromSkills(entries)
    /\ UNCHANGED <<installed, broken>>

Walk ==
    LET found[n \in 0 .. Len(Order)] ==
            IF n = 0 THEN <<>>
            ELSE IF Order[n] \in installed THEN Append(found[n - 1], Order[n]) ELSE found[n - 1]
    IN  found[Len(Order)]
LoadAll == Load(Walk)
LoadOnly(e) == e \in installed /\ Load(<<e>>)

(* The entries of a specification: a skill and a profile, any one version.  *)
Matches(pair) == {e \in installed : Pair(e) = pair}
LoadEntries(pairs) ==
    IF \E i \in DOMAIN pairs : Cardinality(Matches(pairs[i])) # 1
    THEN /\ loaded' = <<>> /\ registry' = Unreadable
         /\ UNCHANGED <<installed, broken>>
    ELSE Load([i \in DOMAIN pairs |-> CHOOSE e \in installed : Pair(e) = pairs[i]])

CatalogNext ==
    \/ \E e \in Entries : InstallEntry(e) \/ LoadOnly(e)
    \/ LoadAll
    \/ \E pairs \in SeqOf({Pair(e) : e \in Entries}, 3) : LoadEntries(pairs)

CatalogSpec == CatalogInit /\ [][CatalogNext]_catalogVars

(***************************************************************************)
(* Properties                                                              *)
(***************************************************************************)
Exports(f) == {e \in ToSet(loaded) : f \in ToSet(e.exports)}
Functions == UNION {ToSet(e.exports) : e \in Entries}
SharesNamespace(e, f) ==
    \E o \in Exports(f) : o # e /\ NamespaceOf[o.skill] = NamespaceOf[e.skill]

(* Whatever was loaded, in whatever order, a call reaches the skill its     *)
(* name says: a qualified name that skill's function, a bare name the only  *)
(* skill that has it, and no skill when several have it, be they two or     *)
(* three.  Excluded are skills whose names make the same namespace, of      *)
(* which the last one takes the qualified names (bindings.rs:228).          *)
NamesResolveToOwner ==
    ~ registry.failed =>
        /\ \A e \in ToSet(loaded) : \A f \in ToSet(e.exports) :
              ~ SharesNamespace(e, f) => ResolveModelAction(Qualified(e, f)) = {e}
        /\ \A f \in Functions :
              ResolveModelAction(<<f>>) = IF Cardinality(Exports(f)) = 1 THEN Exports(f) ELSE {}
=============================================================================
