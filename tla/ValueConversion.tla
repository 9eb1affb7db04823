--------------------------- MODULE ValueConversion ---------------------------
(***************************************************************************)
(* What becomes of the arguments and the result of a skill call            *)
(* (crates/runtime/src/interpreter/monty.rs, run_executor.rs;              *)
(* crates/canonical/src/bindings.rs).  An object of the Python program     *)
(* becomes a value, a canonical value of the parameter's WIT type, a       *)
(* WebAssembly value, and the result goes the same way back: six           *)
(* conversions, each by cases of the type.  The skill called here returns  *)
(* what it is given.  Objects, values and types are tuples that begin with *)
(* their kind; a conversion gives the set of its result, empty for an      *)
(* error.  Integer widths are scaled: 64 bits to 5 and 32 to 3.           *)
(***************************************************************************)
EXTENDS Integers, SequencesExt

CONSTANTS
    TypeDefs,   \* the skill's named types: alias, enum, record or other
    Types,      \* the types of the parameter "value"
    Objects,    \* the objects given for it
    Shapes      \* how the arguments are given: [positional, named]

VARIABLES
    type,      \* the type of the function's parameter and result
    results,   \* how its result is declared: none, scalar or pair
    object,    \* the object the program passes
    shape,     \* how it passes it: a member of Shapes
    stage,     \* how far the call is
    data       \* what the arguments, then the result, have become

vars == <<type, results, object, shape, stage, data>>

Params == <<"value", "flag">>
ParamType(p) == IF p = "value" THEN type ELSE <<"bool">>
Argument(p) == IF p = "value" THEN object ELSE <<"Bool", TRUE>>

(* The results of all conversions, or none.                                 *)
All(g) ==
    IF \E x \in DOMAIN g : g[x] = {} THEN {}
    ELSE {[x \in DOMAIN g |-> CHOOSE v \in g[x] : TRUE]}
Tagged(kind, maybe) == {<<kind, x>> : x \in maybe}

FieldTypes(def) == [f \in {d[1] : d \in ToSet(def[2])} |->
                        (CHOOSE d \in ToSet(def[2]) : d[1] = f)[2]]
Def(t) == TypeDefs[t[2]]
IsAlias(t) == t[1] = "named" /\ Def(t)[1] = "alias"
IsEnum(t) == t[1] = "named" /\ Def(t)[1] = "enum"
IsRecord(t) == t[1] = "named" /\ Def(t)[1] = "record"

(***************************************************************************)
(* Between the interpreter's objects and values (monty.rs)                 *)
(***************************************************************************)
RECURSIVE ObjectToValue(_)
ObjectToValue(o) ==
    CASE o[1] \in {"None", "Bool", "Int", "Str"} -> {o}
      [] o[1] \in {"List", "Tuple"} ->
            Tagged(o[1], All([i \in DOMAIN o[2] |-> ObjectToValue(o[2][i])]))
      [] o[1] \in {"NamedTuple", "Dataclass"} ->
            {<<"Record", o[2], fields>> :
                fields \in All([f \in DOMAIN o[3] |-> ObjectToValue(o[3][f])])}
      [] o[1] = "Dict" ->
            Tagged("Map", All([i \in DOMAIN o[2] |->
                All(<<ObjectToValue(o[2][i][1]), ObjectToValue(o[2][i][2])>>)]))
      [] OTHER -> {}

RECURSIVE ValueToObject(_)
ValueToObject(v) ==
    CASE v[1] \in {"List", "Tuple"} -> <<v[1], [i \in DOMAIN v[2] |-> ValueToObject(v[2][i])]>>
      [] v[1] = "Record" ->
            <<"Dataclass", v[2], [f \in DOMAIN v[3] |-> ValueToObject(v[3][f])]>>
      [] OTHER -> v

(***************************************************************************)
(* Integers                                                                *)
(***************************************************************************)
Carrier ==
    [s8 |-> "S64", s32 |-> "S32", s64 |-> "S64", u8 |-> "U64", u32 |-> "U32", u64 |-> "U64"]
IsInteger(t) == t[1] \in DOMAIN Carrier
Range32 == [S32 |-> -4 .. 3, U32 |-> 0 .. 7]
Fits(carrier, n) ==
    CASE carrier = "S64" -> TRUE
      [] carrier = "U64" -> n >= 0
      [] OTHER -> n \in Range32[carrier]

(* A mutant: the integer is cast and not checked.                           *)
LowerIntegerByCast(t, n) ==
    LET c == Carrier[t[1]] IN
    {<<c, IF c = "S32" THEN ((n + 4) % 8) - 4 ELSE IF c = "U32" THEN n % 8 ELSE n>>}
LowerInteger(t, n) == {<<c, n>> : c \in {k \in {Carrier[t[1]]} : Fits(k, n)}}

(***************************************************************************)
(* From values to canonical values to WebAssembly values                   *)
(***************************************************************************)
RECURSIVE Lower(_, _)
LowerNamed(t, v) ==
    CASE IsAlias(t) -> Lower(Def(t)[2], v)
      [] IsEnum(t) /\ v[1] = "Str" -> {<<"EnumCase", c>> : c \in Def(t)[2] \cap {v[2]}}
      [] IsRecord(t) /\ v[1] = "Record" ->
            LET types == FieldTypes(Def(t)) IN
            Tagged("Record", All([f \in DOMAIN types |->
                IF f \in DOMAIN v[3] THEN Lower(types[f], v[3][f]) ELSE {}]))
      [] OTHER -> {}
Lower(t, v) ==
    CASE t[1] = "bool" /\ v[1] = "Bool" -> {v}
      [] IsInteger(t) /\ v[1] = "Int" -> LowerInteger(t, v[2])
      [] t[1] \in {"string", "char"} /\ v[1] = "Str" -> {<<"String", v[2]>>}
      [] t[1] = "list" /\ v[1] = "List" ->
            Tagged("List", All([i \in DOMAIN v[2] |-> Lower(t[2], v[2][i])]))
      [] t[1] = "option" -> IF v[1] = "None" THEN {<<"Null">>} ELSE Lower(t[2], v)
      [] t[1] = "tuple" /\ v[1] = "Tuple" /\ Len(v[2]) = Len(t[2]) ->
            Tagged("Tuple", All([i \in DOMAIN v[2] |-> Lower(t[2][i], v[2][i])]))
      [] t[1] = "named" -> LowerNamed(t, v)
      [] OTHER -> {}

RECURSIVE CanonicalToWasm(_, _)
NamedToWasm(t, c) ==
    CASE IsAlias(t) -> CanonicalToWasm(Def(t)[2], c)
      [] IsEnum(t) /\ c[1] = "EnumCase" -> {<<"Enum", c[2]>>}
      [] IsRecord(t) /\ c[1] = "Record" ->
            LET declared == Def(t)[2] IN
            Tagged("Record", All([i \in DOMAIN declared |->
                {<<declared[i][1], w>> :
                    w \in CanonicalToWasm(declared[i][2], c[2][declared[i][1]])}]))
      [] OTHER -> {}
CanonicalToWasm(t, c) ==
    CASE t[1] = "bool" /\ c[1] = "Bool" -> {c}
      [] IsInteger(t) /\ c[1] = Carrier[t[1]] -> {c}
      [] t[1] \in {"string", "char"} /\ c[1] = "String" -> {c}
      [] t[1] = "list" /\ c[1] = "List" ->
            Tagged("List", All([i \in DOMAIN c[2] |-> CanonicalToWasm(t[2], c[2][i])]))
      [] t[1] = "option" ->
            IF c = <<"Null">> THEN {<<"Option", <<>>>>}
            ELSE {<<"Option", <<w>>>> : w \in CanonicalToWasm(t[2], c)}
      [] t[1] = "tuple" /\ c[1] = "Tuple" /\ Len(c[2]) = Len(t[2]) ->
            Tagged("Tuple", All([i \in DOMAIN c[2] |-> CanonicalToWasm(t[2][i], c[2][i])]))
      [] t[1] = "named" -> NamedToWasm(t, c)
      [] OTHER -> {}

(* The engine takes a value only of the very type the skill declares.       *)
DeclaredKind ==
    [bool |-> "Bool", s8 |-> "S8", s32 |-> "S32", s64 |-> "S64", u8 |-> "U8", u32 |-> "U32",
     u64 |-> "U64", char |-> "Char", string |-> "String"]
RECURSIVE HasType(_, _)
HasType(t, w) ==
    CASE t[1] \in DOMAIN DeclaredKind -> w[1] = DeclaredKind[t[1]]
      [] t[1] \in {"list", "option"} -> \A i \in DOMAIN w[2] : HasType(t[2], w[2][i])
      [] t[1] = "tuple" -> \A i \in DOMAIN w[2] : HasType(t[2][i], w[2][i])
      [] IsAlias(t) -> HasType(Def(t)[2], w)
      [] IsRecord(t) -> \A i \in DOMAIN w[2] : HasType(Def(t)[2][i][2], w[2][i][2])
      [] OTHER -> TRUE

(***************************************************************************)
(* And back                                                                *)
(***************************************************************************)
RECURSIVE WasmToCanonical(_, _)
WasmToNamed(t, w) ==
    CASE IsAlias(t) -> WasmToCanonical(Def(t)[2], w)
      [] IsEnum(t) /\ w[1] = "Enum" -> {<<"EnumCase", w[2]>>}
      [] IsRecord(t) /\ w[1] = "Record" ->
            LET types == FieldTypes(Def(t)) IN
            Tagged("Record", All([f \in DOMAIN types |->
                UNION {WasmToCanonical(types[f], x[2]) : x \in {y \in ToSet(w[2]) : y[1] = f}}]))
      [] OTHER -> {}
WasmToCanonical(t, w) ==
    CASE t[1] = "bool" /\ w[1] = "Bool" -> {w}
      [] IsInteger(t) /\ w[1] = Carrier[t[1]] -> {w}
      [] t[1] \in {"string", "char"} /\ w[1] = "String" -> {w}
      [] t[1] = "list" /\ w[1] = "List" ->
            Tagged("List", All([i \in DOMAIN w[2] |-> WasmToCanonical(t[2], w[2][i])]))
      [] t[1] = "option" /\ w[1] = "Option" ->
            IF w[2] = <<>> THEN {<<"Null">>} ELSE WasmToCanonical(t[2], w[2][1])
      [] t[1] = "tuple" /\ w[1] = "Tuple" /\ Len(w[2]) = Len(t[2]) ->
            Tagged("Tuple", All([i \in DOMAIN w[2] |-> WasmToCanonical(t[2][i], w[2][i])]))
      [] t[1] = "named" -> WasmToNamed(t, w)
      [] OTHER -> {}

RECURSIVE Lift(_, _)
LiftNamed(t, c) ==
    CASE IsAlias(t) -> Lift(Def(t)[2], c)
      [] IsEnum(t) /\ c[1] = "EnumCase" -> {<<"Str", c[2]>>}
      [] IsRecord(t) /\ c[1] = "Record" ->
            LET types == FieldTypes(Def(t)) IN
            {<<"Record", t[2], fields>> :
                fields \in All([f \in DOMAIN types |-> Lift(types[f], c[2][f])])}
      [] OTHER -> {}
Lift(t, c) ==
    CASE t[1] = "bool" /\ c[1] = "Bool" -> {c}
      [] IsInteger(t) /\ c[1] = Carrier[t[1]] -> IF c[2] <= 15 THEN {<<"Int", c[2]>>} ELSE {}
      [] t[1] \in {"string", "char"} /\ c[1] = "String" -> {<<"Str", c[2]>>}
      [] t[1] = "list" /\ c[1] = "List" ->
            Tagged("List", All([i \in DOMAIN c[2] |-> Lift(t[2], c[2][i])]))
      [] t[1] = "option" -> IF c = <<"Null">> THEN {<<"None">>} ELSE Lift(t[2], c)
      [] t[1] = "tuple" /\ c[1] = "Tuple" /\ Len(c[2]) = Len(t[2]) ->
            Tagged("Tuple", All([i \in DOMAIN c[2] |-> Lift(t[2][i], c[2][i])]))
      [] t[1] = "named" -> LiftNamed(t, c)
      [] OTHER -> {}

(***************************************************************************)
(* A call                                                                  *)
(***************************************************************************)
Init ==
    /\ type \in Types /\ object \in Objects /\ shape \in Shapes
    /\ results \in {"none", "scalar", "pair"}
    /\ stage = "called" /\ data = <<>>

Step(from, to, outcomes) ==
    /\ stage = from
    /\ IF outcomes = {} THEN stage' = "refused" /\ UNCHANGED data
       ELSE stage' = to /\ data' \in outcomes
    /\ UNCHANGED <<type, results, object, shape>>

Positional == {Params[i] : i \in 1 .. Len(Params) \cap 1 .. shape.positional}

(* function_call_to_step, and the binding of arguments to parameters.       *)
Bind ==
    Step("called", "bound",
         IF \/ shape.positional > Len(Params)
            \/ ~ shape.named \subseteq ToSet(Params) \/ shape.named \cap Positional # {}
         THEN {}
         ELSE All([p \in Positional \union shape.named |-> ObjectToValue(Argument(p))]))

LowerArguments ==
    Step("bound", "lowered",
         All([p \in ToSet(Params) |->
                IF p \in DOMAIN data THEN Lower(ParamType(p), data[p]) ELSE {}]))

(* The arguments in the order of the parameters, and the engine's check.    *)
Invoke ==
    Step("lowered", "invoked",
         {args \in All([i \in DOMAIN Params |->
                        CanonicalToWasm(ParamType(Params[i]), data[Params[i]])]) :
             \A i \in DOMAIN args : HasType(ParamType(Params[i]), args[i])})

ResultToCanonical(args) ==
    CASE results = "none" -> {<<"Null">>}
      [] results = "scalar" -> WasmToCanonical(type, args[1])
      [] OTHER -> Tagged("Tuple", All([i \in DOMAIN Params |->
                                        WasmToCanonical(ParamType(Params[i]), args[i])]))

Return == Step("invoked", "returned", ResultToCanonical(data))

LiftResult(c) ==
    CASE results = "none" -> {<<"None">>}
      [] results = "scalar" -> Lift(type, c)
      [] OTHER -> Tagged("Tuple", All([i \in DOMAIN Params |->
                                        Lift(ParamType(Params[i]), c[2][i])]))

Resume == Step("returned", "answered", {ValueToObject(v) : v \in LiftResult(data)})

Next == Bind \/ LowerArguments \/ Invoke \/ Return \/ Resume

Spec == Init /\ [][Next]_vars

(***************************************************************************)
(* Properties                                                              *)
(***************************************************************************)
(* What a program should get back from an echo of the object, if it fits    *)
(* the type: the types with a canonical value that the engine also takes    *)
(* are the booleans, the integers of 32 and 64 bits, strings, enums and     *)
(* what is made of them.                                                    *)
RECURSIVE Echo(_, _)
Echo(t, o) ==
    CASE t[1] = "bool" -> IF o[1] = "Bool" THEN {o} ELSE {}
      [] t[1] = "string" -> IF o[1] = "Str" THEN {o} ELSE {}
      [] t[1] \in {"s32", "s64", "u32", "u64"} ->
            IF o[1] = "Int" /\ o[2] \in [s32 |-> -4 .. 3, s64 |-> -16 .. 15, u32 |-> 0 .. 7,
                                         u64 |-> 0 .. 31][t[1]]
            THEN {o} ELSE {}
      [] t[1] = "list" /\ o[1] = "List" ->
            Tagged("List", All([i \in DOMAIN o[2] |-> Echo(t[2], o[2][i])]))
      [] t[1] = "option" -> IF o = <<"None">> THEN {o} ELSE Echo(t[2], o)
      [] t[1] = "tuple" /\ o[1] = "Tuple" /\ Len(o[2]) = Len(t[2]) ->
            Tagged("Tuple", All([i \in DOMAIN o[2] |-> Echo(t[2][i], o[2][i])]))
      [] IsAlias(t) -> Echo(Def(t)[2], o)
      [] IsEnum(t) -> IF o[1] = "Str" /\ o[2] \in Def(t)[2] THEN {o} ELSE {}
      [] IsRecord(t) /\ o[1] \in {"NamedTuple", "Dataclass"} ->
            LET types == FieldTypes(Def(t)) IN
            {<<"Dataclass", t[2], fields>> : fields \in All([f \in DOMAIN types |->
                IF f \in DOMAIN o[3] THEN Echo(types[f], o[3][f]) ELSE {}])}
      [] OTHER -> {}

Echoed == IF ObjectToValue(object) = {} THEN {} ELSE Echo(type, object)
EachGivenOnce == shape \in [positional : {0, 1, 2}, named : {ToSet(Params) \ Positional}]

(* The six conversions agree: a call is answered exactly if each argument   *)
(* is given once and fits its type, never with another value in its place   *)
(* (an integer that is cut to its width, a field that is lost), and the     *)
(* answer is what was passed, a record under the name of its type and with  *)
(* that type's fields.                                                      *)
EchoReturns ==
    /\ stage = "answered" =>
          \E o \in Echoed :
              data = CASE results = "none" -> <<"None">>
                       [] results = "scalar" -> o
                       [] OTHER -> <<"Tuple", <<o, <<"Bool", TRUE>>>>>>
    /\ stage = "refused" => Echoed = {} \/ ~ EachGivenOnce
    /\ stage = "answered" => EachGivenOnce
=============================================================================
