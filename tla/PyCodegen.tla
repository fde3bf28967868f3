----------------------------- MODULE PyCodegen -----------------------------
(***************************************************************************)
(* The session events of Python, scripts/codegen/python.ts.  As in Go, a   *)
(* dataclass takes its name before its fields are generated.  But titles   *)
(* are not used, and the members of a choice are replaced by what they     *)
(* refer to, so they are generated again under the name of the property:   *)
(* a definition that may contain itself or null in such a place makes the  *)
(* generator recurse with ever longer names.                               *)
(***************************************************************************)
EXTENDS Declarations

CONSTANT PyStack   \* the words of a name with which the generator's stack is full
ASSUME PyStackAssumption == PyStack \in Nat

PyNulls == {"any", "nullable"}
PyContext(defs) ==
  [data |-> <<>>, classes |-> <<>>, enums |-> <<>>, names |-> {}, defs |-> defs, overflow |-> FALSE]
PyOptional(t, required) == IF required THEN t ELSE Nullable(t)

\* getOrCreatePyEnum
PyEnum(name, values, ctx) ==
  IF Declares(ctx.enums, name) THEN ctx
  ELSE [ctx EXCEPT !.enums = Append(@, EnumClass(name, values))]

RECURSIVE PyType(_, _, _, _, _), PyClass(_, _, _), PyUnion(_, _, _, _)

PyFields(props, parent, ctx) ==
  Thread(LAMBDA p, c : LET t == PyType(p.s, parent, <<p.n>>, p.r, c)
                       IN Got(Field(p.n, t.v, p.r), t.st),
         props, ctx)

\* A dataclass has its required fields first: the others have defaults.
RequiredFirst(props) ==
  SelectSeq(props, LAMBDA p : p.r) \o SelectSeq(props, LAMBDA p : ~p.r)

\* The members of a choice, each as what it refers to.
PyMembers(s, ctx) == [i \in DOMAIN s.of |-> ResolveObject(s.of[i], ctx.defs)]
PyNonNull(s, ctx) == SelectSeq(PyMembers(s, ctx), LAMBDA x : x.k # "null")

PyRefType(s, parent, prop, required, ctx) ==
  LET name   == RefTypeName(s, ctx.defs)
      target == Resolve(s, ctx.defs)
      object == ResolveObject(s, ctx.defs)
      named  == PyOptional(TypeName(name), required)
  IN CASE target.k = "ref"    -> Got(AnyType, ctx)
       [] target.k = "enum"   -> Got(named, PyEnum(name, target.values, ctx))
       [] object.k = "object" -> Got(named, PyClass(name, object, ctx))
       [] OTHER -> PyType(target, parent, prop, required, ctx)

PyChoiceType(s, parent, prop, required, ctx) ==
  LET members  == PyNonNull(s, ctx)
      optional == ~required \/ Len(members) # Len(s.of)
      single   == PyType(members[1], parent, prop, TRUE, ctx)
      by       == FindDiscriminator(members)
      name     == parent \o prop
  IN CASE members = <<>> -> Got(AnyType, ctx)
       [] Len(members) = 1 -> Got(PyOptional(single.v, ~optional), single.st)
       [] by # "" -> Got(PyOptional(TypeName(name), ~optional), PyUnion(name, by, members, ctx))
       [] OTHER -> Got(AnyType, ctx)

PyListType(s, parent, prop, required, ctx) ==
  LET members == PyNonNull(s.items, ctx)
      by      == IF s.items.k = "anyOf" THEN FindDiscriminator(members) ELSE ""
      name    == parent \o prop \o <<"Item">>
      item    == PyType(s.items, parent, prop \o <<"Item">>, TRUE, ctx)
  IN CASE s.items.k = "missing" -> Got(PyOptional(ListOf(AnyType), required), ctx)
       [] s.items.k = "allOf" /\ Len(s.items.of) = 1 ->
            PyType(List(s.items.of[1]), parent, prop, required, ctx)
       [] by # "" -> Got(PyOptional(ListOf(TypeName(name)), required),
                         PyUnion(name, by, members, ctx))
       [] OTHER -> Got(PyOptional(ListOf(item.v), required), item.st)

PyMapType(s, parent, prop, required, ctx) ==
  LET value == PyType(s.items, parent, prop \o <<"Value">>, TRUE, ctx)
  IN IF s.items.k = "missing" THEN Got(PyOptional(MapOf(AnyType), required), ctx)
     ELSE Got(PyOptional(MapOf(value.v), required), value.st)

\* resolvePyPropertyType
PyType(s, parent, prop, required, ctx) ==
  LET name == parent \o prop
  IN CASE ctx.overflow \/ Len(name) > PyStack -> Got(AnyType, [ctx EXCEPT !.overflow = TRUE])
       [] s.k = "ref"    -> PyRefType(s, parent, prop, required, ctx)
       [] s.k = "allOf" /\ Len(s.of) = 1 -> PyType(s.of[1], parent, prop, required, ctx)
       [] s.k = "anyOf"  -> PyChoiceType(s, parent, prop, required, ctx)
       [] s.k = "enum"   -> Got(PyOptional(TypeName(name), required), PyEnum(name, s.values, ctx))
       [] s.k = "const"  -> Got(PyOptional(Prim("string"), required), ctx)
       [] s.k = "maybe"  -> Got(Nullable(Prim(s.t)), ctx)
       [] s.k = "scalar" -> Got(PyOptional(Prim(s.t), required), ctx)
       [] s.k = "list"   -> PyListType(s, parent, prop, required, ctx)
       [] s.k = "map"    -> PyMapType(s, parent, prop, required, ctx)
       [] s.k = "object" -> Got(PyOptional(TypeName(name), required), PyClass(name, s, ctx))
       [] OTHER -> Got(AnyType, ctx)

\* emitPyClass
PyClass(name, s, ctx) ==
  IF name \in ctx.names THEN ctx
  ELSE LET fields == PyFields(RequiredFirst(s.props), name, [ctx EXCEPT !.names = @ \cup {name}])
       IN [fields.st EXCEPT !.classes = Append(@, Class(name, fields.v))]

\* emitPyFlatDiscriminatedUnion
PyUnion(name, by, members, ctx) ==
  IF name \in ctx.names THEN ctx
  ELSE LET begun  == PyEnum(name \o <<by>>, DiscriminatorValues(by, members),
                            [ctx EXCEPT !.names = @ \cup {name}])
           others == SelectSeq(MergedProps(members), LAMBDA p : p.n # by)
           fields == PyFields(RequiredFirst(others), name, begun)
           first  == Field(by, TypeName(name \o <<by>>), TRUE)
       IN [fields.st EXCEPT !.classes = Append(@, Class(name, <<first>> \o fields.v))]

\* generatePythonSessionEventsCode: the class of one event's data.
PyEvent(variant, ctx) ==
  PyClass(<<variant.name, "Data">>,
          IF variant.data.k = "object" THEN variant.data ELSE Object(<<>>), ctx)

\* SessionEvent.from_dict of the generated file; _missing_ makes a type that is
\* not in the enum UNKNOWN, whose data stays raw.
PyDecoder(variants) ==
  [n \in {variants[i].name : i \in DOMAIN variants} |-> <<n, "Data">>]
============================================================================
