----------------------------- MODULE GoCodegen -----------------------------
(***************************************************************************)
(* The session events of Go, scripts/codegen/go.ts.  A generation has a    *)
(* context: the classes and enums emitted so far, the names of the structs *)
(* it has begun, and the document's definitions.  A struct's name is taken *)
(* before its fields are generated, which is what ends cyclic definitions; *)
(* whoever asks for a name that is taken gets the struct that has it.      *)
(***************************************************************************)
EXTENDS Declarations

GoNulls == {"any", "nullable", "list", "map"}
GoContext(defs) ==
  [data |-> <<>>, classes |-> <<>>, enums |-> <<>>, names |-> {}, defs |-> defs]

\* A type with a null of its own is not made a pointer.
GoPointer(t) == IF t.k \in {"nullable", "list", "map"} THEN t ELSE Nullable(t)
GoOptional(t, required) == IF required THEN t ELSE Nullable(t)

\* A wrong registry: every use of an enum emits it.
GoEnumAgain(name, values, ctx) == [ctx EXCEPT !.enums = Append(@, EnumClass(name, values))]

\* getOrCreateGoEnum: the first enum of a name stays.
GoEnum(name, values, ctx) ==
  IF Declares(ctx.enums, name) THEN ctx
  ELSE [ctx EXCEPT !.enums = Append(@, EnumClass(name, values))]

RECURSIVE GoType(_, _, _, _, _), GoStruct(_, _, _), GoUnion(_, _, _, _)

GoFields(props, parent, ctx) ==
  Thread(LAMBDA p, c : LET t == GoType(p.s, parent, <<p.n>>, p.r, c)
                       IN Got(Field(p.n, t.v, p.r), t.st),
         props, ctx)

GoRefType(s, parent, prop, required, ctx) ==
  LET name   == RefTypeName(s, ctx.defs)
      target == ResolveRef(s, ctx.defs)
      named  == GoOptional(TypeName(name), required)
  IN CASE target.k = "missing" -> Got(named, ctx)
       [] target.k = "enum"    -> Got(named, GoEnum(name, target.values, ctx))
       [] target.k = "object"  -> Got(named, GoStruct(name, target, ctx))
       [] OTHER -> GoType(target, parent, prop, required, ctx)

\* One schema or null is that schema's type with a null; a choice of objects
\* that a constant tells apart is one flat struct; any other choice is any.
GoChoiceType(s, parent, prop, required, ctx) ==
  LET members == NonNull(s)
      single  == GoType(members[1], parent, prop, TRUE, ctx)
      by      == FindDiscriminator(members)
      name    == TitleOr(s, parent \o prop)
  IN CASE members = <<>> -> Got(AnyType, ctx)
       [] Len(members) = 1 ->
            Got(IF required /\ ~HasNull(s) THEN single.v ELSE GoPointer(single.v), single.st)
       [] by # "" -> Got(GoOptional(TypeName(name), required /\ ~HasNull(s)),
                         GoUnion(name, by, members, ctx))
       [] OTHER -> Got(AnyType, ctx)

GoListType(s, parent, prop, ctx) ==
  LET members == NonNull(s.items)
      by      == IF s.items.k = "anyOf" THEN FindDiscriminator(members) ELSE ""
      name    == TitleOr(s.items, parent \o prop \o <<"Item">>)
      item    == GoType(s.items, parent, prop \o <<"Item">>, TRUE, ctx)
  IN CASE s.items.k = "missing" -> Got(ListOf(AnyType), ctx)
       [] by # "" -> Got(ListOf(TypeName(name)), GoUnion(name, by, members, ctx))
       [] OTHER -> Got(ListOf(item.v), item.st)

GoMapType(s, parent, prop, ctx) ==
  LET name  == TitleOr(s.items, parent \o prop \o <<"Value">>)
      value == GoType(s.items, parent, prop \o <<"Value">>, TRUE, ctx)
  IN CASE s.items.k = "missing" -> Got(MapOf(AnyType), ctx)
       [] s.items.k = "object"  -> Got(MapOf(TypeName(name)), GoStruct(name, s.items, ctx))
       [] OTHER -> Got(MapOf(value.v), value.st)

\* resolveGoPropertyType: the type of a property, and what it had to emit.
GoType(s, parent, prop, required, ctx) ==
  LET name == TitleOr(s, parent \o prop)
  IN CASE s.k = "ref"   -> GoRefType(s, parent, prop, required, ctx)
       [] s.k = "anyOf" -> GoChoiceType(s, parent, prop, required, ctx)
       [] s.k = "enum"  -> Got(GoOptional(TypeName(name), required), GoEnum(name, s.values, ctx))
       [] s.k = "const" -> Got(GoOptional(Prim("string"), required), ctx)
       [] s.k = "maybe" -> Got(Nullable(Prim(s.t)), ctx)
       [] s.k = "scalar" -> Got(GoOptional(Prim(s.t), required), ctx)
       [] s.k = "list"  -> GoListType(s, parent, prop, ctx)
       [] s.k = "map"   -> GoMapType(s, parent, prop, ctx)
       [] s.k = "object" /\ s.props # <<>> ->
            Got(GoOptional(TypeName(name), required), GoStruct(name, s, ctx))
       [] OTHER -> Got(AnyType, ctx)

\* emitGoStruct
GoStruct(name, s, ctx) ==
  IF name \in ctx.names THEN ctx
  ELSE LET fields == GoFields(s.props, name, [ctx EXCEPT !.names = @ \cup {name}])
       IN [fields.st EXCEPT !.classes = Append(@, Class(name, fields.v))]

\* emitGoFlatDiscriminatedUnion: the discriminator first, as an enum of its own.
GoUnion(name, by, members, ctx) ==
  IF name \in ctx.names THEN ctx
  ELSE LET begun  == GoEnum(name \o <<by>>, DiscriminatorValues(by, members),
                            [ctx EXCEPT !.names = @ \cup {name}])
           fields == GoFields(SelectSeq(MergedProps(members), LAMBDA p : p.n # by), name, begun)
           first  == Field(by, TypeName(name \o <<by>>), TRUE)
       IN [fields.st EXCEPT !.classes = Append(@, Class(name, <<first>> \o fields.v))]

\* generateGoSessionEventsCode: the data struct of one event.  Its name is not
\* entered into the registry.
GoEvent(variant, ctx) ==
  LET props  == IF variant.data.k = "object" THEN variant.data.props ELSE <<>>
      fields == GoFields(props, <<variant.name, "Data">>, ctx)
  IN [fields.st EXCEPT !.data = Append(@, Class(<<variant.name, "Data">>, fields.v))]

\* UnmarshalJSON of the generated SessionEvent: the data struct that the data
\* of a type is read into; an unknown type keeps its data as it is.
GoDecoder(variants) ==
  [n \in {variants[i].name : i \in DOMAIN variants} |-> <<n, "Data">>]
============================================================================
