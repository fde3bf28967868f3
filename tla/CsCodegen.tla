----------------------------- MODULE CsCodegen -----------------------------
(***************************************************************************)
(* The session events and the RPC types of C#, scripts/codegen/csharp.ts.  *)
(* For events, a class is entered into nestedClasses after its properties  *)
(* were generated and replaces one of its name; a referenced class is      *)
(* generated only if it is not there yet, so a definition that contains    *)
(* itself makes the generator recurse until its stack is full.  The RPC    *)
(* classes are entered first, and two schemas for one name are an error.   *)
(***************************************************************************)
EXTENDS RpcTypes

CsNulls == {"any", "nullable"}
CsContext(defs) ==
  [data |-> <<>>, classes |-> <<>>, enums |-> <<>>, open |-> {}, overflow |-> FALSE,
   schemas |-> << >>, conflict |-> FALSE, wrapper |-> NoType, defs |-> defs]

CsOptional(t, required) == IF required \/ t.k = "any" THEN t ELSE Nullable(t)

\* nestedClasses.set: a class replaces the one of its name.
PutClass(decl, ctx) ==
  [ctx EXCEPT !.classes = SelectSeq(@, LAMBDA d : d.name # decl.name) \o <<decl>>]

\* getOrCreateEnum
CsEnum(name, values, ctx) ==
  IF Declares(ctx.enums, name) THEN ctx
  ELSE [ctx EXCEPT !.enums = Append(@, EnumClass(name, values))]

\* schemaTypeToCSharp: the types that need no declaration.  A reference inside
\* a map is taken for a type that exists; an object becomes object.
RECURSIVE CsPlainType(_, _)
CsPlainType(s, required) ==
  CASE s.k = "anyOf" /\ Len(NonNull(s)) = 1 -> CsOptional(CsPlainType(NonNull(s)[1], TRUE), FALSE)
    [] s.k = "ref" -> TypeName(s.to)
    [] s.k = "maybe" /\ s.t \in {"string", "number", "integer"} -> Nullable(Prim(s.t))
    [] s.k = "scalar" -> CsOptional(Prim(s.t), required)
    [] s.k \in {"const", "enum"} -> CsOptional(Prim("string"), required)
    [] s.k = "list" -> CsOptional(ListOf(IF s.items.k = "missing" THEN AnyType
                                         ELSE CsPlainType(s.items, TRUE)), required)
    [] s.k = "map" /\ s.items.k # "missing" ->
         CsOptional(MapOf(CsPlainType(s.items, TRUE)), required)
    [] OTHER -> AnyType

RECURSIVE CsType(_, _, _, _, _), CsNested(_, _, _), CsFamily(_, _, _, _)

CsFields(props, parent, ctx) ==
  Thread(LAMBDA p, c : LET t == CsType(p.s, parent, <<p.n>>, p.r, c)
                       IN Got(Field(p.n, t.v, p.r /\ t.v.k # "nullable"), t.st),
         props, ctx)

CsRefType(s, parent, prop, required, ctx) ==
  LET name   == RefTypeName(s, ctx.defs)
      target == ResolveRef(s, ctx.defs)
      named  == CsOptional(TypeName(name), required)
  IN CASE target.k = "missing" -> Got(named, ctx)
       [] target.k = "enum" -> Got(named, CsEnum(name, target.values, ctx))
       [] target.k = "object" /\ Declares(ctx.classes, name) -> Got(named, ctx)
       [] target.k = "object" /\ name \in ctx.open -> Got(named, [ctx EXCEPT !.overflow = TRUE])
       [] target.k = "object" ->
            LET inner == CsNested(name, target, [ctx EXCEPT !.open = @ \cup {name}])
            IN Got(named, [inner EXCEPT !.open = ctx.open])
       [] OTHER -> CsType(target, parent, prop, required, ctx)

CsChoiceType(s, parent, prop, required, ctx) ==
  LET members == NonNull(s)
      by      == FindDiscriminator(members)
      name    == TitleOr(s, parent \o prop)
  IN CASE Len(members) = 1 -> CsType(members[1], parent, prop, required /\ ~HasNull(s), ctx)
       [] by # "" -> Got(CsOptional(TypeName(name), required /\ ~HasNull(s)),
                         CsFamily(name, by, members, ctx))
       [] OTHER -> Got(AnyType, ctx)

\* resolveSessionPropertyType
CsType(s, parent, prop, required, ctx) ==
  LET name == TitleOr(s, parent \o prop)
      item == CsType(s.items, parent, prop \o <<"Item">>, TRUE, ctx)
  IN CASE s.k = "ref"   -> CsRefType(s, parent, prop, required, ctx)
       [] s.k = "anyOf" -> CsChoiceType(s, parent, prop, required, ctx)
       [] s.k = "enum"  -> Got(CsOptional(TypeName(name), required), CsEnum(name, s.values, ctx))
       [] s.k = "object" -> Got(CsOptional(TypeName(name), required), CsNested(name, s, ctx))
       [] s.k = "list" /\ s.items.k # "missing" ->
            Got(CsOptional(ListOf(item.v), required), item.st)
       [] OTHER -> Got(CsPlainType(s, required), ctx)

\* generateNestedClass, and its entry in nestedClasses.
CsNested(name, s, ctx) ==
  LET fields == CsFields(s.props, name, ctx)
  IN PutClass(Class(name, fields.v), fields.st)

\* generatePolymorphicClasses and generateDerivedClass: a class for each member,
\* without the discriminator, then the base class that chooses among them.
CsFamily(name, by, members, ctx) ==
  LET derived(m) == name \o <<PropOf(m, by).s.v>>
      each == Thread(LAMBDA m, c :
                LET fields == CsFields(SelectSeq(m.props, LAMBDA p : p.n # by), derived(m), c)
                IN Got([value |-> PropOf(m, by).s.v, name |-> derived(m)],
                       PutClass(Class(derived(m), fields.v), fields.st)), members, ctx)
  IN PutClass(Family(name, by, each.v), each.st)

\* generateDataClass.  A data class is not entered into nestedClasses.
CsEvent(variant, ctx) ==
  LET props  == IF variant.data.k = "object" THEN variant.data.props ELSE <<>>
      fields == CsFields(props, <<variant.name, "Data">>, ctx)
  IN [fields.st EXCEPT !.data = Append(@, Class(<<variant.name, "Data">>, fields.v))]
\* The derived types of the generated SessionEvent, each with a Data of its
\* data class; an unrecognized type stays a SessionEvent.
CsDecoder(variants) ==
  [n \in {variants[i].name : i \in DOMAIN variants} |-> <<n, "Data">>]

(***************************************************************************)
(* RPC types.                                                              *)
(***************************************************************************)
RECURSIVE CsRpcType(_, _, _, _, _), CsRpcClass(_, _, _)

CsRpcRefType(s, parent, prop, required, ctx) ==
  LET name   == RefTypeName(s, ctx.defs)
      target == ResolveRef(s, ctx.defs)
      named  == CsOptional(TypeName(name), required)
  IN CASE target.k = "missing" -> Got(named, ctx)
       [] target.k = "enum"   -> Got(named, CsEnum(name, target.values, ctx))
       [] target.k = "object" -> Got(named, CsRpcClass(name, target, ctx))
       [] OTHER -> CsRpcType(target, parent, prop, required, ctx)

\* resolveRpcType
CsRpcType(s, parent, prop, required, ctx) ==
  LET name  == TitleOr(s, parent \o prop)
      single == CsRpcType(NonNull(s)[1], parent, prop, required /\ ~HasNull(s), ctx)
      itemName == TitleOr(s.items, parent \o prop \o <<"One">>)    \* singularPascal
      inner(word) == CsRpcType(s.items, parent, prop \o <<word>>, TRUE, ctx)
  IN CASE s.k = "ref" -> CsRpcRefType(s, parent, prop, required, ctx)
       [] s.k = "anyOf" /\ Len(NonNull(s)) = 1 -> single
       [] s.k = "enum" -> Got(CsOptional(TypeName(name), required), CsEnum(name, s.values, ctx))
       [] s.k = "object" -> Got(CsOptional(TypeName(name), required), CsRpcClass(name, s, ctx))
       [] s.k = "list" /\ s.items.k = "object" ->
            Got(CsOptional(ListOf(TypeName(itemName)), required), CsRpcClass(itemName, s.items, ctx))
       [] s.k = "list" /\ s.items.k # "missing" ->
            Got(CsOptional(ListOf(inner("Item").v), required), inner("Item").st)
       [] s.k = "map" /\ s.items.k # "missing" ->
            Got(CsOptional(MapOf(inner("Value").v), required), inner("Value").st)
       [] OTHER -> Got(CsPlainType(s, required), ctx)

\* emitRpcClass: one class for a name, an error if its schema is another one.
CsRpcClass(name, s, ctx) ==
  LET effective == ResolveObject(s, ctx.defs)
      known     == name \in DOMAIN ctx.schemas
      begun     == [ctx EXCEPT !.schemas = Named(@, name, effective)]
      fields    == Thread(LAMBDA p, c : LET t == CsRpcType(p.s, name, <<p.n>>, p.r, c)
                                        IN Got(Field(p.n, t.v, FALSE), t.st),
                          IF effective.k = "object" THEN effective.props ELSE <<>>, begun)
  IN IF known THEN [ctx EXCEPT !.conflict = @ \/ ctx.schemas[name] # effective]
     ELSE [fields.st EXCEPT !.classes = Append(@, Class(name, fields.v))]

\* emitNonObjectResultType
CsPlainResult(name, s, ctx) ==
  IF s.k = "enum" THEN Got(TypeName(name), CsEnum(name, s.values, ctx))
  ELSE Got(CsPlainType(s, TRUE), ctx)

(***************************************************************************)
(* Methods: the classes a method adds, and its wrapper, which the context  *)
(* holds while it is made.  Its parameters are those of the RPC, one by    *)
(* one; args tells which are required, in their order.                     *)
(***************************************************************************)
CsParamsName(m, ctx) == TitleOr(MethodParams(m, ctx.defs), m.rpc \o <<"Request">>)
CsProps(m, ctx) ==
  LET params == MethodParams(m, ctx.defs) IN IF params.k = "object" THEN params.props ELSE <<>>

CsWithResult(m, ctx) ==
  LET result == MethodResult(m, ctx.defs)
      name   == ResultTypeName(m, ctx.defs)
      plain  == CsPlainResult(name, result, ctx)
  IN CASE IsVoid(result)   -> [ctx EXCEPT !.wrapper = Wrapper(m, NoType, NoType)]
       [] IsObject(result) -> [CsRpcClass(name, result, ctx) EXCEPT
                                 !.wrapper = Wrapper(m, NoType, TypeName(name))]
       [] OTHER            -> [plain.st EXCEPT !.wrapper = Wrapper(m, NoType, plain.v)]
CsWithRequest(m, ctx) ==
  IF CsProps(m, ctx) = <<>> THEN ctx
  ELSE [CsRpcClass(CsParamsName(m, ctx), MethodParams(m, ctx.defs), ctx) EXCEPT
          !.wrapper.params = TypeName(CsParamsName(m, ctx))]
CsWithArguments(props, name, ctx) ==
  LET args == Thread(LAMBDA p, c : Got(p.r, CsRpcType(p.s, name, <<p.n>>, p.r, c).st), props, ctx)
  IN [args.st EXCEPT !.wrapper = [args |-> args.v] @@ @]

\* emitServerInstanceMethod
CsServerMethod(m, ctx) ==
  CsWithArguments(CsProps(m, ctx), CsParamsName(m, ctx), CsWithRequest(m, CsWithResult(m, ctx)))

\* emitSessionMethod: the session passes its sessionId itself, and the required
\* parameters come first; the request is made even if nothing else is passed.
CsOwnProps(m, ctx) ==
  LET others == SelectSeq(CsProps(m, ctx), LAMBDA p : ~IsSessionId(p))
  IN SelectSeq(others, LAMBDA p : p.r) \o SelectSeq(others, LAMBDA p : ~p.r)
CsSessionMethod(m, ctx) ==
  [CsWithArguments(CsOwnProps(m, ctx), CsParamsName(m, ctx), CsWithRequest(m, CsWithResult(m, ctx)))
     EXCEPT !.wrapper.params = TypeName(CsParamsName(m, ctx))]

\* emitClientSessionApiRegistration: a handler takes the request as one object,
\* and answers with the type named for the result.
CsClientMethod(m, ctx) ==
  [CsWithRequest(m, CsWithResult(m, ctx)) EXCEPT !.wrapper.result = ResultType(m, ctx.defs)]

\* emitServerRpcClasses and emitSessionRpcClasses walk one level of groups.
CsWraps(methods) == SelectSeq(methods, LAMBDA m : m.area = "client" \/ InGroup(m))
CsMethod(m, ctx) ==
  CASE m.area = "server"  -> CsServerMethod(m, ctx)
    [] m.area = "session" -> CsSessionMethod(m, ctx)
    [] OTHER              -> CsClientMethod(m, ctx)
============================================================================
