------------------------------ MODULE RpcTypes ------------------------------
(***************************************************************************)
(* The RPC types and wrappers of TypeScript, Go and Python.  The three     *)
(* generators collect one map of definitions, a compiler (quicktype,       *)
(* json-schema-to-typescript: external) makes a type of every definition   *)
(* under its name, and the wrappers mention the types by these names.      *)
(* A method has its RPC name, the area of the API it is in, the groups     *)
(* that lead to it, its params and result, Missing when it has none.       *)
(* Also the session events of TypeScript, which go to the same compiler.   *)
(***************************************************************************)
EXTENDS Declarations

Method(rpc, area, groups, params, result) ==
  [rpc |-> rpc, area |-> area, groups |-> groups, params |-> params, result |-> result]

MethodResult(m, defs) == Resolve(m.result, defs)
MethodParams(m, defs) == ResolveObject(m.params, defs)

ResultTypeName(m, defs) == TitleOr(MethodResult(m, defs), m.rpc \o <<"Result">>)

\* The RPC name decides whether sessionId is taken out of the params; params
\* that are a reference get a name of their own then, since their type is the
\* referenced one without sessionId.  (OfTitle: wrong, the name without that.)
IsSessionMethod(m) == Head(m.rpc) = "session"
ParamsTypeNameOfTitle(m, defs) == TitleOr(MethodParams(m, defs), m.rpc \o <<"Request">>)
ParamsTypeName(m, defs) ==
  LET own == m.rpc \o <<"Request">>
  IN IF IsSessionMethod(m) /\ m.params.k = "ref" THEN own
     ELSE TitleOr(MethodParams(m, defs), own)

IsSessionId(p) == p.n = "sessionId"
WithoutSession(s) == [s EXCEPT !.props = SelectSeq(@, LAMBDA p : ~IsSessionId(p))]
NamedSource(s, resolved) == IF s.k = "ref" /\ resolved.k # "missing" THEN resolved ELSE s

\* The definition that a method's result adds; a void one is an empty struct in
\* Go and nothing elsewhere.
WithResult(m, defs, named, emptyVoid) ==
  LET name   == ResultTypeName(m, defs)
      result == MethodResult(m, defs)
  IN CASE ~IsVoid(result) -> Named(named, name, Titled(NamedSource(m.result, result), name))
       [] emptyVoid -> Named(named, name, Titled(Object(<<>>), name))
       [] OTHER -> named

\* The definition that a method's params add: those of a session method lose
\* their sessionId, and with it perhaps all they have.
WithParams(m, defs, named) ==
  LET name   == ParamsTypeName(m, defs)
      params == MethodParams(m, defs)
  IN CASE ~HasPayload(params) -> named
       [] IsSessionMethod(m) /\ params.k = "object" ->
            IF HasPayload(WithoutSession(params))
            THEN Named(named, name, Titled(WithoutSession(params), name)) ELSE named
       [] OTHER -> Named(named, name, Titled(NamedSource(m.params, params), name))

GoDefine(m, defs, named) == WithParams(m, defs, WithResult(m, defs, named, TRUE))
PyDefine(m, defs, named) == WithParams(m, defs, WithResult(m, defs, named, FALSE))
TsDefine(m, defs, named) == WithParams(m, defs, WithResult(m, defs, named, FALSE))

\* Go and Python hoist titled schemas; the compiler is given every root with
\* all definitions, in both collections.
CompilerInput(hoisted, drafts) ==
  LET all == hoisted.shared @@ hoisted.roots IN Collections(all @@ drafts, drafts @@ all)

(***************************************************************************)
(* TypeScript.                                                             *)
(***************************************************************************)

\* replaceDuplicateTitledSchemasWithRefs: a titled schema that equals the
\* definition of its title, titles apart, becomes a reference to it.
RECURSIVE ReuseTitled(_, _, _)
ReuseTitled(s, definitions, isRoot) ==
  LET inner == EachPart(LAMBDA x : ReuseTitled(x, definitions, FALSE), s)
  IN IF /\ ~isRoot /\ HasTitle(inner)
        /\ inner.title \in DOMAIN definitions
        /\ NormalizeTitles(inner) = NormalizeTitles(definitions[inner.title])
     THEN Ref("definitions", inner.title) ELSE inner
ReuseShared(defs) ==
  [defs EXCEPT !.definitions = [n \in DOMAIN @ |-> ReuseTitled(@[n], @, TRUE)]]

\* normalizeSchemaForTypeScript: $defs join the definitions, under a name that is
\* free there, and references to them follow.
RECURSIVE FreeAlias(_, _)
FreeAlias(name, taken) == IF name \in taken THEN FreeAlias(<<"$defs">> \o name, taken) ELSE name
RECURSIVE Redirect(_, _)
Redirect(s, alias) ==
  IF s.k = "ref" /\ s.space = "drafts"
  THEN Ref("definitions", IF s.to \in DOMAIN alias THEN alias[s.to] ELSE s.to)
  ELSE EachPart(LAMBDA x : Redirect(x, alias), s)
TsAliases(defs) ==
  FoldSet(LAMBDA n, alias : Named(alias, n, FreeAlias(n, DOMAIN defs.definitions \cup Range(alias))),
          << >>, DOMAIN defs.drafts)
TsNormalize(root, defs) ==
  LET alias == TsAliases(defs)
      names == DOMAIN defs.definitions \cup Range(alias)
      source(n) == IF n \in DOMAIN defs.definitions THEN defs.definitions[n]
                   ELSE defs.drafts[CHOOSE d \in DOMAIN alias : alias[d] = n]
  IN [root |-> Redirect(root, alias),
      defs |-> Collections([n \in names |-> Redirect(source(n), alias)], << >>)]

TsRpcInput(combined) ==
  TsNormalize(Object(<<>>), ReuseShared(EachDefinition(StripNonAnnotationTitles, combined)))

\* generateSessionEvents of typescript.ts: what the compiler is given for the
\* events of a document.
TsEventsInput(defs) ==
  LET kept == SharedDefinitions(EachDefinition(LAMBDA s : PostProcess(StripNonAnnotationTitles(s)),
                                               defs))
  IN TsNormalize(Resolve(Ref("definitions", <<"SessionEvent">>), kept), SharedDefinitions(kept))

(***************************************************************************)
(* Wrappers: for a method, the types its wrapper mentions.  TypeScript     *)
(* emits the groups of groups, too; Go, Python and C# only the methods of  *)
(* a group and those of no group.  Of the methods that the client serves,  *)
(* Python takes those of a group, the others those at any depth.           *)
(***************************************************************************)
Wrapper(m, params, result) == [method |-> m, params |-> params, result |-> result]

HasOtherParams(params) == params.k = "object" /\ \E p \in Range(params.props) : ~IsSessionId(p)
ParamsType(m, defs) == TypeName(ParamsTypeName(m, defs))
ResultType(m, defs) ==
  IF IsVoid(MethodResult(m, defs)) THEN NoType ELSE TypeName(ResultTypeName(m, defs))

\* emitMethod of Go and Python, emitGroup of TypeScript: what a caller passes.
\* The wrapper of a session knows its sessionId.
CallerParams(m, defs) ==
  LET params == MethodParams(m, defs)
      takes  == IF m.area = "session" THEN HasOtherParams(params) ELSE HasPayload(params)
  IN IF takes THEN ParamsType(m, defs) ELSE NoType
GoWrapper(m, defs) == Wrapper(m, CallerParams(m, defs), TypeName(ResultTypeName(m, defs)))
PyWrapper(m, defs) == Wrapper(m, CallerParams(m, defs), ResultType(m, defs))
TsWrapper(m, defs) == Wrapper(m, CallerParams(m, defs), ResultType(m, defs))

\* emitClientSessionApiRegistration: the handler of a request that the server
\* makes; it finds the session by the sessionId among the params.
GoHandler(m, defs) == Wrapper(m, ParamsType(m, defs), TypeName(ResultTypeName(m, defs)))
PyHandler(m, defs) == Wrapper(m, ParamsType(m, defs), ResultType(m, defs))
TsHandler(m, defs) ==
  Wrapper(m, IF HasPayload(MethodParams(m, defs)) THEN ParamsType(m, defs) ELSE NoType,
          ResultType(m, defs))

\* The methods that have a wrapper or a handler.
InGroup(m) == Len(m.groups) <= 1
GoWraps(methods) == SelectSeq(methods, LAMBDA m : m.area = "client" \/ InGroup(m))
PyWraps(methods) == SelectSeq(methods, LAMBDA m : InGroup(m) /\ (m.area = "client" => m.groups # <<>>))
TsWraps(methods) == methods
=============================================================================
