------------------------------ MODULE Codegen ------------------------------
(***************************************************************************)
(* One run of a code generator, scripts/codegen/{typescript,go,python,     *)
(* csharp}.ts: generateSessionEvents, then generateRpc.  The generators    *)
(* keep registries of what they emitted, and a step adds one event or one  *)
(* method to them, so whether a type that is mentioned is declared, once,  *)
(* and can hold what the schema allows depends on all the steps before.    *)
(* Types are compared with the schemas by the rules of Declarations.       *)
(* TypeScript's events and the RPC types of TypeScript, Go and Python are  *)
(* made by a compiler from the schemas it is given: here the schemas.      *)
(***************************************************************************)
EXTENDS GoCodegen, PyCodegen, CsCodegen

CONSTANT Inputs   \* pairs of a language and a document

VARIABLES lang,      \* "ts", "go", "py" or "cs"
          doc,       \* event definitions, api definitions, methods, hasApi
          phase,     \* "events", "methods", "wrappers", "done" or "failed"
          todo,      \* the events or methods that are left in this phase
          events,    \* what was generated for events: a context, or schemas
          decoder,   \* from event types to their data classes
          rpc,       \* what was generated for the API: schemas, or a context
          wrappers   \* the wrappers of methods
vars == <<lang, doc, phase, todo, events, decoder, rpc, wrappers>>
input == <<lang, doc>>

\* The definitions as generateSessionEvents and generateRpc read them.
EventDefs ==
  SharedDefinitions(EachDefinition(LAMBDA s : PostProcess(IF lang = "py" THEN s ELSE CloneForCodegen(s)),
                                   doc.events))
ApiDefs == IF lang = "ts" THEN doc.api ELSE EachDefinition(CloneForCodegen, doc.api)

Init ==
  /\ \E i \in Inputs : lang = i.lang /\ doc = i.doc
  /\ phase = "events"
  /\ todo = EventVariants(EventDefs)
  /\ events = CASE lang = "go" -> GoContext(EventDefs)
                [] lang = "py" -> PyContext(EventDefs)
                [] lang = "cs" -> CsContext(EventDefs)
                [] OTHER -> TsNormalize(Missing, Collections(<< >>, << >>))
  /\ decoder = << >>
  /\ rpc = Collections(<< >>, << >>)
  /\ wrappers = <<>>

(***************************************************************************)
(* generateSessionEvents.                                                  *)
(***************************************************************************)
\* A stack that overflows ends the generator before it writes the file.
Overflows == lang \in {"py", "cs"} /\ events.overflow
Emit(language, event(_, _)) ==
  /\ phase = "events" /\ lang = language /\ todo # <<>> /\ ~Overflows
  /\ events' = event(Head(todo), events)
  /\ todo' = Tail(todo)
  /\ UNCHANGED <<phase, decoder, rpc, wrappers, input>>
GoEmitEvent == Emit("go", GoEvent)
PyEmitEvent == Emit("py", PyEvent)
CsEmitEvent == Emit("cs", CsEvent)

WriteEvents(language, decode(_)) ==
  /\ phase = "events" /\ lang = language /\ todo = <<>> /\ ~Overflows
  /\ decoder' = decode(EventVariants(EventDefs))
  /\ phase' = "methods" /\ todo' = doc.methods
  /\ rpc' = IF lang = "cs" THEN CsContext(ApiDefs) ELSE SharedDefinitions(ApiDefs)
  /\ UNCHANGED <<events, wrappers, input>>
GoWriteEvents == WriteEvents("go", GoDecoder)
PyWriteEvents == WriteEvents("py", PyDecoder)
CsWriteEvents == WriteEvents("cs", CsDecoder)
EventsOverflow ==
  /\ phase = "events" /\ Overflows
  /\ phase' = "failed"
  /\ UNCHANGED <<todo, events, decoder, rpc, wrappers, input>>

TsWriteEvents ==
  /\ phase = "events" /\ lang = "ts"
  /\ events' = TsEventsInput(doc.events)
  /\ phase' = "methods" /\ todo' = doc.methods
  /\ rpc' = SharedDefinitions(ApiDefs)
  /\ UNCHANGED <<decoder, wrappers, input>>

\* generate: a run that is given no API document and finds none has finished.
SkipRpc ==
  /\ phase = "methods" /\ ~doc.hasApi
  /\ phase' = "done" /\ todo' = <<>>
  /\ UNCHANGED <<events, decoder, rpc, wrappers, input>>

(***************************************************************************)
(* generateRpc of Go, Python and TypeScript: the definitions of all        *)
(* methods, the compiler's input, the wrappers.                            *)
(***************************************************************************)
Define(language, add(_, _, _)) ==
  /\ phase = "methods" /\ lang = language /\ doc.hasApi /\ todo # <<>>
  /\ rpc' = [rpc EXCEPT !.definitions = add(Head(todo), ApiDefs, @)]
  /\ todo' = Tail(todo)
  /\ UNCHANGED <<phase, events, decoder, wrappers, input>>
GoDefineMethod == Define("go", GoDefine)
PyDefineMethod == Define("py", PyDefine)
TsDefineMethod == Define("ts", TsDefine)

Defined(languages) == phase = "methods" /\ lang \in languages /\ doc.hasApi /\ todo = <<>>
Compiled(result, methods) ==
  /\ rpc' = result
  /\ phase' = "wrappers" /\ todo' = methods
  /\ UNCHANGED <<events, decoder, wrappers, input>>
Compile(language, methods) ==
  /\ Defined({language})
  /\ \E h \in {HoistTitled(rpc.definitions)} : h.ok /\ Compiled(CompilerInput(h, rpc.drafts), methods)
GoCompile == Compile("go", GoWraps(doc.methods))
PyCompile == Compile("py", PyWraps(doc.methods))
TsCompile == Defined({"ts"}) /\ Compiled(TsRpcInput(rpc).defs, TsWraps(doc.methods))

\* hoistTitledSchemas throws.
HoistFails ==
  /\ Defined({"go", "py"}) /\ ~HoistTitled(rpc.definitions).ok
  /\ phase' = "failed"
  /\ UNCHANGED <<todo, events, decoder, rpc, wrappers, input>>

Wrap(language, wrapper(_, _), handler(_, _)) ==
  /\ phase = "wrappers" /\ lang = language /\ todo # <<>>
  /\ wrappers' = Append(wrappers, IF Head(todo).area = "client" THEN handler(Head(todo), ApiDefs)
                                  ELSE wrapper(Head(todo), ApiDefs))
  /\ todo' = Tail(todo)
  /\ UNCHANGED <<phase, events, decoder, rpc, input>>
GoWrap == Wrap("go", GoWrapper, GoHandler)
PyWrap == Wrap("py", PyWrapper, PyHandler)
TsWrap == Wrap("ts", TsWrapper, TsHandler)

(***************************************************************************)
(* generateRpc of C#: the classes of a method come with its wrapper.       *)
(***************************************************************************)
CsStart ==
  /\ phase = "methods" /\ lang = "cs" /\ doc.hasApi
  /\ phase' = "wrappers" /\ todo' = CsWraps(doc.methods)
  /\ UNCHANGED <<events, decoder, rpc, wrappers, input>>
CsWrap ==
  /\ phase = "wrappers" /\ lang = "cs" /\ todo # <<>> /\ ~rpc.conflict
  /\ rpc' = CsMethod(Head(todo), rpc)
  /\ wrappers' = Append(wrappers, rpc'.wrapper)
  /\ todo' = Tail(todo)
  /\ UNCHANGED <<phase, events, decoder, input>>
\* emitRpcClass throws.
CsConflict ==
  /\ phase = "wrappers" /\ lang = "cs" /\ rpc.conflict
  /\ phase' = "failed"
  /\ UNCHANGED <<todo, events, decoder, rpc, wrappers, input>>

WriteRpc ==
  /\ phase = "wrappers" /\ todo = <<>> /\ (lang = "cs" => ~rpc.conflict)
  /\ phase' = "done"
  /\ UNCHANGED <<todo, events, decoder, rpc, wrappers, input>>

Next ==
  \/ GoEmitEvent \/ PyEmitEvent \/ CsEmitEvent
  \/ GoWriteEvents \/ PyWriteEvents \/ CsWriteEvents \/ TsWriteEvents
  \/ EventsOverflow \/ SkipRpc
  \/ GoDefineMethod \/ PyDefineMethod \/ TsDefineMethod
  \/ GoCompile \/ PyCompile \/ TsCompile \/ HoistFails
  \/ GoWrap \/ PyWrap \/ TsWrap
  \/ CsStart \/ CsWrap \/ CsConflict \/ WriteRpc
Spec == Init /\ [][Next]_vars

(***************************************************************************)
(* Properties.                                                             *)
(***************************************************************************)
Nulls == CASE lang = "go" -> GoNulls [] lang = "py" -> PyNulls [] OTHER -> CsNulls
Declared(ctx) == ctx.data \o ctx.classes \o ctx.enums
EventsWritten == phase \in {"methods", "wrappers", "done"}

\* The payload that the schema allows for an event, with every kind of property
\* and definition in it, is a value of the type that the generated decoder reads
\* it into; in TypeScript, the compiler gets a schema that allows the same events.
PayloadsFit ==
  EventsWritten =>
    IF lang = "ts"
    THEN Alike(events.root, events.defs,
               Ref("definitions", <<"SessionEvent">>), SharedDefinitions(doc.events), {})
    ELSE LET defs == SharedDefinitions(doc.events)
             env  == [decls |-> Declared(events), defs |-> defs, nulls |-> Nulls]
         IN \A v \in Range(EventVariants(defs)) :
              /\ v.name \in DOMAIN decoder
              /\ Declares(env.decls, decoder[v.name])
              /\ DeclHolds(DeclOf(env.decls, decoder[v.name]), v.data, env, {})

\* Whatever events and methods share names, a generated file declares a type
\* once, and declares every type that one of its fields mentions.
Sound(ctx) ==
  /\ IsInjective(DeclNames(Declared(ctx)))
  /\ \A d \in Range(Declared(ctx)) : \A n \in DeclMentions(d) : Declares(Declared(ctx), n)
NamesDeclaredOnce ==
  /\ EventsWritten /\ lang # "ts" => Sound(events)
  /\ phase \in {"wrappers", "done"} /\ lang = "cs" /\ doc.hasApi /\ ~rpc.conflict => Sound(rpc)

\* Every wrapper and handler mentions types that exist when all are generated,
\* and they are the types of its own method: the params and the result that the
\* API has for it, without the sessionId that the session adds.
Wanted(m) ==
  IF m.area = "session" /\ MethodParams(m, doc.api).k = "object" /\ lang # "cs"
  THEN WithoutSession(MethodParams(m, doc.api)) ELSE m.params
Fits(t, s) ==
  IF t = NoType THEN IsVoid(s) \/ ~HasPayload(s)
  ELSE IF lang = "cs"
  THEN Holds(t, s, [decls |-> Declared(rpc), defs |-> doc.api, nulls |-> Nulls], {})
  ELSE /\ t.n \in DOMAIN rpc.definitions
       /\ IF IsVoid(s) THEN rpc.definitions[t.n].props = <<>>
          ELSE Alike(rpc.definitions[t.n], rpc, s, doc.api, {})
OptionalLast(args) == \A i, j \in DOMAIN args : i < j /\ args[j] => args[i]
MethodsFit ==
  phase = "done" => \A w \in Range(wrappers) :
    /\ Fits(w.params, Wanted(w.method))
    /\ Fits(w.result, w.method.result)
    /\ "args" \in DOMAIN w => OptionalLast(w.args)

\* Every method of the API has a wrapper or a handler.
EveryMethodCallable ==
  phase = "done" /\ doc.hasApi =>
    \A m \in Range(doc.methods) : \E w \in Range(wrappers) : w.method = m
============================================================================
