---------------------------- MODULE MC_Codegen ----------------------------
(***************************************************************************)
(* Small documents that have every kind of schema the generators tell      *)
(* apart, in every position.  What a generator is known not to support is  *)
(* left out of its inputs; the README lists it.                            *)
(***************************************************************************)
EXTENDS Codegen

String == Scalar("string")
Text == Prop("text", String, TRUE)
Count == Prop("count", Scalar("number"), FALSE)
Item(s, r) == Prop("item", s, r)
Kind(v, p) == Object(<<Prop("kind", Const(v), TRUE), p>>)
Choice == AnyOf(<<Kind("x", Text), Kind("y", Count), Kind("z", Text)>>)
Shape == Titled(Object(<<Count, Text>>), <<"Shape">>)
Mode == Titled(Enum(<<"a", "b">>), <<"Mode">>)
Optional(s) == AnyOf(<<s, Null>>)
Def(word) == Ref("definitions", <<word>>)

\* The definitions of a document; a draft collection may have another Color.
SessionId == Prop("sessionId", String, TRUE)
Library ==
  (<<"Color">> :> Enum(<<"red", "blue">>)) @@ (<<"Palette">> :> List(Def("Color")))
  @@ (<<"Point">> :> AllOf(<<Object(<<Text>>), Object(<<Count>>)>>))
  @@ (<<"Tree">> :> Object(<<Text, Prop("next", Def("Tree"), FALSE), Prop("kids", List(Def("Tree")), TRUE)>>))
  @@ (<<"Bush">> :> Object(<<Prop("left", Optional(Def("Bush")), FALSE)>>))
  @@ (<<"Maybe">> :> Optional(Object(<<Text>>)))
  @@ (<<"Args">> :> Titled(Object(<<SessionId, Count, Text>>), <<"Args">>))
Drafts == {<< >>, (<<"Color">> :> Enum(<<"dark", "light">>))}

\* The schemas of properties, with the languages whose generators take them.
All == {"ts", "go", "py", "cs"}
Everywhere ==
  {String, OrNull("number"), Const("fixed"), Enum(<<"a", "b">>), Mode, Object(<<Text, Count>>), Shape,
   Object(<<Prop("inner", Object(<<Text>>), FALSE), Prop("shade", Def("Color"), FALSE)>>),
   List(Object(<<Text>>)), List(List(Def("Color"))), Map(Scalar("number")), Map(Object(<<Text>>)),
   Def("Color"), Ref("drafts", <<"Color">>), Def("Palette"), Def("Point"),
   Optional(String), Optional(Def("Color")), Optional(Shape), Optional(Def("Point")),
   Choice, Titled(Choice, <<"Pick">>), List(Choice), Optional(List(String)),
   AnyOf(<<String, Scalar("number")>>), Anything,
   Def("Tree"), List(Def("Tree")), Optional(Def("Tree")), Def("Bush")}
Some ==
  (Map(Def("Color")) :> {"ts", "go", "py"}) @@ (Def("Maybe") :> {"ts", "go", "cs"})
  @@ (Const("true") :> {"ts"}) @@ (List(Optional(Choice)) :> {"ts", "cs"})
Languages(s) == IF s \in DOMAIN Some THEN Some[s] ELSE All

Event(name, p) ==
  Object(<<Prop("type", Const(name), TRUE), Prop("data", Object(<<p>>), TRUE)>>)
Document(p, q, drafts, methods) ==
  [events |-> Collections((<<"SessionEvent">> :> AnyOf(<<Event("start", p), Event("end", q)>>)) @@ Library,
                          drafts),
   api |-> Collections(Library, << >>), methods |-> methods, hasApi |-> methods # <<>>]

\* Two events: each schema, with itself and with schemas that share names with it.
EventInputs ==
  UNION {[lang : Languages(s),
          doc : {Document(Item(s, r), Item(t, ~r), d, <<>>) :
                   r \in BOOLEAN, d \in Drafts, t \in {s, Shape, Def("Color"), Titled(Choice, <<"Pick">>)}}]
         : s \in Everywhere \cup DOMAIN Some}

\* An API: a session method, and others that share its types or its groups.
Results == {Null, Missing, Object(<<Item(Shape, TRUE)>>), Def("Args"), Def("Color"), Mode}
Params ==
  {Missing, Object(<<SessionId>>), Def("Args")}
  \cup {Object(<<SessionId, Item(s, r), Text>>) :
          r \in BOOLEAN, s \in {String, Def("Color"), Shape, List(Shape), Optional(Mode), Def("Tree")}}
Ping(result) == Method(<<"ping">>, "server", <<>>, Object(<<Text, Count>>), result)
List1(group, params) == Method(group \o <<"list">>, "server", group, params, Object(<<Prop("all", List(Shape), TRUE)>>))
Read(params, result) == Method(<<"files", "read">>, "client", <<"files">>, params, result)
Others(result) ==
  {<<Ping(Mode), Read(Def("Args"), result)>>,
   <<List1(<<"models">>, Missing), List1(<<"models", "local">>, Def("Args")), Read(Object(<<SessionId, Text>>), Null)>>}
ApiInputs ==
  [lang : All,
   doc : {Document(Item(String, TRUE), Item(String, FALSE), << >>,
                   <<Method(<<"session", "do">>, "session", <<"do">>, params, result)>> \o others) :
            params \in Params \ {Missing}, result \in Results,
            others \in Others(Null) \cup Others(Def("Args"))}]

\* Two schemas under one title.
Ambiguous ==
  [lang : All,
   doc : {Document(Item(String, TRUE), Item(String, FALSE), << >>,
                   <<Ping(Object(<<Item(Shape, TRUE)>>)),
                     Read(Object(<<SessionId>>), Object(<<Item(Titled(s, <<"Shape">>), FALSE)>>))>>)
          : s \in {Object(<<Text>>), Shape}}]

Documents == EventInputs \cup ApiInputs \cup Ambiguous
============================================================================
