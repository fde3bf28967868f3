---------------------------- MODULE Declarations ----------------------------
(***************************************************************************)
(* What a generated file declares: types, classes and enums, in the terms  *)
(* that Go, Python and C# share; and what it must be able to hold.  This   *)
(* module is the reference the generators are compared with, so it follows *)
(* JSON Schema and the three JSON decoders, not the generators' code.      *)
(***************************************************************************)
EXTENDS Schemas

NoType      == [k |-> "none"]
AnyType     == [k |-> "any"]
Prim(t)     == [k |-> "prim", t |-> t]
TypeName(n) == [k |-> "name", n |-> n]
ListOf(t)   == [k |-> "list", of |-> t]
MapOf(t)    == [k |-> "map", of |-> t]
Nullable(t) == [k |-> "nullable", of |-> t]    \* *T in Go, T | None, T?

\* A class with its fields, required or not, or one of a family of classes
\* that a discriminator chooses from, or an enum.
Field(n, t, r)           == [n |-> n, t |-> t, r |-> r]
Class(name, fields)      == [k |-> "class", name |-> name, fields |-> fields]
Family(name, by, cases)  == [k |-> "family", name |-> name, by |-> by, cases |-> cases]
EnumClass(name, values)  == [k |-> "enum", name |-> name, values |-> Range(values)]

DeclNames(decls) == [i \in DOMAIN decls |-> decls[i].name]
Declares(decls, name) == \E i \in DOMAIN decls : decls[i].name = name
DeclOf(decls, name) == CHOOSE d \in Range(decls) : d.name = name
FieldNames(d) == {d.fields[i].n : i \in DOMAIN d.fields}
FieldOf(d, n) == CHOOSE f \in Range(d.fields) : f.n = n

\* The names a type, a declaration mentions.
RECURSIVE Mentions(_)
Mentions(t) == CASE t.k = "name" -> {t.n}
                 [] t.k \in {"list", "map", "nullable"} -> Mentions(t.of)
                 [] OTHER -> {}
DeclMentions(d) ==
  CASE d.k = "class" -> UNION {Mentions(d.fields[i].t) : i \in DOMAIN d.fields}
    [] d.k = "family" -> {d.cases[i].name : i \in DOMAIN d.cases}
    [] OTHER -> {}

(***************************************************************************)
(* Holds(t, s): every value of schema s is a value of type t.  env has the *)
(* declarations, the document's definitions, and the kinds of types that   *)
(* have a null in the language.  Types and schemas may be cyclic: a pair   *)
(* that is being compared already is taken to hold.                        *)
(***************************************************************************)
RECURSIVE Holds(_, _, _, _), DeclHolds(_, _, _, _)
ClassHolds(d, s, env, seen) ==
  /\ \A i \in DOMAIN s.props :
       LET p == s.props[i] IN
       /\ p.n \in FieldNames(d)
       /\ Holds(FieldOf(d, p.n).t, p.s, env, seen)
       /\ p.r \/ FieldOf(d, p.n).t.k \in env.nulls
  /\ \A i \in DOMAIN d.fields : d.fields[i].r =>
       \E p \in Range(s.props) : p.n = d.fields[i].n /\ p.r
DeclHolds(d, s, env, seen) ==
  CASE d.k = "class" -> s.k = "object" /\ ClassHolds(d, s, env, seen)
    [] d.k = "family" ->
         /\ s.k = "object" /\ d.by \in PropNames(s) /\ PropOf(s, d.by).s.k = "const"
         /\ \E i \in DOMAIN d.cases :
              /\ d.cases[i].value = PropOf(s, d.by).s.v
              /\ Declares(env.decls, d.cases[i].name)
              /\ DeclHolds(DeclOf(env.decls, d.cases[i].name),
                           Object(SelectSeq(s.props, LAMBDA p : p.n # d.by)), env, seen)
    [] OTHER -> \/ s.k = "enum" /\ Range(s.values) \subseteq d.values
                \/ s.k = "const" /\ s.v \in d.values

Holds(t, s, env, seen) ==
  IF t.k = "any" \/ <<t, s>> \in seen THEN TRUE
  ELSE LET now == seen \cup {<<t, s>>}
           merged == ResolveObject(s, env.defs)
       IN CASE s.k = "ref" -> \/ ResolveRef(s, env.defs) = Missing
                              \/ Holds(t, ResolveRef(s, env.defs), env, now)
            [] s.k = "anyOf" -> \A i \in DOMAIN s.of : Holds(t, s.of[i], env, now)
            [] s.k = "allOf" -> merged.k # "allOf" /\ Holds(t, merged, env, now)
            [] s.k = "null" -> t.k \in env.nulls
            [] s.k = "maybe" -> t.k \in env.nulls /\ Holds(t, Scalar(s.t), env, now)
            [] t.k = "nullable" -> Holds(t.of, s, env, now)
            [] s.k = "scalar" -> t = Prim(s.t)
            [] s.k \in {"const", "enum"} /\ t.k = "prim" -> t = Prim("string")
            [] s.k = "list" -> t.k = "list" /\ Holds(t.of, s.items, env, now)
            [] s.k = "map" -> t.k = "map" /\ Holds(t.of, s.items, env, now)
            [] OTHER -> /\ t.k = "name" /\ Declares(env.decls, t.n)
                        /\ DeclHolds(DeclOf(env.decls, t.n), s, env, now)

(***************************************************************************)
(* Alike(a, da, b, db): two schemas, each with its own definitions, allow  *)
(* the same values, by the same structure; references are followed and     *)
(* titles ignored.  For generators that pass a schema on to a compiler.    *)
(***************************************************************************)
RECURSIVE Alike(_, _, _, _, _)
Alike(a, da, b, db, seen) ==
  IF <<a, b>> \in seen THEN TRUE
  ELSE LET now == seen \cup {<<a, b>>}
       IN CASE a.k = "ref" /\ ResolveRef(a, da) # Missing -> Alike(ResolveRef(a, da), da, b, db, now)
            [] b.k = "ref" /\ ResolveRef(b, db) # Missing -> Alike(a, da, ResolveRef(b, db), db, now)
            [] a.k = "allOf" /\ ResolveObject(a, da).k = "object" -> Alike(ResolveObject(a, da), da, b, db, now)
            [] b.k = "allOf" /\ ResolveObject(b, db).k = "object" -> Alike(a, da, ResolveObject(b, db), db, now)
            [] a.k = "const" /\ b.k = "enum" -> b.values = <<a.v>>
            [] a.k = "enum" /\ b.k = "const" -> a.values = <<b.v>>
            [] OTHER ->
                 /\ a.k = b.k
                 /\ a.k = "object" => /\ PropNames(a) = PropNames(b)
                                      /\ \A n \in PropNames(a) : PropOf(a, n).r = PropOf(b, n).r
                 /\ Without(a, {"title", "titleSource", "props", "items", "of"}) =
                    Without(b, {"title", "titleSource", "props", "items", "of"})
                 /\ Len(Parts(a)) = Len(Parts(b))
                 /\ \A i \in DOMAIN Parts(a) : Alike(Parts(a)[i], da, Parts(b)[i], db, now)
=============================================================================
