------------------------------ MODULE Schemas ------------------------------
(***************************************************************************)
(* JSON schemas as the code generators read them, and the helpers that     *)
(* scripts/codegen/utils.ts gives every generator.  A schema is a record   *)
(* whose field k says what it is; descriptions and formats are left out.   *)
(* A type name is the sequence of its words, so that joining names is \o;  *)
(* what a conversion does to case and separators is left out.  Properties  *)
(* keep the order of the document.                                         *)
(***************************************************************************)
EXTENDS Naturals, Sequences, SequencesExt, Functions, TLC

Missing    == [k |-> "missing"]
Anything   == [k |-> "any"]
Null       == [k |-> "null"]
Scalar(t)  == [k |-> "scalar", t |-> t]
OrNull(t)  == [k |-> "maybe", t |-> t]              \* type: [t, "null"]
Const(v)   == [k |-> "const", v |-> v]
Enum(vs)   == [k |-> "enum", values |-> vs]
List(s)    == [k |-> "list", items |-> s]
Map(s)     == [k |-> "map", items |-> s]
Object(ps) == [k |-> "object", props |-> ps]
AnyOf(ss)  == [k |-> "anyOf", of |-> ss]
AllOf(ss)  == [k |-> "allOf", of |-> ss]
Prop(n, s, r) == [n |-> n, s |-> s, r |-> r]
Ref(space, to) == [k |-> "ref", space |-> space, to |-> to]
Titled(s, title) == [title |-> title] @@ s
Booleans   == {"true", "false"}

HasTitle(s) == "title" \in DOMAIN s
TitleOr(s, name) == IF HasTitle(s) THEN s.title ELSE name
Without(s, fields) == [f \in DOMAIN s \ fields |-> s[f]]
PropNames(s) == {s.props[i].n : i \in DOMAIN s.props}
PropOf(s, n) == CHOOSE p \in Range(s.props) : p.n = n
NonNull(s) == SelectSeq(s.of, LAMBDA x : x.k # "null")
HasNull(s) == \E i \in DOMAIN s.of : s.of[i].k = "null"
Named(map, name, s) == [n \in DOMAIN map \cup {name} |-> IF n = name THEN s ELSE map[n]]

(* The schemas inside a schema, in the order in which traversals visit     *)
(* them, and a schema with others in their place.                          *)
Parts(s) ==
  CASE s.k = "object" -> [i \in DOMAIN s.props |-> s.props[i].s]
    [] s.k \in {"list", "map"} -> <<s.items>>
    [] s.k \in {"anyOf", "allOf"} -> s.of
    [] OTHER -> <<>>
WithParts(s, parts) ==
  CASE s.k = "object" -> [s EXCEPT !.props =
          [i \in DOMAIN s.props |-> [s.props[i] EXCEPT !.s = parts[i]]]]
    [] s.k \in {"list", "map"} -> [s EXCEPT !.items = parts[1]]
    [] s.k \in {"anyOf", "allOf"} -> [s EXCEPT !.of = parts]
    [] OTHER -> s
EachPart(op(_), s) == WithParts(s, [i \in DOMAIN Parts(s) |-> op(Parts(s)[i])])

(* Running op over a sequence with a state: the results, the last state.   *)
Got(v, st) == [v |-> v, st |-> st]
Thread(op(_, _), seq, state) ==
  FoldLeft(LAMBDA acc, x : LET r == op(x, acc.st) IN Got(Append(acc.v, r.v), r.st),
           Got(<<>>, state), seq)

(***************************************************************************)
(* Definitions: the two collections of a document, "definitions" and       *)
(* "$defs" (here drafts), each a function from names to schemas.           *)
(***************************************************************************)
Collections(definitions, drafts) == [definitions |-> definitions, drafts |-> drafts]
EachDefinition(op(_), defs) ==
  Collections([n \in DOMAIN defs.definitions |-> op(defs.definitions[n])],
              [n \in DOMAIN defs.drafts |-> op(defs.drafts[n])])

\* postProcessSchema: a Boolean constant becomes an enum of one value.
RECURSIVE PostProcess(_)
PostProcess(s) ==
  IF s.k = "const" /\ s.v \in Booleans THEN Enum(<<s.v>>) ELSE EachPart(PostProcess, s)

\* withSharedDefinitions, and the same step at the end of postProcessSchema:
\* a document that fills one collection only is given it as the other, too.
SharedDefinitions(defs) ==
  Collections(IF DOMAIN defs.definitions = {} THEN defs.drafts ELSE defs.definitions,
              IF DOMAIN defs.drafts = {} THEN defs.definitions ELSE defs.drafts)

RECURSIVE CloneForCodegen(_)
CloneForCodegen(s) == EachPart(CloneForCodegen, Without(s, {"titleSource"}))

\* stripNonAnnotationTitles keeps the titles that the schema's author wrote.
RECURSIVE StripNonAnnotationTitles(_)
StripNonAnnotationTitles(s) ==
  EachPart(StripNonAnnotationTitles,
           Without(s, IF "titleSource" \in DOMAIN s /\ s.titleSource = "annotation"
                      THEN {"titleSource"} ELSE {"titleSource", "title"}))

RECURSIVE NormalizeTitles(_)
NormalizeTitles(s) == EachPart(NormalizeTitles, Without(s, {"title", "titleSource"}))

SameText(s, t) == Without(s, {"titleSource"}) = Without(t, {"titleSource"})

RefTypeName(s, defs) ==
  IF /\ s.space = "drafts"
     /\ s.to \in DOMAIN defs.definitions \cap DOMAIN defs.drafts
     /\ ~SameText(defs.definitions[s.to], defs.drafts[s.to])
  THEN <<"Draft">> \o s.to ELSE s.to

\* resolveRef looks into the collection the reference names, then the other.
ResolveRef(s, defs) ==
  LET primary  == IF s.space = "drafts" THEN defs.drafts ELSE defs.definitions
      fallback == IF s.space = "drafts" THEN defs.definitions ELSE defs.drafts
  IN CASE s.to \in DOMAIN primary -> primary[s.to]
       [] s.to \in DOMAIN fallback -> fallback[s.to]
       [] OTHER -> Missing

\* resolveSchema follows references to the end, or until one comes again.
RECURSIVE Follow(_, _, _)
Follow(s, defs, seen) ==
  IF s.k # "ref" \/ s \in seen \/ ResolveRef(s, defs) = Missing THEN s
  ELSE Follow(ResolveRef(s, defs), defs, seen \cup {s})
Resolve(s, defs) == Follow(s, defs, {})

\* Object.assign: a later property replaces the schema, not the place.
Assign(props, p) ==
  IF \E i \in DOMAIN props : props[i].n = p.n
  THEN [i \in DOMAIN props |->
          IF props[i].n = p.n THEN Prop(p.n, p.s, props[i].r \/ p.r) ELSE props[i]]
  ELSE Append(props, p)

\* resolveObjectSchema: an allOf of objects is one object, and a choice of one
\* schema or null is that schema.
RECURSIVE ResolveObject(_, _)
ResolveObject(s, defs) ==
  LET r == Resolve(s, defs)
      objects == SelectSeq([i \in DOMAIN r.of |-> ResolveObject(r.of[i], defs)],
                           LAMBDA x : x.k = "object")
  IN CASE r.k = "allOf" /\ objects # <<>> ->
            Object(FoldLeft(Assign, <<>>, FlattenSeq([i \in DOMAIN objects |-> objects[i].props])))
       [] r.k = "anyOf" /\ Len(NonNull(r)) = 1 -> ResolveObject(NonNull(r)[1], defs)
       [] OTHER -> r

IsObject(s) == s.k = "object"
IsVoid(s) == s.k \in {"missing", "null"}
HasPayload(s) ==
  CASE s.k = "object" -> s.props # <<>>
    [] OTHER -> s.k \notin {"missing", "any"}

(***************************************************************************)
(* hoistTitledSchemas: every titled schema inside a root becomes a shared  *)
(* definition and a reference to it; two different schemas of one title    *)
(* are an error.  The state is the shared definitions and whether no error *)
(* was met.                                                                *)
(***************************************************************************)
RECURSIVE VisitSchema(_, _, _)
VisitSchema(s, root, state) ==
  LET inner == Thread(LAMBDA x, st : VisitSchema(x, root, st), Parts(s), state)
      v     == WithParts(s, inner.v)
      known == HasTitle(v) /\ v.title \in DOMAIN inner.st.shared
  IN CASE ~HasTitle(v) \/ v.title = root -> Got(v, inner.st)
       [] known -> Got(Ref("definitions", v.title),
                       [inner.st EXCEPT !.ok = @ /\ SameText(inner.st.shared[v.title], v)])
       [] OTHER -> Got(Ref("definitions", v.title),
                       [inner.st EXCEPT !.shared = Named(@, v.title, v)])

HoistTitled(roots) ==
  FoldSet(LAMBDA n, acc :
            LET r == VisitSchema(roots[n], n, [shared |-> acc.shared, ok |-> acc.ok])
            IN [roots |-> Named(acc.roots, n, r.v), shared |-> r.st.shared, ok |-> r.st.ok],
          [roots |-> << >>, shared |-> << >>, ok |-> TRUE], DOMAIN roots)

(***************************************************************************)
(* The property that tells the members of a choice apart: constant in      *)
(* every one of them, with a different value in each; the first one that   *)
(* the first member has, or "" when there is none.                         *)
(***************************************************************************)
Discriminates(n, members) ==
  /\ \A i \in DOMAIN members : /\ members[i].k = "object"
                               /\ n \in PropNames(members[i])
                               /\ PropOf(members[i], n).s.k = "const"
  /\ \A i, j \in DOMAIN members : PropOf(members[i], n).s = PropOf(members[j], n).s => i = j
FindDiscriminator(members) ==
  IF members = <<>> \/ members[1].k # "object" THEN ""
  ELSE LET found == SelectSeq(members[1].props, LAMBDA p : Discriminates(p.n, members))
       IN IF found = <<>> THEN "" ELSE found[1].n
DiscriminatorValues(n, members) ==
  [i \in DOMAIN members |-> PropOf(members[i], n).s.v]

\* A wrong merge: required if the first member that has it requires it.
MergedPropsOfFirst(members) ==
  FoldLeft(LAMBDA acc, p : IF \E i \in DOMAIN acc : acc[i].n = p.n THEN acc ELSE Append(acc, p),
           <<>>, FlattenSeq([i \in DOMAIN members |-> members[i].props]))

\* The properties of a flattened choice: each where it first occurs, with its
\* first schema, required if every member requires it.
MergedProps(members) ==
  LET all == FlattenSeq([i \in DOMAIN members |-> members[i].props])
      firsts == FoldLeft(LAMBDA acc, p : IF \E i \in DOMAIN acc : acc[i].n = p.n
                                         THEN acc ELSE Append(acc, p), <<>>, all)
      everywhere(n) == \A i \in DOMAIN members :
                         n \in PropNames(members[i]) /\ PropOf(members[i], n).r
  IN [i \in DOMAIN firsts |-> Prop(firsts[i].n, firsts[i].s, everywhere(firsts[i].n))]

(***************************************************************************)
(* The events of a document, and the schema of each one's data.            *)
(***************************************************************************)
EventVariants(defs) ==
  LET event == Resolve(Ref("definitions", <<"SessionEvent">>), defs)
      variant(s) == LET r == ResolveObject(s, defs)
                    IN [name |-> PropOf(r, "type").s.v,
                        data |-> ResolveObject(PropOf(r, "data").s, defs)]
  IN [i \in DOMAIN event.of |-> variant(event.of[i])]
============================================================================
