--------------------------- MODULE TemplateMeaning ---------------------------
(* What an import means, and what loading a document promises about it.      *)
(*                                                                           *)
(* In the meaning of a template every occurrence knows whether one of the     *)
(* template's own binders holds it.  An edge is one substitution on the       *)
(* occurrences that are not held: a metaparameter becomes the value the edge  *)
(* binds, which is a name of the importer and is left alone from there on, or *)
(* its new name.  Nothing can be captured; TemplateImports substitutes plain  *)
(* names, twice per edge, and is compared with this after every step.         *)
EXTENDS TemplateImports

Tagged(d) ==
  [d EXCEPT
     !.vars = [i \in DOMAIN @ |-> [held |-> @[i] \in d.params \union d.loops, name |-> @[i]]],
     !.axes = [i \in DOMAIN @ |-> [held |-> @[i] \in d.params, name |-> @[i]]],
     !.from = [i \in DOMAIN @ |-> [held |-> @[i] \in d.params, name |-> @[i]]]]

Meant(s) ==
  [templates |-> Rekeyed(s.templates, Same, Tagged), sets |-> s.sets, metas |-> s.metas]

Subst(map, occurrences) ==
  [i \in DOMAIN occurrences |->
     LET o == occurrences[i] IN
     IF o.held \/ o.name \notin DOMAIN map THEN o ELSE [o EXCEPT !.name = map[o.name]]]

\* The templates `only` lets through: the least set that holds the named ones
\* and is closed under calls.
Needed(m, only) ==
  IF only = None THEN Named(m)
  ELSE LET closed == {S \in SUBSET Named(m) :
                        /\ only \subseteq S
                        /\ \A n \in S : ToSet(Decl(m, n).calls) \intersect Named(m) \subseteq S}
       IN {n \in Named(m) : \A S \in closed : n \in S}

\* What an edge makes of the exports x of its target.
Through(e, x) ==
  LET needed == Needed(x.templates, e.only)
      key(n) == Final(e, n)
      var == [n \in Named(x.metas) |-> IF n \in DOMAIN e.bind THEN e.bind[n] ELSE key(n)]
               @@ e.rebind
      set == FinalNames(e, x.sets)
      tpl == [n \in needed |-> key(n)]
      template(d) == [d EXCEPT !.vars = Subst(var, @), !.axes = Subst(set, @),
                               !.from = Subst(set, @), !.calls = Rewrite(tpl, @)]
      index(d) == [d EXCEPT !.size = Rewrite(var, @), !.factors = Rewrite(var, @),
                            !.of = Rewrite(set, @)]
  IN [templates |-> Rekeyed(SelectSeq(x.templates, LAMBDA t : t.name \in needed), key, template),
      sets |-> Rekeyed(x.sets, key, index),
      metas |-> Rekeyed(SelectSeq(x.metas, LAMBDA m : m.name \notin DOMAIN e.bind), key, Same)]

Joined(scopes) ==
  [templates |-> FlattenSeq([i \in DOMAIN scopes |-> scopes[i].templates]),
   sets |-> FlattenSeq([i \in DOMAIN scopes |-> scopes[i].sets]),
   metas |-> FlattenSeq([i \in DOMAIN scopes |-> scopes[i].metas])]

First(m) ==
  FoldLeft(LAMBDA kept, e : IF e.name \in Named(kept) THEN kept ELSE Append(kept, e), << >>, m)
FirstOf(s) ==
  [templates |-> First(s.templates), sets |-> First(s.sets), metas |-> First(s.metas)]

\* Arrivals of one name agree.
Agree(m) == \A i, j \in DOMAIN m : m[i].name = m[j].name => m[i] = m[j]
Agreed(s) == Agree(s.templates) /\ Agree(s.sets) /\ Agree(s.metas)

\* Everything that arrives over a list of edges, in depth-first post-order.
RECURSIVE Arrivals(_, _)
Arrivals(files, edges) ==
  Joined([i \in DOMAIN edges |->
            LET file == files[edges[i].ref] IN
            Through(edges[i], FirstOf(Joined(<<Arrivals(files, file.imports), Meant(file)>>)))])

-----------------------------------------------------------------------------
UnitArrivals(u) == Arrivals(project.files, project.units[u].imports)
UnitOwn(u) == [EmptyScope EXCEPT !.templates = project.units[u].templates]
DocumentOwn == [EmptyScope EXCEPT !.sets = project.sets, !.metas = project.metas]

\* Everything the first n units bring to the document's registry.
Registered(n) ==
  Joined(<<DocumentOwn, Joined([u \in 1 .. n |-> UnitArrivals(u)])>>)

\* The metaparameters of the document's scope, its own and those that arrive
\* open: arrivals of one name agree, or the document is refused.
Scope == Registered(Len(project.units)).metas

\* The value a closed document gives to a name.
Values == Closing(project, Scope)
ClosedTemplate(d, values) == [d EXCEPT !.vars = Subst(values, @)]

\* What a component's templates are to be: everything that arrived, with its
\* own last; after the close with the values in, a root library's as written.
MeantBlock(u) ==
  LET all == First(Joined(<<UnitArrivals(u), Meant(UnitOwn(u))>>).templates)
      values == Values
  IN IF phase # "done" THEN all
     ELSE IF project.library THEN Meant(UnitOwn(u)).templates
     ELSE Rekeyed(all, Same, LAMBDA d : ClosedTemplate(d, values))

\* Every scope means what the edges behind it say, in their order, each name
\* once, and so do the blocks and the index sets of the loaded document: no
\* substitution captures a name, misses an occurrence or reaches one that is
\* not the edge's, and no two meanings were merged under one name
\* (resolve_import_entry, merge_scope, substitute_closed_metaparams).
MeaningIsKept ==
  /\ \A i \in DOMAIN frames :
       LET all == Arrivals(project.files, Behind(i)) IN
       Agreed(all) /\ Meant(frames[i].scope) = FirstOf(all)
  /\ \A u \in DOMAIN blocks :
       /\ Agree(Joined(<<UnitArrivals(u), Meant(UnitOwn(u))>>).templates)
       /\ Rekeyed(blocks[u], Same, Tagged) = MeantBlock(u)
  /\ phase = "done" =>
       LET sets == Registered(Len(project.units)).sets
           values == Values
       IN
       /\ Agree(sets)
       /\ registry.sets = Rekeyed(First(sets), Same, LAMBDA d : BoundSet(d, values))

\* What was being merged when a load was refused.
Met ==
  IF returned # None
  THEN Arrivals(project.files, Append(Behind(Len(frames)), Edge))
  ELSE IF Len(frames) > 1
  THEN Joined(<<Arrivals(project.files, Behind(Len(frames))), Meant(project.files[Top.file])>>)
  ELSE LET u == Len(blocks) + 1 IN
       [Registered(u) EXCEPT !.templates = Joined(<<UnitArrivals(u), Meant(UnitOwn(u))>>).templates]

\* A conflict is reported only where two arrivals of one name differ: the same
\* file over the same edges merges with itself, over any diamond (merge_named).
ConflictsAreReal ==
  fault \in {"name_conflict", "index_set_conflict"} => ~Agreed(Met)

-----------------------------------------------------------------------------
\* esm-spec.md 9.7.6: a value bound at an edge is over the metaparameters of
\* the importing document, and a name that is not one is refused at the edge.
ScopeOf(p, f) ==
  Named(Joined(<<Arrivals(p.files, p.files[f].imports), Meant(p.files[f])>>).metas)
EdgesFrom(p, f) == ToSet(p.files[f].imports)
BindingTyposRefused ==
  phase = "done" =>
    LET bound(edges) == UNION {Range(e.bind) : e \in edges} \ Literals
    IN /\ \A u \in DOMAIN project.units :
            bound(ToSet(project.units[u].imports)) \subseteq Named(Scope)
       /\ \A f \in Reached(project.files, UNION {Targets(project.units[u].imports) :
                                                   u \in DOMAIN project.units}) :
            bound(EdgesFrom(project, f)) \subseteq ScopeOf(project, f)

\* esm-spec.md 9.7.6, site 5: a library loaded on its own with no bindings
\* keeps its metaparameters open and is not refused for it.
GenericLoadStaysOpen ==
  project.library /\ DOMAIN project.api = {} => fault # "metaparameter_unbound"

\* esm-spec.md 9.6.4, rule 5: a library that imports is loaded as its
\* self-contained form, the edges consumed and what they brought merged in, so
\* that its templates call only templates it has.
LibraryIsSelfContained ==
  phase = "done" /\ project.library =>
    UNION {ToSet(t.decl.calls) : t \in ToSet(blocks[1])} \subseteq Named(blocks[1])
=============================================================================
