--------------------------- MODULE TemplateImports ---------------------------
(* How a document gets the expression templates, the index sets and the      *)
(* metaparameters of the library files it imports (template_imports.rs): a   *)
(* depth-first walk over the import graph, one frame per file that is being   *)
(* resolved, and at every edge the pipeline bindings, only, prefix / rename / *)
(* rebind, merge.  At the end the document closes its metaparameters.         *)
(*                                                                           *)
(* A declaration is what the pipeline tells apart of it: the names in its     *)
(* variable positions (vars, factors, size), in its axis positions (axes:     *)
(* wrt, dim, var; from: the index set a range is over; of), the templates it  *)
(* calls, and its binders (params, loops).  A name is a sequence of segments, *)
(* so that a prefix nests; an integer literal is a name of Literals, which    *)
(* nothing renames.                                                           *)
EXTENDS Naturals, FiniteSets, SequencesExt

CONSTANTS
  Projects,      \* the documents to load, each with the files it may reach
  Literals,      \* the names that stand for integers
  MaxDepth,      \* MAX_TEMPLATE_EXPANSION_DEPTH
  None

-----------------------------------------------------------------------------
\* Maps in declaration order: sequences of [name, decl].
Named(m) == {m[i].name : i \in DOMAIN m}
Decl(m, n) == m[CHOOSE i \in DOMAIN m : m[i].name = n].decl
Rekeyed(m, key(_), value(_)) ==
  [i \in DOMAIN m |-> [name |-> key(m[i].name), decl |-> value(m[i].decl)]]
Same(n) == n

\* The entries with these names, in their order.
Kept(m, names) ==
  LET kept[i \in 0 .. Len(m)] ==
        IF i = 0 THEN << >>
        ELSE IF m[i].name \in names THEN Append(kept[i - 1], m[i]) ELSE kept[i - 1]
  IN kept[Len(m)]

\* The files that a list of edges imports.
Targets(edges) == {edges[i].ref : i \in DOMAIN edges}

\* A name is declared once.
IsMap(m) == m \in Seq(Range(m)) /\ \A i, j \in DOMAIN m : m[i].name = m[j].name => i = j
IsTemplates(m) ==
  IsMap(m) /\ \A t \in Range(m) :
    DOMAIN t.decl = {"params", "rule", "vars", "loops", "axes", "from", "calls"}

\* What a document is refused for.
Faults ==
  {"import_cycle", "not_library", "unknown_name", "name_conflict", "index_set_conflict",
   "rename_unknown_name", "rename_collision", "rebind_unknown_name", "rename_invalid",
   "unknown_template", "recursive_body", "expansion_too_deep",
   "metaparameter_name_conflict", "metaparameter_unbound"}

\* What the walk relies on: a document has units (its top level is the first),
\* the files it may reach are all there, the blocks of units and files are
\* maps, and no fault is not a fault.
ASSUME ImportAssumption ==
  /\ None \notin Faults
  /\ \A p \in Projects :
       LET lists == {p.units[u].imports : u \in DOMAIN p.units}
                      \union {p.files[f].imports : f \in DOMAIN p.files}
       IN /\ p.units \in Seq(Range(p.units)) /\ p.units # << >>
          /\ \A list \in lists : list \in Seq(Range(list)) /\ Targets(list) \subseteq DOMAIN p.files
          /\ \A u \in DOMAIN p.units : IsTemplates(p.units[u].templates)
          /\ \A f \in DOMAIN p.files : IsTemplates(p.files[f].templates)

-----------------------------------------------------------------------------
VARIABLES
  project,       \* the root document, its files and the loader's bindings
  frames,        \* the files being resolved: the import stack
  returned,      \* the scope the last finished library hands to its importer
  registry,      \* the document's index sets and metaparameters
  blocks,        \* the template blocks of the components resolved so far
  phase, fault

vars == <<project, frames, returned, registry, blocks, phase, fault>>

EmptyScope == [templates |-> << >>, sets |-> << >>, metas |-> << >>]

SameName(dst, src) == Named(dst) \intersect Named(src) # {}
\* merge_named: a deep-equal arrival is dropped, its first occurrence stands.
Conflict(dst, src) ==
  \E n \in Named(dst) \intersect Named(src) : Decl(dst, n) # Decl(src, n)
Merged(dst, src) == dst \o Kept(src, Named(src) \ Named(dst))

MergedScope(dst, src) ==
  [templates |-> Merged(dst.templates, src.templates),
   sets |-> Merged(dst.sets, src.sets), metas |-> Merged(dst.metas, src.metas)]

\* The first check that fails, in the order of the code.
FirstFault(checks) ==
  LET failed == {i \in DOMAIN checks : checks[i][1]}
  IN IF failed = {} THEN None ELSE checks[Min(failed)][2]

MergeFault(dst, src) ==
  FirstFault(<< <<Conflict(dst.templates, src.templates), "name_conflict">>,
                <<Conflict(dst.sets, src.sets), "index_set_conflict">>,
                <<Conflict(dst.metas, src.metas), "name_conflict">> >>)

-----------------------------------------------------------------------------
\* Simultaneous substitution of the names in a list of positions.
Rewrite(map, names) ==
  [i \in DOMAIN names |-> IF names[i] \in DOMAIN map THEN map[names[i]] ELSE names[i]]
Without(map, names) == Restrict(map, DOMAIN map \ names)

UnshadowedTemplate(d, values) ==
  [d EXCEPT !.vars = Rewrite(values, @), !.from = Rewrite(values, @)]
\* substitute_metaparams_decl: a template's params shadow the names bound.  The
\* axis keys are skipped, a range's `from` is not.
BoundTemplate(d, values) ==
  [d EXCEPT !.vars = Rewrite(Without(values, d.params), @),
            !.from = Rewrite(Without(values, d.params), @)]
BoundSet(d, values) ==
  [d EXCEPT !.size = Rewrite(values, @), !.factors = Rewrite(values, @)]

\* instantiate_scope, and the names an edge closes leave the scope.
Instantiated(s, values) ==
  [templates |-> Rekeyed(s.templates, Same, LAMBDA d : BoundTemplate(d, values)),
   sets |-> Rekeyed(s.sets, Same, LAMBDA d : BoundSet(d, values)),
   metas |-> Kept(s.metas, Named(s.metas) \ DOMAIN values)]

\* The templates that those named in "roots" call, over any number of calls.
Called(m, roots) ==
  (UNION {ToSet(Decl(m, n).calls) : n \in roots}) \intersect Named(m)
NamedOnly(m, roots) == roots
Carried(m, roots) ==
  LET Reach[k \in 0 .. Len(m)] ==
        IF k = 0 THEN roots ELSE Reach[k - 1] \union Called(m, Reach[k - 1])
  IN Reach[Len(m)]

\* `only` keeps the named templates and what their bodies call.
Filtered(s, only) ==
  IF only = None THEN s
  ELSE LET keep == Carried(s.templates, only \intersect Named(s.templates))
       IN [s EXCEPT !.templates = Kept(@, keep)]

-----------------------------------------------------------------------------
\* apply_edge_renames: an explicit rename, else the prefix, else the name.
Final(e, n) == IF n \in DOMAIN e.rename THEN e.rename[n] ELSE e.prefix \o n
FinalNames(e, m) == [n \in Named(m) |-> Final(e, n)]
Changed(map) == Restrict(map, {n \in DOMAIN map : map[n] # n})

Exported(s) == Named(s.templates) \union Named(s.sets) \union Named(s.metas)

\* collect_name_inventory: names that occur free, loop symbols, params.
Free(s) ==
  ((UNION {ToSet(t.decl.vars) \ t.decl.params : t \in ToSet(s.templates)})
     \union UNION {ToSet(d.decl.factors) : d \in ToSet(s.sets)})
  \ (Named(s.metas) \union Literals)
LoopSymbols(m) == UNION {t.decl.loops : t \in ToSet(m)}
Params(m) == UNION {t.decl.params : t \in ToSet(m)}

\* The one map of variable positions: renamed metaparameters and rebinds.
VarMap(e, s) == Changed(FinalNames(e, s.metas)) @@ Changed(e.rebind)

\* check_new_name_freshness: a new name captures nothing and meets no other.
Captures(e, s) ==
  LET new == VarMap(e, s)
      taken == (Free(s) \ DOMAIN e.rebind) \union LoopSymbols(s.templates)
                 \union Params(s.templates)
  IN ~IsInjective(new) \/ Range(new) \intersect taken # {}

RenameFault(e, s) ==
  FirstFault(<<
    <<~(DOMAIN e.rename \subseteq Exported(s)), "rename_unknown_name">>,
    <<\E m \in {s.templates, s.sets, s.metas} : ~IsInjective(FinalNames(e, m)),
      "rename_collision">>,
    <<DOMAIN e.rebind \intersect Exported(s) # {}, "rebind_unknown_name">>,
    <<DOMAIN e.rebind \intersect LoopSymbols(s.templates) # {}, "rename_invalid">>,
    <<~(DOMAIN e.rebind \subseteq Free(s)), "rebind_unknown_name">>,
    <<Captures(e, s), "rename_collision">> >>)

\* rename_decl: params shadow variables and axes, never template names.
RenamedTemplate(d, var, set, tpl) ==
  [d EXCEPT !.vars = Rewrite(Without(var, d.params), @),
            !.axes = Rewrite(Without(set, d.params), @),
            !.from = Rewrite(Without(set, d.params), @),
            !.calls = Rewrite(tpl, @)]
RenamedSet(d, var, set) ==
  [d EXCEPT !.size = Rewrite(var, @), !.factors = Rewrite(var, @),
            !.of = Rewrite(set, @)]

\* apply_scope_substitution: declaration keys and every occurrence, at once.
Renamed(e, s) ==
  LET var == VarMap(e, s)
      set == Changed(FinalNames(e, s.sets))
      tpl == Changed(FinalNames(e, s.templates))
      key(n) == Final(e, n)
  IN [templates |-> Rekeyed(s.templates, key, LAMBDA d : RenamedTemplate(d, var, set, tpl)),
      sets |-> Rekeyed(s.sets, key, LAMBDA d : RenamedSet(d, var, set)),
      metas |-> Rekeyed(s.metas, key, Same)]

-----------------------------------------------------------------------------
\* validate_template_body_references: calls name match-less templates of the
\* scope, in no cycle and in no chain longer than MaxDepth.
BodyFault(m) ==
  LET Heads[k \in 1 .. Len(m) + MaxDepth + 1] ==
        IF k = 1 THEN Named(m)
        ELSE {n \in Named(m) : ToSet(Decl(m, n).calls) \intersect Heads[k - 1] # {}}
      calls == UNION {ToSet(t.decl.calls) : t \in ToSet(m)}
  IN FirstFault(<<
       <<\E n \in calls : n \in Named(m) => Decl(m, n).rule, "unknown_template">>,
       <<Heads[Len(m) + 1] # {}, "recursive_body">>,
       <<Heads[MaxDepth + 1] # {}, "expansion_too_deep">> >>)

\* check_metaparam_loop_symbols
LoopFault(names, m) ==
  FirstFault(<< <<names \intersect LoopSymbols(m) # {}, "metaparameter_name_conflict">> >>)

Or(first, second) == IF first # None THEN first ELSE second

-----------------------------------------------------------------------------
Root == "document"
Frame(file, todo) == [file |-> file, todo |-> todo, scope |-> EmptyScope]
UnitFrame(p, u) == <<Frame(Root, p.units[u].imports)>>

Top == Last(frames)
Edge == Head(Top.todo)
Unit == project.units[Len(blocks) + 1]

\* The edges of a file, and those already merged.
Imports(i) == IF i = 1 THEN Unit.imports ELSE project.files[frames[i].file].imports
Behind(i) == SubSeq(Imports(i), 1, Len(Imports(i)) - Len(frames[i].todo))
OnStackUnpopped ==
  UNION {{frames[i].file} \union {e.ref : e \in ToSet(Behind(i))} : i \in DOMAIN frames}
OnStack == {frames[i].file : i \in 2 .. Len(frames)}
Importing == phase = "imports" /\ returned = None

Refuse(code) ==
  /\ phase' = "refused" /\ fault' = code
  /\ UNCHANGED <<project, frames, returned, registry, blocks>>

Init ==
  /\ project \in Projects
  /\ frames = UnitFrame(project, 1)
  /\ registry = [sets |-> project.sets, metas |-> project.metas]
  /\ returned = None /\ blocks = << >> /\ phase = "imports" /\ fault = None

\* resolve_import_entry, down to the target: a file already on the stack is a
\* cycle, one that is not a library is refused.
EnterLibrary ==
  /\ Importing /\ Top.todo # << >>
  /\ LET target == project.files[Edge.ref] IN
       \/ /\ Edge.ref \notin OnStack /\ target.library
          /\ frames' = Append(frames, Frame(Edge.ref, target.imports))
          /\ UNCHANGED <<project, returned, registry, blocks, phase, fault>>
       \/ /\ Edge.ref \in OnStack
          /\ Refuse("import_cycle")
       \/ /\ Edge.ref \notin OnStack /\ ~target.library
          /\ Refuse("not_library")

\* process_library, after its imports: the file's own declarations last, then
\* the checks in its own scope.
FinishLibrary ==
  /\ Importing /\ Top.todo = << >> /\ Len(frames) > 1
  /\ LET own == project.files[Top.file]
         scope == MergedScope(Top.scope, own)
         wrong == Or(MergeFault(Top.scope, own),
                     Or(BodyFault(scope.templates),
                        LoopFault(Named(scope.metas), scope.templates)))
     IN \/ /\ wrong = None
           /\ returned' = scope /\ frames' = Front(frames)
           /\ UNCHANGED <<project, registry, blocks, phase, fault>>
        \/ wrong # None /\ Refuse(wrong)

\* resolve_import_entry, from there: the edge's bindings, then only, then the
\* renames; the importer merges what is left (merge_scope).
Import ==
  /\ phase = "imports" /\ returned # None
  /\ LET bound == Instantiated(returned, Edge.bind)
         kept == Filtered(bound, Edge.only)
         scope == Renamed(Edge, kept)
         unknown == \/ ~(DOMAIN Edge.bind \subseteq Named(returned.metas))
                    \/ Edge.only # None /\ ~(Edge.only \subseteq Named(returned.templates))
         wrong == Or(FirstFault(<< <<unknown, "unknown_name">> >>),
                     Or(RenameFault(Edge, kept), MergeFault(Top.scope, scope)))
     IN \/ /\ wrong = None
           /\ frames' = [frames EXCEPT ![Len(frames)].todo = Tail(@),
                                       ![Len(frames)].scope = MergedScope(@, scope)]
           /\ returned' = None
           /\ UNCHANGED <<project, registry, blocks, phase, fault>>
        \/ wrong # None /\ Refuse(wrong)

\* resolve_component_imports, resolve_top_level_scope: the component's own
\* templates end its block, the rest goes to the document's registry.
FinishUnit ==
  /\ Importing /\ Top.todo = << >> /\ Len(frames) = 1
  /\ LET arrived == Top.scope
         own == [templates |-> Unit.templates, sets |-> << >>, metas |-> << >>]
         document == [templates |-> << >>, sets |-> registry.sets, metas |-> registry.metas]
         wrong == Or(MergeFault(arrived, own),
                     MergeFault(document, [arrived EXCEPT !.templates = << >>]))
         last == Len(blocks) + 1 = Len(project.units)
     IN \/ /\ wrong = None
           /\ blocks' = Append(blocks, Merged(arrived.templates, own.templates))
           /\ registry' = [sets |-> Merged(registry.sets, arrived.sets),
                           metas |-> Merged(registry.metas, arrived.metas)]
           /\ frames' = IF last THEN << >> ELSE UnitFrame(project, Len(blocks) + 2)
           /\ phase' = IF last THEN "close" ELSE phase
           /\ UNCHANGED <<project, returned, fault>>
        \/ wrong # None /\ Refuse(wrong)

\* close_document_metaparams: the loader's binding, else the default.
Closing(p, metas) ==
  [n \in Named(metas) |-> IF n \in DOMAIN p.api THEN p.api[n] ELSE Decl(metas, n).default]

\* check_metaparam_collisions: the names a metaparameter may not have.
Visible(p, sets) ==
  Named(sets) \union UNION {p.units[u].declared : u \in DOMAIN p.units}

\* The document's close: every metaparameter gets its value, no name of one is
\* also a variable's, an index set's or a loop symbol's, the values go in
\* (substitute_closed_metaparams) and every size must be an integer
\* (fold_closed_document).  A root library's bodies are checked last, and then
\* its templates, like the metaparameters of any document, are put back as they
\* were written.
Close ==
  /\ phase = "close"
  /\ LET values == Closing(project, registry.metas)
         names == DOMAIN values
         all == FlattenSeq(blocks)
         closed(d) == BoundTemplate(d, values)
         sets == Rekeyed(registry.sets, Same, LAMBDA d : BoundSet(d, values))
         block(b) == Rekeyed(b, Same, closed)
         wrong == Or(FirstFault(<<
           <<~(DOMAIN project.api \subseteq names), "unknown_name">>,
           <<\E n \in names : values[n] = None, "metaparameter_unbound">>,
           <<names \intersect Visible(project, registry.sets) # {}, "metaparameter_name_conflict">>,
           <<LoopFault(names, all) # None, "metaparameter_name_conflict">>,
           <<\E d \in ToSet(sets) : ~(ToSet(d.decl.size) \subseteq Literals),
             "metaparameter_unbound">> >>),
           IF project.library THEN BodyFault(all) ELSE None)
     IN \/ /\ wrong = None
           /\ blocks' = [u \in DOMAIN blocks |->
                           IF project.library THEN project.units[u].templates ELSE block(blocks[u])]
           /\ registry' = [sets |-> sets, metas |-> project.metas]
           /\ phase' = "done"
           /\ UNCHANGED <<project, frames, returned, fault>>
        \/ wrong # None /\ Refuse(wrong)

Ended == phase \in {"done", "refused"} /\ UNCHANGED vars

Next == EnterLibrary \/ FinishLibrary \/ Import \/ FinishUnit \/ Close \/ Ended

Spec == Init /\ [][Next]_vars
-----------------------------------------------------------------------------
\* The files reached from some by way of imports: the least set that holds them
\* and what its files import.
Reached(files, from) ==
  {f \in DOMAIN files :
     \A S \in SUBSET DOMAIN files :
       from \subseteq S /\ (\A g \in S : Targets(files[g].imports) \subseteq S) => f \in S}

\* Whether a file that a document reaches imports itself, over any path.
CyclicImports(p) ==
  \E f \in Reached(p.files, UNION {Targets(p.units[u].imports) : u \in DOMAIN p.units}) :
    f \in Reached(p.files, Targets(p.files[f].imports))

\* A document whose import graph has a cycle never loads, and only such a
\* cycle is refused as one: a file reached over two paths is not (the stack of
\* resolve_import_entry is the path, not the set of files seen).
ImportCyclesRefused ==
  /\ phase = "done" => ~CyclicImports(project)
  /\ fault = "import_cycle" => CyclicImports(project)

\* A template that an edge lets through can still be expanded: what it calls
\* came with it, under the name it calls it by (the `only` closure and the
\* template map of apply_scope_substitution).
CallsResolve ==
  LET resolve(m, names) == \A n \in names : ToSet(Decl(m, n).calls) \subseteq Named(m)
  IN /\ \A i \in DOMAIN frames :
          resolve(frames[i].scope.templates, Named(frames[i].scope.templates))
     /\ \A u \in DOMAIN blocks :
          resolve(blocks[u], Named(blocks[u]) \ Named(project.units[u].templates))
=============================================================================
