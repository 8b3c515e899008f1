----------------------------- MODULE MCTemplates -----------------------------
(* Models for TLC: a document that imports A and B, or A and C, where A and B *)
(* import C, over every combination of the edges below; and one document for  *)
(* each refusal these do not reach.                                           *)
EXTENDS TemplateMeaning

MCLiterals == {<<"1">>, <<"2">>, <<"3">>, <<"4">>, <<"5">>}

Nothing == << >>
To(from, to) == [n \in {<<from>>} |-> <<to>>]

E(ref) == [ref |-> ref, bind |-> Nothing, only |-> None, prefix |-> << >>,
           rename |-> Nothing, rebind |-> Nothing]
Bind(e, n, v) == [e EXCEPT !.bind = To(n, v)]
Under(e, p) == [e EXCEPT !.prefix = <<p>>]
As(e, from, to) == [e EXCEPT !.rename = To(from, to) @@ @]
Rebound(e, from, to) == [e EXCEPT !.rebind = To(from, to)]
Only(e, n) == [e EXCEPT !.only = {<<n>>}]

Plain == [params |-> {}, rule |-> FALSE, vars |-> << >>, loops |-> {},
          axes |-> << >>, from |-> << >>, calls |-> << >>]
T(name, d) == [name |-> <<name>>, decl |-> d]
Template(name, names) == T(name, [Plain EXCEPT !.vars = names])
Calls(name, callee) == T(name, [Plain EXCEPT !.calls = <<callee>>])
Meta(name, default) == [name |-> <<name>>, decl |-> [default |-> default]]
Index(name, size, factors, of) ==
  [name |-> <<name>>, decl |-> [size |-> size, factors |-> factors, of |-> of]]

Lib(imports, templates, sets, metas) ==
  [library |-> TRUE, imports |-> imports, templates |-> templates, sets |-> sets, metas |-> metas]
Component == [Lib(<< >>, << >>, << >>, << >>) EXCEPT !.library = FALSE]
U(imports, templates) == [imports |-> imports, templates |-> templates, declared |-> {<<"y">>}]
Doc(units, metas, files, api) ==
  [library |-> FALSE, metas |-> metas, sets |-> << >>, units |-> units, files |-> files, api |-> api]

-----------------------------------------------------------------------------
\* The leaf: a stencil t that ranges over an index set, a rule along its axis
\* that calls the stencil, a loop.
\* Its params may shadow the metaparameter.
LeafTemplates(params) ==
  <<T("t", [Plain EXCEPT !.params = params, !.vars = <<<<"N">>, <<"y">>, <<"P">>>>, !.from = <<<<"x">>>>]),
    T("h", [Plain EXCEPT !.vars = <<<<"N">>>>, !.axes = <<<<"x">>>>, !.calls = <<<<"t">>>>, !.rule = TRUE]),
    T("q", [Plain EXCEPT !.vars = <<<<"i">>, <<"N">>>>, !.loops = {<<"i">>}])>>
Leaf(params, default) ==
  Lib(<< >>, LeafTemplates(params),
      <<Index("x", <<<<"N">>>>, << >>, << >>), Index("r", << >>, <<<<"y">>>>, <<<<"x">>>>)>>,
      <<Meta("N", default)>>)
Leaves == {Leaf({<<"P">>}, <<"1">>), Leaf({<<"N">>, <<"P">>}, <<"2">>)}

C == E("C")
EdgesToC ==
  {C, Bind(C, "N", "1"), Bind(C, "N", "M"), Under(C, "p"), Under(Bind(C, "N", "2"), "p"),
   As(C, "N", "M"), As(As(C, "t", "v"), "x", "w"), Rebound(C, "y", "z"), Only(C, "h"),
   Under(As(Only(C, "h"), "t", "v"), "p"), As(As(C, "t", "h"), "h", "t"),
   Under(Rebound(Bind(C, "N", "M"), "y", "z"), "p"),
   \* and edges that are refused
   Bind(C, "K", "1"), Only(C, "u"), As(Bind(C, "N", "1"), "N", "M"), As(C, "t", "h"),
   Rebound(C, "t", "z"), Rebound(C, "i", "z"), Rebound(C, "y", "P"), Rebound(C, "k", "z")}
EdgesOfB == {C, Bind(C, "N", "1"), Under(C, "p"), Rebound(C, "y", "z")}

Stencil(e) == Final(e, <<"t">>)
Middle(e) ==
  Lib(<<e>>, <<T("u", [Plain EXCEPT !.vars = <<<<"M">>, <<"N">>, <<"y">>>>, !.calls = <<Stencil(e)>>])>>,
      <<Index("a", <<<<"M">>>>, << >>, << >>)>>, <<Meta("M", <<"2">>)>>)
Other(e) == Lib(<<e>>, <<Template("b", <<<<"N">>>>)>>, << >>, << >>)

FirstEdges ==
  LET A == E("A") IN
  {A, Under(A, "q"), Bind(A, "M", "3"), Bind(A, "M", "D"), Only(A, "u"), As(A, "M", "D"), Bind(A, "N", "2")}
SecondEdges ==
  {<< >>, <<E("B")>>, <<Under(E("B"), "q")>>, <<C>>, <<Bind(C, "N", "1")>>, <<Under(C, "p")>>,
   <<Bind(C, "N", "D")>>}
Own == <<Template("o", <<<<"D">>, <<"y">>>>)>>
Units(first, second) ==
  {<<U(<<first>> \o second, Own)>>, <<U(second, Own), U(<<first>>, << >>)>>}

Diamonds ==
  {Doc(us, <<Meta("D", <<"4">>)>>,
       [f \in {"A", "B", "C"} |-> CASE f = "A" -> Middle(ac) [] f = "B" -> Other(bc) [] f = "C" -> leaf],
       Nothing) :
     us \in UNION {Units(first, second) : first \in FirstEdges, second \in SecondEdges},
     ac \in EdgesToC, bc \in EdgesOfB, leaf \in Leaves}

-----------------------------------------------------------------------------
One(templates, sets, metas) == [f \in {"L"} |-> Lib(<< >>, templates, sets, metas)]
Loads(files, api) == Doc(<<U(<<E("L")>>, << >>)>>, << >>, files, api)
\* The way to "L" goes over "K"; where it ends decides.
Graphs3 ==
  {Doc(<<U(<<E("L")>>, << >>)>>, <<Meta("D", <<"4">>)>>,
       [f \in {"K", "L", "X"} |-> CASE f = "K" -> Lib(<<E(k)>>, << >>, << >>, << >>)
                                    [] f = "L" -> Lib(<<E(l), E("X")>>, << >>, << >>, << >>)
                                    [] f = "X" -> IF x THEN Lib(<< >>, << >>, << >>, << >>) ELSE Component],
       Nothing) :
     k \in {"K", "L", "X"}, l \in {"K", "L", "X"}, x \in BOOLEAN}

Loop(name) == T(name, [Plain EXCEPT !.loops = {<<"D">>}, !.vars = <<<<"D">>>>])
Refusals ==
  {\* bodies: unknown, a rule, a cycle, a chain at and over the bound
   Loads(One(<<Calls("a", <<"nope">>)>>, << >>, << >>), Nothing),
   Loads(One(<<T("a", [Plain EXCEPT !.rule = TRUE]), Calls("b", <<"a">>)>>, << >>, << >>), Nothing),
   Loads(One(<<Calls("a", <<"b">>), Calls("b", <<"a">>)>>, << >>, << >>), Nothing),
   Loads(One(<<Calls("a", <<"b">>), Calls("b", <<"c">>), Template("c", << >>)>>, << >>, << >>), Nothing),
   Loads(One(<<Calls("a", <<"b">>), Calls("b", <<"c">>), Calls("c", <<"d">>), Template("d", << >>)>>,
             << >>, << >>), Nothing),
   \* metaparameters: a loop symbol, unbound, the loader's, a variable's name
   Loads(One(<<Loop("a")>>, << >>, <<Meta("D", <<"1">>)>>), Nothing),
   Doc(<<U(<<E("L")>>, << >>)>>, <<Meta("D", <<"4">>)>>, One(<<Loop("a")>>, << >>, << >>), Nothing),
   Loads(One(<< >>, << >>, <<Meta("K", None)>>), Nothing),
   Loads(One(<< >>, << >>, <<Meta("K", None)>>), To("K", "5")),
   Loads(One(<< >>, << >>, <<Meta("K", None)>>), To("G", "5")),
   Loads(One(<< >>, << >>, <<Meta("y", <<"1">>)>>), Nothing),
   Loads(One(<< >>, <<Index("x", <<<<"G">>>>, << >>, << >>)>>, << >>), Nothing),
   \* one metaparameter declared twice, differently
   Doc(<<U(<<E("L")>>, << >>)>>, <<Meta("D", <<"4">>)>>, One(<< >>, << >>, <<Meta("D", <<"1">>)>>), Nothing),
   \* a root library
   [Doc(<<U(<<Bind(E("L"), "K", "D")>>, <<Calls("o", <<"l">>)>>)>>, <<Meta("D", <<"4">>)>>,
        One(<<Template("l", <<<<"K">>>>)>>, << >>, <<Meta("K", None)>>), Nothing) EXCEPT !.library = TRUE],
   [Doc(<<U(<< >>, <<Calls("o", <<"l">>)>>)>>, << >>, One(<< >>, << >>, << >>), Nothing)
      EXCEPT !.library = TRUE]}

-----------------------------------------------------------------------------
\* Values over names of the importer that the library also uses: as another
\* metaparameter of its own, or as a param.
CaptureProjects ==
  {Doc(<<U(<<e>>, << >>)>>, <<Meta("K", <<"4">>), Meta("P", <<"5">>)>>,
       One(<<T("t", [Plain EXCEPT !.params = {<<"P">>}, !.vars = <<<<"N">>, <<"K">>, <<"P">>>>])>>,
           << >>, <<Meta("N", <<"1">>), Meta("K", <<"2">>)>>), Nothing) :
     e \in {Under(Bind(E("L"), "N", v), "p") : v \in {"3", "K", "P"}}}

\* An axis renamed to the name of a param.
AxisProjects ==
  {Doc(<<U(<<As(E("L"), "x", n)>>, << >>)>>, << >>,
       One(<<T("t", [Plain EXCEPT !.params = {<<"P">>}, !.axes = <<<<"x">>>>])>>,
           <<Index("x", <<<<"1">>>>, << >>, << >>)>>, << >>), Nothing) : n \in {"P", "w"}}

\* A metaparameter spelled like the index set that its library ranges over,
\* left open or closed at the edge.
SpellingProjects ==
  {Doc(<<U(<<e>>, << >>)>>, << >>,
       One(<<T("t", [Plain EXCEPT !.vars = <<<<"x">>>>, !.from = <<<<"x">>>>])>>,
           <<Index("x", <<<<"1">>>>, << >>, << >>)>>, <<Meta("x", <<"2">>)>>), Nothing) :
     e \in {E("L"), Bind(E("L"), "x", "3")}}

\* A value over a name that no document declares.
TypoProjects ==
  {Doc(<<U(<<Bind(E("L"), "N", "NZ")>>, << >>)>>, <<Meta("K", <<"4">>)>>,
       One(<<Template("t", <<<<"N">>>>)>>, << >>, <<Meta("N", <<"1">>)>>), Nothing)}

\* A library with an open metaparameter, loaded on its own.
GenericProjects ==
  {[Doc(<<U(<< >>, <<Template("t", <<<<"N">>>>)>>)>>, <<Meta("N", None)>>, One(<< >>, << >>, << >>),
        Nothing) EXCEPT !.library = TRUE]}

\* A library that calls a template it imports, loaded on its own.
SelfContainedProjects ==
  {[Doc(<<U(<<E("L")>>, <<Calls("o", <<"l">>)>>)>>, << >>, One(<<Template("l", << >>)>>, << >>, << >>),
        Nothing) EXCEPT !.library = TRUE]}

MCProjects == Diamonds \union Graphs3 \union Refusals
=============================================================================
