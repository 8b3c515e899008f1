----------------------------- MODULE MCCadence -----------------------------
(* Models for TLC: three observeds that define each other in every way, an   *)
(* equation four operators deep, and every graph of three index sets over    *)
(* two nodes.                                                                *)
EXTENDS Cadence

MCUnknowns == {"u", "h", "x", "y", "z"}
MCParams == {"noise", "knob", "met", "grid", "both", "k"}
MCUpdate == [p \in MCParams |->
               CASE p = "noise" -> "wiener" [] p = "k" -> None [] OTHER -> "data"]
MCSources == [p \in MCParams |->
                CASE p = "met" -> {"temporal"} [] p = "grid" -> {"fixed"}
                  [] p = "both" -> {"fixed", "missing"} [] OTHER -> {}]
MCNodes == {"n1", "n2", "n3", "n4"}
MCSets == 1 .. 3

Eq(form, name, rhs, arrayed) == [form |-> form, name |-> name, rhs |-> rhs, arrayed |-> arrayed]

Bare == [n \in MCNodes |-> << >>]
Unread == [n \in MCNodes |-> {}]
Plain == [n \in MCNodes |-> None]
Underived == [s \in MCSets |-> None]

\* Three observeds, each defined by a name or by an operator over two.
Observeds == {"x", "y", "z"}
Rhs == {<<o>> : o \in Observeds} \union
       {<<a, b>> : a \in Observeds \union {"met"}, b \in Observeds \union {"u", "k"}}

Operand2(def, n) == IF Len(def) = 1 THEN def[1] ELSE n

Definitions ==
  {[eqs  |-> <<Eq("derivative", "u", "n4", TRUE), Eq("bare", "x", Operand2(dx, "n1"), FALSE),
               Eq("bare", "y", Operand2(dy, "n2"), TRUE), Eq("bare", "z", Operand2(dz, "n3"), FALSE)>>,
    kids |-> [n \in MCNodes |-> CASE n = "n1" -> dx [] n = "n2" -> dy [] n = "n3" -> dz
                                  [] OTHER -> <<"y", "grid">>],
    relational |-> {"n3"}, expect |-> Plain, reads |-> Unread, from |-> Underived] :
     dx \in Rhs, dy \in Rhs, dz \in {r \in Rhs : Head(r) # "met"}}

\* One equation over a tree of four operators and an observed.
Trees ==
  {[eqs  |-> <<Eq(form, "x", "n1", TRUE), Eq("bare", "y", a, TRUE)>>,
    kids |-> [n \in MCNodes |-> CASE n = "n1" -> <<"n2", "n4">> [] n = "n2" -> <<b, "n3">>
                                  [] n = "n3" -> <<c, "1">> [] OTHER -> <<d, "y">>],
    relational |-> r, expect |-> [Plain EXCEPT !["n3"] = w, !["n2"] = v],
    reads |-> Unread, from |-> Underived] :
     form \in {"bare", "derivative"},
     a \in {"knob", "k", "t"}, b \in {"y", "grid", "noise"}, c \in {"k", "both", "y", "h", "true"},
     d \in {"met", "u"},
     r \in {{}, {"n2"}, {"n4"}}, w \in {None, Const, Discrete}, v \in {None, Discrete}}

\* Three index sets, each made by one of two nodes or by none.
Topologies ==
  {[eqs  |-> <<Eq("expression", None, "n1", FALSE)>>,
    kids |-> [Bare EXCEPT !["n1"] = <<"n2", "n3">>],
    relational |-> {}, expect |-> Plain,
    reads |-> [Unread EXCEPT !["n1"] = a, !["n2"] = b, !["n3"] = c], from |-> f] :
     a \in SUBSET MCSets, b \in SUBSET MCSets, c \in {{}, {2, 3}},
     f \in [MCSets -> {"n1", "n2", "n3", None}]}

MCModels == Definitions \union Trees \union Topologies
MCOthers == {"1", "true"}
MCMalformed == {"true"}
=============================================================================
