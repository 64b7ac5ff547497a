-------------------------- MODULE MCDefinitionCache --------------------------
(***************************************************************************)
(* Small sets of files for DefinitionCache: contracts r, f and g, a        *)
(* definition file d and a definition u at a URL.                          *)
(***************************************************************************)
EXTENDS DefinitionCache

CONSTANTS r, f, g, d, u, p, q

Own == [own |-> TRUE, refs |-> {}]
Empty == [own |-> FALSE, refs |-> {}]
To(t) == [own |-> FALSE, refs |-> {t}]
OwnTo(t) == [own |-> TRUE, refs |-> {t}]

File(props) == [ok |-> TRUE, props |-> props]
One(name, property) == File([n \in {name} |-> property])
Two(first, second) == File([n \in {p, q} |-> IF n = p THEN first ELSE second])
Invalid(c) == [c EXCEPT !.ok = FALSE]

AllFiles == {r, f, g, d, u}

\* Files that may form every kind of cycle, miss properties, or be invalid.
GraphContents ==
  [x \in AllFiles |->
     CASE x = r -> {Two(To(<<f, p>>), OwnTo(<<g, q>>)), Two(To(<<d, Self>>), To(<<f, q>>))}
       [] x = f -> {One(p, Own), One(p, To(<<g, p>>)), Two(Own, To(<<g, q>>)),
                    Invalid(One(p, Own))}
       [] x = g -> {Two(OwnTo(<<u, Self>>), To(<<u, Self>>)), Two(Own, To(<<r, p>>)),
                    Two(To(<<d, Self>>), OwnTo(<<d, Self>>))}
       [] x = d -> {One(Self, Own), One(Self, To(<<f, p>>)), One(Self, To(<<r, Self>>))}
       [] x = u -> {One(Self, OwnTo(<<f, p>>)), Invalid(One(Self, Own))}]

GraphHeight == [x \in AllFiles |-> 0]

\* Contracts in layers, r over f over g: an edit moves a link, or drops or adds
\* a property or a value.
LayerFiles == {r, f, g}
LayerContents ==
  [x \in LayerFiles |->
     CASE x = r -> {One(p, To(<<f, p>>))}
       [] x = f -> {One(p, To(<<g, p>>)), Two(To(<<g, q>>), To(<<g, p>>))}
       [] x = g -> {Two(Own, Own), Two(Own, Empty), Invalid(One(p, Own))}]
LayerHeight == [x \in LayerFiles |-> CASE x = r -> 2 [] x = f -> 1 [] x = g -> 0]

\* Two contracts below r of which one edit makes a cycle.
TurnFiles == {r, f, g}
TurnContents ==
  [x \in TurnFiles |->
     CASE x = r -> {One(p, To(<<f, p>>))}
       [] x = f -> {One(p, To(<<g, p>>))}
       [] x = g -> {One(p, Own), One(p, To(<<f, p>>))}]
TurnHeight == [x \in TurnFiles |-> 0]

=============================================================================
