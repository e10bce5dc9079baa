----------------------------- MODULE MCCatalogue -----------------------------
(* A small instance of Catalogue for TLC: two layers, a widget and a         *)
(* dashboard that lists layers and the widget.                               *)
EXTENDS Catalogue, TLC

CONSTANTS l, m, w, b, o1, o2, n1, n2

Models == [d \in Docs |-> IF d = b THEN "Dashboard" ELSE
                          IF d = w THEN "Widget" ELSE "Layer"]

Body(name, refs, slug) == [name |-> name, refs |-> refs, slug |-> slug]
Asks(do, d, o, body) == [do |-> do, doc |-> d, organization |-> o, body |-> body]
NoBody == [f \in {} |-> None]

Asked ==
    {Asks("save", d, o, Body(n1, {}, None)) : d \in {l, m}, o \in {o1, o2}}
    \cup {Asks("save", l, o1, Body(n1, {m}, 0)),
          Asks("save", w, o1, Body(n1, {l, m}, None)),
          Asks("save", b, o1, Body(n1, {l, w}, None))}
    \cup {Asks("update", w, o1, [refs |-> refs]) : refs \in {{l}, {b}}}
    \cup {Asks("update", b, o1, [refs |-> {m, w}]),
          Asks("update", l, o1, [name |-> n2]),
          Asks("update", l, o1, [slug |-> None])}
    \cup {Asks("remove", d, o1, NoBody) : d \in {l, w, b}}
    \cup {Asks("sync", d, o1, NoBody) : d \in {l, w}}

Symmetry == Permutations(Calls)
=============================================================================
