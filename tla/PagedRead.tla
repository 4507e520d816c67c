----------------------------- MODULE PagedRead -----------------------------
(***************************************************************************)
(* What paging promises, whoever publishes the layers meanwhile.  A query  *)
(* reads its layers one after the other, each from its first record on; a  *)
(* page is what follows, at the moment it is served, the records already   *)
(* counted.  Nothing else enters the result: no page twice, none from the  *)
(* position of another layer, and no result without every layer's end.     *)
(* There is no version: pages of one result may be of different editions.  *)
(***************************************************************************)
EXTENDS Integers, Sequences, SequencesExt

CONSTANTS
    Products,         \* the queries: their layers, and whether they are ordered
    Layers,           \* the layers there are
    Contents,         \* what a layer may hold
    Runaway,          \* may the server repeat a layer's beginning, with no end
    Taken(_, _)       \* what a query takes from a page

VARIABLES
    layers,       \* what each layer holds
    state,        \* "idle", "paging", "ok", "failed"
    product,      \* the query
    todo,         \* the layers to read, the one being read first
    position,     \* the records of that layer counted so far
    result        \* what was taken

readVars == <<state, product, todo, position, result>>
vars == <<layers, readVars>>

Page(records, ended) == [records |-> records, ended |-> ended]

(* Without an order to keep, each page may see the layer arranged differently. *)
Arrangements(p, layer) == IF p.ordered THEN {layer} ELSE {layer, Reverse(layer)}

PagesOf(layer) ==
    {Page(SubSeq(layer, position + 1, n), FALSE) : n \in position + 1 .. Len(layer) - 1}
    \cup {Page(SubSeq(layer, position + 1, Len(layer)), TRUE)}
    \cup {Page(SubSeq(layer, 1, n), FALSE) : n \in {k \in 1 .. Len(layer) : Runaway}}

Init ==
    /\ layers \in [Layers -> Contents]
    /\ state = "idle"
    /\ product = [layers |-> <<>>, raw |-> FALSE, ordered |-> TRUE]
    /\ todo = <<>>
    /\ position = 0
    /\ result = <<>>

Publish ==
    /\ layers' \in [Layers -> Contents]
    /\ UNCHANGED readVars

Start(p) ==
    /\ state # "paging"
    /\ state' = IF p.layers = <<>> THEN "failed" ELSE "paging"
    /\ product' = p
    /\ todo' = p.layers
    /\ position' = 0
    /\ result' = <<>>
    /\ UNCHANGED layers

Take(page) ==
    /\ state = "paging"
    /\ result' = result \o Taken(product, page.records)
    /\ IF page.ended
         THEN /\ todo' = Tail(todo)
              /\ position' = 0
              /\ state' = IF Len(todo) = 1 THEN "ok" ELSE "paging"
         ELSE /\ position' = position + Len(page.records)
              /\ UNCHANGED <<todo, state>>
    /\ UNCHANGED <<layers, product>>

Fail ==
    /\ state = "paging"
    /\ state' = "failed"
    /\ result' = <<>>
    /\ UNCHANGED <<layers, product, todo, position>>

Next ==
    \/ Publish
    \/ Fail
    \/ \E p \in Products : Start(p)
    \/ state = "paging" /\ \E l \in Arrangements(product, layers[Head(todo)]) :
         \E page \in PagesOf(l) : Take(page)

Spec == Init /\ [][Next]_vars
=============================================================================
