------------------------------ MODULE ContractMC ------------------------------
(* A small instance of Contract. *)
EXTENDS Contract

CONSTANTS n1, n2, bright, dim

Good(n) == AsPayload(n)
Grown(n) == [Good(n) EXCEPT !.keys = @ \cup {"id"}]
Shrunk(n) == [Good(n) EXCEPT !.keys = @ \ {"created_at"}]
Mistyped(n) == [Good(n) EXCEPT !.typed = FALSE]

(* The captured contract, and one drift of each kind; where entries drift, an
   entry that did not stands beside the one that did. *)
Lists ==
    {<<>>, <<Good(n1)>>, <<Good(n1), Good(n2)>>, <<Good(n1), Grown(n2)>>,
     <<Grown(n1), Shrunk(n2)>>, <<Good(n1), Shrunk(n2)>>, <<Mistyped(n1)>>}

Shaped(keys, model, list, entries, settings) ==
    [object |-> TRUE, keys |-> keys, model |-> model, list |-> list,
     entries |-> entries, settings |-> settings]

AllDocuments ==
    UNION {
        {Shaped(DocumentKeys, "mini-v1", TRUE, l, s) : l \in Lists}
        \cup {Shaped(DocumentKeys, m, TRUE, <<>>, s) : m \in {"mini-v2", "missing"}}
        \cup {Shaped(k, "mini-v1", TRUE, <<Good(n1)>>, s) :
                 k \in {DocumentKeys \cup {"plus"}, DocumentKeys \ {"version"}}}
        \cup {Shaped(DocumentKeys, "mini-v1", FALSE, <<>>, s)}
        : s \in Settings}
=============================================================================
