-------------------------- MODULE MCEpistemicLedger --------------------------
(* TLC instances of EpistemicLedger. *)
EXTENDS EpistemicLedger, TLC

E(at, basis, envelope) == [kind |-> "evidence", at |-> at, basis |-> basis, envelope |-> envelope]
C(at, basis, causal, cites, assumes, supersedes, coordinate) ==
    [kind |-> "claim", at |-> at, basis |-> basis, causal |-> causal, cites |-> cites, assumes |-> assumes,
     supersedes |-> supersedes, coordinate |-> coordinate, envelope |-> {}]
W(at, proves, cites, supported, change, transport) ==
    [kind |-> "witness", at |-> at, proves |-> proves, cites |-> cites, supported |-> supported,
     change |-> change, transport |-> transport]
D(output, claims, evidence, witnesses) ==
    [output |-> output, claims |-> claims, evidence |-> evidence, witnesses |-> witnesses]
Withdrawn(event, at) == {[event |-> event, effectiveAt |-> at]}
None == <<"none", "none">>

\* A bill, and an estimate its provider withdraws at 3; a claim on each, a price
\* billed on the estimate or a later causal claim may revise its cost, a causal
\* effect, and what could license them; an assumption, an action that depends on
\* the effect, and the effect carried elsewhere.
Study ==
    "bill" :> E(1, {"billed"}, {})
 @@ "estimate" :> E(1, {"estimated"}, Withdrawn("v1", 3))
 @@ "cost" :> C(1, "estimated", FALSE, {"estimate"}, {}, {}, "x")
 @@ "invoice" :> C(1, "billed", FALSE, {"bill"}, {}, {}, "x")
 @@ "price" :> [C(2, "billed", FALSE, {"estimate"}, {"norms"}, {"cost"}, "x") EXCEPT !.envelope = Withdrawn("v1", 3)]
 @@ "effect" :> C(2, "billed", TRUE, {"bill"}, {}, {}, "x")
 @@ "revised" :> C(3, "billed", TRUE, {"bill"}, {}, {"cost"}, "x")
 @@ "id" :> W(2, "causal_identification", {"bill"}, TRUE, None, None)
 @@ "rebase" :> W(2, "monetary_rebasing", {"bill"}, TRUE, <<"estimated", "billed">>, None)
 @@ "norms" :> [kind |-> "assumption", at |-> 1, cites |-> {"bill"}]
 @@ "elsewhere" :> C(2, "none", TRUE, {"estimate"}, {}, {}, "y")
 @@ "carry" :> W(2, "causal_transport", {"estimate"}, TRUE, None, <<"effect", "elsewhere">>)
 @@ "action" :> [kind |-> "decision", at |-> 3]

Steps ==
    {D("price", {"cost"}, {}, {"rebase"}), D("price", {"invoice"}, {}, {}),
     D("effect", {"invoice"}, {}, {"id"}), D("effect", {"revised"}, {}, {}), D("effect", {}, {"bill"}, {}),
     D("effect", {"invoice", "price"}, {}, {"id"}), D("revised", {"effect"}, {}, {}), D("revised", {"invoice"}, {}, {"id"}),
     D("elsewhere", {"effect"}, {}, {"carry"})}
Acts == {Edge("effect", "action", "depends_on")}
=============================================================================
