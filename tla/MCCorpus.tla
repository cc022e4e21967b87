------------------------------ MODULE MCCorpus ------------------------------
(* Two directories; two attempts of a NodePort (a RST of the node beside a    *)
(* timeout), of a pod whose RST is its own, and of a hostPort.                *)
EXTENDS Corpus, TLC

Probe(kind, declared, basis, raw, baseRaw) ==
    [kind |-> kind, declared |-> declared, basis |-> basis, raw |-> raw, baseRaw |-> baseRaw]

MCMeasurements ==
    {Probe("nodeport", "deny", "policy", <<"timeout", "refused">>, <<"refused", "open">>),
     Probe("pod-ip", "deny", "policy", <<"refused", "error">>, <<"refused", "refused">>),
     Probe("hostport", "allow", "undefined-snat", <<"error", "refused">>, <<"error", "refused">>)}

Symmetry == Permutations(Dirs)
=============================================================================
