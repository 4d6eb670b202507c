---------------------------- MODULE MCScenarios ----------------------------
(* Up to two workers, rounds, levels or tries, and two calls of each caller in
   a window; every scenario with the parameters that take it another way. *)
EXTENDS Scenarios

Defaults == [kind |-> "soak", count |-> 1, calls |-> 2, most |-> 2, to |-> 2, step |-> 1, warmup |-> FALSE,
             timed |-> {1, 2, 3}, patterns |-> "steps", abort |-> FALSE, detect |-> FALSE, budget |-> 50, payloads |-> {},
             stream |-> TRUE, factory |-> TRUE, gated |-> FALSE, embedded |-> FALSE]

Contexts == {[Defaults EXCEPT !.factory = f, !.embedded = e] : f \in BOOLEAN, e \in BOOLEAN}

MCPlans ==
    {[c EXCEPT !.kind = k, !.count = n, !.gated = g] :
        c \in Contexts, k \in {"deadlock_probe", "race_check"}, n \in 0..2, g \in BOOLEAN}
    \cup {[c EXCEPT !.kind = "cold_start", !.count = n, !.warmup = w] : c \in Contexts, n \in 0..2, w \in BOOLEAN}
    \cup {[c EXCEPT !.kind = "version_matrix", !.count = 2] : c \in Contexts}
    \cup {[c EXCEPT !.kind = "fuzzer", !.count = 2, !.payloads = p] :
             c \in Contexts, p \in {{}, {"Nested"}, {"EmptyBody"}}}
    \cup {[c EXCEPT !.kind = "soak", !.count = n, !.timed = t] : c \in Contexts, n \in {1, 2}, t \in {{}, {1}}}
    \cup {[c EXCEPT !.kind = "sustained", !.count = n, !.gated = g, !.patterns = p,
                       !.abort = (n = 1)] :
             c \in Contexts, n \in 0..2, g \in BOOLEAN, p \in {"none", "steps"}}
    \cup {[c EXCEPT !.kind = "ramp", !.detect = d, !.step = s, !.most = IF c.factory THEN 1 ELSE 2] :
             c \in Contexts, d \in BOOLEAN, s \in 0..1}
    \cup {[c EXCEPT !.kind = "spike", !.timed = t, !.most = IF c.factory THEN 1 ELSE 2] :
             c \in Contexts, t \in {{2}, {1, 2}}}

\* The fuzzer over a transport that cannot send raw bytes.
HttpFuzz == {[Defaults EXCEPT !.kind = "fuzzer", !.count = n, !.payloads = {p}, !.stream = FALSE] :
                n \in 1..2, p \in RawPayloads}

\* A ramp with a breaking point, as Run::execute drives it.
PooledRamp == {[Defaults EXCEPT !.kind = "ramp", !.detect = TRUE, !.most = 1]}

MCPayloads == [value : {"x", "y"}, order : {1, 2}]
=============================================================================
