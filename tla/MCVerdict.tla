----------------------------- MODULE MCVerdict -----------------------------
(* Four earlier runs, so that the window of three leaves one of them out and the
   store is full; a run that is compared with them, two that record the same id or
   different ones at the same time, and one that exports, with and without a
   history. *)
EXTENDS Verdict

Good == [passed |-> TRUE, p99 |-> 100, rps |-> 50, errors |-> 0, deadlocks |-> 0]
Slow == [passed |-> TRUE, p99 |-> 111, rps |-> 44, errors |-> 40, deadlocks |-> 0]
Broken == [passed |-> FALSE, p99 |-> 90, rps |-> 60, errors |-> 400, deadlocks |-> 1]
MCFigures == {Good, Slow, Broken}

At(id, c, f) == [run |-> id, cohort |-> c, figures |-> f]
Dull == At(6, "c", Good)
Pair(a, b) == [r \in Runs |-> IF r = "r1" THEN a ELSE b]
SampleKinds == {<<"c", f>> : f \in MCFigures} \cup {<<"d", Good>>}
Pasts == {{At(i, k[i][1], k[i][2]) : i \in 1..4} : k \in [1..4 -> SampleKinds]}
NoExport == [r \in Exporters |-> "off"]

Trends == {[past |-> p, own |-> Pair(At(5, "c", f), Dull), history |-> Pair("required", "off"), wanted |-> NoExport]
              : p \in Pasts, f \in MCFigures \ {Good}}
Races == {[past |-> p, own |-> Pair(At(5, "c", f), At(i, "c", g)), history |-> Pair("on", "on"), wanted |-> NoExport]
              : p \in {{}, {At(i, "c", Good) : i \in 1..4}}, i \in {5, 6}, f \in {Good, Slow}, g \in {Good, Broken}}
Exports == {[past |-> {}, own |-> Pair(At(5, "c", f), Dull), history |-> Pair(h, "off"),
             wanted |-> [r \in Exporters |-> w]]
              : f \in {Good, Broken}, h \in {"off", "on", "required"}, w \in {"advisory", "required"}}

\* Cohorts of one to three agents: what they may send, and what they may be asked for.
Target(s, c, h, x) == [secure |-> s, credentials |-> c, host |-> h, hosts |-> x]
Policy(n, p, h) == [workers |-> n, plaintext |-> p, hosts |-> h]
Willing == Policy(4, FALSE, {})
Public == Target(TRUE, TRUE, "public", {})
Fleet(n, w, t, p, q, c) ==
    [agents |-> 1..n, workers |-> w, target |-> t, calls |-> c,
     policy |-> [a \in 1..n |-> IF a = n THEN p ELSE Willing], quirk |-> [a \in 1..n |-> IF a = n THEN q ELSE "none"]]
Targets == [secure : BOOLEAN, credentials : BOOLEAN, host : {"public", "restricted"}, hosts : {{}, {"restricted"}}]
Policies == [workers : {1, 2}, plaintext : BOOLEAN, hosts : {{}, {"public"}, {"restricted"}}]

MCFleets == {Fleet(2, 3, Public, Willing, "none", 2)} \cup {Fleet(2, 3, Public, Willing, q, 1) : q \in Noticed \cup Unnoticed}
            \cup {Fleet(n, w, Public, Willing, "none", 0) : n \in {1, 3}, w \in {2, 5}}
            \cup {Fleet(2, 4, t, p, "none", 0) : t \in Targets, p \in Policies}

MCRequests == [s \in Sessions |-> IF s = 1 THEN 2 ELSE 1]

\* What a client may write ahead to the server: two lines of every kind, of which one
\* has a character of two bytes in its id, one elsewhere, and one is longer than the limit
\* of three bytes.
Line(k, id, n, w, i) == [kind |-> k, id |-> id, size |-> n, wide |-> w, idWide |-> i]
Lines(id) == {Line(k, id, 2, {}, {}) : k \in {"blank", "garbage", "notification", "unknown", "call", "known"}}
             \cup {Line("call", id, 3, {1}, {1}), Line("unknown", id, 3, {1}, {}), Line("known", id, 4, {}, {})}
MCInputs == {<<a, b>> : a \in Lines("first"), b \in Lines("second")} \cup {<<>>}

MCBeginnings == Trends \cup Races \cup Exports
=============================================================================
