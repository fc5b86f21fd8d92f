----------------------------- MODULE MCLoadTest -----------------------------
EXTENDS LoadTest

\* One plan per shape of scenario: full flow with and without the midpoint,
\* the storms with a seed, the lax and the strict policies, and `quick`.
MCPlans ==
    [suite |-> {<<"scenario-a">>, <<"replay-storm", "receiver-disabled">>,
                <<"mixed", "start-only">>, <<"wrong-code-storm", "start-only">>},
     chain |-> {<<"inbound-only">>, <<"start-only", "replay-storm">>, <<"status-polling">>,
                <<"scenario-c">>}]

=============================================================================
