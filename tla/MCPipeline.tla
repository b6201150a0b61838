----------------------------- MODULE MCPipeline -----------------------------
(* Pipeline on a small instance, without symmetry: liveness is checked,    *)
(* and a replica is named in the scenarios.                                *)
EXTENDS Pipeline

CONSTANT p1

On(R, P, B) == [routes |-> R, replicas |-> P, backends |-> B]

\* The two halves of a login on one replica, the second on all replicas, and
\* one route for every other kind of chain, with backends that come and go.
MCScenarios == {
    On({"login", "mfaVerify"}, {p1}, {}),
    On({"mfaVerify"}, Replicas, {}),
    On({"register"}, {p1}, {"redis"}),
    On({"writeUser"}, {p1}, {"database"}),
    On({"otpVerify"}, {p1}, {"database", "redis"}),
    On({"ready"}, {p1}, {"database", "redis"})}
=============================================================================
