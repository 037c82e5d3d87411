--------------------------- MODULE MCKrmOperator ---------------------------
(* Instances of KrmOperator for TLC.                                        *)
EXTENDS KrmOperator

CONSTANTS gone

MCOperands == <<"np", "pga">>
MCKinds == [np |-> {"deployment"}, pga |-> {"account", "monitor", "vpa"}]

\* The KRMConfig as it is created.
Asked(enabled) ==
    [uid |-> 1, gen |-> 1, rev |-> 1, ns |-> "a", enabled |-> enabled, vpa |-> FALSE, webhooks |-> TRUE,
     conditions |-> Fresh]

\* A new installation: nothing is there.
Nothing == [k \in Keys |-> Gone]

\* The operator starts again where everything is installed.
There(config) ==
    [k \in Keys |-> IF k.ns = config.ns /\ k.op \in config.enabled /\ (k.kind = "vpa" => config.vpa)
                    THEN [rev |-> config.rev, volume |-> k.kind = "deployment" /\ config.webhooks,
                          owner |-> config.uid, up |-> k.kind = "deployment",
                          rolled |-> IF k.kind = "deployment" THEN <<config.rev, config.webhooks>> ELSE <<0, FALSE>>]
                    ELSE Gone]
Done(config) == [config EXCEPT !.conditions = [c \in DOMAIN Fresh |-> [status |-> c # "Reconciling", gen |-> 1]]]

New1(kinds, changes, breaks) ==
    [config |-> Asked({"np", "pga"}), objects |-> Nothing, crds |-> {}, kinds |-> kinds,
     edits |-> changes, failures |-> breaks]
Old1(enabled, kinds, changes, breaks) ==
    [config |-> Done(Asked(enabled)), objects |-> There(Asked(enabled)), crds |-> Optional,
     kinds |-> kinds, edits |-> changes, failures |-> breaks]

\* One change and one failure, or two changes; changes that touch every object have the
\* failure with one operand and go without it with both.
Local == {{"enable"}, {"autoscale"}, {"delete"}, {"tamper"}, {"orphan"}, {"fail"}, {"kai"}, {"missing"}}
Both == {Old1({"np", "pga"}, kinds, 1, 1) : kinds \in Local}
        \cup {Old1({"pga"}, {kind}, 1, 1) : kind \in {"data", "namespace", "remove"}}
        \cup {Old1({"np"}, {kind}, 1, 1) : kind \in {"data", "remove"}}
        \cup {Old1({"np", "pga"}, {kind}, 1, 0) : kind \in {"data", "namespace", "webhooks"}}
        \cup {Old1({"np"}, {"remove", "restore"}, 2, 0), Old1({"pga"}, {"namespace"}, 2, 0)}
        \cup {New1({"monitor", "vpa"}, 1, 0), New1({}, 0, 1)}

Fresh1 == {New1({}, 0, 1)}
Webhooks == {Old1({"np", "pga"}, {"webhooks"}, 1, 0)}
Moves == {Old1({"np", "pga"}, {"namespace"}, 2, 0)}
=============================================================================
