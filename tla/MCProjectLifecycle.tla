------------------------ MODULE MCProjectLifecycle ------------------------
(* Instances of ProjectLifecycle: one or two node pools, each with a         *)
(* suggested and a suffixed queue name.                                      *)
EXTENDS ProjectLifecycle, TLC

CONSTANTS r1, r2, q1, q2, x1, x2, u1, u2

OnePool == r1 :> q1
OneSuffix == r1 :> {x1}
NoneHeld == [n \in {} |-> Other]
HeldByOther == q1 :> Other
HeldByTwin == q1 :> Twin

Setup(mode, blocking, external, fresh, allowed) ==
    [mode |-> mode, blocking |-> blocking, external |-> external, fresh |-> fresh,
     edits |-> allowed]
VariedSetups ==
    {Setup("create", TRUE, FALSE, FALSE, {"create", "delete", "start", "stop", "force", "override"}),
     Setup("create", FALSE, TRUE, TRUE, {"pools", "seize"}),
     Setup("create", FALSE, FALSE, FALSE,
           {"delete", "create", "parents", "seize", "enforce", "usage"}),
     Setup("create", FALSE, TRUE, FALSE, {"dropQueue", "overrideQueue", "pools", "dropLimits"}),
     Setup("adopt", FALSE, FALSE, TRUE, {"dropNamespace", "delete"}),
     Setup("adopt", FALSE, FALSE, FALSE, {"dropNamespace", "makeNamespace", "delete"}),
     Setup("require", TRUE, TRUE, FALSE,
           {"bindings", "limits", "dropBinding", "dropLimits", "dropNamespace", "delete"})}
LivelySetups ==
    {Setup("create", TRUE, FALSE, FALSE, {"create", "delete", "start", "force"}),
     Setup("create", FALSE, FALSE, FALSE, {"pools", "dropQueue", "delete"}),
     Setup("adopt", FALSE, FALSE, TRUE, {}),
     Setup("require", TRUE, TRUE, FALSE, {"bindings", "limits", "dropNamespace"})}
PlainSetup == {Setup("create", FALSE, FALSE, TRUE, {})}
=============================================================================
