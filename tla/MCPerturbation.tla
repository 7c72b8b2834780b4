--------------------------- MODULE MCPerturbation ---------------------------
EXTENDS Perturbation

MCKind == {"impulse", "step"}
MCDuration == [kind \in MCKind |-> IF kind = "step" THEN 3 ELSE 1]
MCBattery == <<"impulse", "step">>
=============================================================================
