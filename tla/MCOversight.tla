---------------------------- MODULE MCOversight ----------------------------
\* Three engines: one every beat, meta-cognition, and one of low priority whose
\* period is longer than a window.
EXTENDS Oversight

MCEngines == {"raw_mi", Meta, "plasticity_tracker"}
MCPeriod == "raw_mi" :> 1 @@ Meta :> 3 @@ "plasticity_tracker" :> 4
MCThreshold == "raw_mi" :> 15 @@ Meta :> 15 @@ "plasticity_tracker" :> 50
MCMultiplier == "raw_mi" :> 2 @@ Meta :> 2 @@ "plasticity_tracker" :> 4
MCBudgets == {10, 20, 60}
=============================================================================
