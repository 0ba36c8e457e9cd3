------------------------------ MODULE Decision ------------------------------
(***************************************************************************)
(* src/app/decision/engine.py: the two thresholds and the verdict.         *)
(***************************************************************************)
EXTENDS Domain

CONSTANTS
    MonitorThreshold,   \* MONITOR_THRESHOLD of the settings
    BlockThreshold      \* BLOCK_THRESHOLD of the settings

\* load_settings converts both with int() and validates neither, so their
\* order is not assumed.
ASSUME ThresholdAssumption ==
    /\ MonitorThreshold \in Int
    /\ BlockThreshold \in Int

Verdict == {"ALLOW", "MONITOR", "BLOCK"}

decide(score) ==
    IF score >= BlockThreshold THEN "BLOCK"
    ELSE IF score >= MonitorThreshold THEN "MONITOR"
    ELSE "ALLOW"
=============================================================================
