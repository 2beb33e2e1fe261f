---------------------------- MODULE MCEvaluation ---------------------------
\* Instances of Evaluation: one day of history, rows that come in time or late,
\* and analyses that set a target only one source reaches, or a stop the price may
\* pass.  The scoring is followed in full for flow anomalies, and each other
\* detector with the inputs it depends on.
EXTENDS Evaluation

Long == [action |-> "consider long", horizon |-> "swing", confidence |-> 3,
         entry |-> 100, stop |-> 90, target |-> 111]
Short == [action |-> "consider short", horizon |-> "swing", confidence |-> 9,
          entry |-> NoPrice, stop |-> 110, target |-> 90]

Scalp == [Long EXCEPT !.horizon = "scalp"]
Wait == [action |-> "wait", horizon |-> "swing", confidence |-> 5,
         entry |-> NoPrice, stop |-> NoPrice, target |-> NoPrice]

MCHistory == <<1>>
MCAnalyses == [f \in Detectors |->
    CASE f = "flow_anomaly" -> {Long}
      [] f = "magnitude" -> {Undecided, Scalp, Wait}
      [] f = "acceleration" -> {Undecided, Short}
      [] f = "divergence" -> {Undecided, Short}
      [] f = "regime_shift" -> {Long}]
MCFlowValues == [f \in Detectors |-> {-3, 3}]
MCLastWorkDay == [f \in Detectors |-> IF f = "divergence" THEN 5 ELSE 4]
MCVelocities == [f \in Detectors |-> IF f = "magnitude" THEN {0, Uncounted} ELSE IF f = "regime_shift" THEN {0, 55, Uncounted} ELSE {0}]
MCUpSets == [f \in Detectors |-> IF f = "flow_anomaly" THEN {{"binance"}, Sources}
                                 ELSE IF f = "acceleration" THEN {{}, {"binance"}, {"sosovalue"}}
                                 ELSE IF f = "divergence" THEN {{}, {"binance"}}
                                 ELSE {Sources}]
MCMaxMoves == [f \in Detectors |-> IF f = "flow_anomaly" THEN 2 ELSE IF f = "acceleration" THEN 0 ELSE 1]
MCMaxCycles == [f \in Detectors |-> 2]
MCMaxOpen == [f \in Detectors |-> IF f \in {"magnitude", "acceleration", "regime_shift"} THEN 2 ELSE 1]
MCPremium == [s \in Sources |-> IF s = "binance" THEN 1 ELSE 0]
MCEthOf == [p \in Prices |-> (p + 300) \div 4]
MCRegimePercent == [r \in Regimes |-> IF r = "ACCUMULATION" THEN 80 ELSE 100]
===========================================================================
