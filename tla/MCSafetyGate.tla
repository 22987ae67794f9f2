----------------------------- MODULE MCSafetyGate -----------------------------
(* Three layers that share questions as layers 2, 3 and 5 do: the pair is      *)
(* needed by the first and wanted by the second, the report is wanted by the   *)
(* first two and needed by the last.                                           *)
EXTENDS SafetyGate

MCOrder == <<"liquidity", "holders", "thirdparty">>
MCQuestions == {"pair", "report"}
MCNeeds == [liquidity |-> {"pair"}, holders |-> {}, thirdparty |-> {"report"}]
MCFollows == [liquidity |-> {}, holders |-> {}, thirdparty |-> {}]
MCWants == [liquidity |-> {"report"}, holders |-> {"pair", "report"},
            thirdparty |-> {}]
=============================================================================
