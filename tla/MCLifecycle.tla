----------------------------- MODULE MCLifecycle ----------------------------
(* Lifecycle for TLC: full, documented, short and bad files, and none.       *)
EXTENDS Lifecycle

Full == [plain |-> "own", headers |-> "own", site |-> "own", address |-> "line", comPort |-> Absent,
         events |-> {<<"ValueChanged", "callbackValueChanged">>, <<"other", "callbackMqtt">>},
         pins |-> TRUE]
Documented == [Blank EXCEPT !.plain = "own", !.comPort = "None",
                            !.events = {<<"none", "callbackMqtt">>}]
Short == [Blank EXCEPT !.plain = "own", !.address = NoList]
MCEdits == {Written(Full), Written(Documented), Written(Short), Bad, Missing}
=============================================================================
