------------------------------- MODULE MCDrive -------------------------------
(* The HMI of the basic controller without the distance button, at one     *)
(* update per 500 ms, the delay of a push button.  Hence Delay = 1, and    *)
(* Interval = 0, as 250 ms are less than a step: a button repeats in the   *)
(* second update after it went down, and then in every one.                *)
EXTENDS Drive

MCSwitches == {"aeb", "enable", "lka"}
MCPushButtons == {"cancel", "minus", "plus", "resume"}
MCRepeating == {"minus", "plus"}
MCConfig == [driver |-> FALSE, fullStop |-> TRUE, noisy |-> FALSE, ghost |-> TRUE,
             abortOnFailure |-> FALSE, pressed |-> {"aeb", "enable", "resume"}, steps |-> 4]
MCConfigs == {MCConfig, [MCConfig EXCEPT !.driver = TRUE, !.fullStop = FALSE, !.steps = 3],
              [MCConfig EXCEPT !.noisy = TRUE, !.fullStop = FALSE, !.pressed = {"plus"}, !.steps = 6],
              [MCConfig EXCEPT !.ghost = FALSE, !.abortOnFailure = TRUE, !.driver = TRUE,
                               !.pressed = {"lka"}]}
=============================================================================
