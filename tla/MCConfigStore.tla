--------------------------- MODULE MCConfigStore ---------------------------
(* Instances of ConfigStore for TLC.                                       *)
EXTENDS ConfigStore

Plain == [forms |-> {}, overlap |-> FALSE, writeFails |-> FALSE, crash |-> FALSE,
          envSecret |-> FALSE, switch |-> FALSE, override |-> FALSE, eligible |-> Symbols,
          edits |-> 0, toggles |-> 0, passes |-> 0, losses |-> 0]

Serial ==
    { [Plain EXCEPT !.forms = {"strategy"}, !.override = TRUE, !.writeFails = TRUE,
                    !.edits = 2, !.passes = 1],
      [Plain EXCEPT !.forms = {"strategy"}, !.crash = TRUE, !.edits = 1, !.passes = 1],
      [Plain EXCEPT !.forms = {"limits", "sizing", "portfolio"}, !.writeFails = TRUE,
                    !.edits = 3, !.toggles = 2],
      [Plain EXCEPT !.forms = {"limits", "behavior"}, !.switch = TRUE, !.crash = TRUE,
                    !.edits = 2, !.toggles = 1],
      [Plain EXCEPT !.forms = {"notify"}, !.writeFails = TRUE, !.edits = 2],
      [Plain EXCEPT !.forms = {"notify"}, !.envSecret = TRUE, !.crash = TRUE, !.edits = 2],
      [Plain EXCEPT !.forms = {"ml", "ai"}, !.override = TRUE, !.edits = 2, !.passes = 1],
      [Plain EXCEPT !.forms = {"autotune"}, !.edits = 1, !.passes = 2, !.losses = 2,
                    !.eligible = {CHOOSE s \in Symbols : TRUE}],
      [Plain EXCEPT !.passes = 1, !.losses = 2] }

Overlapping == {[Plain EXCEPT !.forms = {"strategy"}, !.overlap = TRUE, !.edits = 1, !.passes = 1]}
TradingRace == {[Plain EXCEPT !.forms = {"limits"}, !.overlap = TRUE, !.edits = 1, !.toggles = 1]}
AdvisorForm == {[Plain EXCEPT !.forms = {"ai"}, !.override = TRUE, !.edits = 1]}
=============================================================================
