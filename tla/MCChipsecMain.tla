--------------------------- MODULE MCChipsecMain ---------------------------
(* Small instances of ChipsecMain for TLC. *)
EXTENDS ChipsecMain

Plain == [failfast |-> FALSE, return_codes |-> FALSE, no_driver |-> FALSE,
          ignore_platform |-> FALSE, load_config |-> TRUE, list_tags |-> FALSE,
          user_tags |-> FALSE, module |-> {}, exclude |-> {}]

\* One command line per switch that changes the control flow, and the pairs that interact.
MCSwitches == {Plain,
               [Plain EXCEPT !.failfast = TRUE],
               [Plain EXCEPT !.no_driver = TRUE],
               [Plain EXCEPT !.ignore_platform = TRUE],
               [Plain EXCEPT !.load_config = FALSE, !.exclude = {2}],
               [Plain EXCEPT !.user_tags = TRUE],
               [Plain EXCEPT !.list_tags = TRUE, !.no_driver = TRUE],
               [Plain EXCEPT !.return_codes = TRUE],
               [Plain EXCEPT !.return_codes = TRUE, !.module = {1}],
               [Plain EXCEPT !.module = {3}, !.exclude = {3}]}

\* -m names one module, without and with -rc.
MCExitStatus == {[Plain EXCEPT !.module = {1}],
                 [Plain EXCEPT !.return_codes = TRUE, !.module = {1}]}
MCReturnCodes == {[Plain EXCEPT !.return_codes = TRUE]}
=============================================================================
