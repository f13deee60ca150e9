----------------------------- MODULE MCConsole -----------------------------
(***************************************************************************)
(* A screen of three rows of three characters, and the shell's commands in *)
(* the order kernel_main registers them, each with a name of one letter.   *)
(* The clock has minutes of three seconds and hours of two minutes; the    *)
(* times are the last second before noon, before ten and before midnight.  *)
(***************************************************************************)
EXTENDS Console

MCCommands == <<[name |-> <<"h">>, does |-> "help"],
                [name |-> <<"s">>, does |-> "systime"],
                [name |-> <<"m">>, does |-> "memory"],
                [name |-> <<"c">>, does |-> "clear"],
                [name |-> <<"d">>, does |-> "date"]>>
MCLetters == {"h", "s", "m", "c", "d"}
MCPrompt == <<"U", "$">>
MCTimes == {12 * 6 - 1, 10 * 6 - 1, 24 * 6 - 1}
MCFormats == {[binary |-> FALSE, h24 |-> FALSE], [binary |-> TRUE, h24 |-> TRUE]}
=============================================================================
