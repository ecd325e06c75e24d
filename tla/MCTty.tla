------------------------------- MODULE MCTty ---------------------------------
(***************************************************************************)
(* Values of the constants with which TLC checks the terminal driver.      *)
(***************************************************************************)
EXTENDS Tty

NoLoad == [readers |-> {}, writers |-> {}, keys |-> {}, modes |-> {}, echo |-> {},
           reads |-> {}, texts |-> {}]

\* Two readers of lines that are being edited.
Editing ==
  [NoLoad EXCEPT !.readers = {"r1", "r2"}, !.reads = {0, 2}, !.echo = {FALSE},
                 !.keys = {"a", "NL", "ERASE", "KILL"}]

\* One reader, and every change of mode with characters typed ahead.
Modes ==
  [NoLoad EXCEPT !.readers = {"r1"}, !.reads = {0, 2}, !.keys = {"a", "NL", "EOF"},
                 !.modes = {"cooked", "cbreak", "raw"}]

\* Two writers, while somebody types.
Output ==
  [NoLoad EXCEPT !.writers = {"w1", "w2"}, !.texts = {<<"x">>, <<"y", "NL">>},
                 !.keys = {"ERASE", "STOP", "START"}]

ThreeLoads == {Editing, Modes, Output}

(***************************************************************************)
(* States are compared without the places of the buffers that hold nothing.*)
(* Once input has been overrun every place of its buffer may be read.      *)
(***************************************************************************)
LiveTty ==
  << load, [k \in 1 .. (IF "input" \in spoiled THEN TY_IBUFLEN ELSE Len(typed)) |-> Unread(k)],
     tyihead, tyitail, tyicursor, typed, unsignalled, smashed, modeVars, tyohead, tyotail, written,
     [k \in DOMAIN written |-> tyobuff[(tyohead + k - 1) % TY_OBUFLEN]],
     lineVars, unfinished, count, queue, call, spoiled >>
=============================================================================
