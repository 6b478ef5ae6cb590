-------------------------- MODULE MCKeyGenerations -------------------------
(* KeyGenerations with Backspace and one accelerator key.                  *)
EXTENDS KeyGenerations

CONSTANTS bksp, letter

\* SOMMELIER_ACCELERATORS="<Shift>A,": the letter is spelt in upper case and
\* the list ends in a comma.
MCEnv == <<[tags |-> <<"shift">>, name |-> "A"], [tags |-> <<>>, name |-> ""]>>
MCChords == {[modifiers |-> {"Shift"}, key |-> letter]}
MCHostModifiers == {{}, {"Shift"}}
MCKeysymLower == [a |-> "a", A |-> "a", BackSpace |-> "BackSpace"]
MCLayout == [k \in {bksp, letter} |->
               [syms |-> IF k = letter THEN <<"a", "A">> ELSE <<"BackSpace">>,
                repeats |-> TRUE]]

\* No action reads out: states that differ in it alone have the same future,
\* and the properties about out' are about each step, not about states.
MCView == <<reg, mods, open, host, strokes, focused, rejected, keyQ, textQ>>
=============================================================================
