---------------------------- MODULE MCLineEditor ----------------------------
(* Model-checking instance of LineEditor.                                   *)
EXTENDS LineEditor

(* A prompt, a line of output with a byte that is not printable.            *)
ShellOutputs == {<<"b">>, <<"other", "NL">>}
=============================================================================
