------------------------------- MODULE MCUart -------------------------------
(* Instances of Uart for TLC. *)
EXTENDS Uart

MCThreads   == {"cli"}
MCProcesses == {"p"}

\* Texts longer than the ring, with line feeds in different places.
MCTexts == {<<"a", "\n", "a", "a">>, <<"\n", "a", "\n">>, <<"a", "a", "a">>}

MCDebug == {<<"a">>}
MCInputs == {<< >>, <<"a">>, <<"\n", "a">>}
=============================================================================
