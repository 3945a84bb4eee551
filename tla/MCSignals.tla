----------------------------- MODULE MCSignals -----------------------------
(* Instance of Signals for TLC. *)
EXTENDS Signals

SignalCalls == {"fork", "exec", "stop", "other"}
MCRegistrations == {<<1>>, <<1, 2>>}
=============================================================================
