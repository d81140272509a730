------------------------------- MODULE Calls --------------------------------
(***************************************************************************)
(* The callers of the pure functions.  A state is one call with its        *)
(* arguments, or none; what a function computes from them is said by the   *)
(* invariants of the modules that extend this one.                         *)
(***************************************************************************)
VARIABLE call

NoCall == [on |-> "none", args |-> <<>>]

Idle == call = NoCall

Call(function, Arguments) ==
  /\ call.on = "none"
  /\ \E args \in Arguments : call' = [on |-> function, args |-> args]

Return == call.on # "none" /\ call' = NoCall

=============================================================================
