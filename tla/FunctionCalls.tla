---------------------------- MODULE FunctionCalls ----------------------------
(***************************************************************************)
(* Calls of functions without a state: a step is one call, the next step   *)
(* forgets it.  The modules of such functions extend this one and say what *)
(* is called with what.                                                    *)
(***************************************************************************)

VARIABLE call   \* the function called last, its operands and what it gave

Idle == [fn |-> "none"]

Called(fn) == call.fn = fn

Call(fn, args, result) == call' = [fn |-> fn, args |-> args, result |-> result]

Return == call # Idle /\ call' = Idle
=============================================================================
