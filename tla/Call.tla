-------------------------------- MODULE Call --------------------------------
(***************************************************************************)
(* One call of a function of the bridge that keeps no state.  The modules  *)
(* that extend this one define such functions as operators and state what  *)
(* they promise about the arguments in call.                               *)
(***************************************************************************)

CONSTANT Absent   \* an argument or a value that is not given

VARIABLE call     \* [fn |-> the function asked about, ... its arguments ...]

Asks(fn) == call.fn = fn

Given(value)   == value # Absent
FirstOf(a, b)  == IF Given(a) THEN a ELSE b
=============================================================================
