------------------------------- MODULE Outcome -------------------------------
(***************************************************************************)
(* The status an operation of a filesystem returns, with what it returns   *)
(* through a pointer when that is STATUS_SUCCESS.                          *)
(***************************************************************************)
Ok(x) == [status |-> "success", value |-> x]
Fail(s) == [status |-> s, value |-> 0]
Succeeds(r) == r.status = "success"

(* "if (ret != STATUS_SUCCESS) return ret;", and then what follows.        *)
Then(r, Next(_)) == IF Succeeds(r) THEN Next(r.value) ELSE r
=============================================================================
