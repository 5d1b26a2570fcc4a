------------------------------ MODULE Outcome ------------------------------
(***************************************************************************)
(* Rust's Result, as the processors use it.  The outcome of a call is Ok   *)
(* or the name of its error; what a successful call changes is a separate  *)
(* operator beside the call.                                               *)
(***************************************************************************)
Ok == "Ok"

(* r ?? s is "r?; s": the first error ends the handler. *)
r ?? s == IF r = Ok THEN s ELSE r

Ensure(cond, error) == IF cond THEN Ok ELSE error
=============================================================================
