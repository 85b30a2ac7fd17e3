------------------------------- MODULE Results --------------------------------
(***************************************************************************)
(* What a function that takes something from the front of its input returns*)
(* in Go: a value, with what is left of the input, or an error.  An error  *)
(* ends what the caller does.                                              *)
(***************************************************************************)

Error == [ok |-> FALSE]
Ok(value, rest) == [ok |-> TRUE, value |-> value, rest |-> rest]
Then(result, Next(_, _)) == IF result.ok THEN Next(result.value, result.rest) ELSE Error
===============================================================================
