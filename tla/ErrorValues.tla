---------------------------- MODULE ErrorValues ----------------------------
(***************************************************************************)
(* The values errors travel in: util::Error and its category (error.hpp,   *)
(* error.cpp), the outcome a function returns, and the result that         *)
(* as_result makes of the arguments of a completion (asio_as_result.hpp).  *)
(* An error_code is the enumerator it stands for, "UNLISTED" if there is   *)
(* none, or "ABORTED", a code of another category.  An exception is "std"  *)
(* or "foreign", or the code a system_error carries; "null" is none.       *)
(***************************************************************************)

Errors     == {"SUCCESSED", "NO_IMPLEMENTED", "STD_EXCEPTION", "UNKNOWN_EXCEPTION"}
Codes      == Errors \cup {"UNLISTED", "ABORTED"}
Exceptions == {"null", "std", "foreign", "ABORTED"}

\* ErrorCategory::message(), and what the other category says of its code.
message(code) ==
  CASE code = "SUCCESSED"         -> "no error"
    [] code = "NO_IMPLEMENTED"    -> "no implemented"
    [] code = "STD_EXCEPTION"     -> "std exception"
    [] code = "UNKNOWN_EXCEPTION" -> "catching unknown exception"
    [] code = "ABORTED"           -> "operation aborted"
    [] OTHER                      -> "unknown"

\* outcome<T>: a value, an error_code or an exception.
Outcome(kind, what) == [kind |-> kind, what |-> what]
Value               == Outcome("value", "T")

\* what(); that of a system_error is the message of its code.
What(exception) == IF exception = "std" THEN "what()" ELSE message(exception)

\* retrive_error_msg(), which formatter<> and operator<< print.
retrive_error_msg(o) ==
  CASE o.kind = "value"     -> "no error"
    [] o.kind = "error"     -> message(o.what)
    [] o.kind = "exception" -> IF o.what = "foreign" THEN "unknown exception" ELSE What(o.what)

\* The arguments of a completion: void(error_code [, T]), void(exception_ptr [, T]).
Completion(sig, error) == [sig |-> sig, error |-> error]
Completions == [sig : {"error_code"}, error : Codes] \cup [sig : {"exception_ptr"}, error : Exceptions]

\* if (ec), if (ex): zero, or no exception, is success.
Successes   == {"SUCCESSED", "null"}
Succeeds(c) == c.error \in Successes

\* result_signature: only the four signatures above can be wrapped, so the
\* void(result) that as_result itself asks for cannot be wrapped again.
Wrappable(sig) == sig \in {"error_code", "exception_ptr"}

Result(holds) == [sig |-> "result", holds |-> holds]
ResultValue   == Result("value")

\* Mutant: a code is an error whatever its value.
AsResult_Always(c) == Result(c.error)

\* outcome_result_handler::operator(), all four overloads: both kinds of error
\* end up as the error of the result.
AsResult(c) == IF Succeeds(c) THEN ResultValue ELSE Result(c.error)
=============================================================================
