------------------------------ MODULE MCInvokeStream ------------------------------
(* InvokeStream on small instances: the providers, and whether calls carry a *)
(* deadline or stream, differ from one cfg to the next.                      *)
EXTENDS InvokeStream

AnyBoolean == {TRUE, FALSE}
Always == {TRUE}
=============================================================================
