--------------------------- MODULE MCMockTransport ---------------------------
(* A buffer that just holds a status interval of two digits and its        *)
(* terminating zero.                                                       *)
EXTENDS MockTransport
==============================================================================
