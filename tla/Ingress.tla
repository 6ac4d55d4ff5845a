------------------------------- MODULE Ingress -------------------------------
(***************************************************************************)
(* What gateway/ingress.py lets through to the router.  A call is          *)
(*   bearer    "ours", "other", "empty" or "none"                          *)
(*   media     "json" or "other"                                           *)
(*   declared  its Content-Length, None without one, -1 when malformed     *)
(*   chunks    the sizes in which its body comes in                        *)
(*   ends      "whole", or "hangup" when the client goes away              *)
(*   content   what the body is: "object", "array" or "garbage"            *)
(*   envelope  its _hermes_auto: None, "scalar", "empty", "foreign" for    *)
(*             another protocol version, "unfit" or "fits" for the schema  *)
(*   schema    whether the rest fits the request schema, "yes" or "no"     *)
(***************************************************************************)
EXTENDS Integers, SequencesExt

CONSTANTS None,
          MaxBytes,     \* the cap on a body
          Strict        \* strict_validation: "yes" or "no"

Read(chunks, n) == FoldLeft(LAMBDA total, size: total + size, 0, SubSeq(chunks, 1, n))

\* Mutant: what was announced is what is enforced.
OversizedAsDeclared(call) == call.declared # None /\ call.declared > MaxBytes

\* The running total decides, wherever it passes the cap.
Oversized(call) ==
    \/ call.declared # None /\ call.declared > MaxBytes
    \/ \E n \in DOMAIN call.chunks: Read(call.chunks, n) > MaxBytes

\* authenticate(): without a token of its own the gateway refuses everybody.
Authenticated(call, token) == token # None /\ call.bearer = "ours"

\* enforce_limits(): one status for each way to fail, in this order.
Limits(call) ==
    IF call.media # "json" THEN 415
    ELSE IF Oversized(call) THEN 413
    ELSE IF call.ends = "hangup" THEN 400
    ELSE 200

\* parse_body(), strip_envelope(), validate_envelope(), validate_request()
WellFormed(call) ==
    /\ call.content = "object"
    /\ call.envelope \in {None, "empty", "fits"}
    /\ Strict = "yes" => call.schema = "yes"

Verdict(call, token) ==
    IF ~Authenticated(call, token) THEN 401
    ELSE IF Limits(call) # 200 THEN Limits(call)
    ELSE IF ~WellFormed(call) THEN 400
    ELSE 200

=============================================================================
