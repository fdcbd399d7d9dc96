---------------------------- MODULE MCHttpRetry ----------------------------
(* HttpRetry with the policy of all callers, one status of every class the  *)
(* code tells apart, and Retry-After values at the edges of what it parses. *)
EXTENDS HttpRetry

MCStatuses == {200, 302, 404, 408, 429, 503}
MCAfters == {-1, 1, 3600, 7200}
=============================================================================
