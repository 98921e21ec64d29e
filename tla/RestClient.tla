------------------------------ MODULE RestClient ------------------------------
(***************************************************************************)
(* How a call of Cloudflare's REST API can end for its caller, and what    *)
(* the client (scripts/cloudflare-d1-rest.mjs) makes of it.  A call that   *)
(* is applied at all is applied before its answer is lost.                 *)
(***************************************************************************)

(* "ok": 2xx and success; "refused": 4xx, or 2xx without success;          *)
(* "missing": 404; "limited": 429; "failing": 5xx; "lost": no answer;      *)
(* "garbled": 2xx with a body that does not parse; "invalid": success with *)
(* a result of the wrong shape.                                            *)
Answers == {"ok", "refused", "missing", "limited", "failing", "lost", "garbled", "invalid"}

(* Whether the call behind an answer took effect: an answer may leave both. *)
Effects(a) == IF a \in {"ok", "invalid"} THEN {TRUE}
              ELSE IF a \in {"refused", "missing", "limited"} THEN {FALSE}
              ELSE BOOLEAN

MayHaveSucceededParsed(a) == a \in {"failing", "lost"}   \* mutant: a 2xx that does not parse
MayHaveSucceeded(a) == a \in {"failing", "lost", "garbled"}

Retryable(a) == a \in {"limited", "failing", "lost"}
=============================================================================
