--------------------------- MODULE SmokeTransaction ---------------------------
(***************************************************************************)
(* The last step of the delivery (scripts/authenticated-business-smoke.mjs): *)
(* the smoke identity logs in through the deployed web Worker, reads, logs *)
(* out and finds its session revoked.  Any answer may be lost or wrong,    *)
(* and the logout under test may answer without deleting the session.      *)
(***************************************************************************)
VARIABLES
  session,   \* whether the login of this run has a session
  tx         \* the local variables of verifyAuthenticatedBusinessTransaction

smokeVars == <<session, tx>>

SmokeInit ==
  /\ session = FALSE
  /\ tx = [at |-> "page", cookie |-> FALSE, logoutAttempted |-> FALSE, failed |-> FALSE,
           verdict |-> "none"]

Proceed(at) == tx' = [tx EXCEPT !.at = at]
Finally == tx' = [tx EXCEPT !.at = "finally", !.failed = TRUE]

(* A step that reads: it goes on only with the answer it expects.          *)
ReadStep(at, next, expected) ==
  /\ tx.at = at
  /\ (expected /\ Proceed(next)) \/ Finally
  /\ UNCHANGED session

(* The cookie counts as soon as it is seen, before the rest of the answer. *)
SmokeLogin ==
  /\ tx.at = "login"
  /\ \E opened, seen, valid \in BOOLEAN :
       /\ session' = opened
       /\ seen => opened
       /\ tx' = [tx EXCEPT !.at = IF seen /\ valid THEN "me" ELSE "finally",
                           !.failed = ~(seen /\ valid),
                           !.cookie = seen]

(* A logout that reaches the Worker deletes the session, if it works.      *)
LogoutCall(reached) == session' = session \/ (reached /\ session' = FALSE)

SmokeLogout ==
  /\ tx.at = "logout"
  /\ \E reached, answered \in BOOLEAN :
       /\ answered => reached
       /\ LogoutCall(reached)
       /\ tx' = [tx EXCEPT !.at = IF answered THEN "revoked" ELSE "finally",
                           !.failed = ~answered,
                           !.logoutAttempted = TRUE]

RevokedIsTrusted == TRUE   \* mutant: the answer of the logout is enough
RevokedIsSeen == ~session

FinallyLogsOutNever == FALSE   \* mutant: no finally block
FinallyLogsOut == tx.cookie /\ ~tx.logoutAttempted

(* What the finally block does, and the error thrown after it.             *)
SmokeFinally ==
  /\ tx.at = "finally"
  /\ IF FinallyLogsOut THEN \E reached \in BOOLEAN : LogoutCall(reached) ELSE UNCHANGED session
  /\ tx' = [tx EXCEPT !.at = "done",
                      !.logoutAttempted = @ \/ FinallyLogsOut,
                      !.verdict = IF tx.failed THEN "failed" ELSE "verified"]

SmokeKilled ==
  /\ tx.at # "done"
  /\ tx' = [tx EXCEPT !.at = "done", !.verdict = "killed"]
  /\ UNCHANGED session

SmokeStep ==
  \/ ReadStep("page", "login", TRUE)
  \/ SmokeLogin
  \/ ReadStep("me", "business", session)
  \/ ReadStep("business", "logout", session)
  \/ SmokeLogout
  \/ tx.at = "revoked" /\ RevokedIsSeen /\ Proceed("finally") /\ UNCHANGED session
  \/ tx.at = "revoked" /\ Finally /\ UNCHANGED session
  \/ SmokeFinally

SmokeNext == SmokeStep \/ SmokeKilled

SmokeSpec == SmokeInit /\ [][SmokeNext]_smokeVars
-----------------------------------------------------------------------------
(* The transaction is verified only when its session is gone, whatever the *)
(* deployed logout answers.                                                *)
VerifiedSmokeLeavesNoSession == tx.verdict = "verified" => ~session

(* A session whose cookie was seen stays only behind a logout that was     *)
(* sent: no failed step forgets it.                                        *)
SeenSessionsAreEnded ==
  tx.verdict = "failed" /\ tx.cookie /\ session => tx.logoutAttempted
=============================================================================
