--------------------------- MODULE SessionAuthority ---------------------------
(***************************************************************************)
(* What logins promise, as atomic steps: a session is opened only with the *)
(* password that the account has at that moment, a password that is set    *)
(* ends every session of the account but at most the one that set it, and  *)
(* an account that is switched off has none.                               *)
(***************************************************************************)
CONSTANTS Usernames, Passwords, Tokens, Null

VARIABLES
  password,     \* the password of each account, Null when there is no account
  active,       \* whether it may log in
  open          \* per token: the account and the password of a live session

vars == <<password, active, open>>

Closed == [user |-> Null, password |-> Null]

Init ==
  /\ password \in [Usernames -> Passwords \cup {Null}]
  /\ active = [u \in Usernames |-> password[u] # Null]
  /\ open = [t \in Tokens |-> Closed]

Login(t, u, p) ==
  /\ active[u]
  /\ p = password[u]
  /\ open[t] = Closed
  /\ open' = [open EXCEPT ![t] = [user |-> u, password |-> p]]
  /\ UNCHANGED <<password, active>>

(* Logout and expiry.                                                      *)
Close(t) ==
  /\ open' = [open EXCEPT ![t] = Closed]
  /\ UNCHANGED <<password, active>>

(* The sessions of u are closed but the one in keep, which goes on with p. *)
Rekeyed(u, keep, p) ==
  [t \in Tokens |-> IF open[t].user # u THEN open[t]
                    ELSE IF t \in keep THEN [user |-> u, password |-> p] ELSE Closed]

(* A new account, a change, a reset, a recovery; on makes it active.       *)
SetPassword(u, p, on) ==
  /\ password' = [password EXCEPT ![u] = p]
  /\ active' = [active EXCEPT ![u] = on]
  /\ active[u] => on
  /\ \/ open' = Rekeyed(u, {}, p)
     \/ \E t \in Tokens : open' = Rekeyed(u, {t}, p)

Deactivate(u) ==
  /\ active' = [active EXCEPT ![u] = FALSE]
  /\ open' = Rekeyed(u, {}, password[u])
  /\ UNCHANGED password

Next ==
  \/ \E t \in Tokens : Close(t) \/ \E u \in Usernames, p \in Passwords : Login(t, u, p)
  \/ \E u \in Usernames :
       Deactivate(u) \/ \E p \in Passwords, on \in BOOLEAN : SetPassword(u, p, on)

Spec == Init /\ [][Next]_vars
=============================================================================
