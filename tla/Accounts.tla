------------------------------ MODULE Accounts ------------------------------
(***************************************************************************)
(* The D1 tables behind logins (users, sessions and what is asked of       *)
(* audit_logs), the calls that API clients have in flight and the runs of  *)
(* the two operator scripts that write the same tables over the REST API.  *)
(*                                                                         *)
(* No row of users is ever removed, so an account is named by its username *)
(* and its id is the same thing.  Hashes are compared for equality only: a *)
(* salt is a value that no hash in use has.                                *)
(***************************************************************************)
EXTENDS Integers, FiniteSets

CONSTANTS
  Callers,      \* concurrent HTTP requests
  Runs,         \* operator script runs, each with an operation id of its own
  Usernames,    \* the accounts there can be
  Smoke,        \* the username of the deployment smoke identity
  Admins,       \* the accounts of the first database: its administrators,
  Staff,        \* and the others
  Provisioned,  \* whether the smoke identity may have been provisioned before
  Passwords,    \* plaintext passwords
  Salts,        \* bound: see FreshSalt
  Tokens,       \* bound: the session tokens that logins can draw
  Null,         \* SQL NULL, and an unused field
  Workload      \* the operations that the callers and runs of a model start

ASSUME AccountsAssumption ==
  /\ Smoke \in Usernames
  /\ Admins \cup Staff \subseteq Usernames \ {Smoke}
  /\ Admins \cap Staff = {}
  /\ Provisioned \subseteq BOOLEAN
  /\ Salts # {}
ASSUME NullAssumption ==
  Null \notin Usernames \cup Passwords \cup Salts \cup Tokens \cup Runs

VARIABLES
  accounts,     \* users: life, role, password_hash
  sessions,     \* sessions, by token
  audit,        \* audit_logs, as far as a query or a property asks
  call,         \* the request each caller has in flight, or its last reply
  run           \* the operator runs

accountTables == <<accounts, sessions, audit>>
accountVars == <<accountTables, call, run>>

-----------------------------------------------------------------------------
(* "legacy" is an unsalted SHA-256, "pbkdf2" a salted hash.                *)
Hash ==
  [scheme : {"legacy"}, password : Passwords, salt : {Null}]
    \cup [scheme : {"pbkdf2"}, password : Passwords, salt : Salts]
NoHash == [scheme |-> "none", password |-> Null, salt |-> Null]
LegacyHash(p) == [scheme |-> "legacy", password |-> p, salt |-> Null]

Roles == {"admin", "staff"}
Account == [life : {"absent", "active", "inactive"}, role : Roles \cup {"none"},
            hash : Hash \cup {NoHash}]
NoAccount == [life |-> "absent", role |-> "none", hash |-> NoHash]

(* "password" is history: the password that opened the session, or that    *)
(* its holder has set since.  "gone" is a row that has been deleted.       *)
Session == [state : {"unused", "live", "expired", "gone"}, user : Usernames \cup {Null},
            password : Passwords \cup {Null}]
NoSession == [state |-> "unused", user |-> Null, password |-> Null]

(* Of an account's audit rows: how many logins, whether a recovery is      *)
(* among them, and the operator run that wrote the latest, if one did.     *)
AuditTrail == [logins : Nat, recovered : BOOLEAN, last : Runs \cup {Null}]

Live(t) == sessions[t].state = "live"
HasRow(t) == sessions[t].state \in {"live", "expired"}
Active(u) == accounts[u].life = "active"
SessionRows(u) == {t \in Tokens : HasRow(t) /\ sessions[t].user = u}

(* Mutant: the delete does not look at the account.                        *)
RevokedOfAnyone(u, keep) ==
  [t \in Tokens |-> IF HasRow(t) /\ t # keep
                    THEN [sessions[t] EXCEPT !.state = "gone"]
                    ELSE sessions[t]]

(* DELETE FROM sessions WHERE user_id = u AND token <> keep.               *)
Revoked(u, keep) ==
  [t \in Tokens |-> IF HasRow(t) /\ sessions[t].user = u /\ t # keep
                    THEN [sessions[t] EXCEPT !.state = "gone"]
                    ELSE sessions[t]]

(* An audit row about u that is neither a login nor an operator's.         *)
Noted(u) == [audit EXCEPT ![u].last = Null]

-----------------------------------------------------------------------------
CallOperations == {"login", "logout", "createUser", "changeOwn", "reset"}
RunOperations == {"provision", "rotate", "disable", "recover"}

(* "refused" is any reply of 401, 403, 404 or 409; "none" also stands for a *)
(* reply that was lost.                                                    *)
CallReplies == {"none", "ok", "refused", "error"}

Call ==
  [op : CallOperations \cup {"none"},
   at : {"idle", "lookup", "commit", "readBack", "cleanup"},
   token : Tokens \cup {Null}, user : Usernames \cup {Null},
   target : Usernames \cup {Null}, role : Roles \cup {"none"},
   password : Passwords \cup {Null}, new : Passwords \cup {Null},
   hash : Hash \cup {NoHash}, reply : CallReplies]

NoCall ==
  [op |-> "none", at |-> "idle", token |-> Null, user |-> Null, target |-> Null,
   role |-> "none", password |-> Null, new |-> Null, hash |-> NoHash, reply |-> "none"]

(* "transit" is a write whose answer was given up while the request may    *)
(* still reach the database; "applied" is history.                         *)
Run ==
  [op : RunOperations \cup {"none"}, at : {"idle", "write", "postflight", "done"},
   user : Usernames \cup {Null}, observed : {"none", "absent", "active", "inactive"},
   hash : Hash \cup {NoHash}, transit : BOOLEAN, applied : BOOLEAN,
   outcome : {"none", "completed", "failed"}]

NoRun ==
  [op |-> "none", at |-> "idle", user |-> Null, observed |-> "none", hash |-> NoHash,
   transit |-> FALSE, applied |-> FALSE, outcome |-> "none"]

CallIs(c, op, at) == call[c].op = op /\ call[c].at = at
Proceed(c, r) == call' = [call EXCEPT ![c] = r]
Reply(c, reply) == Proceed(c, [NoCall EXCEPT !.reply = reply])

(* createPasswordHash: sixteen random bytes of salt that no other hash has. *)
(* With one salt more than there are accounts, callers and runs together   *)
(* there always is one.                                                    *)
SaltsInUse ==
  {accounts[u].hash.salt : u \in Usernames} \cup {call[c].hash.salt : c \in Callers}
    \cup {run[r].hash.salt : r \in Runs}
SaltLeft == \E s \in Salts : s \notin SaltsInUse
FreshSalt == CHOOSE s \in Salts : s \notin SaltsInUse

(* Mutant: the salt is left out.                                           *)
CreatedHashUnsalted(p) == [scheme |-> "pbkdf2", password |-> p, salt |-> Null]

CreatedHash(p) == [scheme |-> "pbkdf2", password |-> p, salt |-> FreshSalt]

-----------------------------------------------------------------------------
(* The accounts of a database that was in use before the hashes were       *)
(* salted: nobody has logged in since.  The smoke identity may be there.   *)
FirstAccount(u, p, provisioned) ==
  IF u \in Admins \cup Staff
  THEN [life |-> "active", hash |-> LegacyHash(p), role |-> IF u \in Admins THEN "admin" ELSE "staff"]
  ELSE IF u = Smoke /\ provisioned
       THEN [life |-> "active", role |-> "staff",
             hash |-> [scheme |-> "pbkdf2", password |-> p, salt |-> CHOOSE s \in Salts : TRUE]]
       ELSE NoAccount

AccountsInit ==
  /\ \E first \in [Usernames -> Passwords], provisioned \in Provisioned :
       accounts = [u \in Usernames |-> FirstAccount(u, first[u], provisioned)]
  /\ sessions = [t \in Tokens |-> NoSession]
  /\ audit = [u \in Usernames |-> [logins |-> 0, recovered |-> FALSE, last |-> Null]]
  /\ call = [c \in Callers |-> NoCall]
  /\ run = [r \in Runs |-> NoRun]

AccountsTypeOK ==
  /\ accounts \in [Usernames -> Account]
  /\ sessions \in [Tokens -> Session]
  /\ audit \in [Usernames -> AuditTrail]
  /\ call \in [Callers -> Call]
  /\ run \in [Runs -> Run]
=============================================================================
