---------------------------- MODULE SessionTable ----------------------------
(***************************************************************************)
(* What the account service promises about signing in, stated as if it     *)
(* kept a table of sessions on the server: a session exists only for an    *)
(* existing account and only under the password it proved; changing the    *)
(* password ends every session of the account, suspending the account      *)
(* keeps the sessions but makes them unusable, removing it ends them for   *)
(* good.  Nothing else ends a session, except its expiry.                  *)
(*                                                                         *)
(* gocha keeps no such table: it hands out signed tokens and compares a    *)
(* version number.  Module Accounts is that mechanism, and implements this *)
(* specification.                                                          *)
(***************************************************************************)
EXTENDS Naturals

CONSTANTS
    AccountIds,     \* every account there may ever be
    Secrets,        \* passwords
    Claims          \* what a session carries besides its owner and its proof

VARIABLES
    password,       \* account -> its current password, for existing accounts
    suspended,      \* accounts that exist but are locked out
    sessions        \* the sessions that have not ended: records of owner, secret, claims

vars == <<password, suspended, sessions>>

SessionsOf(a) == {s \in sessions : s.sub = a}

-----------------------------------------------------------------------------

Init ==
    /\ password = [a \in {} |-> a]
    /\ suspended = {}
    /\ sessions = {}

Enrol(a, p) ==
    /\ a \notin DOMAIN password
    /\ password' = [b \in DOMAIN password \cup {a} |-> IF b = a THEN p ELSE password[b]]
    /\ UNCHANGED <<suspended, sessions>>

(* A suspended account may still be signed in by a login that began before. *)
SignIn(a, c) ==
    /\ a \in DOMAIN password
    /\ sessions' = sessions \cup {[sub |-> a, pwd |-> password[a], claims |-> c]}
    /\ UNCHANGED <<password, suspended>>

ChangePassword(a, p) ==
    /\ a \in DOMAIN password \ suspended
    /\ password' = [password EXCEPT ![a] = p]
    /\ sessions' = sessions \ SessionsOf(a)
    /\ UNCHANGED suspended

Suspend(a) ==
    /\ a \in DOMAIN password \ suspended
    /\ suspended' = suspended \cup {a}
    /\ UNCHANGED <<password, sessions>>

Resume(a) ==
    /\ a \in suspended
    /\ suspended' = suspended \ {a}
    /\ UNCHANGED <<password, sessions>>

Remove(a) ==
    /\ a \in DOMAIN password
    /\ password' = [b \in DOMAIN password \ {a} |-> password[b]]
    /\ suspended' = suspended \ {a}
    /\ sessions' = sessions \ SessionsOf(a)

Expire(s) ==
    /\ s \in sessions
    /\ sessions' = sessions \ {s}
    /\ UNCHANGED <<password, suspended>>

Next ==
    \/ \E a \in AccountIds :
          \/ \E p \in Secrets : Enrol(a, p) \/ ChangePassword(a, p)
          \/ \E c \in Claims : SignIn(a, c)
          \/ Suspend(a) \/ Resume(a) \/ Remove(a)
    \/ \E s \in sessions : Expire(s)

Spec == Init /\ [][Next]_vars

=============================================================================
