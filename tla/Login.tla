-------------------------------- MODULE Login --------------------------------
(***************************************************************************)
(* Signing in through W3 (oauth.go), the one token of an account           *)
(* (migrate.go, sessionToken) and signing out (http.go).  A login is three *)
(* requests of a browser, tied together by entries in Redis that are taken *)
(* once; the browser may repeat a request, and administrators and other    *)
(* browsers of the same person act between any two statements.  Tokens are *)
(* numbered in the order in which they are made.                           *)
(***************************************************************************)
EXTENDS Naturals, FiniteSets

CONSTANTS Users,          \* rows of accounts_user
          Requests,       \* requests that may be in progress
          MaxLogins,      \* bound: logins started
          MaxTokens,      \* bound: tokens made
          MaxSwitches     \* bound: accounts disabled or enabled

Logins == 1..MaxLogins

VARIABLES
    active,     \* accounts_user.is_active
    token,      \* authtoken_token: at most one per user
    made,       \* tokens made so far
    login,      \* what Redis holds for each login
    req,        \* memory of each request
    switches,
    completed   \* how often each login handed its token to a browser

vars == <<active, token, made, login, req, switches, completed>>

NoToken == 0
Unused == [st |-> "unused", user |-> {}, token |-> NoToken]
NoReq == [pc |-> "idle", login |-> 0, user |-> {}, token |-> NoToken]

Init ==
    /\ active = [u \in Users |-> TRUE]
    /\ token = [u \in Users |-> NoToken]
    /\ made = 0
    /\ login = [l \in Logins |-> Unused]
    /\ req = [q \in Requests |-> NoReq]
    /\ switches = 0
    /\ completed = [l \in Logins |-> 0]

-----------------------------------------------------------------------------
Begin(q, l, st, pc) ==
    /\ req[q].pc = "idle"
    /\ login[l].st = st
    /\ req' = [req EXCEPT ![q] = [NoReq EXCEPT !.pc = pc, !.login = l,
                                               !.user = login[l].user,
                                               !.token = login[l].token]]

(* GET start: oauth:transaction. *)
Start(l) ==
    /\ login[l].st = "unused"
    /\ \A k \in Logins : k < l => login[k].st # "unused"
    /\ login' = [login EXCEPT ![l].st = "transaction"]
    /\ UNCHANGED <<active, token, made, req, switches, completed>>

(* GET callback: the transaction is taken with GETDEL. *)
Callback(q, l) ==
    /\ Begin(q, l, "transaction", "callback")
    /\ login' = [login EXCEPT ![l].st = "taken"]
    /\ UNCHANGED <<active, token, made, switches, completed>>

(* W3 says who it is; the account is looked up. *)
Identify(q, u) ==
    /\ req[q].pc = "callback"
    /\ req' = [req EXCEPT ![q] = IF active[u] THEN [@ EXCEPT !.pc = "identified", !.user = {u}]
                                 ELSE NoReq]
    /\ UNCHANGED <<active, token, made, login, switches, completed>>

(* sessionToken: INSERT ... ON CONFLICT keeps the token there is. *)
SessionToken(q) ==
    /\ req[q].pc = "identified"
    /\ \E u \in req[q].user :
          IF token[u] # NoToken
          THEN /\ req' = [req EXCEPT ![q].pc = "token", ![q].token = token[u]]
               /\ UNCHANGED <<token, made>>
          ELSE /\ made < MaxTokens
               /\ made' = made + 1
               /\ token' = [token EXCEPT ![u] = made']
               /\ req' = [req EXCEPT ![q].pc = "token", ![q].token = made']
    /\ UNCHANGED <<active, login, switches, completed>>

(* oauth:pending, and the redirect to the frontend. *)
Pend(q) ==
    /\ req[q].pc = "token"
    /\ login' = [login EXCEPT ![req[q].login] = [st |-> "pending", user |-> req[q].user,
                                                 token |-> req[q].token]]
    /\ req' = [req EXCEPT ![q] = NoReq]
    /\ UNCHANGED <<active, token, made, switches, completed>>

(* POST complete: the pending login is taken with GETDEL, *)
Take(q, l) ==
    /\ Begin(q, l, "pending", "complete")
    /\ login' = [login EXCEPT ![l] = [Unused EXCEPT !.st = "taken"]]
    /\ UNCHANGED <<active, token, made, switches, completed>>

(* Mutant: the account is looked up without its token. *)
ValidAccount(u, t) == active[u]

(* FROM accounts_user u JOIN authtoken_token t ... t.key=$2 AND is_active *)
Valid(u, t) == active[u] /\ token[u] = t

(* and the account and its token are looked up again. *)
Complete(q) ==
    /\ req[q].pc = "complete"
    /\ \E u \in req[q].user :
          completed' = IF Valid(u, req[q].token)
                       THEN [completed EXCEPT ![req[q].login] = @ + 1] ELSE completed
    /\ req' = [req EXCEPT ![q] = NoReq]
    /\ UNCHANGED <<active, token, made, login, switches>>

(* An entry runs out, W3 does not answer, or the browser gives up. *)
Abandon(q) ==
    /\ req[q].pc # "idle"
    /\ req' = [req EXCEPT ![q] = NoReq]
    /\ UNCHANGED <<active, token, made, login, switches, completed>>

Expire(l) ==
    /\ login[l].st \in {"transaction", "pending"}
    /\ login' = [login EXCEPT ![l] = [Unused EXCEPT !.st = "taken"]]
    /\ UNCHANGED <<active, token, made, req, switches, completed>>

(* POST auth/logout of somebody who holds the token. *)
Logout(u) ==
    /\ token[u] # NoToken /\ active[u]
    /\ token' = [token EXCEPT ![u] = NoToken]
    /\ UNCHANGED <<active, made, login, req, switches, completed>>

SetActive(u) ==
    /\ switches < MaxSwitches
    /\ switches' = switches + 1
    /\ active' = [active EXCEPT ![u] = ~@]
    /\ UNCHANGED <<token, made, login, req, completed>>

Next ==
    \/ \E l \in Logins : Start(l) \/ Expire(l)
    \/ \E q \in Requests :
          \/ \E l \in Logins : Callback(q, l) \/ Take(q, l)
          \/ \E u \in Users : Identify(q, u)
          \/ SessionToken(q) \/ Pend(q) \/ Complete(q) \/ Abandon(q)
    \/ \E u \in Users : Logout(u) \/ SetActive(u)

Spec == Init /\ [][Next]_vars

-----------------------------------------------------------------------------
(* Properties.                                                             *)

States == {"unused", "transaction", "taken", "pending"}

(* Every variable has its type. *)
TypeOK ==
    /\ active \in [Users -> BOOLEAN]
    /\ token \in [Users -> 0..MaxTokens] /\ made \in 0..MaxTokens
    /\ login \in [Logins -> [st : States, user : SUBSET Users, token : 0..MaxTokens]]
    /\ req \in [Requests -> [pc : {"idle", "callback", "identified", "token", "complete"},
                             login : 0..MaxLogins, user : SUBSET Users,
                             token : 0..MaxTokens]]
    /\ switches \in Nat
    /\ completed \in [Logins -> Nat]

(* A login completes at most once, and what the browser is given is the    *)
(* token of an active account at that moment: signing out ends the logins  *)
(* of that person that are under way, and so does disabling the account,   *)
(* though the token was made requests ago.                                 *)
LoginIsFresh ==
    [][\A l \in Logins : completed'[l] # completed[l] =>
          /\ completed[l] = 0
          /\ \E q \in Requests, u \in Users :
                /\ req[q].pc = "complete" /\ req[q].login = l /\ req[q].user = {u}
                /\ token[u] = req[q].token /\ token[u] # NoToken /\ active[u]]_vars

=============================================================================
