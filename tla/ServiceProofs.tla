---------------------------- MODULE ServiceProofs ---------------------------
(***************************************************************************)
(* Who people are and how they sign in, and the use of the model service,  *)
(* for any accounts, employees, addresses, requests, testers, callers and  *)
(* workers, any number of logins and tokens, and any limit: a login        *)
(* completes once, with a token that is valid then; an address is one      *)
(* person, and no grant outlives its account; what is used has been        *)
(* tested, no more calls are made than the limit, and no answer overwrites *)
(* what somebody entered.                                                  *)
(***************************************************************************)
EXTENDS Services, FiniteSetTheorems, FunctionTheorems, TLAPS

-----------------------------------------------------------------------------
(* Login: who works on a login has taken its entry, alone.                 *)

ReqPcs == {"idle", "callback", "identified", "token", "complete"}
Request == [pc : ReqPcs, login : Nat, user : SUBSET Users, token : Nat]
Entry == [st : L!States, user : SUBSET Users, token : Nat]

Live(q) == req[q].pc # "idle"

\* user is one account, token a token.
Named(x) == (\E u \in Users : x.user = {u}) /\ x.token # L!NoToken

LoginTypes ==
    /\ token \in [Users -> Nat] /\ made \in Nat
    /\ login \in [L!Logins -> Entry]
    /\ req \in [Requests -> Request]
    /\ completed \in [L!Logins -> Nat]

\* Who works on a login has taken its entry, alone; what is left in Redis
\* and what a request is about to hand over name an account and a token.
TakenOnce ==
    /\ LoginTypes
    /\ \A l \in L!Logins :
          /\ login[l].st # "taken" => completed[l] = 0
          /\ login[l].st = "pending" => Named(login[l])
    /\ \A q \in Requests :
          /\ Live(q) => /\ req[q].login \in L!Logins
                        /\ login[req[q].login].st = "taken"
                        /\ completed[req[q].login] = 0
          /\ req[q].pc \in {"token", "complete"} => Named(req[q])
          /\ req[q].pc = "identified" => \E u \in Users : req[q].user = {u}
    /\ \A p, q \in Requests :
          Live(p) /\ Live(q) /\ req[p].login = req[q].login => p = q

LEMMA TakenOnceInit == Init => TakenOnce
  <1> SUFFICES ASSUME Init PROVE TakenOnce
    OBVIOUS
  <1>1. LoginTypes
    BY DEF Init, L!Init, L!NoToken, L!NoReq, L!Unused, LoginTypes, Request, Entry, ReqPcs,
           L!States
  <1> QED BY <1>1 DEF TakenOnce, Init, L!Init, L!NoReq, L!Unused, Live

-----------------------------------------------------------------------------
(* Every step.                                                             *)

\* A request that ends frees its login for nobody.
LEMMA ReqEnds ==
    ASSUME TakenOnce, NEW q \in Requests, req' = [req EXCEPT ![q] = L!NoReq],
           UNCHANGED <<token, made, login, completed>>
    PROVE  TakenOnce'
  <1>1. L!NoReq \in Request /\ L!NoReq.pc = "idle"
    BY DEF L!NoReq, L!NoToken, Request, ReqPcs
  <1> QED BY <1>1 DEF TakenOnce, LoginTypes, Live, Named

\* A request that goes on stays the only one.
LEMMA ReqMoves ==
    ASSUME TakenOnce, NEW q \in Requests, Live(q), NEW x \in Request,
           req' = [req EXCEPT ![q] = x], x.login = req[q].login,
           x.pc \in {"token", "complete"} => Named(x),
           x.pc = "identified" => \E u \in Users : x.user = {u},
           UNCHANGED <<login, completed>>, token' \in [Users -> Nat], made' \in Nat
    PROVE  TakenOnce'
  BY DEF TakenOnce, LoginTypes, Live, Named

\* Redis hands an entry to one request.
LEMMA ReqBegins ==
    ASSUME TakenOnce, NEW q \in Requests, NEW l \in L!Logins,
           NEW st \in {"transaction", "pending"}, NEW pc \in {"callback", "complete"},
           pc = "complete" => st = "pending",
           L!Begin(q, l, st, pc), NEW e \in Entry, e.st = "taken",
           login' = [login EXCEPT ![l] = e], UNCHANGED <<token, made, completed>>
    PROVE  TakenOnce'
  <1> DEFINE x == [L!NoReq EXCEPT !.pc = pc, !.login = l, !.user = login[l].user,
                                  !.token = login[l].token]
  <1>1. req' = [req EXCEPT ![q] = x] /\ login[l].st = st /\ completed[l] = 0
    BY DEF L!Begin, TakenOnce
  <1>2. login[l] \in Entry /\ l \in Nat
    BY DEF TakenOnce, LoginTypes, L!Logins
  <1>3. /\ x \in Request /\ x.pc = pc /\ x.login = l
        /\ x.user = login[l].user /\ x.token = login[l].token
    BY <1>2 DEF Entry, Request, ReqPcs, L!NoReq, L!NoToken
  <1> HIDE DEF x
  <1>4. pc = "complete" => Named(x)
    BY <1>1, <1>3 DEF TakenOnce, Named
  <1>5. LoginTypes'
    BY <1>1, <1>3 DEF TakenOnce, LoginTypes
  <1>6. \A p \in Requests \ {q} : req'[p] = req[p] /\ (Live(p) => req[p].login # l)
    BY <1>1 DEF TakenOnce, LoginTypes, Live
  <1>7. req'[q] = x /\ login'[l] = e /\ \A k \in L!Logins \ {l} : login'[k] = login[k]
    BY <1>1 DEF TakenOnce, LoginTypes
  <1> QED BY <1>1, <1>3, <1>5, <1>6, <1>7, <1>4 DEF TakenOnce, Live, Named

\* An entry nobody works on changes.
LEMMA EntryChanges ==
    ASSUME TakenOnce, NEW l \in L!Logins, login[l].st # "taken",
           NEW e \in Entry, e.st # "pending",
           login' = [login EXCEPT ![l] = e], UNCHANGED <<token, made, req, completed>>
    PROVE  TakenOnce'
  <1>1. \A q \in Requests : Live(q) => req[q].login # l
    BY DEF TakenOnce
  <1> QED BY <1>1 DEF TakenOnce, LoginTypes, Live, Named

LEMMA SessionTokenKeepsTakenOnce ==
    ASSUME TakenOnce, NEW q \in Requests, L!SessionToken(q)
    PROVE  TakenOnce'
  <1>1. PICK u \in Users : req[q].user = {u}
    BY DEF TakenOnce, L!SessionToken
  <1>2. \E t \in Nat \ {0} : req' = [req EXCEPT ![q].pc = "token", ![q].token = t]
    <2>1. CASE token[u] # L!NoToken
      BY <1>1, <2>1 DEF L!SessionToken, L!NoToken, TakenOnce, LoginTypes
    <2>2. CASE token[u] = L!NoToken
      <3>1. made' \in Nat \ {0} /\ req' = [req EXCEPT ![q].pc = "token", ![q].token = made']
        BY <1>1, <2>2 DEF L!SessionToken, TakenOnce, LoginTypes
      <3> QED BY <3>1
    <2> QED BY <2>1, <2>2
  <1>3. PICK t \in Nat \ {0} : req' = [req EXCEPT ![q].pc = "token", ![q].token = t]
    BY <1>2
  <1> DEFINE x == [req[q] EXCEPT !.pc = "token", !.token = t]
  <1>4. x \in Request /\ Named(x) /\ x.login = req[q].login /\ x.pc = "token"
    BY <1>1 DEF TakenOnce, LoginTypes, Request, ReqPcs, Named, L!NoToken
  <1>5. req' = [req EXCEPT ![q] = x]
    BY <1>3
  <1> HIDE DEF x
  <1>6. token' \in [Users -> Nat] /\ made' \in Nat /\ UNCHANGED <<login, completed>> /\ Live(q)
    BY <1>1 DEF L!SessionToken, TakenOnce, LoginTypes, Live
  <1> QED BY <1>4, <1>5, <1>6, ReqMoves

LEMMA IdentifyKeepsTakenOnce ==
    ASSUME TakenOnce, NEW q \in Requests, NEW u \in Users, L!Identify(q, u)
    PROVE  TakenOnce'
  <1> DEFINE x == [req[q] EXCEPT !.pc = "identified", !.user = {u}]
  <1>1. x \in Request /\ x.login = req[q].login /\ x.pc = "identified" /\ x.user = {u}
    BY DEF TakenOnce, LoginTypes, Request, ReqPcs
  <1>2. Live(q) /\ UNCHANGED <<token, made, login, completed>>
    BY DEF L!Identify, Live
  <1>3. CASE req' = [req EXCEPT ![q] = x]
    <2> HIDE DEF x
    <2> QED BY <1>1, <1>2, <1>3, ReqMoves DEF TakenOnce, LoginTypes
  <1>4. CASE req' = [req EXCEPT ![q] = L!NoReq]
    BY <1>2, <1>4, ReqEnds
  <1> QED BY <1>3, <1>4 DEF L!Identify

LEMMA PendKeepsTakenOnce ==
    ASSUME TakenOnce, NEW q \in Requests, L!Pend(q)
    PROVE  TakenOnce'
  <1> DEFINE l == req[q].login
             e == [st |-> "pending", user |-> req[q].user, token |-> req[q].token]
  <1>1. /\ l \in L!Logins /\ completed[l] = 0 /\ Named(req[q])
        /\ \A p \in Requests \ {q} : Live(p) => req[p].login # l
    BY DEF TakenOnce, L!Pend, Live
  <1>2. e \in Entry /\ e.st = "pending" /\ Named(e)
    BY <1>1 DEF TakenOnce, LoginTypes, Request, Entry, L!States, Named
  <1>3. login' = [login EXCEPT ![l] = e] /\ req' = [req EXCEPT ![q] = L!NoReq]
           /\ UNCHANGED <<token, made, completed>>
    BY DEF L!Pend
  <1>4. L!NoReq \in Request /\ L!NoReq.pc = "idle"
    BY DEF L!NoReq, L!NoToken, Request, ReqPcs
  <1> HIDE DEF l, e
  <1>5. LoginTypes'
    BY <1>1, <1>2, <1>3, <1>4 DEF TakenOnce, LoginTypes
  <1>6. login'[l] = e /\ \A k \in L!Logins \ {l} : login'[k] = login[k]
    BY <1>1, <1>3 DEF TakenOnce, LoginTypes
  <1>7. req'[q].pc = "idle" /\ \A p \in Requests \ {q} : req'[p] = req[p]
    BY <1>3, <1>4 DEF TakenOnce, LoginTypes
  <1> QED BY <1>1, <1>2, <1>3, <1>5, <1>6, <1>7 DEF TakenOnce, Live, Named

\* The login that completes has no other request left.
LEMMA CompleteKeepsTakenOnce ==
    ASSUME TakenOnce, NEW q \in Requests, L!Complete(q)
    PROVE  TakenOnce'
  <1> DEFINE l == req[q].login
  <1>1. /\ l \in L!Logins /\ login[l].st = "taken"
        /\ \A p \in Requests \ {q} : Live(p) => req[p].login # l
    BY DEF TakenOnce, L!Complete, Live
  <1>2. CASE completed' = completed
    BY <1>2, ReqEnds DEF L!Complete
  <1>3. CASE completed' = [completed EXCEPT ![l] = @ + 1]
    <2>1. L!NoReq \in Request /\ L!NoReq.pc = "idle"
      BY DEF L!NoReq, L!NoToken, Request, ReqPcs
    <2>2. req' = [req EXCEPT ![q] = L!NoReq] /\ UNCHANGED <<token, made, login>>
      BY DEF L!Complete
    <2> HIDE DEF l
    <2>3. LoginTypes'
      BY <1>1, <1>3, <2>1, <2>2 DEF TakenOnce, LoginTypes
    <2>4. req'[q].pc = "idle" /\ \A p \in Requests \ {q} : req'[p] = req[p]
      BY <2>1, <2>2 DEF TakenOnce, LoginTypes
    <2>5. \A k \in L!Logins \ {l} : completed'[k] = completed[k]
      BY <1>1, <1>3 DEF TakenOnce, LoginTypes
    <2> QED BY <1>1, <2>2, <2>3, <2>4, <2>5 DEF TakenOnce, Live, Named
  <1> QED BY <1>2, <1>3 DEF L!Complete

LEMMA NextKeepsTakenOnce == TakenOnce /\ [Next]_vars => TakenOnce'
  <1> SUFFICES ASSUME TakenOnce, [Next]_vars PROVE TakenOnce'
    OBVIOUS
  <1>1. CASE UNCHANGED <<token, made, login, req, completed>>
    BY <1>1 DEF TakenOnce, LoginTypes, Live, Named
  <1> DEFINE gone == [L!Unused EXCEPT !.st = "taken"]
  <1>2. gone \in Entry /\ gone.st = "taken"
    BY DEF L!Unused, L!NoToken, Entry, L!States
  <1>3. ASSUME NEW l \in L!Logins, NEW st \in L!States
        PROVE  [login[l] EXCEPT !.st = st] \in Entry /\ [login[l] EXCEPT !.st = st].st = st
    <2>1. login[l] \in Entry
      BY DEF TakenOnce, LoginTypes
    <2> QED BY <2>1 DEF Entry
  <1>4. ASSUME NEW l \in L!Logins, L!Start(l) PROVE TakenOnce'
    <2> DEFINE e == [login[l] EXCEPT !.st = "transaction"]
    <2>1. e \in Entry /\ e.st = "transaction" /\ login' = [login EXCEPT ![l] = e]
             /\ login[l].st = "unused" /\ UNCHANGED <<token, made, req, completed>>
      BY <1>3, <1>4 DEF L!Start, L!States
    <2> HIDE DEF e
    <2> QED BY <2>1, EntryChanges
  <1>5. ASSUME NEW l \in L!Logins, L!Expire(l) PROVE TakenOnce'
    <2> HIDE DEF gone
    <2>1. login' = [login EXCEPT ![l] = gone] /\ login[l].st # "taken"
             /\ UNCHANGED <<token, made, req, completed>>
      BY <1>5 DEF L!Expire, gone
    <2> QED BY <1>2, <2>1, EntryChanges
  <1>6. ASSUME NEW q \in Requests, NEW l \in L!Logins, L!Callback(q, l) PROVE TakenOnce'
    <2> DEFINE e == [login[l] EXCEPT !.st = "taken"]
    <2>1. e \in Entry /\ e.st = "taken" /\ login' = [login EXCEPT ![l] = e]
             /\ L!Begin(q, l, "transaction", "callback") /\ UNCHANGED <<token, made, completed>>
      BY <1>3, <1>6 DEF L!Callback, L!States
    <2> HIDE DEF e
    <2> QED BY <2>1, ReqBegins
  <1>7. ASSUME NEW q \in Requests, NEW l \in L!Logins, L!Take(q, l) PROVE TakenOnce'
    <2> HIDE DEF gone
    <2>1. L!Begin(q, l, "pending", "complete") /\ login' = [login EXCEPT ![l] = gone]
             /\ UNCHANGED <<token, made, completed>>
      BY <1>7 DEF L!Take, gone
    <2> QED BY <1>2, <2>1, ReqBegins
  <1>8. ASSUME NEW q \in Requests, L!Abandon(q) PROVE TakenOnce'
    BY <1>8, ReqEnds DEF L!Abandon
  <1>9. ASSUME NEW u \in Users, L!Logout(u) PROVE TakenOnce'
    <2>1. token' \in [Users -> Nat] /\ UNCHANGED <<made, login, req, completed>>
      BY <1>9 DEF L!Logout, L!NoToken, TakenOnce, LoginTypes
    <2> QED BY <2>1 DEF TakenOnce, LoginTypes, Live, Named
  <1>10. ASSUME NEW u \in Users, L!SetActive(u) PROVE TakenOnce'
    BY <1>1, <1>10 DEF L!SetActive
  <1>11. CASE L!Next
    BY <1>4, <1>5, <1>6, <1>7, <1>8, <1>9, <1>10, <1>11, IdentifyKeepsTakenOnce,
       SessionTokenKeepsTakenOnce, PendKeepsTakenOnce, CompleteKeepsTakenOnce DEF L!Next
  <1> QED BY <1>1, <1>11 DEF Next, vars, loginVars

-----------------------------------------------------------------------------
(* A login completes at most once, and the browser is given the token of   *)
(* an active account at that moment, whatever browsers, requests that are  *)
(* repeated and administrators do in between.                              *)
THEOREM LoginsAreFresh == Spec => LoginIsFresh
  <1> DEFINE Fresh == \A l \in L!Logins : completed'[l] # completed[l] =>
                /\ completed[l] = 0
                /\ \E q \in Requests, u \in Users :
                      /\ req[q].pc = "complete" /\ req[q].login = l /\ req[q].user = {u}
                      /\ token[u] = req[q].token /\ token[u] # L!NoToken /\ active[u]
  <1>1. TakenOnce /\ [Next]_vars => [Fresh]_(L!vars)
    <2> SUFFICES ASSUME TakenOnce, [Next]_vars PROVE Fresh \/ UNCHANGED loginVars
      BY DEF loginVars, L!vars
    <2>1. CASE UNCHANGED completed
      BY <2>1
    <2>2. ASSUME NEW q \in Requests, L!Complete(q) PROVE Fresh
      <3>1. Live(q) /\ Named(req[q])
        BY <2>2 DEF L!Complete, TakenOnce, Live
      <3>2. \A l \in L!Logins : completed'[l] # completed[l] => l = req[q].login
        BY <2>2 DEF L!Complete, TakenOnce, LoginTypes
      <3>3. completed[req[q].login] = 0
        BY <3>1 DEF TakenOnce
      <3>4. PICK u \in Users : req[q].user = {u}
        BY <3>1 DEF Named
      <3>5. completed' # completed => L!Valid(u, req[q].token)
        BY <2>2, <3>4 DEF L!Complete
      <3> QED BY <2>2, <3>1, <3>2, <3>3, <3>4, <3>5 DEF L!Complete, L!Valid, Named
    <2>3. CASE L!Next
      BY <2>1, <2>2, <2>3 DEF L!Next, L!Start, L!Expire, L!Callback, L!Take, L!Identify,
         L!SessionToken, L!Pend, L!Abandon, L!Logout, L!SetActive
    <2> QED BY <2>1, <2>3 DEF Next, vars, loginVars
  <1> QED BY <1>1, TakenOnceInit, NextKeepsTakenOnce, PTL
          DEF Spec, LoginIsFresh, L!LoginIsFresh

-----------------------------------------------------------------------------
(* The directory.                                                          *)

Directory == D!TypeOK /\ D!EmailsIdentifyPeople /\ D!GrantsHaveAccounts

\* A step gives a person an address nobody else has: then an address is
\* still a person, if everybody else keeps the address there was.
LEMMA OneAddress ==
    ASSUME D!EmailsIdentifyPeople, NEW e, NEW email, ~D!Taken(email, e),
           \A g \in grants' : \/ g.who = e /\ g.email = email
                              \/ g.who # e /\ \E h \in grants : h.who = g.who /\ h.email = g.email,
           \A u \in accounts' :
              \/ u.name = e /\ u.email = email
              \/ u.name # e /\ \E v \in accounts : v.name = u.name /\ v.email = u.email
              \/ u.name # e /\ \E h \in grants : h.who = u.name /\ h.email = u.email
    PROVE  D!EmailsIdentifyPeople'
  <1>1. \A g \in grants : g.email = email => g.who = e
    BY DEF D!Taken
  <1>2. \A u \in accounts : u.email = email => u.name = e
    BY DEF D!Taken
  <1>3. \A g, h \in grants' : g.email = h.email <=> g.who = h.who
    BY <1>1 DEF D!EmailsIdentifyPeople
  <1>4. \A u, v \in accounts' : u.email = v.email <=> u.name = v.name
    BY <1>1, <1>2 DEF D!EmailsIdentifyPeople
  <1>5. \A g \in grants', u \in accounts' : g.email = u.email <=> g.who = u.name
    BY <1>1, <1>2 DEF D!EmailsIdentifyPeople
  <1> QED BY <1>3, <1>4, <1>5 DEF D!EmailsIdentifyPeople

\* The grants of others, and the address of one person's.
LEMMA MailedGrants ==
    ASSUME NEW gs \in SUBSET D!Grant, NEW e \in Employees, NEW email \in Emails
    PROVE  /\ D!Mailed(gs, e, email) \in SUBSET D!Grant
           /\ \A g \in D!Mailed(gs, e, email) :
                 /\ \E h \in gs : D!Key(h) = D!Key(g) /\ h.who = g.who
                                    /\ h.active = g.active
                                    /\ (g.who # e => h = g)
                 /\ g.who = e => g.email = email
  <1> SUFFICES ASSUME NEW h \in gs,
                      NEW g, g = IF h.who = e THEN [h EXCEPT !.email = email] ELSE h
               PROVE  /\ g \in D!Grant
                      /\ D!Key(h) = D!Key(g) /\ h.who = g.who /\ h.active = g.active
                      /\ g.who # e => h = g
                      /\ g.who = e => g.email = email
    BY DEF D!Mailed
  <1>1. h \in D!Grant
    OBVIOUS
  <1> QED BY <1>1 DEF D!Grant, D!Key

LEMMA MailedKeys ==
    ASSUME NEW gs \in SUBSET D!Grant, NEW e \in Employees, NEW email \in Emails,
           \A g, h \in gs : D!Key(g) = D!Key(h) => g = h
    PROVE  \A g, h \in D!Mailed(gs, e, email) : D!Key(g) = D!Key(h) => g = h
  <1> DEFINE new == D!Mailed(gs, e, email)
  <1>1. /\ new \in SUBSET D!Grant
        /\ \A g \in new : /\ \E h \in gs : D!Key(h) = D!Key(g) /\ h.who = g.who
                                             /\ h.active = g.active /\ (g.who # e => h = g)
                          /\ g.who = e => g.email = email
    BY MailedGrants
  <1> HIDE DEF new
  <1> SUFFICES ASSUME NEW g \in new, NEW h \in new, D!Key(g) = D!Key(h) PROVE g = h
    BY DEF new
  <1>2. PICK a \in gs : D!Key(a) = D!Key(g) /\ a.who = g.who
                           /\ (g.who # e => a = g) /\ a.active = g.active
    BY <1>1
  <1>3. PICK b \in gs : D!Key(b) = D!Key(h) /\ b.who = h.who
                           /\ (h.who # e => b = h) /\ b.active = h.active
    BY <1>1
  <1>4. a = b
    BY <1>2, <1>3
  <1>5. CASE g.who # e
    BY <1>2, <1>3, <1>4, <1>5
  <1>6. CASE g.who = e
    <2>1. g.email = h.email /\ g.who = h.who /\ g.active = h.active
      BY <1>1, <1>2, <1>3, <1>4, <1>6
    <2>2. g.post = h.post /\ g \in D!Grant /\ h \in D!Grant
      BY <1>1 DEF D!Key
    <2> QED BY <2>1, <2>2 DEF D!Grant
  <1> QED BY <1>5, <1>6

\* What syncContactUser leaves of the accounts.
LEMMA SyncedAccounts ==
    ASSUME NEW gs, NEW us, NEW e, NEW email, NEW shows
    PROVE  /\ \A u \in D!Synced(gs, us, e, email, shows) :
                 (u.name # e /\ u \in us) \/ u = D!Account(e, email, shows)
           /\ \A u \in us : \E v \in D!Synced(gs, us, e, email, shows) : v.name = u.name
           /\ D!Mine(gs, e) # {} => \E v \in D!Synced(gs, us, e, email, shows) : v.name = e
  <1> DEFINE a == D!Account(e, email, shows)
  <1>1. a.name = e
    BY DEF D!Account
  <1>2. D!Others(us, e) = {u \in us : u.name # e}
    BY DEF D!Others
  <1> HIDE DEF a
  <1>3. CASE D!Mine(gs, e) = {} /\ D!Others(us, e) = us
    <2>1. D!Synced(gs, us, e, email, shows) = us
      BY <1>3 DEF D!Synced
    <2> QED BY <1>2, <1>3, <2>1
  <1>4. CASE ~(D!Mine(gs, e) = {} /\ D!Others(us, e) = us)
    <2>1. D!Synced(gs, us, e, email, shows) = D!Others(us, e) \cup {a}
      BY <1>4 DEF D!Synced, a
    <2>2. a = D!Account(e, email, shows)
      BY DEF a
    <2> QED BY <1>1, <1>2, <2>1, <2>2
  <1> QED BY <1>3, <1>4

\* The account shows grants.
LEMMA ShownGrants ==
    ASSUME NEW gs \in SUBSET D!Grant, NEW e, NEW shows \in D!Shows(gs, e)
    PROVE  shows \in SUBSET [who : Employees, post : Posts]
  <1>1. \A g \in gs : D!Key(g) \in [who : Employees, post : Posts]
    BY DEF D!Grant, D!Key
  <1>2. shows = {} \/ \E g \in gs : shows = {D!Key(g)}
    BY DEF D!Shows, D!Mine
  <1> QED BY <1>1, <1>2

\* One account is written, the others are as they were.
LEMMA OneAccount ==
    ASSUME NEW us \in SUBSET D!AccountOf, NEW new, NEW e \in Employees, NEW email \in Emails,
           NEW shows \in SUBSET [who : Employees, post : Posts],
           \A u, v \in us : u.name = v.name => u = v,
           \A u \in new : (u.name # e /\ u \in us) \/ u = D!Account(e, email, shows)
    PROVE  /\ new \in SUBSET D!AccountOf
           /\ \A u, v \in new : u.name = v.name => u = v
           /\ \A u \in new : \/ u.name = e /\ u.email = email
                             \/ u.name # e /\ u \in us
  <1> DEFINE a == D!Account(e, email, shows)
  <1>1. a \in D!AccountOf /\ a.name = e /\ a.email = email
    BY DEF D!Account, D!AccountOf
  <1> HIDE DEF a
  <1> QED BY <1>1 DEF a

\* The accounts when grants go: nothing but what they show changes.
LEMMA DetachedAccounts ==
    ASSUME NEW us \in SUBSET D!AccountOf, NEW gone,
           \A u, v \in us : u.name = v.name => u = v
    PROVE  LET new == D!Detached(us, gone)
           IN /\ new \in SUBSET D!AccountOf
              /\ \A u, v \in new : u.name = v.name => u = v
              /\ \A u \in new : \E v \in us : v.name = u.name /\ v.email = u.email
              /\ \A u \in us : \E v \in new : v.name = u.name /\ v.email = u.email
  <1> DEFINE after(u) == [u EXCEPT !.shows = @ \ {D!Key(g) : g \in gone}]
             new == D!Detached(us, gone)
  <1>1. \A u \in us : after(u) \in D!AccountOf /\ after(u).name = u.name
                         /\ after(u).email = u.email
    BY DEF D!AccountOf
  <1>2. new = {after(u) : u \in us}
    BY DEF D!Detached
  <1> HIDE DEF after, new
  <1>3. /\ new \in SUBSET D!AccountOf
        /\ \A u \in new : \E v \in us : u = after(v) /\ v.name = u.name /\ v.email = u.email
        /\ \A u \in us : after(u) \in new
    BY <1>1, <1>2
  <1>4. \A u, v \in new : u.name = v.name => u = v
    BY <1>3
  <1> QED BY <1>1, <1>3, <1>4 DEF new

\* One person's grants and account are written, the rest kept.
LEMMA PersonWritten ==
    ASSUME Directory, NEW e \in Employees, NEW email \in Emails, ~D!Taken(email, e),
           grants' \in SUBSET D!Grant, accounts' \in SUBSET D!AccountOf,
           \A g, h \in grants' : D!Key(g) = D!Key(h) => g = h,
           \A u, v \in accounts' : u.name = v.name => u = v,
           \A g \in grants' : \/ g.who = e /\ g.email = email
                              \/ g.who # e /\ \E h \in grants : h.who = g.who /\ h.email = g.email,
           \A u \in accounts' :
              \/ u.name = e /\ u.email = email
              \/ u.name # e /\ \E v \in accounts : v.name = u.name /\ v.email = u.email
              \/ u.name # e /\ \E h \in grants : h.who = u.name /\ h.email = u.email,
           \A u \in accounts : u.name # e => \E v \in accounts' : v.name = u.name,
           (\E g \in grants' : g.who = e) => \E v \in accounts' : v.name = e
    PROVE  Directory'
  <1>1. D!EmailsIdentifyPeople'
    BY OneAddress DEF Directory
  <1>2. D!TypeOK'
    BY DEF D!TypeOK
  <1>3. D!GrantsHaveAccounts'
    BY DEF Directory, D!GrantsHaveAccounts
  <1> QED BY <1>1, <1>2, <1>3 DEF Directory

LEMMA SaveContactKeepsDirectory ==
    ASSUME Directory, NEW e \in Employees, NEW post \in Posts, NEW email \in Emails,
           NEW on \in BOOLEAN, D!SaveContact(e, post, email, on)
    PROVE  Directory'
  <1> DEFINE new == [who |-> e, post |-> post, email |-> email, active |-> on]
             kept == {g \in grants : D!Key(g) # D!Key(new)}
             gs == D!Mailed(kept, e, email)
  <1>1. /\ grants' = gs \cup {new} /\ ~D!Taken(email, e)
        /\ \E shows \in D!Shows(grants', e) :
              accounts' = D!Synced(grants', accounts, e, email, shows)
    BY DEF D!SaveContact
  <1>2. new \in D!Grant /\ new.who = e /\ new.email = email
    BY DEF D!Grant
  <1>3. kept \in SUBSET D!Grant /\ \A g \in kept : g \in grants /\ D!Key(g) # D!Key(new)
    BY DEF Directory, D!TypeOK
  <1>4. /\ gs \in SUBSET D!Grant
        /\ \A g \in gs : /\ \E h \in kept : D!Key(h) = D!Key(g) /\ h.who = g.who
                                              /\ (g.who # e => h = g) /\ h.active = g.active
                         /\ g.who = e => g.email = email
    BY <1>3, MailedGrants
  <1> HIDE DEF new, kept, gs
  <1>5. grants' \in SUBSET D!Grant
    BY <1>1, <1>2, <1>4
  <1>6. \A g, h \in grants' : D!Key(g) = D!Key(h) => g = h
    <2>1. \A g, h \in gs : D!Key(g) = D!Key(h) => g = h
      BY <1>3, MailedKeys DEF gs, Directory, D!TypeOK
    <2>2. \A g \in gs : D!Key(g) # D!Key(new)
      BY <1>3, <1>4
    <2> QED BY <1>1, <2>1, <2>2
  <1>7. \A g \in grants' : \/ g.who = e /\ g.email = email
                           \/ g.who # e /\ \E h \in grants : h.who = g.who /\ h.email = g.email
    BY <1>1, <1>2, <1>3, <1>4
  <1>8. PICK shows \in D!Shows(grants', e) :
               accounts' = D!Synced(grants', accounts, e, email, shows)
    BY <1>1
  <1>9. shows \in SUBSET [who : Employees, post : Posts]
    BY <1>5, ShownGrants
  <1>10. accounts \in SUBSET D!AccountOf /\ \A u, v \in accounts : u.name = v.name => u = v
    BY DEF Directory, D!TypeOK
  <1>11. /\ \A u \in accounts' :
               (u.name # e /\ u \in accounts) \/ u = D!Account(e, email, shows)
         /\ \A u \in accounts : \E v \in accounts' : v.name = u.name
         /\ D!Mine(grants', e) # {} => \E v \in accounts' : v.name = e
    BY <1>8, SyncedAccounts
  <1>12. /\ accounts' \in SUBSET D!AccountOf
         /\ \A u, v \in accounts' : u.name = v.name => u = v
         /\ \A u \in accounts' : \/ u.name = e /\ u.email = email
                                 \/ u.name # e /\ u \in accounts
    BY <1>9, <1>10, <1>11, OneAccount
  <1>13. (\E g \in grants' : g.who = e) => D!Mine(grants', e) # {}
    BY DEF D!Mine
  <1> QED BY <1>1, <1>5, <1>6, <1>7, <1>11, <1>12, <1>13, PersonWritten

\* Some of a person's grants go; the rest keep the address and the account
\* is synchronised.
LEMMA GrantsGo ==
    ASSUME Directory, NEW e \in Employees, NEW email \in Emails, ~D!Taken(email, e),
           NEW gs \in SUBSET grants, NEW gone, NEW shows \in D!Shows(gs, e),
           \E u \in accounts : u.name = e,
           grants' = D!Mailed(gs, e, email),
           accounts' = D!Synced(gs, D!Detached(accounts, gone), e, email, shows)
    PROVE  Directory'
  <1> DEFINE us == D!Detached(accounts, gone)
  <1>1. gs \in SUBSET D!Grant /\ \A h, k \in gs : D!Key(h) = D!Key(k) => h = k
    BY DEF Directory, D!TypeOK
  <1>2. accounts \in SUBSET D!AccountOf /\ \A u, v \in accounts : u.name = v.name => u = v
    BY DEF Directory, D!TypeOK
  <1>3. us \in SUBSET D!AccountOf /\ \A u, v \in us : u.name = v.name => u = v
    BY <1>2, DetachedAccounts
  <1>4. /\ \A u \in us : \E v \in accounts : v.name = u.name /\ v.email = u.email
        /\ \A u \in accounts : \E v \in us : v.name = u.name /\ v.email = u.email
    BY <1>2, DetachedAccounts
  <1> HIDE DEF us
  <1>5. grants' \in SUBSET D!Grant /\ \A h, k \in grants' : D!Key(h) = D!Key(k) => h = k
    BY <1>1, MailedGrants, MailedKeys
  <1>6. \A h \in grants' : /\ \E k \in gs : k.who = h.who /\ (h.who # e => k = h)
                           /\ h.who = e => h.email = email
    <2>1. \A h \in D!Mailed(gs, e, email) :
             /\ \E k \in gs : D!Key(k) = D!Key(h) /\ k.who = h.who /\ k.active = h.active
                                /\ (h.who # e => k = h)
             /\ h.who = e => h.email = email
      BY <1>1, MailedGrants
    <2> QED BY <2>1
  <1>7. shows \in SUBSET [who : Employees, post : Posts]
    BY <1>1, ShownGrants
  <1>8. accounts' = D!Synced(gs, us, e, email, shows)
    BY DEF us
  <1>9. /\ \A u \in accounts' : (u.name # e /\ u \in us) \/ u = D!Account(e, email, shows)
        /\ \A u \in us : \E v \in accounts' : v.name = u.name
    BY <1>8, SyncedAccounts
  <1>10. /\ accounts' \in SUBSET D!AccountOf
         /\ \A u, v \in accounts' : u.name = v.name => u = v
         /\ \A u \in accounts' : \/ u.name = e /\ u.email = email
                                 \/ u.name # e /\ u \in us
    BY <1>3, <1>7, <1>9, OneAccount
  <1>11. \A u \in accounts : \E v \in accounts' : v.name = u.name
    BY <1>4, <1>9
  <1>12. \A u \in accounts' :
            \/ u.name = e /\ u.email = email
            \/ u.name # e /\ \E v \in accounts : v.name = u.name /\ v.email = u.email
    BY <1>4, <1>10
  <1>13. \A h \in grants' : \/ h.who = e /\ h.email = email
                            \/ h.who # e /\ \E k \in grants : k.who = h.who /\ k.email = h.email
    BY <1>6
  <1> QED BY <1>5, <1>10, <1>11, <1>12, <1>13, PersonWritten

LEMMA DeleteContactKeepsDirectory ==
    ASSUME Directory, NEW g \in grants, D!DeleteContact(g)
    PROVE  Directory'
  <1> DEFINE gs == grants \ {g}
             us == D!Detached(accounts, {g})
  <1>1. g.who \in Employees /\ g.email \in Emails
    BY DEF Directory, D!TypeOK, D!Grant
  <1>2. PICK shows \in D!Shows(gs, g.who) :
               /\ grants' = D!Mailed(gs, g.who, g.email)
               /\ accounts' = D!Synced(gs, us, g.who, g.email, shows)
    BY DEF D!DeleteContact
  <1>3. ~D!Taken(g.email, g.who)
    BY DEF Directory, D!EmailsIdentifyPeople, D!Taken
  <1>4. \E u \in accounts : u.name = g.who
    BY DEF Directory, D!GrantsHaveAccounts
  <1>5. gs \in SUBSET grants
    OBVIOUS
  <1> HIDE DEF gs
  <1> QED BY <1>1, <1>2, <1>3, <1>4, <1>5, GrantsGo

\* A user's address goes to all grants of the number; the number has no
\* other account, and an account keeps its number while it has grants.
LEMMA WriteUserKeepsDirectory ==
    ASSUME Directory, NEW name \in Employees, NEW email \in Emails,
           NEW shows \in SUBSET [who : Employees, post : Posts],
           NEW others \in SUBSET accounts, D!WriteUser(others, name, email, shows),
           \A u \in accounts \ others : u.name # name => D!Mine(grants, u.name) = {}
    PROVE  Directory'
  <1> DEFINE a == D!Account(name, email, shows)
  <1>1. /\ accounts' = others \cup {a} /\ grants' = D!Mailed(grants, name, email)
        /\ \A u \in others : u.email # email /\ u.name # name
        /\ \A g \in grants : g.who = name \/ g.email # email
    BY DEF D!WriteUser, D!Free
  <1>2. a \in D!AccountOf /\ a.name = name /\ a.email = email
    BY DEF D!Account, D!AccountOf
  <1>3. /\ grants \in SUBSET D!Grant /\ \A g, h \in grants : D!Key(g) = D!Key(h) => g = h
        /\ accounts \in SUBSET D!AccountOf /\ \A u, v \in accounts : u.name = v.name => u = v
    BY DEF Directory, D!TypeOK
  <1> HIDE DEF a
  <1>4. /\ grants' \in SUBSET D!Grant
        /\ \A g, h \in grants' : D!Key(g) = D!Key(h) => g = h
        /\ \A g \in grants' : /\ \E h \in grants : h.who = g.who /\ (g.who # name => h = g)
                              /\ g.who = name => g.email = email
    BY <1>1, <1>3, MailedGrants, MailedKeys
  <1>5. D!TypeOK'
    BY <1>1, <1>2, <1>3, <1>4 DEF D!TypeOK
  <1>6. D!EmailsIdentifyPeople'
    <2>1. \A g, h \in grants' : g.email = h.email <=> g.who = h.who
      BY <1>1, <1>4 DEF Directory, D!EmailsIdentifyPeople
    <2>2. \A u, v \in accounts' : u.email = v.email <=> u.name = v.name
      BY <1>1, <1>2 DEF Directory, D!EmailsIdentifyPeople
    <2>3. \A g \in grants', u \in accounts' : g.email = u.email <=> g.who = u.name
      BY <1>1, <1>2, <1>4 DEF Directory, D!EmailsIdentifyPeople
    <2> QED BY <2>1, <2>2, <2>3 DEF D!EmailsIdentifyPeople
  <1>7. D!GrantsHaveAccounts'
    <2> SUFFICES ASSUME NEW g \in grants' PROVE \E u \in accounts' : u.name = g.who
      BY DEF D!GrantsHaveAccounts
    <2>1. PICK h \in grants : h.who = g.who
      BY <1>4
    <2>2. PICK u \in accounts : u.name = h.who
      BY DEF Directory, D!GrantsHaveAccounts
    <2>3. u \in others \/ u.name = name
      BY <2>2 DEF D!Mine
    <2> QED BY <1>1, <1>2, <2>1, <2>2, <2>3
  <1> QED BY <1>5, <1>6, <1>7 DEF Directory

\* The grants of the number go with the account.
LEMMA DeleteUserKeepsDirectory ==
    ASSUME Directory, NEW u \in accounts, D!DeleteUser(u)
    PROVE  Directory'
  <1> DEFINE gone == {g \in grants : g.who = u.name \/ D!Key(g) \in u.shows}
             us == accounts \ {u}
  <1>1. grants' = grants \ gone /\ accounts' = D!Detached(us, gone)
    BY DEF D!DeleteUser
  <1>2. us \in SUBSET D!AccountOf /\ \A v, w \in us : v.name = w.name => v = w
    BY DEF Directory, D!TypeOK
  <1>8. \A v : v \in us <=> v \in accounts /\ v # u
    OBVIOUS
  <1>3. \A g \in grants' : g \in grants /\ g.who # u.name
    BY <1>1
  <1> HIDE DEF gone, us
  <1>4. /\ accounts' \in SUBSET D!AccountOf
        /\ \A v, w \in accounts' : v.name = w.name => v = w
        /\ \A v \in accounts' : \E w \in us : w.name = v.name /\ w.email = v.email
        /\ \A w \in us : \E v \in accounts' : v.name = w.name /\ v.email = w.email
    BY <1>1, <1>2, DetachedAccounts
  <1>5. D!TypeOK'
    BY <1>3, <1>4 DEF D!TypeOK, Directory
  <1>6. D!EmailsIdentifyPeople'
    BY <1>3, <1>4, <1>8 DEF D!EmailsIdentifyPeople, Directory
  <1>7. D!GrantsHaveAccounts'
    BY <1>3, <1>4, <1>8 DEF D!GrantsHaveAccounts, Directory
  <1> QED BY <1>5, <1>6, <1>7 DEF Directory

\* One person has the address on every grant, others have what they had.
Merged(gs, e, email) ==
    /\ gs \in SUBSET D!Grant
    /\ \A g, h \in gs : D!Key(g) = D!Key(h) => g = h
    /\ \A g \in gs :
          \/ g.who = e /\ g.email = email
          \/ g.who # e /\ \E h \in grants : h.who = g.who /\ h.email = g.email
    /\ \E g \in gs : g.who = e

\* A person's file is read in: the grants of the file replace those of the
\* same posts, the others get the address.
LEMMA FileRead ==
    ASSUME Directory, NEW e \in Employees, NEW email \in Emails, NEW posts \in SUBSET Posts,
           NEW on \in SUBSET posts, NEW replace \in BOOLEAN,
           D!ImportContacts(e, email, posts, on, replace)
    PROVE  Merged(grants', e, email)
  <1> DEFINE row(p) == [who |-> e, post |-> p, email |-> email, active |-> p \in on]
             file == {row(p) : p \in posts}
             kept == {g \in grants : D!Key(g) \notin {D!Key(f) : f \in file}}
             mailed == D!Mailed(kept, e, email)
             rest(g) == [g EXCEPT !.active = @ /\ ~replace]
             others == {rest(g) : g \in mailed}
  <1>1. posts # {} /\ grants' = others \cup file
    BY DEF D!ImportContacts
  <1>2. \A p \in posts : row(p) \in D!Grant /\ row(p).who = e /\ row(p).email = email
                           /\ row(p).post = p
    BY DEF D!Grant
  <1>3. /\ kept \in SUBSET D!Grant
        /\ \A g, h \in kept : D!Key(g) = D!Key(h) => g = h
        /\ \A g \in kept : g \in grants /\ \A f \in file : D!Key(g) # D!Key(f)
    BY DEF Directory, D!TypeOK
  <1> HIDE DEF row, kept
  <1>4. /\ file \in SUBSET D!Grant
        /\ \A f \in file : f.who = e /\ f.email = email
        /\ \A f, k \in file : D!Key(f) = D!Key(k) => f = k
        /\ file # {}
    BY <1>1, <1>2 DEF D!Key
  <1>5. /\ mailed \in SUBSET D!Grant
        /\ \A g, h \in mailed : D!Key(g) = D!Key(h) => g = h
    BY <1>3, MailedGrants, MailedKeys
  <1>6. \A g \in mailed : /\ \E h \in kept : D!Key(h) = D!Key(g) /\ h.who = g.who
                                               /\ (g.who # e => h = g)
                          /\ g.who = e => g.email = email
    BY <1>3, MailedGrants
  <1> HIDE DEF file, mailed
  <1>7. \A g \in mailed : rest(g) \in D!Grant /\ D!Key(rest(g)) = D!Key(g)
                            /\ rest(g).who = g.who /\ rest(g).email = g.email
    BY <1>5 DEF D!Grant, D!Key
  <1> HIDE DEF rest
  <1>8. /\ others \in SUBSET D!Grant
        /\ \A g, h \in others : D!Key(g) = D!Key(h) => g = h
        /\ \A g \in others : \E h \in mailed : D!Key(h) = D!Key(g) /\ h.who = g.who
                                               /\ h.email = g.email
    BY <1>5, <1>7
  <1> HIDE DEF others
  <1>9. grants' \in SUBSET D!Grant
    BY <1>1, <1>4, <1>8
  <1>10. \A g \in others, f \in file : D!Key(g) # D!Key(f)
    BY <1>3, <1>6, <1>8
  <1>11. \A g, h \in grants' : D!Key(g) = D!Key(h) => g = h
    BY <1>1, <1>4, <1>8, <1>10
  <1>12. ASSUME NEW g \in others
         PROVE  \/ g.who = e /\ g.email = email
                \/ g.who # e /\ \E h \in grants : h.who = g.who /\ h.email = g.email
    <2>1. PICK h \in mailed : h.who = g.who /\ h.email = g.email
      BY <1>8
    <2> QED BY <1>3, <1>6, <2>1
  <1> QED BY <1>1, <1>4, <1>9, <1>11, <1>12 DEF Merged

LEMMA ImportContactsKeepsDirectory ==
    ASSUME Directory, NEW e \in Employees, NEW email \in Emails, NEW posts \in SUBSET Posts,
           NEW on \in SUBSET posts, NEW replace \in BOOLEAN,
           D!ImportContacts(e, email, posts, on, replace)
    PROVE  Directory'
  <1>1. /\ grants' \in SUBSET D!Grant
        /\ \A g, h \in grants' : D!Key(g) = D!Key(h) => g = h
        /\ \A g \in grants' :
              \/ g.who = e /\ g.email = email
              \/ g.who # e /\ \E h \in grants : h.who = g.who /\ h.email = g.email
        /\ \E g \in grants' : g.who = e
    <2>1. Merged(grants', e, email)
      BY FileRead
    <2> QED BY <2>1 DEF Merged
  <1>2. ~D!Taken(email, e)
    BY DEF D!ImportContacts
  <1>3. accounts \in SUBSET D!AccountOf /\ \A u, v \in accounts : u.name = v.name => u = v
    BY DEF Directory, D!TypeOK
  <1>4. ASSUME NEW shows \in D!Shows(grants', e),
               accounts' = D!Synced(grants', accounts, e, email, shows)
        PROVE  Directory'
    <2>1. shows \in SUBSET [who : Employees, post : Posts]
      BY <1>1, ShownGrants
    <2>2. /\ \A u \in accounts' :
                (u.name # e /\ u \in accounts) \/ u = D!Account(e, email, shows)
          /\ \A u \in accounts : \E v \in accounts' : v.name = u.name
          /\ D!Mine(grants', e) # {} => \E v \in accounts' : v.name = e
      BY <1>4, SyncedAccounts
    <2>3. /\ accounts' \in SUBSET D!AccountOf
          /\ \A u, v \in accounts' : u.name = v.name => u = v
          /\ \A u \in accounts' : \/ u.name = e /\ u.email = email
                                  \/ u.name # e /\ u \in accounts
      BY <1>3, <2>1, <2>2, OneAccount
    <2>4. D!Mine(grants', e) # {}
      BY <1>1 DEF D!Mine
    <2> QED BY <1>1, <1>2, <2>2, <2>3, <2>4, PersonWritten
  <1> DEFINE people == {g.who : g \in grants'}
  <1>5. ASSUME NEW shows, \A p \in people : shows[p] \in D!Shows(grants', p),
               accounts' = {u \in accounts : u.name \notin people}
                     \cup {D!Account(g.who, g.email, shows[g.who]) : g \in grants'}
        PROVE  Directory'
    <2> DEFINE given(g) == D!Account(g.who, g.email, shows[g.who])
    <2>1. ASSUME NEW g \in grants' PROVE given(g) \in D!AccountOf
      <3>1. shows[g.who] \in SUBSET [who : Employees, post : Posts]
        BY <1>1, <1>5, ShownGrants
      <3>2. g.who \in Employees /\ g.email \in Emails
        BY <1>1 DEF D!Grant
      <3> QED BY <3>1, <3>2 DEF D!Account, D!AccountOf
    <2>2. \A g \in grants' : given(g).name = g.who /\ given(g).email = g.email
      BY DEF D!Account
    <2>3. \A g, h \in grants' : g.who = h.who => g.email = h.email
      BY <1>1 DEF Directory, D!EmailsIdentifyPeople
    <2>4. \A g, h \in grants' : g.who = h.who => given(g) = given(h)
      BY <2>3
    <2> HIDE DEF given
    <2>5. accounts' = {u \in accounts : u.name \notin people} \cup {given(g) : g \in grants'}
      BY <1>5 DEF given
    <2>6. \A u \in accounts' : \/ u \in accounts /\ \A g \in grants' : g.who # u.name
                               \/ \E g \in grants' : u = given(g)
      BY <2>5
    <2>7. /\ \A g \in grants' : given(g) \in accounts'
          /\ \A u \in accounts : u \in accounts' \/ \E g \in grants' : g.who = u.name
      BY <2>5
    <2>8. accounts' \in SUBSET D!AccountOf
      BY <1>3, <2>1, <2>6
    <2>9. \A u, v \in accounts' : u.name = v.name => u = v
      BY <1>3, <2>2, <2>4, <2>6
    <2>10. \A u \in accounts : u.name # e => \E v \in accounts' : v.name = u.name
      BY <2>2, <2>7
    <2>11. \E v \in accounts' : v.name = e
      BY <1>1, <2>2, <2>7
    <2>12. ASSUME NEW u \in accounts'
           PROVE  \/ u.name = e /\ u.email = email
                  \/ u.name # e /\ \E v \in accounts : v.name = u.name /\ v.email = u.email
                  \/ u.name # e /\ \E h \in grants : h.who = u.name /\ h.email = u.email
      <3>1. CASE u \in accounts /\ \A g \in grants' : g.who # u.name
        BY <1>1, <3>1
      <3>2. ASSUME NEW g \in grants', u = given(g)
            PROVE  \/ u.name = e /\ u.email = email
                   \/ u.name # e /\ \E h \in grants : h.who = u.name /\ h.email = u.email
        BY <1>1, <2>2, <3>2
      <3> QED BY <2>6, <3>1, <3>2
    <2> QED BY <1>1, <1>2, <2>8, <2>9, <2>10, <2>11, <2>12, PersonWritten
  <1> QED BY <1>4, <1>5 DEF D!ImportContacts

LEMMA NextKeepsDirectory == Directory /\ [Next]_vars => Directory'
  <1> SUFFICES ASSUME Directory, [Next]_vars PROVE Directory'
    OBVIOUS
  <1>1. CASE UNCHANGED <<grants, accounts>>
    BY <1>1 DEF Directory, D!TypeOK, D!EmailsIdentifyPeople, D!GrantsHaveAccounts
  <1>2. \A shows \in D!Showable : shows \in SUBSET [who : Employees, post : Posts]
    <2>1. \A g \in grants : D!Key(g) \in [who : Employees, post : Posts]
      BY DEF Directory, D!TypeOK, D!Grant, D!Key
    <2> QED BY <2>1 DEF D!Showable
  <1>3. ASSUME NEW e \in Employees, NEW email \in Emails, NEW shows \in D!Showable,
               D!CreateUser(e, email, shows)
        PROVE  Directory'
    BY <1>2, <1>3, WriteUserKeepsDirectory DEF D!CreateUser
  <1>4. ASSUME NEW e \in Employees, NEW email \in Emails, NEW shows \in D!Showable,
               NEW u \in accounts, D!UpdateUser(u, e, email, shows)
        PROVE  Directory'
    <2>1. D!WriteUser(accounts \ {u}, e, email, shows) /\ D!Renamable(u, e)
      BY <1>4 DEF D!UpdateUser
    <2>2. \A v \in accounts \ (accounts \ {u}) : v.name # e => D!Mine(grants, v.name) = {}
      BY <2>1 DEF D!Renamable
    <2>3. shows \in SUBSET [who : Employees, post : Posts]
      BY <1>2
    <2> QED BY <2>1, <2>2, <2>3, WriteUserKeepsDirectory
  <1>5. CASE D!Next
    BY <1>3, <1>4, <1>5, SaveContactKeepsDirectory, ImportContactsKeepsDirectory,
       DeleteContactKeepsDirectory, DeleteUserKeepsDirectory DEF D!Next
  <1> QED BY <1>1, <1>5 DEF Next, vars, directoryVars

LEMMA AlwaysDirectory == Spec => []Directory
  <1>1. Init => Directory
    BY DEF Init, D!Init, Directory, D!TypeOK, D!EmailsIdentifyPeople, D!GrantsHaveAccounts
  <1> QED BY <1>1, NextKeepsDirectory, PTL DEF Spec

(* An address is one person over all grants and accounts.                  *)
THEOREM AddressesArePeople == Spec => []EmailsIdentifyPeople
  <1>1. Directory => EmailsIdentifyPeople
    BY DEF Directory, EmailsIdentifyPeople
  <1> QED BY <1>1, AlwaysDirectory, PTL

(* No grant outlives the account of its employee number.                   *)
THEOREM NoGrantIsInherited == Spec => []GrantsHaveAccounts
  <1>1. Directory => GrantsHaveAccounts
    BY DEF Directory, GrantsHaveAccounts
  <1> QED BY <1>1, AlwaysDirectory, PTL

-----------------------------------------------------------------------------
(* Connection: what is used has passed a probe.                            *)

Pcs == {"url", "model", "key", "ready", "old", "passed", "failed", "checked"}

Memory == [pc : Pcs, url : SUBSET C!Known(Urls), model : SUBSET C!Known(Models),
           key : SUBSET C!Known(Keys), old : SUBSET C!Known(Urls)]

Settings == [url : C!Known(Urls), model : C!Known(Models), key : C!Known(Keys)]

\* What an actor is about to act on has passed a probe.
Backed(m, known) == m.pc \in {"passed", "checked"} => C!Connection(m) \subseteq known

\* The recorded fingerprint, and what a tester or a caller is about to act
\* on, stand for connections that a probe has succeeded on.
Tested ==
    /\ conf \in Settings
    /\ mem \in [C!Actors -> Memory]
    /\ test \subseteq passed
    /\ \A a \in C!Actors : Backed(mem[a], passed)

\* The start has a blank memory, whatever its values.
LEMMA StartIsMemory == C!Start \in Memory /\ C!Start.pc = "model"
  BY DEF C!Start, Memory, Pcs

LEMMA TestedInit == Init => Tested
  <1> SUFFICES ASSUME Init PROVE Tested
    OBVIOUS
  <1>1. conf \in Settings
    BY DEF Init, C!Init, C!Rows, C!Known, Settings
  <1> QED BY <1>1, StartIsMemory DEF Tested, Backed, Init, C!Init

-----------------------------------------------------------------------------
(* Every step.                                                             *)

\* A step in which one actor's memory changes keeps the invariant, if that
\* actor's new memory and the new fingerprint are backed.
LEMMA OneMemoryMoves ==
    ASSUME Tested, NEW a \in C!Actors, NEW new \in Memory,
           mem' = [mem EXCEPT ![a] = new], conf' \in Settings,
           passed \subseteq passed', test' \subseteq passed', Backed(new, passed')
    PROVE  Tested'
  BY DEF Tested, Backed

LEMMA ReadRowKeepsTested ==
    ASSUME Tested, NEW a \in C!Actors, NEW row \in C!Rows, C!ReadRow(a, row)
    PROVE  Tested'
  <1> DEFINE new == [mem[a] EXCEPT !.pc = C!After[row], ![row] = {conf[row]}]
  <1>1. mem[a] \in Memory /\ conf \in Settings
    BY DEF Tested
  <1>2. new \in Memory /\ new.pc \in {"url", "key", "ready"}
    <2>1. CASE row = "url"
      BY <1>1, <2>1 DEF Memory, Settings, Pcs, C!After
    <2>2. CASE row = "model"
      BY <1>1, <2>2 DEF Memory, Settings, Pcs, C!After
    <2>3. CASE row = "key"
      BY <1>1, <2>3 DEF Memory, Settings, Pcs, C!After
    <2> QED BY <2>1, <2>2, <2>3 DEF C!Rows
  <1>3. mem' = [mem EXCEPT ![a] = new] /\ UNCHANGED <<conf, test, passed>>
    BY DEF C!ReadRow
  <1> HIDE DEF new
  <1>4. Backed(new, passed')
    BY <1>2 DEF Backed
  <1> QED BY <1>1, <1>2, <1>3, <1>4, OneMemoryMoves DEF Tested

LEMMA ReadOldKeepsTested ==
    ASSUME Tested, NEW a \in C!Actors, C!ReadOld(a)
    PROVE  Tested'
  <1> DEFINE new == [mem[a] EXCEPT !.pc = "old", !.old = {conf.url}]
  <1>1. new \in Memory /\ new.pc = "old"
    BY DEF Tested, Memory, Settings, Pcs
  <1>2. mem' = [mem EXCEPT ![a] = new] /\ UNCHANGED <<conf, test, passed>>
    BY DEF C!ReadOld
  <1> HIDE DEF new
  <1>3. Backed(new, passed')
    BY <1>1 DEF Backed
  <1> QED BY <1>1, <1>2, <1>3, OneMemoryMoves DEF Tested

\* A change of the settings forgets the fingerprint.
LEMMA PatchKeepsTested ==
    ASSUME Tested, NEW a \in C!Actors, C!Patch(a)
    PROVE  Tested'
  <1>1. conf' \in Settings
    <2>1. PICK url \in Urls, model \in Models, key \in Keys,
               named \in SUBSET C!Rows, clear \in BOOLEAN :
             \E u \in (IF "url" \in named THEN {url} ELSE mem[a].url) \ {Unset},
                m \in (IF "model" \in named THEN {model} ELSE mem[a].model) \ {Unset} :
                conf' = [url |-> u, model |-> m,
                         key |-> IF clear \/ ("key" \notin named
                                     /\ mem[a].old # IF "url" \in named THEN {url} ELSE mem[a].url)
                                 THEN Unset
                                 ELSE IF "key" \in named THEN key ELSE conf.key]
      BY DEF C!Patch
    <2>2. mem[a].url \subseteq C!Known(Urls) /\ mem[a].model \subseteq C!Known(Models)
             /\ conf.key \in C!Known(Keys)
      BY DEF Tested, Memory, Settings
    <2> QED BY <2>1, <2>2 DEF Settings, C!Known
  <1>2. mem' = [mem EXCEPT ![a] = C!Start] /\ test' = {} /\ passed' = passed
    BY DEF C!Patch
  <1>3. Backed(C!Start, passed')
    BY StartIsMemory DEF Backed
  <1> QED BY <1>1, <1>2, <1>3, StartIsMemory, OneMemoryMoves

LEMMA ProbeKeepsTested ==
    ASSUME Tested, NEW a \in C!Actors, NEW ok \in BOOLEAN, C!Probe(a, ok)
    PROVE  Tested'
  <1> DEFINE new == [mem[a] EXCEPT !.pc = IF ok THEN "passed" ELSE "failed"]
  <1>1. new \in Memory /\ C!Connection(new) = C!Connection(mem[a])
    BY DEF Tested, Memory, Pcs, C!Connection
  <1>2. mem' = [mem EXCEPT ![a] = new] /\ UNCHANGED <<conf, test>>
    BY DEF C!Probe
  <1>3. passed \subseteq passed' /\ (ok => C!Connection(mem[a]) \subseteq passed')
    BY DEF C!Probe
  <1>4. ~ok => new.pc = "failed"
    BY DEF Tested, Memory
  <1> HIDE DEF new
  <1>5. Backed(new, passed')
    BY <1>1, <1>3, <1>4 DEF Backed
  <1> QED BY <1>1, <1>2, <1>3, <1>5, OneMemoryMoves DEF Tested

\* The outcome that is recorded is one of an earlier probe, at the latest
\* the last one.
LEMMA RecordKeepsTested ==
    ASSUME Tested, NEW a \in C!Actors, C!Record(a)
    PROVE  Tested'
  <1>1. test' \subseteq passed'
    BY DEF C!Record, C!Fingerprint, Tested, Backed
  <1>2. mem' = [mem EXCEPT ![a] = C!Start] /\ UNCHANGED <<conf, passed>>
    BY DEF C!Record
  <1>3. Backed(C!Start, passed')
    BY StartIsMemory DEF Backed
  <1> QED BY <1>1, <1>2, <1>3, StartIsMemory, OneMemoryMoves DEF Tested

\* A caller who goes on has compared its reading with the fingerprint.
LEMMA CheckKeepsTested ==
    ASSUME Tested, NEW a \in C!Actors, C!Check(a)
    PROVE  Tested'
  <1> DEFINE go == [mem[a] EXCEPT !.pc = "checked"]
             new == IF test = C!Fingerprint(mem[a]) THEN go ELSE C!Start
  <1>1. go \in Memory /\ C!Connection(go) = C!Connection(mem[a])
    BY DEF Tested, Memory, Pcs, C!Connection
  <1>2. mem' = [mem EXCEPT ![a] = new] /\ UNCHANGED <<conf, test, passed>>
    BY DEF C!Check
  <1> HIDE DEF go
  <1>3. new \in Memory /\ Backed(new, passed)
    BY <1>1, StartIsMemory DEF Backed, Tested, C!Fingerprint
  <1> HIDE DEF new
  <1> QED BY <1>2, <1>3, OneMemoryMoves DEF Tested

LEMMA CallKeepsTested ==
    ASSUME Tested, NEW a \in C!Actors, C!Call(a)
    PROVE  Tested'
  <1>1. Backed(C!Start, passed)
    BY StartIsMemory DEF Backed
  <1>2. mem' = [mem EXCEPT ![a] = C!Start] /\ UNCHANGED <<conf, test, passed>>
    BY DEF C!Call
  <1> QED BY <1>1, <1>2, StartIsMemory, OneMemoryMoves DEF Tested

LEMMA NextKeepsTested == Tested /\ [Next]_vars => Tested'
  <1> SUFFICES ASSUME Tested, [Next]_vars PROVE Tested'
    OBVIOUS
  <1>1. CASE UNCHANGED connectionVars
    BY <1>1 DEF connectionVars, Tested, Backed
  <1>2. CASE C!Next
    <2>1. \A a \in Admins \cup Testers \cup Callers : a \in C!Actors
      BY DEF C!Actors
    <2> QED BY <1>2, <2>1, ReadRowKeepsTested, ReadOldKeepsTested, PatchKeepsTested,
               ProbeKeepsTested, RecordKeepsTested, CheckKeepsTested, CallKeepsTested
            DEF C!Next
  <1>3. QED
    BY <1>1, <1>2 DEF Next, vars, connectionVars

-----------------------------------------------------------------------------
(* A model call uses an address, a model and a key that have passed a test *)
(* together, however the reads of callers and testers and the changes of   *)
(* administrators interleave.                                              *)
THEOREM UsedConnectionsAreTested == Spec => []UsedIsTested
  <1>1. Tested => UsedIsTested
    BY DEF Tested, Backed, UsedIsTested, C!UsedIsTested, C!Actors
  <1> QED BY <1>1, TestedInit, NextKeepsTested, PTL DEF Spec

-----------------------------------------------------------------------------
(* The maintenance queue.                                                  *)

MaintenancePcs == {"idle", "claimed", "batch", "calling", "answered", "failing"}

MaintenanceRow == [name : M!Names, province : SUBSET (M!Names \cup {"hand"})]
MaintenanceJob == [st : {"none", "pending", "running", "success", "failed"},
                   ids : SUBSET Schools, attempts : Nat, live : BOOLEAN]
MaintenanceWorker == [pc : MaintenancePcs, job : Nat, token : Nat, todo : SUBSET M!Pairs,
                      batch : SUBSET M!Pairs, answer : SUBSET M!Pairs]

\* The names a worker has read, for whatever is left of them.
Read(x) == x.todo \cup x.batch \cup x.answer

\* A worker at work has claimed a job and, once it has read the names of the
\* schools, asks for a school by one name only.
OneName(x) ==
    /\ x.pc # "idle" => x.job \in M!Jobs
    /\ x.pc = "claimed" => Read(x) = {}
    /\ \A a, b \in Read(x) : a[1] = b[1] => a = b

NamesReadOnce ==
    /\ school \in [Schools -> MaintenanceRow]
    /\ job \in [M!Jobs -> MaintenanceJob]
    /\ worker \in [Workers -> MaintenanceWorker]
    /\ \A w \in Workers : OneName(worker[w])

LEMMA NamesReadOnceInit == Init => NamesReadOnce
  <1> SUFFICES ASSUME Init PROVE NamesReadOnce
    OBVIOUS
  <1>1. M!Idle \in MaintenanceWorker /\ OneName(M!Idle) /\ M!NoJob \in MaintenanceJob
    BY DEF M!Idle, M!NoJob, MaintenanceWorker, MaintenanceJob, MaintenancePcs, OneName, Read
  <1>2. school \in [Schools -> MaintenanceRow]
    BY DEF Init, M!Init, M!NoProvince, M!Names, MaintenanceRow
  <1> QED BY <1>1, <1>2 DEF Init, M!Init, NamesReadOnce

\* One worker goes on.
LEMMA WorkerMoves ==
    ASSUME NamesReadOnce, NEW w \in Workers, NEW x \in MaintenanceWorker, OneName(x),
           worker' = [worker EXCEPT ![w] = x], school' \in [Schools -> MaintenanceRow],
           job' \in [M!Jobs -> MaintenanceJob]
    PROVE  NamesReadOnce'
  <1>1. worker'[w] = x /\ \A v \in Workers \ {w} : worker'[v] = worker[v]
    BY DEF NamesReadOnce
  <1>2. worker' \in [Workers -> MaintenanceWorker]
    BY DEF NamesReadOnce
  <1> QED BY <1>1, <1>2 DEF NamesReadOnce

\* With the names it has, a worker goes to another step.
LEMMA WorkerGoes ==
    ASSUME NamesReadOnce, NEW w \in Workers, NEW pc \in MaintenancePcs \ {"claimed"},
           worker[w].pc # "idle", M!Goes(w, pc),
           school' \in [Schools -> MaintenanceRow], UNCHANGED job
    PROVE  NamesReadOnce'
  <1> DEFINE x == [worker[w] EXCEPT !.pc = pc]
  <1>1. worker[w] \in MaintenanceWorker /\ OneName(worker[w])
    BY DEF NamesReadOnce
  <1>2. x \in MaintenanceWorker /\ x.pc = pc /\ x.job = worker[w].job
           /\ Read(x) = Read(worker[w])
    BY <1>1 DEF MaintenanceWorker, Read
  <1>3. worker' = [worker EXCEPT ![w] = x] /\ job' \in [M!Jobs -> MaintenanceJob]
    BY DEF M!Goes, NamesReadOnce
  <1> HIDE DEF x
  <1>4. OneName(x)
    BY <1>1, <1>2 DEF OneName
  <1> QED BY <1>2, <1>3, <1>4, WorkerMoves

\* A job's row changes.
LEMMA JobRow ==
    ASSUME NamesReadOnce, NEW j \in M!Jobs, NEW x \in MaintenanceJob,
           job' = [job EXCEPT ![j] = x], UNCHANGED <<school, worker>>
    PROVE  NamesReadOnce'
  BY DEF NamesReadOnce

LEMMA WorkerRests ==
    ASSUME NamesReadOnce, NEW w \in Workers, worker' = [worker EXCEPT ![w] = M!Idle],
           UNCHANGED school, job' \in [M!Jobs -> MaintenanceJob]
    PROVE  NamesReadOnce'
  <1>1. M!Idle \in MaintenanceWorker /\ OneName(M!Idle)
    BY DEF M!Idle, MaintenanceWorker, MaintenancePcs, OneName, Read
  <1> QED BY <1>1, WorkerMoves DEF NamesReadOnce

LEMMA ClaimKeepsNames ==
    ASSUME NamesReadOnce, NEW w \in Workers, NEW j \in M!Jobs, M!Claim(w, j)
    PROVE  NamesReadOnce'
  <1> DEFINE t == job'[j].attempts
             x == [M!Idle EXCEPT !.pc = "claimed", !.job = j, !.token = t]
             row == [job[j] EXCEPT !.st = "running", !.live = TRUE, !.attempts = @ + 1]
  <1>1. worker' = [worker EXCEPT ![w] = x] /\ UNCHANGED school
           /\ job' = [job EXCEPT ![j] = row]
    BY DEF M!Claim
  <1>2. job[j] \in MaintenanceJob
    BY DEF NamesReadOnce
  <1>3. row \in MaintenanceJob
    <2>1. job[j].attempts + 1 \in Nat
      BY <1>2 DEF MaintenanceJob
    <2> QED BY <1>2, <2>1 DEF MaintenanceJob
  <1> HIDE DEF row
  <1>4. job' \in [M!Jobs -> MaintenanceJob] /\ t \in Nat
    BY <1>1, <1>3 DEF NamesReadOnce, MaintenanceJob
  <1> HIDE DEF t
  <1>5. x \in MaintenanceWorker /\ OneName(x)
    <2>1. j \in Nat
      BY DEF M!Jobs
    <2> QED BY <1>4, <2>1 DEF M!Idle, MaintenanceWorker, MaintenancePcs, Read, OneName
  <1> HIDE DEF x
  <1> QED BY <1>1, <1>4, <1>5, WorkerMoves DEF NamesReadOnce

LEMMA SelectKeepsNames ==
    ASSUME NamesReadOnce, NEW w \in Workers, M!Select(w)
    PROVE  NamesReadOnce'
  <1> DEFINE ids == {t \in job[worker[w].job].ids : school[t].province = M!NoProvince}
             pairs == {<<s, school[s].name>> : s \in ids}
             x == [worker[w] EXCEPT !.pc = "batch", !.todo = pairs]
  <1>1. worker' = [worker EXCEPT ![w] = x] /\ UNCHANGED <<school, job>>
    BY DEF M!Select
  <1>2. /\ worker[w] \in MaintenanceWorker /\ worker[w].job \in M!Jobs
        /\ Read(worker[w]) = {}
    BY DEF NamesReadOnce, M!Select, M!At, OneName
  <1>3. ids \subseteq Schools
    BY <1>2 DEF NamesReadOnce, MaintenanceJob
  <1> HIDE DEF ids
  <1>4. pairs \in SUBSET M!Pairs /\ \A a, b \in pairs : a[1] = b[1] => a = b
    BY <1>3 DEF M!Pairs, NamesReadOnce, MaintenanceRow
  <1> HIDE DEF pairs
  <1>5. x \in MaintenanceWorker /\ x.pc = "batch" /\ x.job = worker[w].job /\ Read(x) = pairs
    BY <1>2, <1>4 DEF MaintenanceWorker, MaintenancePcs, Read
  <1> HIDE DEF x
  <1>6. OneName(x)
    BY <1>2, <1>4, <1>5 DEF OneName
  <1> QED BY <1>1, <1>5, <1>6, WorkerMoves DEF NamesReadOnce

LEMMA AcquireKeepsNames ==
    ASSUME NamesReadOnce, NEW w \in Workers, M!Acquire(w)
    PROVE  NamesReadOnce'
  <1>1. PICK batch \in SUBSET worker[w].todo :
               worker' = [worker EXCEPT ![w].pc = "calling", ![w].batch = batch,
                                        ![w].todo = @ \ batch]
    BY DEF M!Acquire
  <1> DEFINE x == [worker[w] EXCEPT !.pc = "calling", !.batch = batch, !.todo = @ \ batch]
  <1>2. worker' = [worker EXCEPT ![w] = x] /\ UNCHANGED <<school, job>>
    BY <1>1 DEF M!Acquire
  <1>3. worker[w] \in MaintenanceWorker /\ OneName(worker[w]) /\ worker[w].pc = "batch"
    BY DEF NamesReadOnce, M!Acquire, M!At
  <1>4. /\ x \in MaintenanceWorker /\ x.pc = "calling" /\ x.job = worker[w].job
        /\ Read(x) \subseteq Read(worker[w])
    BY <1>3 DEF MaintenanceWorker, MaintenancePcs, Read
  <1> HIDE DEF x
  <1>5. OneName(x)
    BY <1>3, <1>4 DEF OneName
  <1> QED BY <1>2, <1>4, <1>5, WorkerMoves DEF NamesReadOnce

LEMMA AnswerKeepsNames ==
    ASSUME NamesReadOnce, NEW w \in Workers, M!Answer(w)
    PROVE  NamesReadOnce'
  <1>1. PICK answer \in SUBSET worker[w].batch :
               worker' = [worker EXCEPT ![w].pc = "answered", ![w].answer = answer]
    BY DEF M!Answer
  <1> DEFINE x == [worker[w] EXCEPT !.pc = "answered", !.answer = answer]
  <1>2. worker' = [worker EXCEPT ![w] = x] /\ UNCHANGED <<school, job>>
    BY <1>1 DEF M!Answer
  <1>3. worker[w] \in MaintenanceWorker /\ OneName(worker[w]) /\ worker[w].pc = "calling"
    BY DEF NamesReadOnce, M!Answer, M!At
  <1>4. /\ x \in MaintenanceWorker /\ x.pc = "answered" /\ x.job = worker[w].job
        /\ Read(x) \subseteq Read(worker[w])
    BY <1>3 DEF MaintenanceWorker, MaintenancePcs, Read
  <1> HIDE DEF x
  <1>5. OneName(x)
    BY <1>3, <1>4 DEF OneName
  <1> QED BY <1>2, <1>4, <1>5, WorkerMoves DEF NamesReadOnce

\* A school gets as its province the one name it was asked for by.
LEMMA OneAnswer ==
    ASSUME NamesReadOnce, NEW w \in Workers, NEW s \in Schools, NEW n \in M!Names,
           <<s, n>> \in worker[w].answer
    PROVE  {m \in M!Names : <<s, m>> \in worker[w].answer} = {n}
  <1>1. \A m \in M!Names : <<s, m>> \in worker[w].answer => m = n
    BY DEF NamesReadOnce, OneName, Read
  <1> QED BY <1>1

LEMMA Written ==
    ASSUME NamesReadOnce, NEW w \in Workers, M!Write(w), NEW s \in Schools
    PROVE  \/ school'[s] = school[s]
           \/ /\ M!Fits(s, school[s].name)
              /\ school'[s] = [school[s] EXCEPT !.province = {school[s].name}]
  <1> DEFINE some == \E n \in M!Names : <<s, n>> \in worker[w].answer /\ M!Fits(s, n)
  <1>1. school'[s] = IF some
                     THEN [school[s] EXCEPT !.province =
                             {n \in M!Names : <<s, n>> \in worker[w].answer}]
                     ELSE school[s]
    BY DEF M!Write
  <1>2. CASE ~some
    BY <1>1, <1>2
  <1>3. CASE some
    <2>1. PICK n \in M!Names : <<s, n>> \in worker[w].answer /\ M!Fits(s, n)
      BY <1>3
    <2>2. n = school[s].name
      BY <2>1 DEF M!Fits
    <2>3. {m \in M!Names : <<s, m>> \in worker[w].answer} = {n}
      BY <2>1, OneAnswer
    <2> QED BY <1>1, <1>3, <2>1, <2>2, <2>3
  <1> QED BY <1>2, <1>3

LEMMA WriteKeepsNames ==
    ASSUME NamesReadOnce, NEW w \in Workers, M!Write(w)
    PROVE  NamesReadOnce'
  <1>1. \A s \in Schools : school'[s] \in MaintenanceRow
    <2> TAKE s \in Schools
    <2>1. school[s] \in MaintenanceRow
      BY DEF NamesReadOnce
    <2>2. CASE school'[s] = school[s]
      BY <2>1, <2>2
    <2>3. CASE school'[s] = [school[s] EXCEPT !.province = {school[s].name}]
      BY <2>1, <2>3 DEF MaintenanceRow
    <2> QED BY <2>2, <2>3, Written
  <1>2. \E f : school' = [s \in Schools |-> f[s]]
    <2> DEFINE f == [s \in Schools |-> school'[s]]
    <2>1. school' = [s \in Schools |-> school'[s]]
      BY DEF M!Write
    <2>2. school' = [s \in Schools |-> f[s]]
      BY <2>1
    <2> QED BY <2>2
  <1>3. school' \in [Schools -> MaintenanceRow]
    BY <1>1, <1>2
  <1>4. M!Goes(w, "batch") /\ worker[w].pc = "answered" /\ UNCHANGED job
    BY DEF M!Write, M!At
  <1> QED BY <1>3, <1>4, WorkerGoes DEF MaintenancePcs

LEMMA NextKeepsNames == NamesReadOnce /\ [Next]_vars => NamesReadOnce'
  <1> SUFFICES ASSUME NamesReadOnce, [Next]_vars PROVE NamesReadOnce'
    OBVIOUS
  <1>1. CASE UNCHANGED <<school, job, worker>>
    BY <1>1 DEF NamesReadOnce
  <1>2. ASSUME NEW s \in Schools, NEW n \in M!Names, M!Rename(s, n) PROVE NamesReadOnce'
    <2>1. [school[s] EXCEPT !.name = n] \in MaintenanceRow
      BY DEF NamesReadOnce, MaintenanceRow
    <2> QED BY <1>2, <2>1 DEF M!Rename, NamesReadOnce
  <1>3. ASSUME NEW s \in Schools, NEW p \in {M!NoProvince, M!ByHand}, M!SetProvince(s, p)
        PROVE  NamesReadOnce'
    <2>1. [school[s] EXCEPT !.province = p] \in MaintenanceRow
      BY DEF NamesReadOnce, MaintenanceRow, M!NoProvince, M!ByHand
    <2> QED BY <1>3, <2>1 DEF M!SetProvince, NamesReadOnce
  <1>4. ASSUME NEW j \in M!Jobs, M!Enqueue(j) PROVE NamesReadOnce'
    <2>1. PICK ids \in SUBSET {s \in Schools : school[s].province = M!NoProvince} :
                 job' = [job EXCEPT ![j] = [M!NoJob EXCEPT !.st = "pending", !.ids = ids]]
      BY <1>4 DEF M!Enqueue
    <2>2. [M!NoJob EXCEPT !.st = "pending", !.ids = ids] \in MaintenanceJob
      BY DEF M!NoJob, MaintenanceJob
    <2> QED BY <1>4, <2>1, <2>2, JobRow DEF M!Enqueue
  \* The lease of a job is a flag of its row.
  <1>5. ASSUME NEW j \in M!Jobs, NEW live \in BOOLEAN, job' = [job EXCEPT ![j].live = live],
               UNCHANGED <<school, worker>>
        PROVE  NamesReadOnce'
    <2>1. [job[j] EXCEPT !.live = live] \in MaintenanceJob
      BY DEF NamesReadOnce, MaintenanceJob
    <2> QED BY <1>5, <2>1, JobRow
  <1>6. ASSUME NEW w \in Workers, M!CallFails(w) \/ M!Superseded(w) \/ M!LateWrite(w)
        PROVE  NamesReadOnce'
    <2>1. worker[w].pc # "idle" /\ M!Goes(w, "failing") /\ UNCHANGED <<school, job>>
      BY <1>6 DEF M!CallFails, M!Superseded, M!LateWrite, M!At
    <2> QED BY <2>1, WorkerGoes DEF MaintenancePcs, NamesReadOnce
  <1>7. ASSUME NEW w \in Workers, M!Renew(w) PROVE NamesReadOnce'
    <2>1. worker[w].job \in M!Jobs
      BY <1>7 DEF M!Renew, NamesReadOnce, OneName
    <2> QED BY <1>7, <2>1, <1>5 DEF M!Renew
  <1>8. ASSUME NEW w \in Workers, M!Settle(w) PROVE NamesReadOnce'
    <2>1. worker[w].job \in M!Jobs
      BY <1>8 DEF M!Settle, M!At, NamesReadOnce, OneName
    <2>2. job' \in [M!Jobs -> MaintenanceJob]
      <3> DEFINE j == worker[w].job
                 st == IF M!At(w, "failing") THEN "failed" ELSE "success"
                 row == [job[j] EXCEPT !.st = st, !.live = FALSE]
      <3>1. row \in MaintenanceJob
        BY <2>1 DEF NamesReadOnce, MaintenanceJob
      <3>2. job' = job \/ job' = [job EXCEPT ![j] = row]
        BY <1>8 DEF M!Settle
      <3> HIDE DEF row, j
      <3> QED BY <3>1, <3>2 DEF NamesReadOnce
    <2> QED BY <1>8, <2>2, WorkerRests DEF M!Settle
  <1>9. ASSUME NEW w \in Workers, M!Crash(w) PROVE NamesReadOnce'
    BY <1>9, WorkerRests DEF M!Crash, NamesReadOnce
  <1>10. CASE M!Next
    BY <1>1, <1>2, <1>3, <1>4, <1>5, <1>6, <1>7, <1>8, <1>9, <1>10, ClaimKeepsNames,
       SelectKeepsNames, AcquireKeepsNames, AnswerKeepsNames, WriteKeepsNames
       DEF M!Next, M!Works, M!ExpireOrphan, M!Stall, M!PurgeSlot
  <1> QED BY <1>1, <1>10 DEF Next, vars, maintenanceVars

(* No call of the model overwrites a province that somebody entered, or    *)
(* fills in the answer for a name the school no longer has.                *)
THEOREM HandMadeStays == Spec => HandsOff
  <1> DEFINE Off == \A s \in Schools :
                LET new == school'[s].province
                IN new # school[s].province /\ new \notin {M!NoProvince, M!ByHand}
                      => school[s].province = M!NoProvince /\ new = {school[s].name}
  <1>1. NamesReadOnce /\ [Next]_vars => [Off]_(M!vars)
    <2> SUFFICES ASSUME NamesReadOnce, [Next]_vars PROVE Off \/ UNCHANGED maintenanceVars
      BY DEF maintenanceVars, M!vars
    <2>1. CASE UNCHANGED school
      BY <2>1
    <2>2. ASSUME NEW s \in Schools, NEW n \in M!Names, M!Rename(s, n) PROVE Off
      <3>1. \A t \in Schools : school'[t].province = school[t].province
        BY <2>2 DEF M!Rename, NamesReadOnce, MaintenanceRow
      <3> QED BY <3>1
    <2>3. ASSUME NEW s \in Schools, NEW p \in {M!NoProvince, M!ByHand}, M!SetProvince(s, p)
          PROVE  Off
      <3>1. \A t \in Schools : school'[t].province \in {p, school[t].province}
        BY <2>3 DEF M!SetProvince, NamesReadOnce, MaintenanceRow
      <3> QED BY <3>1
    <2>4. ASSUME NEW w \in Workers, M!Write(w) PROVE Off
      <3> SUFFICES ASSUME NEW s \in Schools, school'[s].province # school[s].province
                   PROVE  /\ school[s].province = M!NoProvince
                          /\ school'[s].province = {school[s].name}
        OBVIOUS
      <3>1. /\ M!Fits(s, school[s].name)
            /\ school'[s] = [school[s] EXCEPT !.province = {school[s].name}]
        BY <2>4, Written
      <3> QED BY <3>1 DEF M!Fits, NamesReadOnce, MaintenanceRow
    <2>5. CASE M!Next
      BY <2>1, <2>2, <2>3, <2>4, <2>5 DEF M!Next, M!Works, M!Enqueue, M!Claim, M!Select,
         M!Acquire, M!Answer, M!LateWrite, M!CallFails, M!Renew, M!Superseded, M!Settle,
         M!Crash, M!ExpireOrphan, M!Stall, M!PurgeSlot
    <2> QED BY <2>1, <2>5 DEF Next, vars, maintenanceVars
  <1> QED BY <1>1, NamesReadOnceInit, NextKeepsNames, PTL
          DEF Spec, HandsOff, M!HandsOff

-----------------------------------------------------------------------------
(* The slots of the model.                                                 *)

Calling(w) == worker[w].pc = "calling"

\* The instance counts as FiniteSets does.
LEMMA InstanceCounts == ASSUME NEW S PROVE M!Cardinality(S) = Cardinality(S)
  BY DEF M!Cardinality, Cardinality

\* There are as many slots as the limit at most, and who calls has one of
\* its own.
CallsHoldSlots ==
    /\ IsFiniteSet(slots) /\ Cardinality(slots) <= Limit
    /\ \A w \in Workers : Calling(w) => M!Slot(w) \in slots

\* A worker that stops calling leaves the others their slots; so does the
\* purge, which takes no slot of a caller.
LEMMA SlotsGo ==
    ASSUME CallsHoldSlots, NEW gone, slots' = slots \ gone,
           \A w \in Workers : Calling(w)' => /\ Calling(w) /\ M!Slot(w)' = M!Slot(w)
                                             /\ M!Slot(w) \notin gone
    PROVE  CallsHoldSlots'
  <1>1. IsFiniteSet(slots') /\ Cardinality(slots') <= Cardinality(slots)
    BY FS_Subset DEF CallsHoldSlots
  <1>2. Cardinality(slots) \in Nat /\ Cardinality(slots') \in Nat
    BY <1>1, FS_CardinalityType DEF CallsHoldSlots
  <1>3. Cardinality(slots') <= Limit
    BY <1>1, <1>2, LimitAssumption DEF CallsHoldSlots
  <1>4. \A w \in Workers : Calling(w)' => M!Slot(w)' \in slots'
    BY DEF CallsHoldSlots
  <1> QED BY <1>1, <1>3, <1>4 DEF CallsHoldSlots

\* One worker takes a step after which it does not call.
LEMMA CallerStops ==
    ASSUME CallsHoldSlots, worker \in [Workers -> MaintenanceWorker], NEW w \in Workers,
           \/ \E x : worker' = [worker EXCEPT ![w] = x] /\ x.pc # "calling"
           \/ UNCHANGED worker /\ ~Calling(w),
           slots' = slots \/ slots' = slots \ {M!Slot(w)}
    PROVE  CallsHoldSlots'
  <1>1. /\ ~Calling(w)'
        /\ \A v \in Workers \ {w} : worker'[v] = worker[v]
    BY DEF Calling
  <1>2. \A v \in Workers \ {w} : M!Slot(v)' = M!Slot(v) /\ M!Slot(v) # M!Slot(w)
    BY <1>1 DEF M!Slot
  <1>3. PICK gone \in {{}, {M!Slot(w)}} : slots' = slots \ gone
    BY Zenon
  <1> QED BY <1>1, <1>2, <1>3, SlotsGo DEF Calling

LEMMA AcquireHoldsSlot ==
    ASSUME NamesReadOnce, CallsHoldSlots, NEW w \in Workers, M!Acquire(w)
    PROVE  CallsHoldSlots'
  <1>1. slots' = slots \cup {M!Slot(w)} /\ Cardinality(slots) < Limit
    <2>1. slots' = slots \cup {M!Slot(w)} /\ M!Room(slots)
      BY DEF M!Acquire
    <2> QED BY <2>1, InstanceCounts DEF M!Room
  <1>2. Cardinality(slots) \in Nat /\ IsFiniteSet(slots)
    BY FS_CardinalityType DEF CallsHoldSlots
  <1>3. /\ IsFiniteSet(slots')
        /\ Cardinality(slots') = Cardinality(slots) \/ Cardinality(slots') = Cardinality(slots) + 1
    BY <1>1, <1>2, FS_AddElement
  <1>4. Cardinality(slots') <= Limit
    BY <1>1, <1>2, <1>3, LimitAssumption
  <1>5. \A v \in Workers : worker'[v].token = worker[v].token
                             /\ (v # w => worker'[v] = worker[v])
    BY DEF M!Acquire, NamesReadOnce, MaintenanceWorker
  <1>6. \A v \in Workers : Calling(v)' => M!Slot(v)' \in slots'
    BY <1>1, <1>5 DEF CallsHoldSlots, Calling, M!Slot
  <1> QED BY <1>3, <1>4, <1>6 DEF CallsHoldSlots

LEMMA NextHoldsSlots == NamesReadOnce /\ CallsHoldSlots /\ [Next]_vars => CallsHoldSlots'
  <1> SUFFICES ASSUME NamesReadOnce, CallsHoldSlots, [Next]_vars PROVE CallsHoldSlots'
    OBVIOUS
  <1>1. CASE UNCHANGED <<slots, worker>>
    BY <1>1 DEF CallsHoldSlots, Calling, M!Slot
  <1>2. worker \in [Workers -> MaintenanceWorker]
    BY DEF NamesReadOnce
  <1>3. ASSUME NEW w \in Workers, NEW pc \in MaintenancePcs \ {"calling"}, M!Goes(w, pc)
        PROVE  \E x : worker' = [worker EXCEPT ![w] = x] /\ x.pc # "calling"
    <2> DEFINE x == [worker[w] EXCEPT !.pc = pc]
    <2>1. x.pc = pc /\ worker' = [worker EXCEPT ![w] = x]
      BY <1>2, <1>3 DEF MaintenanceWorker, M!Goes
    <2> HIDE DEF x
    <2> QED BY <2>1, <1>3
  <1>4. ASSUME NEW w \in Workers, M!CallFails(w) \/ M!Superseded(w) PROVE CallsHoldSlots'
    <2>1. slots' = slots \ {M!Slot(w)} /\ M!Goes(w, "failing")
      BY <1>4 DEF M!CallFails, M!Superseded
    <2> QED BY <1>2, <1>3, <2>1, CallerStops DEF MaintenancePcs
  <1>5. ASSUME NEW w \in Workers, M!Write(w) \/ M!LateWrite(w) PROVE CallsHoldSlots'
    <2>1. slots' = slots /\ (M!Goes(w, "failing") \/ M!Goes(w, "batch"))
      BY <1>5 DEF M!Write, M!LateWrite
    <2> QED BY <1>2, <1>3, <2>1, CallerStops DEF MaintenancePcs
  <1>6. ASSUME NEW w \in Workers, M!Settle(w) \/ M!Crash(w) PROVE CallsHoldSlots'
    <2>1. slots' = slots /\ worker' = [worker EXCEPT ![w] = M!Idle] /\ M!Idle.pc # "calling"
      BY <1>6 DEF M!Settle, M!Crash, M!Idle
    <2> QED BY <1>2, <2>1, CallerStops
  <1>7. ASSUME NEW w \in Workers, NEW j \in M!Jobs, M!Claim(w, j) PROVE CallsHoldSlots'
    <2> DEFINE x == [M!Idle EXCEPT !.pc = "claimed", !.job = j, !.token = job'[j].attempts]
    <2>1. slots' = slots /\ worker' = [worker EXCEPT ![w] = x] /\ x.pc # "calling"
      BY <1>7 DEF M!Claim, M!Idle
    <2> HIDE DEF x
    <2> QED BY <1>2, <2>1, CallerStops
  <1>8. ASSUME NEW w \in Workers, M!Select(w) PROVE CallsHoldSlots'
    <2> DEFINE x == worker'[w]
    <2>1. slots' = slots /\ worker' = [worker EXCEPT ![w] = x] /\ x.pc # "calling"
      BY <1>2, <1>8 DEF M!Select, MaintenanceWorker
    <2> HIDE DEF x
    <2> QED BY <1>2, <2>1, CallerStops
  <1>9. ASSUME NEW w \in Workers, M!Answer(w) PROVE CallsHoldSlots'
    <2> DEFINE x == worker'[w]
    <2>1. slots' = slots \ {M!Slot(w)} /\ worker' = [worker EXCEPT ![w] = x] /\ x.pc # "calling"
      BY <1>2, <1>9 DEF M!Answer, MaintenanceWorker
    <2> HIDE DEF x
    <2> QED BY <1>2, <2>1, CallerStops
  <1>10. ASSUME NEW x \in slots, M!PurgeSlot(x) PROVE CallsHoldSlots'
    <2>1. slots' = slots \ {x} /\ UNCHANGED worker
      BY <1>10 DEF M!PurgeSlot
    <2>2. ~(M!At(x[1], "calling") /\ worker[x[1]].token = x[2])
      BY <1>10 DEF M!PurgeSlot, M!Stale
    <2>3. \A w \in Workers : Calling(w) => M!Slot(w) # x
      BY <2>2 DEF M!Slot, M!At, Calling
    <2>4. \A w \in Workers : Calling(w)' = Calling(w) /\ M!Slot(w)' = M!Slot(w)
      BY <2>1 DEF Calling, M!Slot
    <2>5. \A w \in Workers : Calling(w)' => /\ Calling(w) /\ M!Slot(w)' = M!Slot(w)
                                            /\ M!Slot(w) \notin {x}
      BY <2>3, <2>4
    <2> QED BY <2>1, <2>5, SlotsGo
  <1>11. CASE M!Next
    BY <1>1, <1>4, <1>5, <1>6, <1>7, <1>8, <1>9, <1>10, <1>11, AcquireHoldsSlot
       DEF M!Next, M!Works, M!Rename, M!SetProvince, M!Enqueue, M!ExpireOrphan, M!Stall, M!Renew
  <1> QED BY <1>1, <1>11 DEF Next, vars, maintenanceVars

(* All processes together make at most as many calls of the model as the   *)
(* settings allow, however many workers there are and whenever they die.   *)
THEOREM CallsAreLimited == Spec => []CallsWithinLimit
  <1>1. Init => NamesReadOnce /\ CallsHoldSlots
    <2>1. Init => slots = {} /\ \A w \in Workers : ~Calling(w)
      BY DEF Init, M!Init, M!Idle, Calling
    <2> QED BY <2>1, NamesReadOnceInit, FS_EmptySet, LimitAssumption DEF CallsHoldSlots
  <1>2. CallsHoldSlots => CallsWithinLimit
    <2> SUFFICES ASSUME CallsHoldSlots PROVE CallsWithinLimit
      OBVIOUS
    <2> DEFINE calls == {w \in Workers : M!At(w, "calling")}
               f == [w \in calls |-> M!Slot(w)]
    <2>1. \A w \in calls : M!Slot(w) \in slots
      BY DEF CallsHoldSlots, Calling, M!At
    <2>2. \A v, w \in calls : M!Slot(v) = M!Slot(w) => v = w
      BY DEF M!Slot
    <2>3. f \in Injection(calls, slots)
      BY <2>1, <2>2, Fun_IsInj
    <2> HIDE DEF f
    <2>4. IsFiniteSet(calls) /\ Cardinality(calls) <= Cardinality(slots)
      BY <2>3, FS_Injection DEF CallsHoldSlots
    <2>5. Cardinality(calls) \in Nat /\ Cardinality(slots) \in Nat
      BY <2>4, FS_CardinalityType DEF CallsHoldSlots
    <2>6. Cardinality(slots) <= Limit /\ Limit \in Nat
      BY LimitAssumption DEF CallsHoldSlots
    <2>7. Cardinality(calls) <= Limit
      BY <2>4, <2>5, <2>6
    <2> QED BY <2>7, InstanceCounts DEF CallsWithinLimit, M!CallsWithinLimit
  <1> QED BY <1>1, <1>2, NextKeepsNames, NextHoldsSlots, PTL DEF Spec

=============================================================================
