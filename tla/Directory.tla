------------------------------ MODULE Directory ------------------------------
(***************************************************************************)
(* Department grants and accounts (contact_grants.go, and the contacts and *)
(* users of crud.go and imports.go).  A person is known by an employee     *)
(* number, which is the username of the account, and by an e-mail address, *)
(* which no constraint of the database protects.  Every operation is one   *)
(* transaction under one advisory lock, hence one action.  The built-in    *)
(* administrator, who may be changed by none of them, is left out, and so  *)
(* are the groups of an account: synchronisation derives them from the     *)
(* active grants, but an edit of the account may set them at will.         *)
(***************************************************************************)
EXTENDS FiniteSets

CONSTANTS Employees,      \* employee numbers, and the usernames of accounts
          Posts,          \* a department together with a role in it
          Emails

VARIABLES
    grants,     \* core_contact: who, post, email, active
    accounts    \* accounts_user: name, email, and the contact displayed

vars == <<grants, accounts>>

Init == grants = {} /\ accounts = {}

-----------------------------------------------------------------------------
(* Helpers.                                                                *)

Key(g) == [who |-> g.who, post |-> g.post]
Mine(gs, e) == {g \in gs : g.who = e}

(* Mutant: an account is made beside the one there is. *)
OthersAll(us, e) == us

Others(us, e) == {u \in us : u.name # e}

(* The address belongs to somebody else. *)
Taken(email, e) ==
    \/ \E g \in grants : g.email = email /\ g.who # e
    \/ \E u \in accounts : u.email = email /\ u.name # e

(* Mutant: the address is the grant's own. *)
MailedNobody(gs, e, email) == gs

(* UPDATE core_contact SET email WHERE employee_no: it describes the       *)
(* person, not the grant.                                                  *)
Mailed(gs, e, email) == {IF g.who = e THEN [g EXCEPT !.email = email] ELSE g : g \in gs}

(* ON DELETE SET NULL of the displayed contact. *)
Detached(us, gone) == {[u EXCEPT !.shows = @ \ {Key(g) : g \in gone}] : u \in us}

(* syncContactUser finds one account at most, the one of the employee; an  *)
(* account of another name that shows one of the grants is a conflict.     *)
Bindable(us, e, email) ==
    \A u \in us : u.name = e \/ (u.email # email /\ \A k \in u.shows : k.who # e)

(* The account shows an active grant, if there is one. *)
Shows(gs, e) ==
    LET active == {g \in Mine(gs, e) : g.active}
    IN IF active = {} THEN {{}} ELSE {{Key(g)} : g \in active}

Account(e, email, shows) == [name |-> e, email |-> email, shows |-> shows]

(* syncContactUser for one employee.                                       *)
Synced(gs, us, e, email, shows) ==
    IF Mine(gs, e) = {} /\ Others(us, e) = us THEN us
    ELSE Others(us, e) \cup {Account(e, email, shows)}

-----------------------------------------------------------------------------
(* Contacts.                                                               *)

(* POST and PATCH contacts; the employee number of a grant never changes.  *)
(* (A grant that moves to another post is a deletion and a creation here.) *)
SaveContact(e, post, email, active) ==
    /\ ~Taken(email, e)
    /\ Bindable(accounts, e, email)
    /\ LET new == [who |-> e, post |-> post, email |-> email, active |-> active]
           gs == Mailed({g \in grants : Key(g) # Key(new)}, e, email) \cup {new}
       IN /\ grants' = gs
          /\ \E shows \in Shows(gs, e) : accounts' = Synced(gs, accounts, e, email, shows)

DeleteContact(g) ==
    LET gs == grants \ {g}
        us == Detached(accounts, {g})
    IN /\ Bindable(us, g.who, g.email)
       /\ grants' = Mailed(gs, g.who, g.email)
       /\ \E shows \in Shows(gs, g.who) : accounts' = Synced(gs, us, g.who, g.email, shows)

(* The contacts sheet of an import, for the rows of one person; replace    *)
(* deactivates the grants that are not in the file and then synchronises   *)
(* everybody.                                                              *)
ImportContacts(e, email, posts, active, replace) ==
    LET file == {[who |-> e, post |-> p, email |-> email, active |-> p \in active] : p \in posts}
        kept == {g \in grants : Key(g) \notin {Key(f) : f \in file}}
        left == {[g EXCEPT !.active = @ /\ ~replace] : g \in Mailed(kept, e, email)}
        gs == left \cup file
        people == {g.who : g \in gs}
    IN /\ posts # {}
       /\ ~Taken(email, e)
       /\ Bindable(accounts, e, email)
       /\ grants' = gs
       /\ IF replace
          THEN /\ \A g \in gs : Bindable(Others(accounts, e), g.who, g.email)
               /\ \E shows \in [people -> UNION {Shows(gs, p) : p \in people}] :
                     /\ \A p \in people : shows[p] \in Shows(gs, p)
                     /\ accounts' = {u \in accounts : u.name \notin people}
                           \cup {Account(g.who, g.email, shows[g.who]) : g \in gs}
          ELSE \E shows \in Shows(gs, e) : accounts' = Synced(gs, accounts, e, email, shows)

-----------------------------------------------------------------------------
(* Users.                                                                  *)

(* Mutant: an account may always be renamed. *)
RenamableAlways(u, name) == TRUE

Renamable(u, name) == u.name = name \/ Mine(grants, u.name) = {}

(* The checks of writeResource: other accounts by id, contacts by number.  *)
Free(others, name, email) ==
    /\ \A u \in others : u.email # email /\ u.name # name
    /\ \A g \in grants : g.who = name \/ g.email # email

(* POST and PATCH users: the displayed contact is free, and the grants of  *)
(* the username get the address.                                           *)
WriteUser(others, name, email, shows) ==
    /\ Free(others, name, email)
    /\ accounts' = others \cup {Account(name, email, shows)}
    /\ grants' = Mailed(grants, name, email)

CreateUser(name, email, shows) == WriteUser(accounts, name, email, shows)

UpdateUser(u, name, email, shows) ==
    /\ Renamable(u, name)
    /\ WriteUser(accounts \ {u}, name, email, shows)

(* The grants of the username go, and so does the displayed one. *)
DeleteUser(u) ==
    LET gone == {g \in grants : g.who = u.name \/ Key(g) \in u.shows}
    IN /\ grants' = grants \ gone
       /\ accounts' = Detached(accounts \ {u}, gone)

-----------------------------------------------------------------------------
Showable == {{}} \cup {{Key(g)} : g \in grants}

Next ==
    \/ \E e \in Employees, email \in Emails :
          \/ \E p \in Posts, active \in BOOLEAN : SaveContact(e, p, email, active)
          \/ \E posts \in SUBSET Posts, replace \in BOOLEAN : \E active \in SUBSET posts :
                ImportContacts(e, email, posts, active, replace)
          \/ \E shows \in Showable :
                \/ CreateUser(e, email, shows)
                \/ \E u \in accounts : UpdateUser(u, e, email, shows)
    \/ \E g \in grants : DeleteContact(g)
    \/ \E u \in accounts : DeleteUser(u)

Spec == Init /\ [][Next]_vars

-----------------------------------------------------------------------------
(* Properties.                                                             *)

Grant == [who : Employees, post : Posts, email : Emails, active : BOOLEAN]
AccountOf == [name : Employees, email : Emails,
              shows : SUBSET [who : Employees, post : Posts]]

(* Every variable has its type; keys are unique. *)
TypeOK ==
    /\ grants \subseteq Grant
    /\ accounts \subseteq AccountOf
    /\ \A g, h \in grants : Key(g) = Key(h) => g = h
    /\ \A u, v \in accounts : u.name = v.name => u = v

(* Who shares an address is the same person, and a person has one address, *)
(* over all grants and accounts, whatever sequence of imports, edits of    *)
(* grants, edits of accounts, renamings and deletions there was.           *)
EmailsIdentifyPeople ==
    /\ \A g, h \in grants : g.email = h.email <=> g.who = h.who
    /\ \A u, v \in accounts : u.email = v.email <=> u.name = v.name
    /\ \A g \in grants, u \in accounts : g.email = u.email <=> g.who = u.name

(* Every grant belongs to an account: deleting, renaming and recreating    *)
(* accounts never leaves a grant behind that the next account of that      *)
(* employee number would inherit.                                          *)
GrantsHaveAccounts == \A g \in grants : \E u \in accounts : u.name = g.who

=============================================================================
