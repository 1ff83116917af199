---------------------------- MODULE ServicesTypes ---------------------------
(***************************************************************************)
(* Every variable of every service has its type, for any values of the     *)
(* constants.  One lemma per service says that its steps keep its types;   *)
(* some do so only with what a service holds besides: the open import has  *)
(* a number, what a client was shown was a policy, the ranks of the plan   *)
(* are numbers, and an address of the directory is a person.               *)
(***************************************************************************)
EXTENDS ServiceProofs, SequenceTheorems

-----------------------------------------------------------------------------
(* Logins.                                                                 *)

\* What Redis and a request hold.
LoginEntry == [st : L!States, user : SUBSET Users, token : 0..MaxTokens]
LoginRequest == [pc : ReqPcs, login : 0..MaxLogins, user : SUBSET Users,
                 token : 0..MaxTokens]

\* The types of a login, in these terms.
LoginTyping ==
    /\ active \in [Users -> BOOLEAN]
    /\ token \in [Users -> 0..MaxTokens] /\ made \in 0..MaxTokens
    /\ login \in [L!Logins -> LoginEntry]
    /\ req \in [Requests -> LoginRequest]
    /\ switches \in Nat
    /\ completed \in [L!Logins -> Nat]

\* A request takes up an entry.
LEMMA BeginTypes ==
    ASSUME LoginTyping, NEW q \in Requests, NEW l \in L!Logins, NEW st,
           NEW pc \in ReqPcs, L!Begin(q, l, st, pc)
    PROVE  req' \in [Requests -> LoginRequest]
  <1> DEFINE x == [L!NoReq EXCEPT !.pc = pc, !.login = l, !.user = login[l].user,
                                  !.token = login[l].token]
  <1>1. req \in [Requests -> LoginRequest] /\ login[l] \in LoginEntry
    BY DEF LoginTyping
  <1>2. l \in 0..MaxLogins
    BY DEF L!Logins
  <1>3. x \in LoginRequest
    BY <1>1, <1>2 DEF LoginEntry, LoginRequest, L!NoReq
  <1>4. req' = [req EXCEPT ![q] = x]
    BY DEF L!Begin
  <1> QED BY <1>1, <1>3, <1>4

\* Every step of a login keeps the types.
LEMMA LoginKeepsTypes == LoginTyping /\ L!Next => LoginTyping'
  <1> SUFFICES ASSUME LoginTyping, L!Next PROVE LoginTyping'
    OBVIOUS
  <1> USE DEF LoginTyping
  <1>0. \A l \in L!Logins : login[l] \in LoginEntry
    OBVIOUS
  <1>1. \A q \in Requests : req[q] \in LoginRequest
    OBVIOUS
  <1>2. /\ L!NoReq \in LoginRequest
        /\ [L!Unused EXCEPT !.st = "taken"] \in LoginEntry
    BY BoundsAssumption DEF L!NoReq, L!Unused, L!NoToken, LoginRequest, LoginEntry, ReqPcs,
       L!States
  <1>3. ASSUME NEW q \in Requests, NEW l \in L!Logins, L!Callback(q, l) \/ L!Take(q, l)
        PROVE  LoginTyping'
    <2>1. L!Begin(q, l, "transaction", "callback") \/ L!Begin(q, l, "pending", "complete")
      BY <1>3 DEF L!Callback, L!Take
    <2>2. [login[l] EXCEPT !.st = "taken"] \in LoginEntry
      BY <1>0 DEF LoginEntry, L!States
    <2>3. login' \in [L!Logins -> LoginEntry]
      BY <1>2, <1>3, <2>2 DEF L!Callback, L!Take
    <2>4. req' \in [Requests -> LoginRequest]
      BY <2>1, BeginTypes DEF ReqPcs
    <2> QED BY <1>3, <2>3, <2>4 DEF L!Callback, L!Take
  <1>4. ASSUME NEW q \in Requests, NEW u \in Users, L!Identify(q, u) PROVE LoginTyping'
    <2>1. [req[q] EXCEPT !.pc = "identified", !.user = {u}] \in LoginRequest
      BY <1>1 DEF LoginRequest, ReqPcs
    <2>2. req' \in [Requests -> LoginRequest]
      BY <1>2, <1>4, <2>1 DEF L!Identify
    <2> QED BY <1>4, <2>2 DEF L!Identify
  <1>5. ASSUME NEW q \in Requests, L!SessionToken(q) PROVE LoginTyping'
    <2>1. PICK u \in req[q].user :
             IF token[u] # L!NoToken
             THEN /\ req' = [req EXCEPT ![q].pc = "token", ![q].token = token[u]]
                  /\ UNCHANGED <<token, made>>
             ELSE /\ made < MaxTokens
                  /\ made' = made + 1
                  /\ token' = [token EXCEPT ![u] = made']
                  /\ req' = [req EXCEPT ![q].pc = "token", ![q].token = made']
      BY <1>5 DEF L!SessionToken
    <2>2. u \in Users
      BY <1>1, <2>1 DEF LoginRequest
    <2>3. PICK n \in 0..MaxTokens : req' = [req EXCEPT ![q].pc = "token", ![q].token = n]
      <3>1. made < MaxTokens => made + 1 \in 0..MaxTokens
        BY BoundsAssumption
      <3> QED BY <2>1, <2>2, <3>1
    <2>4. req' \in [Requests -> LoginRequest]
      <3>1. [req[q] EXCEPT !.pc = "token", !.token = n] \in LoginRequest
        BY <1>1 DEF LoginRequest, ReqPcs
      <3> QED BY <2>3, <3>1
    <2>5. token' \in [Users -> 0..MaxTokens] /\ made' \in 0..MaxTokens
      BY <2>1, <2>2, BoundsAssumption
    <2> QED BY <1>5, <2>4, <2>5 DEF L!SessionToken
  <1>6. ASSUME NEW q \in Requests, L!Pend(q) PROVE LoginTyping'
    <2>1. [st |-> "pending", user |-> req[q].user, token |-> req[q].token] \in LoginEntry
      BY <1>1 DEF LoginRequest, LoginEntry, L!States
    <2>2. login' \in [L!Logins -> LoginEntry] /\ req' \in [Requests -> LoginRequest]
      BY <1>2, <1>6, <2>1 DEF L!Pend
    <2> QED BY <1>6, <2>2 DEF L!Pend
  <1>7. ASSUME NEW q \in Requests, L!Complete(q) PROVE LoginTyping'
    <2>1. PICK u \in req[q].user :
             completed' = IF L!Valid(u, req[q].token)
                          THEN [completed EXCEPT ![req[q].login] = @ + 1] ELSE completed
      BY <1>7 DEF L!Complete
    <2>2. ASSUME NEW l PROVE [completed EXCEPT ![l] = @ + 1] \in [L!Logins -> Nat]
      <3>1. l \in L!Logins => completed[l] + 1 \in Nat
        OBVIOUS
      <3> QED BY <3>1
    <2>3. completed' \in [L!Logins -> Nat]
      BY <2>1, <2>2
    <2>4. req' \in [Requests -> LoginRequest]
      BY <1>2, <1>7 DEF L!Complete
    <2> QED BY <1>7, <2>3, <2>4 DEF L!Complete
  <1>8. ASSUME NEW q \in Requests, L!Abandon(q) PROVE LoginTyping'
    BY <1>2, <1>8 DEF L!Abandon
  <1>9. ASSUME NEW l \in L!Logins, L!Start(l) \/ L!Expire(l) PROVE LoginTyping'
    <2>1. [login[l] EXCEPT !.st = "transaction"] \in LoginEntry
      BY <1>0 DEF LoginEntry, L!States
    <2>2. login' \in [L!Logins -> LoginEntry]
      BY <1>2, <1>9, <2>1 DEF L!Start, L!Expire
    <2> QED BY <1>9, <2>2 DEF L!Start, L!Expire
  <1>10. ASSUME NEW u \in Users, L!Logout(u) \/ L!SetActive(u) PROVE LoginTyping'
    <2>1. L!NoToken \in 0..MaxTokens
      BY BoundsAssumption DEF L!NoToken
    <2>2. token' \in [Users -> 0..MaxTokens] /\ active' \in [Users -> BOOLEAN]
      BY <1>10, <2>1 DEF L!Logout, L!SetActive
    <2> QED BY <1>10, <2>2 DEF L!Logout, L!SetActive
  <1> QED BY <1>3, <1>4, <1>5, <1>6, <1>7, <1>8, <1>9, <1>10 DEF L!Next

\* It begins with them, and they are those of the module.
LEMMA LoginTypesInit == L!Init => LoginTyping
  <1>1. /\ L!NoReq \in LoginRequest /\ L!Unused \in LoginEntry
        /\ 0 \in 0..MaxTokens /\ L!NoToken = 0
    BY BoundsAssumption DEF L!NoReq, L!Unused, L!NoToken, LoginRequest, LoginEntry, ReqPcs,
       L!States
  <1> QED BY <1>1 DEF L!Init, LoginTyping

LEMMA LoginTypesAre == LoginTyping => L!TypeOK
  BY DEF LoginTyping, L!TypeOK, LoginEntry, LoginRequest, ReqPcs

-----------------------------------------------------------------------------
(* The model connection.                                                   *)

ConnectionMemory ==
    [pc : C!Rows \cup {"ready", "old", "passed", "failed", "checked"},
     url : SUBSET C!Known(Urls), model : SUBSET C!Known(Models),
     key : SUBSET C!Known(Keys), old : SUBSET C!Known(Urls)]
ConnectionRows == [url : C!Known(Urls), model : C!Known(Models), key : C!Known(Keys)]
Connections == C!Known(Urls) \X C!Known(Models) \X C!Known(Keys)

ConnectionTyping ==
    /\ conf \in ConnectionRows
    /\ passed \in SUBSET Connections
    /\ test \in SUBSET Connections
    /\ mem \in [C!Actors -> ConnectionMemory]
    /\ patches \in Nat

LEMMA ConnectionTypesInit == C!Init => ConnectionTyping
  <1>1. C!Start \in ConnectionMemory
    BY DEF C!Start, ConnectionMemory, C!Rows
  <1>2. [row \in C!Rows |-> Unset] \in ConnectionRows
    BY DEF C!Rows, ConnectionRows, C!Known
  <1> QED BY <1>1, <1>2 DEF C!Init, ConnectionTyping

LEMMA ConnectionTypesAre == ConnectionTyping => C!TypeOK
  BY DEF ConnectionTyping, C!TypeOK, ConnectionRows, ConnectionMemory, Connections

\* An actor's memory moves on.
LEMMA MemoryMoves ==
    ASSUME ConnectionTyping, NEW a \in C!Actors, NEW x \in ConnectionMemory,
           mem' = [mem EXCEPT ![a] = x], UNCHANGED patches,
           conf' \in ConnectionRows, passed' \in SUBSET Connections, test' \in SUBSET Connections
    PROVE  ConnectionTyping'
  BY DEF ConnectionTyping

\* What has been read is a connection.
LEMMA ReadIsConnection ==
    ASSUME NEW x \in ConnectionMemory
    PROVE  C!Connection(x) \in SUBSET Connections /\ C!Fingerprint(x) \in SUBSET Connections
  BY DEF ConnectionMemory, Connections, C!Connection, C!Fingerprint

LEMMA PatchKeepsTypes ==
    ASSUME ConnectionTyping, NEW a \in C!Actors, C!Patch(a)
    PROVE  ConnectionTyping'
  <1>1. mem[a] \in ConnectionMemory
    BY DEF ConnectionTyping
  <1>2. PICK url \in Urls, model \in Models, key \in Keys, named \in SUBSET C!Rows,
             clear \in BOOLEAN :
           LET newUrl == IF "url" \in named THEN {url} ELSE mem[a].url
               newModel == IF "model" \in named THEN {model} ELSE mem[a].model
           IN \E u \in newUrl \ {Unset}, m \in newModel \ {Unset} :
                 conf' = [url |-> u, model |-> m,
                          key |-> IF clear \/ ("key" \notin named /\ mem[a].old # newUrl)
                                  THEN Unset
                                  ELSE IF "key" \in named THEN key ELSE conf.key]
    BY DEF C!Patch
  <1>3. PICK u \in C!Known(Urls), m \in C!Known(Models) : \E k \in C!Known(Keys) :
           conf' = [url |-> u, model |-> m, key |-> k]
    <2>1. conf.key \in C!Known(Keys) /\ key \in C!Known(Keys) /\ Unset \in C!Known(Keys)
             /\ url \in C!Known(Urls) /\ model \in C!Known(Models)
      BY DEF ConnectionTyping, ConnectionRows, C!Known
    <2>2. mem[a].url \in SUBSET C!Known(Urls) /\ mem[a].model \in SUBSET C!Known(Models)
      BY <1>1 DEF ConnectionMemory
    <2> QED BY <1>2, <2>1, <2>2
  <1>4. conf' \in ConnectionRows
    BY <1>3 DEF ConnectionRows
  <1>5. C!Start \in ConnectionMemory
    BY DEF C!Start, ConnectionMemory, C!Rows
  <1> QED BY <1>4, <1>5 DEF C!Patch, ConnectionTyping

LEMMA ConnectionKeepsTypes == ConnectionTyping /\ C!Next => ConnectionTyping'
  <1> SUFFICES ASSUME ConnectionTyping, C!Next PROVE ConnectionTyping'
    OBVIOUS
  <1>1. \A a \in C!Actors : mem[a] \in ConnectionMemory
    BY DEF ConnectionTyping
  <1>2. C!Start \in ConnectionMemory
    BY DEF C!Start, ConnectionMemory, C!Rows
  <1>3. Admins \subseteq C!Actors /\ Testers \subseteq C!Actors /\ Callers \subseteq C!Actors
    BY DEF C!Actors
  <1>4. ASSUME NEW a \in C!Actors, NEW row \in C!Rows, C!ReadRow(a, row)
        PROVE  ConnectionTyping'
    <2>1. PICK x \in ConnectionMemory : mem' = [mem EXCEPT ![a] = x]
      <3>1. /\ [mem[a] EXCEPT !.pc = "url", !.model = {conf["model"]}] \in ConnectionMemory
            /\ [mem[a] EXCEPT !.pc = "key", !.url = {conf["url"]}] \in ConnectionMemory
            /\ [mem[a] EXCEPT !.pc = "ready", !.key = {conf["key"]}] \in ConnectionMemory
        BY <1>1 DEF ConnectionTyping, ConnectionMemory, ConnectionRows, C!Rows
      <3>2. mem' = [mem EXCEPT ![a] = [[mem[a] EXCEPT !.pc = C!After[row]]
                                         EXCEPT ![row] = {conf[row]}]]
        BY <1>4 DEF C!ReadRow, ConnectionTyping
      <3>3. C!After["model"] = "url" /\ C!After["url"] = "key" /\ C!After["key"] = "ready"
        BY DEF C!After
      <3>4. CASE row = "model"
        <4>1. [[mem[a] EXCEPT !.pc = "url"] EXCEPT !["model"] = {conf["model"]}]
                 = [mem[a] EXCEPT !.pc = "url", !.model = {conf["model"]}]
          BY <1>1 DEF ConnectionMemory
        <4> QED BY <3>1, <3>2, <3>3, <3>4, <4>1
      <3>5. CASE row = "url"
        <4>1. [[mem[a] EXCEPT !.pc = "key"] EXCEPT !["url"] = {conf["url"]}]
                 = [mem[a] EXCEPT !.pc = "key", !.url = {conf["url"]}]
          BY <1>1 DEF ConnectionMemory
        <4> QED BY <3>1, <3>2, <3>3, <3>5, <4>1
      <3>6. CASE row = "key"
        <4>1. [[mem[a] EXCEPT !.pc = "ready"] EXCEPT !["key"] = {conf["key"]}]
                 = [mem[a] EXCEPT !.pc = "ready", !.key = {conf["key"]}]
          BY <1>1 DEF ConnectionMemory
        <4> QED BY <3>1, <3>2, <3>3, <3>6, <4>1
      <3> QED BY <3>4, <3>5, <3>6 DEF C!Rows
    <2> QED BY <1>4, <2>1, MemoryMoves DEF C!ReadRow, ConnectionTyping
  <1>5. ASSUME NEW a \in C!Actors, C!ReadOld(a) PROVE ConnectionTyping'
    <2>1. [mem[a] EXCEPT !.pc = "old", !.old = {conf.url}] \in ConnectionMemory
      BY <1>1 DEF ConnectionTyping, ConnectionMemory, ConnectionRows
    <2>2. mem' = [mem EXCEPT ![a] = [mem[a] EXCEPT !.pc = "old", !.old = {conf.url}]]
      BY <1>5 DEF C!ReadOld
    <2> QED BY <1>5, <2>1, <2>2, MemoryMoves DEF C!ReadOld, ConnectionTyping
  <1>6. ASSUME NEW a \in C!Actors, NEW ok \in BOOLEAN, C!Probe(a, ok) PROVE ConnectionTyping'
    <2>1. /\ [mem[a] EXCEPT !.pc = "passed"] \in ConnectionMemory
          /\ [mem[a] EXCEPT !.pc = "failed"] \in ConnectionMemory
      BY <1>1 DEF ConnectionMemory
    <2>2. passed' \in SUBSET Connections
      BY <1>1, <1>6, ReadIsConnection DEF C!Probe, ConnectionTyping
    <2>3. PICK x \in ConnectionMemory : mem' = [mem EXCEPT ![a] = x]
      BY <1>6, <2>1 DEF C!Probe
    <2> QED BY <1>6, <2>2, <2>3, MemoryMoves DEF C!Probe, ConnectionTyping
  <1>7. ASSUME NEW a \in C!Actors, C!Record(a) PROVE ConnectionTyping'
    <2>1. test' \in SUBSET Connections
      BY <1>1, <1>7, ReadIsConnection DEF C!Record
    <2> QED BY <1>2, <1>7, <2>1, MemoryMoves DEF C!Record, ConnectionTyping
  <1>8. ASSUME NEW a \in C!Actors, C!Check(a) \/ C!Call(a) PROVE ConnectionTyping'
    <2>1. [mem[a] EXCEPT !.pc = "checked"] \in ConnectionMemory
      BY <1>1 DEF ConnectionMemory
    <2>2. PICK x \in ConnectionMemory : mem' = [mem EXCEPT ![a] = x]
      BY <1>2, <1>8, <2>1 DEF C!Check, C!Call
    <2> QED BY <1>8, <2>2, MemoryMoves DEF C!Check, C!Call, ConnectionTyping
  <1> QED BY <1>3, <1>4, <1>5, <1>6, <1>7, <1>8, PatchKeepsTypes DEF C!Next

-----------------------------------------------------------------------------
(* The maintenance queue.  Its rows and its workers are typed by           *)
(* NamesReadOnce.                                                          *)

QueueTyping ==
    /\ NamesReadOnce
    /\ slots \in SUBSET (Workers \X Nat)
    /\ edits \in Nat /\ faults \in Nat

LEMMA QueueTypesInit == Init => QueueTyping
  BY NamesReadOnceInit DEF Init, M!Init, QueueTyping

LEMMA QueueTypesAre == QueueTyping => M!TypeOK
  BY DEF QueueTyping, NamesReadOnce, M!TypeOK, MaintenanceRow, MaintenanceJob,
         MaintenanceWorker, MaintenancePcs

LEMMA QueueKeepsTypes == QueueTyping /\ M!Next => slots' \in SUBSET (Workers \X Nat)
                                                    /\ edits' \in Nat /\ faults' \in Nat
  <1> SUFFICES ASSUME QueueTyping, M!Next
               PROVE  /\ slots' \in SUBSET (Workers \X Nat)
                      /\ edits' \in Nat /\ faults' \in Nat
    OBVIOUS
  <1>1. \A w \in Workers : M!Slot(w) \in Workers \X Nat
    BY DEF QueueTyping, NamesReadOnce, MaintenanceWorker, M!Slot
  <1>2. /\ M!Fault => faults' \in Nat
        /\ M!Edit => edits' \in Nat
    BY DEF QueueTyping, M!Fault, M!Edit
  <1>3. ASSUME NEW w \in Workers,
               \/ M!Works(w) \/ M!CallFails(w) \/ M!Renew(w) \/ M!Crash(w)
               \/ \E j \in M!Jobs : M!Claim(w, j)
        PROVE  /\ slots' \in SUBSET (Workers \X Nat)
               /\ UNCHANGED edits /\ (faults' = faults \/ faults' \in Nat)
    BY <1>1, <1>2, <1>3 DEF QueueTyping, M!Works, M!Select, M!Acquire, M!Answer, M!Write,
       M!LateWrite, M!Superseded, M!Settle, M!CallFails, M!Renew, M!Crash, M!Claim
  <1>4. ASSUME \/ \E s \in Schools, n \in M!Names : M!Rename(s, n)
               \/ \E s \in Schools, p \in {M!NoProvince, M!ByHand} : M!SetProvince(s, p)
               \/ \E j \in M!Jobs : M!Enqueue(j) \/ M!ExpireOrphan(j) \/ M!Stall(j)
               \/ \E x \in slots : M!PurgeSlot(x)
        PROVE  /\ slots' \in SUBSET (Workers \X Nat)
               /\ edits' = edits \/ edits' \in Nat
               /\ faults' = faults \/ faults' \in Nat
    BY <1>2, <1>4 DEF QueueTyping, M!Rename, M!SetProvince, M!Enqueue, M!ExpireOrphan,
       M!Stall, M!PurgeSlot
  <1> QED BY <1>3, <1>4 DEF M!Next, QueueTyping

-----------------------------------------------------------------------------
(* Imports.                                                                *)

FileNumber == 0..MaxImports
ImportedRow == [owner : SUBSET People, file : FileNumber, old : SUBSET FileNumber,
                status : {"pending", "assessing", "pooled", "blocked", "closed"}]
ScopeItem == [st : I!ItemStates, person : SUBSET People, rev : Nat,
              resume : SUBSET Resumes, file : FileNumber, sum : FileNumber]
TheImport == [pc : I!ImportStates, resume : SUBSET Resumes, person : SUBSET People,
              pdf : BOOLEAN, backup : FileNumber]

Files(f) == f \in [DOMAIN f -> I!Import] /\ DOMAIN f \subseteq I!Import

\* The open import has a number.
ImportTyping ==
    /\ app \in [Resumes -> ImportedRow]
    /\ Files(disk)
    /\ rev \in [People -> Nat]
    /\ importItem \in [I!Import -> ScopeItem]
    /\ imp \in TheImport
    /\ count \in FileNumber /\ importFaults \in 0..MaxFaults
    /\ dead \in SUBSET I!Import /\ lost \in SUBSET I!Import
    /\ imp.pc # "idle" => count \in I!Import

LEMMA NumbersAre ==
    /\ 0 \in FileNumber /\ I!Import \subseteq FileNumber
    /\ \A n \in FileNumber : n + 1 \in I!Import \/ ~(n < MaxImports)
    /\ \A n \in FileNumber : n = 0 \/ n \in I!Import
  BY ImportsAssumption DEF FileNumber, I!Import

LEMMA NoImportTyped ==
    /\ I!NoRow \in ImportedRow /\ I!NoItem \in ScopeItem /\ I!NoImport \in TheImport
    /\ I!NoImport.pc = "idle"
  BY NumbersAre DEF I!NoRow, I!NoItem, I!NoImport, I!NoFile, ImportedRow, ScopeItem, TheImport,
     I!ItemStates, I!ImportStates

LEMMA ImportTypesInit == I!Init => ImportTyping
  <1>1. ASSUME I!Init PROVE Files(disk)
    BY <1>1 DEF I!Init, Files
  <1> QED BY <1>1, NumbersAre, NoImportTyped, BoundsAssumption DEF I!Init, ImportTyping

LEMMA ImportTypesAre == ImportTyping => I!TypeOK
  BY DEF ImportTyping, I!TypeOK, Files, ImportedRow, ScopeItem, TheImport, FileNumber

\* Files come and go.
LEMMA FilesChange ==
    ASSUME NEW f, Files(f), NEW n \in I!Import
    PROVE  Files(I!With(f, n, n)) /\ Files(I!Without(f, n))
           /\ \A c \in I!Import : Files(I!With(f, n, c))
  BY DEF Files, I!With, I!Without

LEMMA RestoredTyped ==
    ASSUME ImportTyping
    PROVE  Files(I!Restored(disk))
  <1>1. CASE imp.pc # "installed" \/ ~imp.pdf
    BY <1>1 DEF I!Restored, ImportTyping
  <1>2. CASE imp.pc = "installed" /\ imp.pdf
    <2>1. count \in I!Import /\ I!Name = count
      BY <1>2 DEF ImportTyping, I!Name, I!ResumeFilename
    <2>2. imp.backup # 0 => imp.backup \in I!Import
      BY NumbersAre DEF ImportTyping, TheImport
    <2> QED BY <1>2, <2>1, <2>2, FilesChange DEF I!Restored, ImportTyping
  <1> QED BY <1>1, <1>2

\* Rows and items are written by the commit,
LEMMA CommittedTyped ==
    ASSUME ImportTyping, imp.pc = "installed", I!Committed
    PROVE  /\ app' \in [Resumes -> ImportedRow] /\ rev' \in [People -> Nat]
           /\ importItem' \in [I!Import -> ScopeItem]
  <1>1. PICK r \in imp.resume, p \in imp.person :
           /\ app' = [app EXCEPT ![r].owner = {p},
                                 ![r].old = IF imp.pdf THEN @ \cup {app[r].file} ELSE @,
                                 ![r].file = IF imp.pdf THEN count ELSE @]
           /\ rev' = [rev EXCEPT ![p] = @ + 1]
           /\ importItem' = [importItem EXCEPT ![count] =
                 [I!NoItem EXCEPT !.st = "submitted", !.person = {p}, !.rev = rev[p] + 1]]
    BY DEF I!Committed
  <1>2. r \in Resumes /\ p \in People /\ count \in I!Import /\ count \in FileNumber
    BY DEF ImportTyping, TheImport
  <1>3. app[r] \in ImportedRow /\ rev[p] \in Nat
    BY <1>2 DEF ImportTyping
  <1>4. \A f \in FileNumber, old \in SUBSET FileNumber :
           [app[r] EXCEPT !.owner = {p}, !.old = old, !.file = f] \in ImportedRow
    BY <1>2, <1>3 DEF ImportedRow
  <1>5. PICK f \in FileNumber, old \in SUBSET FileNumber :
           app' = [app EXCEPT ![r] = [app[r] EXCEPT !.owner = {p}, !.old = old, !.file = f]]
    <2>1. app[r].file \in FileNumber /\ app[r].old \in SUBSET FileNumber
      BY <1>3 DEF ImportedRow
    <2>2. app[r].old \cup {app[r].file} \in SUBSET FileNumber
      BY <2>1
    <2>3. CASE imp.pdf
      <3>1. app' = [app EXCEPT ![r] = [app[r] EXCEPT !.owner = {p},
                                  !.old = app[r].old \cup {app[r].file}, !.file = count]]
        BY <1>1, <2>3
      <3> QED BY <1>2, <2>2, <3>1
    <2>4. CASE ~imp.pdf
      <3>1. app' = [app EXCEPT ![r] = [app[r] EXCEPT !.owner = {p}, !.old = app[r].old,
                                                     !.file = app[r].file]]
        BY <1>1, <2>4
      <3> QED BY <2>1, <3>1
    <2> QED BY <2>3, <2>4
  <1>6. ASSUME NEW k \in Nat
        PROVE  [I!NoItem EXCEPT !.st = "submitted", !.person = {p}, !.rev = k] \in ScopeItem
    BY <1>2, NumbersAre DEF I!NoItem, I!NoFile, ScopeItem, I!ItemStates
  <1>7. app' \in [Resumes -> ImportedRow]
    BY <1>2, <1>4, <1>5 DEF ImportTyping
  <1>8. rev[p] + 1 \in Nat /\ rev' \in [People -> Nat]
    BY <1>1, <1>2, <1>3 DEF ImportTyping
  <1>9. importItem' \in [I!Import -> ScopeItem]
    BY <1>1, <1>2, <1>6, <1>8 DEF ImportTyping
  <1> QED BY <1>7, <1>8, <1>9

\* the import opens, puts its file in place and ends,
LEMMA ImportStepKeepsTypes ==
    ASSUME ImportTyping,
           \/ \E r \in Resumes, p \in People, pdf \in BOOLEAN : I!Begin(r, p, pdf)
           \/ I!Install \/ I!Commit \/ I!CommitUnheard \/ I!Fail \/ I!Crash
    PROVE  ImportTyping'
  <1>1. I!Fault => importFaults' \in 0..MaxFaults
    BY BoundsAssumption DEF I!Fault, ImportTyping
  <1>2. imp.pc # "idle" => count \in I!Import
    BY DEF ImportTyping
  <1>3. ASSUME NEW r \in Resumes, NEW p \in People, NEW pdf \in BOOLEAN, I!Begin(r, p, pdf)
        PROVE  ImportTyping'
    <2>1. count' = count + 1 /\ count' \in I!Import /\ count' \in FileNumber
      BY <1>3, NumbersAre DEF I!Begin, ImportTyping
    <2>2. [I!NoImport EXCEPT !.pc = "rows", !.resume = {r}, !.person = {p}, !.pdf = pdf]
             \in TheImport
      BY NumbersAre DEF I!NoImport, TheImport, I!ImportStates
    <2> QED BY <1>3, <2>1, <2>2 DEF I!Begin, ImportTyping
  <1>4. CASE I!Install
    <2>1. I!Name = count /\ count \in I!Import
      BY <1>2, <1>4 DEF I!Install, I!Name, I!ResumeFilename
    <2>2. Files(disk')
      BY <1>4, <2>1, FilesChange DEF I!Install, ImportTyping
    <2>3. PICK b \in FileNumber : imp' = [imp EXCEPT !.pc = "installed", !.backup = b]
      <3>1. count \in DOMAIN disk => disk[count] \in FileNumber
        BY NumbersAre DEF ImportTyping, Files
      <3> QED BY <1>4, <2>1, <3>1, NumbersAre DEF I!Install
    <2>4. imp' \in TheImport
      BY <2>3 DEF ImportTyping, TheImport, I!ImportStates
    <2> QED BY <1>4, <2>1, <2>2, <2>4 DEF I!Install, ImportTyping
  <1>5. CASE I!Commit
    <2>1. imp.pc = "installed" /\ I!Committed
      BY <1>5 DEF I!Commit
    <2> QED BY <1>5, <2>1, CommittedTyped, NoImportTyped DEF I!Commit, ImportTyping
  <1>6. CASE I!CommitUnheard
    <2>1. imp.pc = "installed" /\ I!Committed /\ count \in I!Import
      BY <1>2, <1>6 DEF I!CommitUnheard
    <2>2. Files(disk') /\ lost' \in SUBSET I!Import
      BY <1>6, <2>1, RestoredTyped DEF I!CommitUnheard, ImportTyping
    <2> QED BY <1>1, <1>6, <2>1, <2>2, CommittedTyped, NoImportTyped
            DEF I!CommitUnheard, ImportTyping
  <1>7. CASE I!Fail
    <2>1. Files(disk')
      BY <1>7, RestoredTyped DEF I!Fail
    <2> QED BY <1>1, <1>7, <2>1, NoImportTyped DEF I!Fail, ImportTyping
  <1>8. CASE I!Crash
    BY <1>1, <1>2, <1>8, NoImportTyped DEF I!Crash, ImportTyping
  <1> QED BY <1>3, <1>4, <1>5, <1>6, <1>7, <1>8

\* and the items go on.
LEMMA ItemStepKeepsTypes ==
    ASSUME ImportTyping, NEW n \in I!Import,
           \/ I!Prepare(n) \/ I!Skip(n) \/ I!Start(n) \/ I!Read(n) \/ I!Retry(n)
           \/ I!Unreadable(n)
           \/ \E to \in {"pooled", "closed"} : I!Finish(n, to)
    PROVE  ImportTyping'
  <1>1. importItem[n] \in ScopeItem
    BY DEF ImportTyping
  <1>2. \A st \in I!ItemStates : [importItem[n] EXCEPT !.st = st] \in ScopeItem
    BY <1>1 DEF ScopeItem
  <1>3. ASSUME NEW x \in ScopeItem, importItem' = [importItem EXCEPT ![n] = x]
        PROVE  importItem' \in [I!Import -> ScopeItem]
    BY <1>3 DEF ImportTyping
  <1>4. ASSUME NEW r \in importItem[n].resume,
               NEW st \in {"assessing", "blocked", "pooled", "closed"},
               app' = [app EXCEPT ![r].status = st]
        PROVE  app' \in [Resumes -> ImportedRow]
    <2>1. r \in Resumes
      BY <1>1 DEF ScopeItem
    <2>2. [app[r] EXCEPT !.status = st] \in ImportedRow
      BY <2>1 DEF ImportTyping, ImportedRow
    <2> QED BY <1>4, <2>1, <2>2 DEF ImportTyping
  <1>5. ASSUME NEW p \in importItem[n].person, rev' = [rev EXCEPT ![p] = @ + 1]
        PROVE  rev' \in [People -> Nat]
    <2>1. p \in People
      BY <1>1 DEF ScopeItem
    <2> QED BY <1>5, <2>1 DEF ImportTyping
  <1>6. CASE I!Prepare(n)
    <2>1. PICK r \in Resumes :
             importItem' = [importItem EXCEPT ![n].st = "prepared", ![n].resume = {r},
                                              ![n].file = app[r].file]
      BY <1>6 DEF I!Prepare
    <2>2. app[r].file \in FileNumber
      BY DEF ImportTyping, ImportedRow
    <2>3. [importItem[n] EXCEPT !.st = "prepared", !.resume = {r}, !.file = app[r].file]
             \in ScopeItem
      BY <1>1, <2>2 DEF ScopeItem, I!ItemStates
    <2>4. importItem' \in [I!Import -> ScopeItem]
      BY <2>1, <2>3 DEF ImportTyping
    <2> QED BY <1>6, <2>4 DEF I!Prepare, ImportTyping
  <1>7. CASE I!Skip(n)
    <2>1. importItem' \in [I!Import -> ScopeItem]
      BY <1>2, <1>7 DEF I!Skip, I!ItemStates, ImportTyping
    <2> QED BY <1>7, <2>1 DEF I!Skip, ImportTyping
  <1>8. CASE I!Start(n)
    <2>1. importItem' \in [I!Import -> ScopeItem]
      BY <1>2, <1>8 DEF I!Start, I!ItemStates, ImportTyping
    <2>2. app' \in [Resumes -> ImportedRow]
      BY <1>4, <1>8 DEF I!Start
    <2> QED BY <1>8, <2>1, <2>2 DEF I!Start, ImportTyping
  <1>9. CASE I!Read(n)
    <2>1. disk[I!Stored(n)] \in FileNumber
      BY <1>9, NumbersAre DEF I!Read, I!Readable, ImportTyping, Files
    <2>2. [importItem[n] EXCEPT !.st = "read", !.sum = disk[I!Stored(n)]] \in ScopeItem
      BY <1>1, <2>1 DEF ScopeItem, I!ItemStates
    <2>3. importItem' \in [I!Import -> ScopeItem]
      BY <1>9, <2>2 DEF I!Read, ImportTyping
    <2> QED BY <1>9, <2>3 DEF I!Read, ImportTyping
  <1>10. CASE I!Retry(n)
    <2>1. importItem' \in [I!Import -> ScopeItem]
      BY <1>2, <1>10 DEF I!Retry, I!ItemStates, ImportTyping
    <2>2. importFaults' \in 0..MaxFaults
      BY <1>10, BoundsAssumption DEF I!Retry, I!Fault, ImportTyping
    <2> QED BY <1>10, <2>1, <2>2 DEF I!Retry, ImportTyping
  <1>11. ASSUME NEW to \in {"pooled", "closed"}, I!Finish(n, to) PROVE ImportTyping'
    <2>1. importItem' \in [I!Import -> ScopeItem]
      BY <1>2, <1>11 DEF I!Finish, I!ItemStates, ImportTyping
    <2>2. app' \in [Resumes -> ImportedRow] /\ rev' \in [People -> Nat]
      BY <1>4, <1>5, <1>11 DEF I!Finish
    <2> QED BY <1>11, <2>1, <2>2 DEF I!Finish, ImportTyping
  <1>12. CASE I!Unreadable(n)
    <2>1. importItem' \in [I!Import -> ScopeItem]
      BY <1>2, <1>12 DEF I!Unreadable, I!ItemStates, ImportTyping
    <2>2. app' \in [Resumes -> ImportedRow] /\ rev' \in [People -> Nat]
      BY <1>4, <1>5, <1>12 DEF I!Unreadable
    <2> QED BY <1>12, <2>1, <2>2 DEF I!Unreadable, ImportTyping
  <1> QED BY <1>6, <1>7, <1>8, <1>9, <1>10, <1>11, <1>12

LEMMA ImportKeepsTypes == ImportTyping /\ I!Next => ImportTyping'
  BY ImportStepKeepsTypes, ItemStepKeepsTypes DEF I!Next

-----------------------------------------------------------------------------
(* Assessment standards.                                                   *)

PolicyItem == [pc : {"queued", "frozen", "validated", "blocked", "done"},
               std : SUBSET Standards, content : P!ContentOf, seen : Nat]
Membership == [st : {"none", "pending", "closed", "needs_reanalysis", "allocated"},
               content : P!ContentOf, seen : Nat, saved : Nat]

Rules(p) == DOMAIN p \subseteq Standards /\ \A s \in DOMAIN p : p[s] \in P!StandardOf

\* What a client has been shown was a policy.
PolicyTyping ==
    /\ jobs \in [Standards -> SUBSET Reqs]
    /\ Rules(policy) /\ version \in Nat
    /\ client = [c \in Clients |-> client[c]]
    /\ \A c \in Clients : \A shown \in client[c] : shown.version \in Nat /\ Rules(shown.policy)
    /\ item \in [Items -> PolicyItem]
    /\ member \in [Items -> Membership]

LEMMA PolicyTypesInit == P!Init => PolicyTyping
  <1>1. /\ [pc |-> "queued", std |-> {}, content |-> P!Nothing, seen |-> 0] \in PolicyItem
        /\ P!NoMember \in Membership
    BY BlankAssumption DEF P!Nothing, P!NoMember, PolicyItem, Membership, P!ContentOf
  <1>2. P!Init => Rules(policy)
    BY DEF P!Init, Rules
  <1> QED BY <1>1, <1>2 DEF P!Init, PolicyTyping

LEMMA PolicyTypesAre == PolicyTyping => P!TypeOK
  BY DEF PolicyTyping, P!TypeOK, Rules, PolicyItem, Membership

\* A standard takes its requirement from a job or keeps it.
LEMMA DerivedTyped ==
    ASSUME NEW p, Rules(p), NEW by \in [Standards -> SUBSET Reqs]
    PROVE  Rules(P!Derived(p, by))
  <1> DEFINE old(s) == IF s \in DOMAIN p THEN p[s] ELSE P!Generated
             text(s) == IF P!Cardinality(by[s]) = 1 THEN CHOOSE q \in by[s] : TRUE ELSE old(s).req
             new(s) == [old(s) EXCEPT !.req = text(s), !.issue = P!Issue(by[s])]
             all == DOMAIN p \cup {t \in Standards : by[t] # {}}
  <1>1. P!Cardinality({}) = 0
    BY FS_EmptySet DEF P!Cardinality, Cardinality
  <1>2. ASSUME NEW s \in Standards PROVE new(s) \in P!StandardOf
    <2>1. old(s) \in P!StandardOf
      BY BlankAssumption DEF Rules, P!Generated, P!StandardOf
    <2>2. text(s) \in Reqs
      <3>1. CASE P!Cardinality(by[s]) = 1
        <4>1. by[s] # {} /\ by[s] \subseteq Reqs
          BY <1>1, <3>1
        <4> QED BY <3>1, <4>1
      <3>2. CASE P!Cardinality(by[s]) # 1
        BY <2>1, <3>2 DEF P!StandardOf
      <3> QED BY <3>1, <3>2
    <2>3. P!Issue(by[s]) \in {"", "source_job_missing", "source_job_conflict",
                              "job_responsibility_missing"}
      BY DEF P!Issue
    <2> HIDE DEF old, text
    <2> QED BY <2>1, <2>2, <2>3 DEF P!StandardOf
  <1>3. P!Derived(p, by) = [s \in all |-> new(s)]
    BY DEF P!Derived
  <1>4. all \subseteq Standards
    BY DEF Rules
  <1> HIDE DEF new, all
  <1> QED BY <1>2, <1>3, <1>4 DEF Rules

\* The assessments a change voids.
LEMMA ImpactedTyped ==
    ASSUME PolicyTyping, NEW p, NEW q
    PROVE  P!Impacted(p, q) \in [Items -> Membership]
  <1>1. \A i \in Items : /\ member[i] \in Membership
                         /\ [member[i] EXCEPT !.st = "needs_reanalysis"] \in Membership
    BY DEF PolicyTyping, Membership
  <1> QED BY <1>1 DEF P!Impacted

\* Configuration,
LEMMA ConfigureKeepsTypes ==
    ASSUME PolicyTyping,
           \/ \E c \in Clients :
                 \/ P!Show(c) \/ P!Conflict(c)
                 \/ \E s \in Standards, tags \in SUBSET Tags, on \in BOOLEAN : P!Put(c, s, tags, on)
           \/ \E s \in Standards, group \in SUBSET Reqs : P!EditJobs(s, group)
    PROVE  PolicyTyping'
  <1>1. ASSUME NEW c \in Clients, P!Show(c) \/ P!Conflict(c) PROVE PolicyTyping'
    <2>1. PICK new : /\ client' = [client EXCEPT ![c] = new]
                     /\ \A shown \in new : shown.version \in Nat /\ Rules(shown.policy)
      <3>1. [policy |-> policy, version |-> version].version \in Nat
               /\ Rules([policy |-> policy, version |-> version].policy)
        BY DEF PolicyTyping
      <3> QED BY <1>1, <3>1 DEF P!Show, P!Conflict
    <2>2. /\ client' = [d \in Clients |-> client'[d]]
          /\ \A d \in Clients : client'[d] = IF d = c THEN new ELSE client[d]
      BY <2>1 DEF PolicyTyping
    <2>3. UNCHANGED <<jobs, policy, version, item, member>>
      BY <1>1 DEF P!Show, P!Conflict
    <2> QED BY <2>1, <2>2, <2>3 DEF PolicyTyping, Rules
  <1>2. ASSUME NEW c \in Clients, NEW s \in Standards, NEW tags \in SUBSET Tags,
               NEW on \in BOOLEAN, P!Put(c, s, tags, on)
        PROVE  PolicyTyping'
    <2>1. PICK shown \in client[c] :
             /\ s \in DOMAIN shown.policy
             /\ policy' = P!Derived([shown.policy EXCEPT ![s].tags = tags, ![s].active = on], jobs)
             /\ member' = P!Impacted(policy, policy')
             /\ version' = version + 1
             /\ client' = [client EXCEPT ![c] = {}]
             /\ UNCHANGED <<jobs, item>>
      BY <1>2 DEF P!Put
    <2> DEFINE edited == [shown.policy EXCEPT ![s].tags = tags, ![s].active = on]
    <2>2. Rules(shown.policy)
      BY DEF PolicyTyping
    <2>3. Rules(edited)
      <3>1. DOMAIN edited = DOMAIN shown.policy
        OBVIOUS
      <3>2. ASSUME NEW t \in DOMAIN shown.policy PROVE edited[t] \in P!StandardOf
        <4>1. shown.policy[t] \in P!StandardOf
          BY <2>2 DEF Rules
        <4>2. [shown.policy[t] EXCEPT !.tags = tags, !.active = on] \in P!StandardOf
          BY <4>1 DEF P!StandardOf
        <4>3. edited[t] = IF t = s THEN [shown.policy[t] EXCEPT !.tags = tags, !.active = on]
                          ELSE shown.policy[t]
          OBVIOUS
        <4> QED BY <4>1, <4>2, <4>3
      <3> QED BY <2>2, <3>1, <3>2 DEF Rules
    <2> HIDE DEF edited
    <2>4. jobs \in [Standards -> SUBSET Reqs]
      BY DEF PolicyTyping
    <2>5. Rules(P!Derived(edited, jobs))
      BY <2>3, <2>4, DerivedTyped
    <2>6. policy' = P!Derived(edited, jobs)
      BY <2>1 DEF edited
    <2>7. Rules(policy') /\ member' \in [Items -> Membership]
      BY <2>1, <2>5, <2>6, ImpactedTyped
    <2>8. /\ client' = [d \in Clients |-> client'[d]]
          /\ \A d \in Clients : client'[d] = IF d = c THEN {} ELSE client[d]
      BY <2>1 DEF PolicyTyping
    <2>9. version' \in Nat /\ UNCHANGED <<jobs, item>>
      BY <2>1 DEF PolicyTyping
    <2> QED BY <2>7, <2>8, <2>9 DEF PolicyTyping, Rules
  <1>3. ASSUME NEW s \in Standards, NEW group \in SUBSET Reqs, P!EditJobs(s, group)
        PROVE  PolicyTyping'
    <2>1. jobs' \in [Standards -> SUBSET Reqs] /\ UNCHANGED <<client, item>>
      BY <1>3 DEF P!EditJobs, PolicyTyping
    <2>2. policy' = P!Derived(policy, jobs') /\ member' = P!Impacted(policy, policy')
      BY <1>3 DEF P!EditJobs
    <2>3. Rules(policy') /\ member' \in [Items -> Membership]
      BY <2>1, <2>2, DerivedTyped, ImpactedTyped DEF PolicyTyping
    <2>4. version' \in Nat
      BY <1>3 DEF P!EditJobs, P!SyncedVersion, PolicyTyping
    <2> QED BY <2>1, <2>3, <2>4 DEF PolicyTyping, Rules
  <1> QED BY <1>1, <1>2, <1>3

\* and assessment.
LEMMA AssessKeepsTypes ==
    ASSUME PolicyTyping, NEW i \in Items,
           \/ \E s \in Standards : P!Freeze(i, s)
           \/ \E to \in {"pending", "closed"} : P!Save(i, to)
           \/ P!Validate(i) \/ P!Allocate(i) \/ P!Clean(i)
    PROVE  PolicyTyping'
  <1>1. item[i] \in PolicyItem /\ member[i] \in Membership /\ version \in Nat
    BY DEF PolicyTyping
  <1>2. ASSUME NEW x \in PolicyItem, item' = [item EXCEPT ![i] = x],
               member' \in [Items -> Membership], UNCHANGED <<jobs, policy, version, client>>
        PROVE  PolicyTyping'
    BY <1>2 DEF PolicyTyping, Rules
  <1>3. ASSUME NEW x \in Membership, member' = [member EXCEPT ![i] = x],
               UNCHANGED <<jobs, policy, version, client, item>>
        PROVE  PolicyTyping'
    BY <1>3 DEF PolicyTyping, Rules
  <1>4. member \in [Items -> Membership]
    BY DEF PolicyTyping
  <1>5. ASSUME NEW s \in Standards, P!Freeze(i, s) PROVE PolicyTyping'
    <2>1. P!Usable(policy, s) => P!Content(policy, s) \in P!ContentOf
      BY DEF PolicyTyping, Rules, P!Usable, P!Content, P!ContentOf, P!StandardOf
    <2>2. /\ P!Usable(policy, s) =>
                [item[i] EXCEPT !.pc = "frozen", !.std = {s},
                                !.content = P!Content(policy, s)] \in PolicyItem
          /\ [item[i] EXCEPT !.pc = "blocked"] \in PolicyItem
      BY <1>1, <2>1 DEF PolicyItem
    <2>3. PICK x \in PolicyItem : item' = [item EXCEPT ![i] = x]
      BY <1>5, <2>2 DEF P!Freeze
    <2> QED BY <1>2, <1>4, <1>5, <2>3 DEF P!Freeze
  <1>6. CASE P!Validate(i)
    <2>1. \A pc \in {"validated", "blocked"} :
             [item[i] EXCEPT !.pc = pc, !.seen = version] \in PolicyItem
      BY <1>1 DEF PolicyItem
    <2>2. PICK pc \in {"validated", "blocked"} :
             item' = [item EXCEPT ![i].pc = pc, ![i].seen = version]
      BY <1>6 DEF P!Validate
    <2>3. item' = [item EXCEPT ![i] = [item[i] EXCEPT !.pc = pc, !.seen = version]]
      BY <2>2 DEF PolicyTyping
    <2>4. UNCHANGED <<jobs, policy, version, client, member>>
      BY <1>6 DEF P!Validate
    <2> QED BY <1>2, <1>4, <2>1, <2>3, <2>4
  <1>7. ASSUME NEW to \in {"pending", "closed"}, P!Save(i, to) PROVE PolicyTyping'
    <2>1. [st |-> to, content |-> item[i].content, seen |-> item[i].seen, saved |-> version]
             \in Membership
      BY <1>1 DEF PolicyItem, Membership
    <2>2. member' \in [Items -> Membership]
      BY <1>4, <1>7, <2>1 DEF P!Save
    <2>3. [item[i] EXCEPT !.pc = "done"] \in PolicyItem
      BY <1>1 DEF PolicyItem
    <2>4. item' = [item EXCEPT ![i] = [item[i] EXCEPT !.pc = "done"]]
      BY <1>7 DEF P!Save
    <2> QED BY <1>2, <1>7, <2>2, <2>3, <2>4 DEF P!Save
  <1>8. CASE P!Allocate(i) \/ P!Clean(i)
    <2>1. \A st \in {"allocated", "needs_reanalysis"} :
             [member[i] EXCEPT !.st = st] \in Membership
      BY <1>1 DEF Membership
    <2>2. PICK x \in Membership : member' = [member EXCEPT ![i] = x]
      BY <1>8, <2>1 DEF P!Allocate, P!Clean
    <2> QED BY <1>3, <1>8, <2>2 DEF P!Allocate, P!Clean
  <1> QED BY <1>5, <1>6, <1>7, <1>8

LEMMA PolicyKeepsTypes == PolicyTyping /\ P!Next => PolicyTyping'
  <1> SUFFICES ASSUME PolicyTyping, P!Next PROVE PolicyTyping'
    OBVIOUS
  <1>1. CASE P!Reprocess
    <2>1. \A i \in Items : item[i] \in PolicyItem
                             /\ [item[i] EXCEPT !.pc = "queued"] \in PolicyItem
      BY DEF PolicyTyping, PolicyItem
    <2>2. item' \in [Items -> PolicyItem]
      BY <1>1, <2>1 DEF P!Reprocess
    <2> QED BY <1>1, <2>2 DEF P!Reprocess, PolicyTyping, Rules
  <1> QED BY <1>1, ConfigureKeepsTypes, AssessKeepsTypes DEF P!Next

-----------------------------------------------------------------------------
(* The allocation plan.                                                    *)

FiveNumbers == Int \X Int \X Int \X Int \X Int

\* What ranks a demand is a number.
PlanTyping ==
    /\ DOMAIN members \subseteq Members
    /\ DOMAIN demands \subseteq Demands
    /\ \A d \in DOMAIN demands : demands[d] \in DemandOf
    /\ supply \in [DOMAIN demands -> Int] /\ last \in [DOMAIN demands -> Int]
    /\ sequence \in Nat
    /\ todo \in SUBSET DOMAIN members /\ left \in SUBSET DOMAIN demands
    /\ best \in A!DecisionOf
    /\ best.demand # A!Nobody => best.demand \in DOMAIN demands
    /\ \A m \in DOMAIN decisions : decisions[m] \in A!DecisionOf

LEMMA WaitTyped ==
    ASSUME NEW reason \in {"", "no_active_mapping", "no_receiving_demand",
                           "required_tags_unavailable"}
    PROVE  A!Wait(reason) \in A!DecisionOf /\ A!Wait(reason).demand = A!Nobody
  BY DEF A!Wait, A!DecisionOf, A!Nobody

LEMMA UndecidedTyped ==
    ASSUME NEW ds
    PROVE  A!Undecided(ds) \in A!DecisionOf /\ A!Undecided(ds).demand = A!Nobody
  BY WaitTyped DEF A!Undecided

LEMMA PlanTypesInit == A!Init => PlanTyping
  <1> SUFFICES ASSUME A!Init PROVE PlanTyping
    OBVIOUS
  <1>1. best = A!Wait("") /\ todo = {} /\ left = {} /\ sequence = 0
    BY DEF A!Init
  <1>2. DOMAIN members = {} /\ DOMAIN demands = {} /\ DOMAIN decisions = {}
    <2>1. members = <<>> /\ demands = <<>> /\ decisions = <<>>
      BY DEF A!Init
    <2> QED BY <2>1
  <1>3. supply \in [DOMAIN demands -> Int] /\ last \in [DOMAIN demands -> Int]
    <2>1. <<>> \in [1..0 -> Int]
      BY EmptySeq, LenProperties
    <2> QED BY <1>2, <2>1 DEF A!Init
  <1> QED BY <1>1, <1>2, <1>3, WaitTyped DEF PlanTyping

LEMMA PlanTypesAre == PlanTyping => A!TypeOK
  BY DEF PlanTyping, A!TypeOK

LEMMA RankTyped ==
    ASSUME PlanTyping, NEW m, NEW d \in DOMAIN demands
    PROVE  A!Rank(m, d, supply[d], last[d]) \in FiveNumbers
  <1> DEFINE wanted == A!Usable(m) \cap demands[d].preferred
  <1>1. wanted \subseteq Tags
    BY DEF A!Usable
  <1>2. Cardinality(wanted) \in Nat
    BY <1>1, SnapshotAssumption, FS_Subset, FS_CardinalityType
  <1>3. A!Preferred(m, d) = Cardinality(wanted)
    BY DEF A!Preferred, A!Cardinality, Cardinality
  <1>4. d \in Int /\ demands[d].priority \in Int
    <2>1. d \in Demands /\ demands[d] \in DemandOf
      BY DEF PlanTyping
    <2>2. d \in Int
      BY <2>1, SnapshotAssumption
    <2>3. \A r \in DemandOf : r.priority \in Int
      BY SnapshotAssumption
    <2> QED BY <2>1, <2>2, <2>3
  <1>5. supply[d] \in Int /\ last[d] \in Int
    BY DEF PlanTyping
  <1> HIDE DEF wanted
  <1> QED BY <1>2, <1>3, <1>4, <1>5 DEF A!Rank, FiveNumbers

LEMMA PlanKeepsTypes == PlanTyping /\ A!Next => PlanTyping'
  <1> SUFFICES ASSUME PlanTyping, A!Next PROVE PlanTyping'
    OBVIOUS
  <1>1. CASE A!Start
    <2>1. /\ DOMAIN members' = Members /\ DOMAIN demands' \subseteq Demands
          /\ \A d \in DOMAIN demands' : demands'[d] \in DemandOf
      <3>1. PICK ds \in SUBSET Demands : demands' \in [ds -> DemandOf]
        BY <1>1 DEF A!Start
      <3>2. members' \in [Members -> MemberOf]
        BY <1>1 DEF A!Start
      <3> QED BY <3>1, <3>2
    <2>2. supply' \in [DOMAIN demands' -> Int] /\ last' \in [DOMAIN demands' -> Int]
      BY <1>1, <2>1, SnapshotAssumption DEF A!Start
    <2>3. best' \in A!DecisionOf /\ best'.demand = A!Nobody
      BY <1>1, UndecidedTyped DEF A!Start
    <2> QED BY <1>1, <2>1, <2>2, <2>3, SnapshotAssumption DEF A!Start, PlanTyping
  <1>2. ASSUME NEW m \in Members, NEW d \in Demands, A!Consider(m, d) PROVE PlanTyping'
    <2> DEFINE order == A!Rank(m, d, supply[d], last[d])
               offer == [demand |-> d, matched |-> A!Matched(m, d), order |-> order,
                         sequence |-> sequence, reason |-> "allocated"]
    <2>1. d \in DOMAIN demands
      BY <1>2 DEF A!Consider, PlanTyping
    <2>2. order \in FiveNumbers
      BY <2>1, RankTyped
    <2>3. A!Matched(m, d) \in SUBSET Tags
      BY DEF A!Matched, A!Usable
    <2>4. best' = offer \/ best' = A!Wait("required_tags_unavailable") \/ best' = best
      BY <1>2 DEF A!Consider
    <2> HIDE DEF order
    <2>5. offer \in A!DecisionOf /\ offer.demand = d
      BY <2>2, <2>3 DEF A!DecisionOf, PlanTyping, FiveNumbers
    <2> HIDE DEF offer
    <2>6. best' \in A!DecisionOf
             /\ (best'.demand # A!Nobody => best'.demand \in DOMAIN demands)
      BY <2>1, <2>4, <2>5, WaitTyped DEF PlanTyping
    <2> QED BY <1>2, <2>6 DEF A!Consider, PlanTyping
  <1>3. ASSUME NEW m \in Members, A!Decide(m) PROVE PlanTyping'
    <2>1. \A n \in DOMAIN decisions' : decisions'[n] \in A!DecisionOf
      BY <1>3 DEF A!Decide, PlanTyping
    <2>2. /\ supply' \in [DOMAIN demands -> Int] /\ last' \in [DOMAIN demands -> Int]
          /\ sequence' \in Nat
      <3>1. CASE best.demand = A!Nobody
        BY <1>3, <3>1 DEF A!Decide, PlanTyping
      <3>2. CASE best.demand # A!Nobody
        <4>1. A!Supplied(m, best.demand) \in Int
          BY <3>2 DEF A!Supplied, PlanTyping
        <4> QED BY <1>3, <3>2, <4>1 DEF A!Decide, PlanTyping
      <3> QED BY <3>1, <3>2
    <2>3. best' \in A!DecisionOf /\ best'.demand = A!Nobody
      BY <1>3, UndecidedTyped DEF A!Decide
    <2> QED BY <1>3, <2>1, <2>2, <2>3 DEF A!Decide, PlanTyping
  <1> QED BY <1>1, <1>2, <1>3 DEF A!Next

-----------------------------------------------------------------------------
(* The schedules.                                                          *)

PlannedRow == [status : T!PlanStatus, repeat : T!Repeats, at : Nat, next : Nat,
               scope : SUBSET Candidates, last : Nat]
SchedulerMemory == [pc : {"idle", "claimed", "resolved"}, plan : SUBSET Schedules, t : Nat,
                    verdict : {"", "failed", "skipped", "go"}, ids : SUBSET Candidates]
Deleting == [pc : {"idle", "deleting"}, todo : SUBSET Candidates,
             swept : SUBSET Candidates, gone : SUBSET Candidates,
             cut : SUBSET (Nat \X Candidates)]

TaskTyping ==
    /\ now \in Nat /\ allowed \in BOOLEAN /\ deletions \in Nat
    /\ plan \in [Schedules -> PlannedRow]
    /\ runs \in Seq(T!RunOf)
    /\ cands \in SUBSET Candidates
    /\ sess \in [Schedulers -> SchedulerMemory]
    /\ del \in Deleting

LEMMA TaskTypesInit == T!Init => TaskTyping
  <1>1. /\ T!NoPlan \in PlannedRow /\ T!Idle \in SchedulerMemory /\ T!NoDel \in Deleting
    BY DEF T!NoPlan, T!Idle, T!NoDel, T!Never, PlannedRow, SchedulerMemory, Deleting,
       T!PlanStatus, T!Repeats
  <1>2. <<>> \in Seq(T!RunOf)
    BY EmptySeq
  <1> QED BY <1>1, <1>2 DEF T!Init, TaskTyping

LEMMA TaskTypesAre == TaskTyping => T!TypeOK
  BY DEF TaskTyping, T!TypeOK, PlannedRow, SchedulerMemory, Deleting

LEMMA NextTimeTyped ==
    ASSUME NEW previous \in Nat, NEW repeat, NEW t \in Nat
    PROVE  T!NextTime(previous, repeat, t) \in Nat
  <1> DEFINE n == IF t > previous THEN (t - previous) \div Period ELSE 0
  <1>1. n \in Nat
    BY PeriodAssumption
  <1>2. previous + (n + 1) * Period \in Nat
    <2> HIDE DEF n
    <2>1. \A j, k \in Nat : j * k \in Nat
      OBVIOUS
    <2> QED BY <1>1, <2>1, PeriodAssumption
  <1>3. T!NextTime(previous, repeat, t)
           = IF repeat = "once" THEN 0 ELSE previous + (n + 1) * Period
    BY DEF T!NextTime, T!Never
  <1> QED BY <1>2, <1>3

\* One plan, one scheduler, one run more.
LEMMA RunAdded ==
    ASSUME TaskTyping, NEW s \in Schedules \cup {0}, NEW due \in Nat,
           NEW ids \in SUBSET Candidates
    PROVE  /\ Append(runs, T!NewRun(s, due, ids)) \in Seq(T!RunOf)
           /\ Len(Append(runs, T!NewRun(s, due, ids))) \in Nat
  <1>1. T!Cardinality(ids) = Cardinality(ids)
    BY DEF T!Cardinality, Cardinality
  <1>2. Cardinality(ids) \in Nat
    BY BoundsAssumption, FS_Subset, FS_CardinalityType
  <1>3. T!NewRun(s, due, ids) \in T!RunOf
    BY <1>1, <1>2 DEF T!NewRun, T!RunOf
  <1> QED BY <1>3, AppendProperties, LenProperties DEF TaskTyping

\* Users.
LEMMA UserKeepsTypes ==
    ASSUME TaskTyping, T!User
    PROVE  TaskTyping'
  <1>1. \A s \in Schedules : plan[s] \in PlannedRow
    BY DEF TaskTyping
  <1>2. ASSUME NEW s \in Schedules, NEW x \in PlannedRow, plan' = [plan EXCEPT ![s] = x],
               UNCHANGED <<now, runs, cands, allowed, sess, del, deletions>>
        PROVE  TaskTyping'
    BY <1>2 DEF TaskTyping
  <1>3. ASSUME NEW s \in Schedules, NEW repeat \in T!Repeats, NEW at \in 1..MaxTime,
               NEW scope \in SUBSET cands, T!Create(s, repeat, at, scope)
        PROVE  TaskTyping'
    <2>1. [status |-> "active", repeat |-> repeat, at |-> at, next |-> at, scope |-> scope,
           last |-> 0] \in PlannedRow
      BY DEF PlannedRow, T!PlanStatus, TaskTyping
    <2> QED BY <1>2, <1>3, <2>1 DEF T!Create
  <1>4. ASSUME NEW s \in Schedules, T!Cancel(s) \/ T!Pause(s) PROVE TaskTyping'
    <2>1. /\ [plan[s] EXCEPT !.status = "cancelled", !.next = T!Never] \in PlannedRow
          /\ [plan[s] EXCEPT !.status = "paused"] \in PlannedRow
      BY <1>1 DEF PlannedRow, T!PlanStatus, T!Never
    <2>2. PICK x \in PlannedRow : plan' = [plan EXCEPT ![s] = x]
      BY <1>4, <2>1 DEF T!Cancel, T!Pause, TaskTyping
    <2> QED BY <1>2, <1>4, <2>2 DEF T!Cancel, T!Pause
  <1>5. ASSUME NEW s \in Schedules, T!Resume(s) PROVE TaskTyping'
    <2>1. plan[s].next \in Nat /\ now \in Nat
      BY <1>1 DEF PlannedRow, TaskTyping
    <2>2. PICK n \in Nat : plan' = [plan EXCEPT ![s].status = "active", ![s].next = n]
      BY <1>5, <2>1, NextTimeTyped DEF T!Resume
    <2>3. [plan[s] EXCEPT !.status = "active", !.next = n] \in PlannedRow
      BY <1>1 DEF PlannedRow, T!PlanStatus
    <2>4. plan' = [plan EXCEPT ![s] = [plan[s] EXCEPT !.status = "active", !.next = n]]
      BY <2>2 DEF TaskTyping
    <2> QED BY <1>2, <1>5, <2>3, <2>4 DEF T!Resume
  <1>6. ASSUME NEW ids \in SUBSET cands, T!StartRun(ids) PROVE TaskTyping'
    <2>1. ids \in SUBSET Candidates
      BY DEF TaskTyping
    <2>2. runs' \in Seq(T!RunOf)
      BY <1>6, <2>1, RunAdded DEF T!StartRun
    <2> QED BY <1>6, <2>2 DEF T!StartRun, TaskTyping
  <1>7. CASE T!SetAllowed
    BY <1>7 DEF T!SetAllowed, TaskTyping
  <1> QED BY <1>3, <1>4, <1>5, <1>6, <1>7 DEF T!User

\* Runs without some of their items.
LEMMA RunsChange ==
    ASSUME TaskTyping, NEW f, DOMAIN f = DOMAIN runs, f = [r \in DOMAIN runs |-> f[r]],
           \A r \in DOMAIN runs : f[r] \in T!RunOf
    PROVE  f \in Seq(T!RunOf)
  <1>1. Len(runs) \in Nat /\ DOMAIN runs = 1..Len(runs)
    BY LenProperties DEF TaskTyping
  <1>2. f \in [1..Len(runs) -> T!RunOf]
    BY <1>1
  <1> QED BY <1>1, <1>2, IsASeq

LEMMA RunEndKeepsTypes ==
    ASSUME TaskTyping, NEW r \in DOMAIN runs, T!EndRun(r)
    PROVE  TaskTyping'
  <1>1. \A q \in DOMAIN runs : runs[q] \in T!RunOf
    BY ElementOfSeq, LenProperties DEF TaskTyping
  <1>2. [runs[r] EXCEPT !.active = FALSE] \in T!RunOf
    BY <1>1 DEF T!RunOf
  <1>3. runs' = [runs EXCEPT ![r] = [runs[r] EXCEPT !.active = FALSE]]
    BY DEF T!EndRun
  <1>4. /\ DOMAIN runs' = DOMAIN runs /\ runs' = [q \in DOMAIN runs |-> runs'[q]]
        /\ \A q \in DOMAIN runs : runs'[q] \in T!RunOf
    BY <1>1, <1>2, <1>3
  <1>5. runs' \in Seq(T!RunOf)
    BY <1>4, RunsChange
  <1> QED BY <1>5 DEF T!EndRun, TaskTyping

\* Deletions.
LEMMA DeletionKeepsTypes ==
    ASSUME TaskTyping, T!Deletion
    PROVE  TaskTyping'
  <1>1. T!NoDel \in Deleting
    BY DEF T!NoDel, Deleting
  <1>2. \A cs \in SUBSET Candidates :
           [T!NoDel EXCEPT !.pc = "deleting", !.todo = cs] \in Deleting
    BY DEF T!NoDel, Deleting
  <1>3. CASE T!BeginReplace
    <2>1. del' \in Deleting
      BY <1>2, <1>3 DEF T!BeginReplace, TaskTyping
    <2> QED BY <1>3, <2>1 DEF T!BeginReplace, TaskTyping
  <1>4. ASSUME NEW c \in Candidates, T!BeginDelete(c) PROVE TaskTyping'
    <2>1. del' \in Deleting
      BY <1>2, <1>4 DEF T!BeginDelete
    <2> QED BY <1>4, <2>1 DEF T!BeginDelete, TaskTyping
  <1>5. ASSUME NEW c \in Candidates, T!Sweep(c) PROVE TaskTyping'
    <2>1. T!ItemsOf(c) \in SUBSET (Nat \X Candidates)
      <3>1. DOMAIN runs \subseteq Nat
        BY LenProperties DEF TaskTyping
      <3> QED BY <3>1 DEF T!ItemsOf
    <2>2. [del EXCEPT !.swept = @ \cup {c}, !.cut = @ \cup T!ItemsOf(c)] \in Deleting
      BY <2>1 DEF TaskTyping, Deleting
    <2> QED BY <1>5, <2>2 DEF T!Sweep, TaskTyping
  <1>6. ASSUME NEW c \in Candidates, T!Remove(c) PROVE TaskTyping'
    <2>1. [del EXCEPT !.gone = @ \cup {c}] \in Deleting
      BY DEF TaskTyping, Deleting
    <2> QED BY <1>6, <2>1 DEF T!Remove, TaskTyping
  <1>7. CASE T!CommitDeletion
    <2>1. \A r \in DOMAIN runs : runs[r] \in T!RunOf
      BY ElementOfSeq, LenProperties DEF TaskTyping
    <2>2. \A r \in DOMAIN runs : [runs[r] EXCEPT !.items = T!Left(r)] \in T!RunOf
      BY <2>1 DEF T!RunOf, T!Left
    <2>3. runs' = [r \in DOMAIN runs |-> [runs[r] EXCEPT !.items = T!Left(r)]]
      BY <1>7 DEF T!CommitDeletion
    <2>4. runs' \in Seq(T!RunOf)
      BY <2>2, <2>3, RunsChange
    <2>5. cands' \in SUBSET Candidates /\ del' = T!NoDel
             /\ UNCHANGED <<now, plan, allowed, sess, deletions>>
      BY <1>7 DEF T!CommitDeletion, TaskTyping
    <2> QED BY <1>1, <2>4, <2>5 DEF TaskTyping
  <1>8. CASE T!AbortDeletion
    BY <1>1, <1>8 DEF T!AbortDeletion, TaskTyping
  <1> QED BY <1>3, <1>4, <1>5, <1>6, <1>7, <1>8 DEF T!Deletion

\* The scheduler.
LEMMA SettledTyped ==
    ASSUME TaskTyping, NEW s \in Schedules, NEW w \in Schedulers, NEW failed \in BOOLEAN,
           NEW n \in Nat
    PROVE  T!Settled(s, w, failed, n) \in [Schedules -> PlannedRow]
  <1> DEFINE status == IF failed THEN "failed"
                       ELSE IF plan[s].repeat = "once" THEN "completed" ELSE "active"
             next == IF failed THEN T!Never
                     ELSE T!NextTime(plan[s].next, plan[s].repeat, sess[w].t)
  <1>1. plan[s] \in PlannedRow /\ sess[w].t \in Nat
    BY DEF TaskTyping, SchedulerMemory
  <1>2. next \in Nat /\ status \in T!PlanStatus
    BY <1>1, NextTimeTyped DEF PlannedRow, T!Never, T!PlanStatus
  <1>3. T!Settled(s, w, failed, n)
           = [plan EXCEPT ![s] = [plan[s] EXCEPT !.status = status, !.next = next, !.last = n]]
    BY DEF T!Settled, TaskTyping
  <1> HIDE DEF status, next
  <1>4. [plan[s] EXCEPT !.status = status, !.next = next, !.last = n] \in PlannedRow
    BY <1>1, <1>2 DEF PlannedRow
  <1> QED BY <1>3, <1>4 DEF TaskTyping

LEMMA SchedulerKeepsTypes ==
    ASSUME TaskTyping, NEW w \in Schedulers, T!Trigger(w) \/ T!Rollback(w)
    PROVE  TaskTyping'
  <1>1. sess[w] \in SchedulerMemory /\ T!Idle \in SchedulerMemory
    BY DEF TaskTyping, T!Idle, SchedulerMemory
  <1>2. ASSUME NEW x \in SchedulerMemory, sess' = [sess EXCEPT ![w] = x],
               runs' \in Seq(T!RunOf), plan' \in [Schedules -> PlannedRow],
               UNCHANGED <<now, cands, allowed, del, deletions>>
        PROVE  TaskTyping'
    BY <1>2 DEF TaskTyping
  <1>3. runs \in Seq(T!RunOf) /\ plan \in [Schedules -> PlannedRow]
    BY DEF TaskTyping
  <1>4. ASSUME NEW s \in Schedules, T!Claim(w, s) PROVE TaskTyping'
    <2>1. [T!Idle EXCEPT !.pc = "claimed", !.plan = {s}, !.t = now] \in SchedulerMemory
      BY DEF TaskTyping, T!Idle, SchedulerMemory
    <2> QED BY <1>2, <1>3, <1>4, <2>1 DEF T!Claim
  <1>5. CASE T!Resolve(w)
    <2>0. PICK s \in sess[w].plan :
             LET v == IF ~allowed THEN "failed"
                      ELSE IF T!StillRunning(s) THEN "skipped" ELSE "go"
             IN \E cs \in IF plan[s].scope # {} THEN {plan[s].scope} ELSE SUBSET cands :
                   sess' = [sess EXCEPT ![w].pc = "resolved", ![w].verdict = v,
                                        ![w].ids = IF v = "go" THEN cs ELSE {}]
      BY <1>5 DEF T!Resolve
    <2>1. PICK verdict \in {"failed", "skipped", "go"} :
             \E cs \in IF plan[s].scope # {} THEN {plan[s].scope} ELSE SUBSET cands :
                   sess' = [sess EXCEPT ![w].pc = "resolved", ![w].verdict = verdict,
                                        ![w].ids = IF verdict = "go" THEN cs ELSE {}]
      BY <2>0
    <2>2. s \in Schedules
      BY <1>1 DEF SchedulerMemory
    <2>3. PICK ids \in SUBSET Candidates :
             sess' = [sess EXCEPT ![w].pc = "resolved", ![w].verdict = verdict,
                                  ![w].ids = IF verdict = "go" THEN ids ELSE {}]
      BY <2>1, <2>2 DEF TaskTyping, PlannedRow
    <2> DEFINE cs == IF verdict = "go" THEN ids ELSE {}
    <2>4. cs \in SUBSET Candidates
      OBVIOUS
    <2>5. sess' = [sess EXCEPT ![w] = [sess[w] EXCEPT !.pc = "resolved", !.verdict = verdict,
                                                      !.ids = cs]]
      BY <2>3 DEF TaskTyping
    <2> HIDE DEF cs
    <2>6. [sess[w] EXCEPT !.pc = "resolved", !.verdict = verdict, !.ids = cs]
             \in SchedulerMemory
      BY <1>1, <2>4 DEF SchedulerMemory
    <2>7. UNCHANGED <<now, plan, runs, cands, allowed, del, deletions>>
      BY <1>5 DEF T!Resolve
    <2> QED BY <1>2, <1>3, <2>5, <2>6, <2>7
  <1>6. CASE T!FireNothing(w)
    <2>1. PICK s \in sess[w].plan, failed \in BOOLEAN :
             plan' = T!Settled(s, w, failed, plan[s].last)
      <3>1. PICK s \in sess[w].plan :
               LET fails == sess[w].verdict = "go" /\ ~(sess[w].ids \subseteq cands)
               IN plan' = T!Settled(s, w, fails \/ sess[w].verdict = "failed", plan[s].last)
        BY <1>6 DEF T!FireNothing
      <3> DEFINE failed == (sess[w].verdict = "go" /\ ~(sess[w].ids \subseteq cands))
                              \/ sess[w].verdict = "failed"
      <3>2. failed \in BOOLEAN
        OBVIOUS
      <3>3. plan' = T!Settled(s, w, failed, plan[s].last)
        BY <3>1
      <3> HIDE DEF failed
      <3> QED BY <3>2, <3>3
    <2>2. s \in Schedules /\ plan[s].last \in Nat
      BY <1>1 DEF SchedulerMemory, TaskTyping, PlannedRow
    <2>3. plan' \in [Schedules -> PlannedRow]
      BY <2>1, <2>2, SettledTyped
    <2> QED BY <1>1, <1>2, <1>3, <1>6, <2>3 DEF T!FireNothing
  <1>7. CASE T!FireRun(w)
    <2>1. PICK s \in sess[w].plan :
             /\ runs' = Append(runs, T!NewRun(s, plan[s].next, sess[w].ids))
             /\ plan' = T!Settled(s, w, FALSE, Len(runs'))
      BY <1>7 DEF T!FireRun
    <2>2. s \in Schedules /\ plan[s].next \in Nat /\ sess[w].ids \in SUBSET Candidates
      BY <1>1 DEF SchedulerMemory, TaskTyping, PlannedRow
    <2>3. runs' \in Seq(T!RunOf) /\ Len(runs') \in Nat
      BY <2>1, <2>2, RunAdded
    <2>4. plan' \in [Schedules -> PlannedRow]
      BY <2>1, <2>2, <2>3, SettledTyped
    <2> QED BY <1>1, <1>2, <1>7, <2>3, <2>4 DEF T!FireRun
  <1>8. CASE T!Rollback(w)
    BY <1>1, <1>2, <1>3, <1>8 DEF T!Rollback
  <1> QED BY <1>4, <1>5, <1>6, <1>7, <1>8 DEF T!Trigger

LEMMA TasksKeepTypes == TaskTyping /\ T!Next => TaskTyping'
  <1> SUFFICES ASSUME TaskTyping, T!Next PROVE TaskTyping'
    OBVIOUS
  <1>1. CASE T!Tick
    BY <1>1 DEF T!Tick, TaskTyping
  <1> QED BY <1>1, UserKeepsTypes, DeletionKeepsTypes, RunEndKeepsTypes, SchedulerKeepsTypes
          DEF T!Next

-----------------------------------------------------------------------------
(* All services.                                                           *)

Typing ==
    /\ part \in Parts
    /\ TaskTyping /\ ImportTyping /\ QueueTyping /\ ConnectionTyping
    /\ Directory /\ LoginTyping /\ PolicyTyping /\ PlanTyping

LEMMA TypingInit == Init => Typing
  <1>1. Init => Directory
    BY DEF Init, D!Init, Directory, D!TypeOK, D!EmailsIdentifyPeople, D!GrantsHaveAccounts
  <1> QED BY <1>1, TaskTypesInit, ImportTypesInit, QueueTypesInit, ConnectionTypesInit,
             LoginTypesInit, PolicyTypesInit, PlanTypesInit DEF Init, Typing

\* A service that is not chosen stays as it is.
LEMMA OthersStayTyped ==
    ASSUME Typing
    PROVE  /\ UNCHANGED scheduleVars => TaskTyping'
           /\ UNCHANGED importVars => ImportTyping'
           /\ UNCHANGED connectionVars => ConnectionTyping'
           /\ UNCHANGED loginVars => LoginTyping'
           /\ UNCHANGED policyVars => PolicyTyping'
           /\ UNCHANGED orderVars => PlanTyping'
  <1>1. UNCHANGED scheduleVars => TaskTyping'
    BY DEF Typing, TaskTyping, scheduleVars
  <1>2. UNCHANGED importVars => ImportTyping'
    BY DEF Typing, ImportTyping, importVars, Files
  <1>3. UNCHANGED connectionVars => ConnectionTyping'
    BY DEF Typing, ConnectionTyping, connectionVars
  <1>4. UNCHANGED loginVars => LoginTyping'
    BY DEF Typing, LoginTyping, loginVars
  <1>5. UNCHANGED policyVars => PolicyTyping'
    BY DEF Typing, PolicyTyping, policyVars, Rules
  <1>6. UNCHANGED orderVars => PlanTyping'
    BY DEF Typing, PlanTyping, orderVars
  <1> QED BY <1>1, <1>2, <1>3, <1>4, <1>5, <1>6
LEMMA NextKeepsTyping == Typing /\ [Next]_vars => Typing'
  <1> SUFFICES ASSUME Typing, [Next]_vars PROVE Typing'
    OBVIOUS
  <1>1. part' \in Parts
    BY DEF Typing, Next, vars
  <1>2. Directory' /\ NamesReadOnce'
    BY NextKeepsDirectory, NextKeepsNames DEF Typing, QueueTyping
  <1>3. UNCHANGED scheduleVars \/ T!Next
    BY DEF Next, vars
  <1>4. UNCHANGED importVars \/ I!Next
    BY DEF Next, vars
  <1>5. UNCHANGED maintenanceVars \/ M!Next
    BY DEF Next, vars
  <1>6. UNCHANGED connectionVars \/ C!Next
    BY DEF Next, vars
  <1>7. UNCHANGED loginVars \/ L!Next
    BY DEF Next, vars
  <1>8. UNCHANGED policyVars \/ P!Next
    BY DEF Next, vars
  <1>9. UNCHANGED orderVars \/ A!Next
    BY DEF Next, vars
  <1>10. QueueTyping'
    <2>1. CASE UNCHANGED maintenanceVars
      BY <1>2, <2>1 DEF Typing, QueueTyping, maintenanceVars
    <2>2. CASE M!Next
      BY <1>2, <2>2, QueueKeepsTypes DEF Typing, QueueTyping
    <2> QED BY <1>5, <2>1, <2>2
  <1>11. TaskTyping' /\ ImportTyping' /\ ConnectionTyping' /\ LoginTyping' /\ PolicyTyping'
            /\ PlanTyping'
    <2>1. /\ TaskTyping /\ ImportTyping /\ ConnectionTyping /\ LoginTyping /\ PolicyTyping
          /\ PlanTyping
      BY DEF Typing
    <2> QED BY <1>3, <1>4, <1>6, <1>7, <1>8, <1>9, <2>1, OthersStayTyped, TasksKeepTypes,
               ImportKeepsTypes, ConnectionKeepsTypes, LoginKeepsTypes, PolicyKeepsTypes,
               PlanKeepsTypes
  <1> QED BY <1>1, <1>2, <1>10, <1>11 DEF Typing

(* Every variable of every service has its type, however many rows,        *)
(* actors, files, tokens and versions there are: no step of any service    *)
(* stores what a later one does not expect to read.                        *)
THEOREM ServicesAreTyped == Spec => []ServicesTypeOK
  <1>1. Typing => ServicesTypeOK
    <2>1. Directory => D!TypeOK
      BY DEF Directory
    <2> QED BY <2>1, TaskTypesAre, ImportTypesAre, QueueTypesAre, ConnectionTypesAre,
               LoginTypesAre, PolicyTypesAre, PlanTypesAre DEF Typing, ServicesTypeOK
  <1> QED BY <1>1, TypingInit, NextKeepsTyping, PTL DEF Spec
===============================================================================
