--------------------------- MODULE RecordsProofs ----------------------------
(***************************************************************************)
(* The assessment standards, for any standards, jobs, tags, clients and    *)
(* items and any number of versions: no edit is lost, and no edit misses an *)
(* assessment saved before it.  And the resume import, for any number of   *)
(* applications, people and imports: the files on disk are those of the    *)
(* rows.  Scheduled processing, for any plans, scheduler loops and         *)
(* candidates, any period and any bounds: a plan never has two runs in     *)
(* progress, and a run starts for an occurrence that is due.  And the      *)
(* allocation plan, for any members, demands, tags and snapshots: every    *)
(* member gets the best demand that takes it, all earlier ones placed.     *)
(***************************************************************************)
EXTENDS Services, FiniteSetTheorems, SequenceTheorems, TLAPS

-----------------------------------------------------------------------------
(* The optimistic version.                                                 *)

\* What a client was shown is the policy in force if its version is.
Shown ==
    /\ version \in Nat
    /\ client = [c \in Clients |-> client[c]]
    /\ \A c \in Clients : \A shown \in client[c] :
          /\ shown.version \in Nat /\ shown.version <= version
          /\ shown.version = version => shown.policy = policy

LEMMA ShownInit == Init => Shown
  BY DEF Init, P!Init, Shown

\* A writer that changes the policy leaves the version it found behind.
LEMMA NewVersion ==
    ASSUME Shown, version' = version + 1, NEW c \in Clients,
           client' = [client EXCEPT ![c] = {}] \/ client' = client
    PROVE  Shown'
  BY DEF Shown

LEMMA PutMeets ==
    ASSUME Shown, NEW c \in Clients, NEW s \in Standards,
           NEW tags \in SUBSET Tags, NEW on \in BOOLEAN, P!Put(c, s, tags, on)
    PROVE  /\ \E shown \in client[c] : shown.policy = policy
           /\ version' = version + 1
           /\ client' = [client EXCEPT ![c] = {}]
  BY DEF P!Put, Shown

LEMMA EditJobsMeets ==
    ASSUME Shown, NEW s \in Standards, NEW group \in SUBSET Reqs, P!EditJobs(s, group)
    PROVE  /\ client' = client
           /\ (version' = version + 1 \/ UNCHANGED <<policy, version>>)
  BY DEF P!EditJobs, P!SyncedVersion

LEMMA NextKeepsShown == Shown /\ [Next]_vars => Shown'
  <1> SUFFICES ASSUME Shown, [Next]_vars PROVE Shown'
    OBVIOUS
  <1>1. CASE UNCHANGED <<policy, version, client>>
    BY <1>1 DEF Shown
  <1>2. ASSUME NEW c \in Clients, P!Show(c) PROVE Shown'
    BY <1>2 DEF P!Show, Shown
  <1>3. ASSUME NEW c \in Clients, P!Conflict(c) PROVE Shown'
    BY <1>3 DEF P!Conflict, Shown
  <1>4. ASSUME NEW c \in Clients, NEW s \in Standards, NEW tags \in SUBSET Tags,
               NEW on \in BOOLEAN, P!Put(c, s, tags, on)
        PROVE  Shown'
    BY <1>4, PutMeets, NewVersion
  <1>5. ASSUME NEW s \in Standards, NEW group \in SUBSET Reqs, P!EditJobs(s, group)
        PROVE  Shown'
    BY <1>5, EditJobsMeets DEF Shown
  <1>6. CASE P!Next
    BY <1>1, <1>2, <1>3, <1>4, <1>5, <1>6
       DEF P!Next, P!Freeze, P!Save, P!Validate, P!Allocate, P!Clean, P!Reprocess
  <1> QED BY <1>1, <1>6 DEF Next, vars, policyVars

-----------------------------------------------------------------------------
(* An edit of the configuration that takes effect was made from exactly    *)
(* the policy it replaces.                                                 *)
THEOREM NoEditIsLost == Spec => EditsBuildOnWhatTheySaw
  <1> DEFINE Built == \A c \in Clients : client'[c] # client[c] /\ policy' # policy
                         => \E shown \in client[c] : shown.policy = policy
  <1>1. Shown /\ [Next]_vars => [Built]_(P!vars)
    <2> SUFFICES ASSUME Shown, [Next]_vars PROVE Built \/ UNCHANGED policyVars
      BY DEF policyVars, P!vars
    <2>1. CASE UNCHANGED policy \/ UNCHANGED client
      BY <2>1
    <2>2. ASSUME NEW c \in Clients, NEW s \in Standards, NEW tags \in SUBSET Tags,
                 NEW on \in BOOLEAN, P!Put(c, s, tags, on)
          PROVE  Built
      BY <2>2, PutMeets DEF Shown
    <2>3. CASE P!Next
      BY <2>1, <2>2, <2>3
         DEF P!Next, P!Show, P!Conflict, P!EditJobs, P!Freeze, P!Save, P!Validate,
             P!Allocate, P!Clean, P!Reprocess
    <2> QED BY <2>3 DEF Next, vars, policyVars
  <1> QED BY <1>1, ShownInit, NextKeepsShown, PTL
          DEF Spec, EditsBuildOnWhatTheySaw, P!EditsBuildOnWhatTheySaw

-----------------------------------------------------------------------------
(* Assessments and the version they were made in.                          *)

ItemRow(x) == x \in [pc : {x.pc}, std : {x.std}, content : {x.content}, seen : {x.seen}]
MemberRow(x) == x \in [st : {x.st}, content : {x.content}, seen : {x.seen}, saved : {x.saved}]

\* content is what the standard of the item says now.
Current(x, content) == \E s \in x.std : P!Usable(policy, s) /\ P!Content(policy, s) = content

\* What an item checked in the version in force still holds; what is
\* pending belongs to a finished item, and holds unless the version moved
\* between the check and the save.
FreshItem(i) ==
    /\ ItemRow(item[i]) /\ item[i].seen \in Nat /\ item[i].seen <= version
    /\ item[i].pc = "validated" /\ item[i].seen = version => Current(item[i], item[i].content)

FreshMember(i) ==
    /\ MemberRow(member[i])
    /\ member[i].st = "pending" => item[i].pc = "done"
    /\ member[i].st = "pending" /\ member[i].seen = member[i].saved
          => Current(item[i], member[i].content)

Fresh ==
    /\ version \in Nat
    /\ item = [i \in Items |-> item[i]] /\ member = [i \in Items |-> member[i]]
    /\ \A i \in Items : FreshItem(i) /\ FreshMember(i)

LEMMA FreshInit == Init => Fresh
  <1> SUFFICES ASSUME Init PROVE Fresh
    OBVIOUS
  <1>1. item = [i \in Items |-> item[i]] /\ member = [i \in Items |-> member[i]] /\ version = 1
    BY DEF Init, P!Init
  <1>2. ASSUME NEW i \in Items PROVE FreshItem(i)
    <2>1. item[i] = [pc |-> "queued", std |-> {}, content |-> P!Nothing, seen |-> 0]
      BY DEF Init, P!Init
    <2> QED BY <1>1, <2>1 DEF FreshItem, ItemRow
  <1>3. ASSUME NEW i \in Items PROVE FreshMember(i)
    <2>1. member[i] = [st |-> "none", content |-> P!Nothing, seen |-> 0, saved |-> 0]
      BY DEF Init, P!Init, P!NoMember
    <2> QED BY <2>1 DEF FreshMember, MemberRow
  <1> QED BY <1>1, <1>2, <1>3 DEF Fresh

\* A change of the policy voids the pending assessments it touches.
LEMMA ImpactKeepsFresh ==
    ASSUME Fresh, version' = version + 1, item' = item, member' = P!Impacted(policy, policy')
    PROVE  Fresh'
  <1>1. ASSUME NEW i \in Items PROVE FreshItem(i)'
    BY DEF Fresh, FreshItem, ItemRow
  <1>2. ASSUME NEW i \in Items PROVE FreshMember(i)'
    <2>1. CASE member'[i] = member[i]
      <3>1. SUFFICES ASSUME member[i].st = "pending", member[i].seen = member[i].saved
                     PROVE  Current(item[i], member[i].content)'
        BY <2>1 DEF Fresh, FreshMember, MemberRow
      <3>2. PICK s \in item[i].std : P!Usable(policy, s)
                                     /\ P!Content(policy, s) = member[i].content
        BY <3>1 DEF Fresh, FreshMember, Current
      <3>3. ~P!Changed(policy, policy', s)
        <4>1. SUFFICES ASSUME P!Changed(policy, policy', s) PROVE FALSE
          OBVIOUS
        <4>2. s \in item[i].std \cap DOMAIN policy
          BY <3>2 DEF P!Usable
        <4>3. member'[i].st = "needs_reanalysis"
          BY <3>1, <4>1, <4>2 DEF P!Impacted, Fresh, FreshMember, MemberRow
        <4> QED BY <2>1, <3>1, <4>3
      <3> QED BY <2>1, <3>2, <3>3 DEF P!Changed, Current
    <2>2. CASE member'[i] = [member[i] EXCEPT !.st = "needs_reanalysis"]
      BY <2>2 DEF Fresh, FreshMember, MemberRow
    <2> QED BY <2>1, <2>2 DEF P!Impacted
  <1> QED BY <1>1, <1>2 DEF Fresh, P!Impacted

\* A step of one item leaves the others alone.
LEMMA OneItemMoves ==
    ASSUME Fresh, UNCHANGED <<policy, version>>, NEW i \in Items,
           NEW x, item' = [item EXCEPT ![i] = x],
           NEW y, member' = [member EXCEPT ![i] = y],
           FreshItem(i)', FreshMember(i)'
    PROVE  Fresh'
  <1>1. ASSUME NEW j \in Items, j # i PROVE FreshItem(j)' /\ FreshMember(j)'
    <2>1. item'[j] = item[j] /\ member'[j] = member[j]
      BY <1>1 DEF Fresh
    <2>2. FreshItem(j) /\ FreshMember(j)
      BY DEF Fresh
    <2> QED BY <2>1, <2>2 DEF FreshItem, FreshMember, Current
  <1> QED BY <1>1 DEF Fresh

LEMMA FreezeKeepsFresh ==
    ASSUME Fresh, NEW i \in Items, NEW s \in Standards, P!Freeze(i, s)
    PROVE  Fresh'
  <1> DEFINE x == IF P!Usable(policy, s)
                  THEN [item[i] EXCEPT !.pc = "frozen", !.std = {s},
                                       !.content = P!Content(policy, s)]
                  ELSE [item[i] EXCEPT !.pc = "blocked"]
  <1>1. item' = [item EXCEPT ![i] = x] /\ member' = [member EXCEPT ![i] = member[i]]
           /\ UNCHANGED <<policy, version>>
    BY DEF P!Freeze, Fresh
  <1>2. FreshItem(i) /\ FreshMember(i) /\ member[i].st # "pending"
    BY DEF P!Freeze, Fresh, FreshMember
  <1>3. ItemRow(x) /\ x.seen = item[i].seen /\ x.pc \in {"frozen", "blocked"}
    BY <1>2 DEF FreshItem, ItemRow
  <1> HIDE DEF x
  <1>4. item'[i] = x /\ member'[i] = member[i]
    BY <1>1 DEF Fresh
  <1>5. FreshItem(i)' /\ FreshMember(i)'
    BY <1>1, <1>2, <1>3, <1>4 DEF FreshItem, FreshMember
  <1> QED BY <1>1, <1>5, OneItemMoves

LEMMA ValidateKeepsFresh ==
    ASSUME Fresh, NEW i \in Items, P!Validate(i)
    PROVE  Fresh'
  <1>1. PICK s \in item[i].std :
           item' = [item EXCEPT
              ![i].pc = IF P!Usable(policy, s) /\ P!Content(policy, s) = item[i].content
                        THEN "validated" ELSE "blocked",
              ![i].seen = version]
    BY DEF P!Validate
  <1> DEFINE holds == P!Usable(policy, s) /\ P!Content(policy, s) = item[i].content
             pc == IF holds THEN "validated" ELSE "blocked"
             x == [item[i] EXCEPT !.pc = pc, !.seen = version]
  <1>2. item' = [item EXCEPT ![i] = x] /\ member' = [member EXCEPT ![i] = member[i]]
           /\ UNCHANGED <<policy, version>>
    BY <1>1 DEF P!Validate, Fresh
  <1>3. FreshItem(i) /\ FreshMember(i) /\ member[i].st # "pending" /\ version \in Nat
    BY DEF P!Validate, Fresh, FreshMember
  <1>4. pc = "validated" => holds
    BY DEF pc
  <1> HIDE DEF holds, pc
  <1>5. ItemRow(x) /\ x = [item[i] EXCEPT !.pc = pc, !.seen = version]
    BY <1>3 DEF FreshItem, ItemRow
  <1>6. x.pc = pc /\ x.seen = version /\ x.std = item[i].std /\ x.content = item[i].content
    BY <1>3 DEF FreshItem, ItemRow
  <1> HIDE DEF x
  <1>7. item'[i] = x /\ member'[i] = member[i]
    BY <1>2 DEF Fresh
  <1>8. FreshItem(i)' /\ FreshMember(i)'
    BY <1>2, <1>3, <1>4, <1>7, <1>5, <1>6 DEF FreshItem, FreshMember, Current, holds
  <1> QED BY <1>2, <1>8, OneItemMoves

\* An item that saves in the version it checked in saves what is current.
LEMMA SaveKeepsFresh ==
    ASSUME Fresh, NEW i \in Items, NEW to \in {"pending", "closed"}, P!Save(i, to)
    PROVE  Fresh'
  <1> DEFINE x == [item[i] EXCEPT !.pc = "done"]
             y == [st |-> to, content |-> item[i].content,
                   seen |-> item[i].seen, saved |-> version]
  <1>1. item' = [item EXCEPT ![i] = x] /\ member' = [member EXCEPT ![i] = y]
           /\ UNCHANGED <<policy, version>>
    BY DEF P!Save
  <1>2. FreshItem(i) /\ item[i].pc = "validated"
    BY DEF P!Save, Fresh
  <1>3. ItemRow(x) /\ x.seen = item[i].seen /\ x.pc = "done" /\ x.std = item[i].std
    BY <1>2 DEF FreshItem, ItemRow
  <1>4. MemberRow(y) /\ y.content = item[i].content /\ y.seen = item[i].seen /\ y.saved = version
    BY DEF MemberRow
  <1> HIDE DEF x, y
  <1>5. item'[i] = x /\ member'[i] = y
    BY <1>1 DEF Fresh
  <1>6. FreshItem(i)' /\ FreshMember(i)'
    BY <1>1, <1>2, <1>3, <1>4, <1>5 DEF FreshItem, FreshMember, Current
  <1> QED BY <1>1, <1>6, OneItemMoves

\* A membership that is no longer pending owes nothing.
LEMMA NotPendingKeepsFresh ==
    ASSUME Fresh, NEW i \in Items, NEW st, st # "pending",
           member' = [member EXCEPT ![i].st = st], UNCHANGED <<policy, version, item>>
    PROVE  Fresh'
  <1> DEFINE y == [member[i] EXCEPT !.st = st]
  <1>1. item' = [item EXCEPT ![i] = item[i]] /\ member' = [member EXCEPT ![i] = y]
    BY DEF Fresh
  <1>2. FreshItem(i) /\ FreshMember(i)
    BY DEF Fresh
  <1>3. MemberRow(y) /\ y.st = st
    BY <1>2 DEF FreshMember, MemberRow
  <1> HIDE DEF y
  <1>4. item'[i] = item[i] /\ member'[i] = y
    BY <1>1 DEF Fresh
  <1>5. FreshItem(i)' /\ FreshMember(i)'
    BY <1>2, <1>3, <1>4 DEF FreshItem, FreshMember, Current
  <1> QED BY <1>1, <1>5, OneItemMoves

\* Only items whose membership is not pending are taken up again.
LEMMA ReprocessKeepsFresh ==
    ASSUME Fresh, P!Reprocess
    PROVE  Fresh'
  <1>1. ASSUME NEW i \in Items PROVE FreshItem(i)' /\ FreshMember(i)'
    <2>1. FreshItem(i) /\ FreshMember(i) /\ member' = member /\ UNCHANGED <<policy, version>>
      BY DEF Fresh, P!Reprocess
    <2>2. CASE item'[i] = item[i]
      BY <2>1, <2>2 DEF FreshItem, FreshMember, Current
    <2>3. CASE /\ item'[i] = [item[i] EXCEPT !.pc = "queued"]
               /\ item[i].pc = "blocked" \/ member[i].st = "needs_reanalysis"
      <3>1. member[i].st # "pending"
        BY <2>1, <2>3 DEF FreshMember
      <3>2. ItemRow(item'[i]) /\ item'[i].pc = "queued" /\ item'[i].seen = item[i].seen
        BY <2>1, <2>3 DEF FreshItem, ItemRow
      <3> QED BY <2>1, <3>1, <3>2 DEF FreshItem, FreshMember
    <2> QED BY <2>2, <2>3 DEF P!Reprocess
  <1> QED BY <1>1 DEF Fresh, P!Reprocess

LEMMA NextKeepsFresh == Shown /\ Fresh /\ [Next]_vars => Fresh'
  <1> SUFFICES ASSUME Shown, Fresh, [Next]_vars PROVE Fresh'
    OBVIOUS
  <1>1. CASE UNCHANGED <<policy, version, item, member>>
    BY <1>1 DEF Fresh, FreshItem, FreshMember, Current
  <1>2. ASSUME NEW c \in Clients, NEW s \in Standards, NEW tags \in SUBSET Tags,
               NEW on \in BOOLEAN, P!Put(c, s, tags, on)
        PROVE  Fresh'
    BY <1>2, ImpactKeepsFresh DEF P!Put
  <1>3. ASSUME NEW s \in Standards, NEW group \in SUBSET Reqs, P!EditJobs(s, group)
        PROVE  Fresh'
    <2>1. CASE policy' # policy
      BY <1>3, <2>1, ImpactKeepsFresh DEF P!EditJobs, P!SyncedVersion
    <2>2. CASE policy' = policy
      <3>1. ASSUME NEW i \in Items PROVE FreshItem(i)'
        BY <1>3, <2>2 DEF P!EditJobs, Fresh, FreshItem, Current
      <3>2. ASSUME NEW i \in Items PROVE FreshMember(i)'
        <4>1. FreshMember(i) /\ UNCHANGED <<policy, version, item>>
          BY <1>3, <2>2 DEF P!EditJobs, Fresh
        <4>2. member'[i] = member[i] \/ member'[i] = [member[i] EXCEPT !.st = "needs_reanalysis"]
          BY <1>3 DEF P!EditJobs, P!Impacted
        <4> QED BY <4>1, <4>2 DEF FreshMember, MemberRow, Current
      <3> QED BY <1>3, <2>2, <3>1, <3>2 DEF P!EditJobs, Fresh, P!Impacted
    <2> QED BY <2>1, <2>2
  <1>4. ASSUME NEW i \in Items, P!Allocate(i) \/ P!Clean(i) PROVE Fresh'
    BY <1>4, NotPendingKeepsFresh DEF P!Allocate, P!Clean
  <1>5. CASE P!Next
    BY <1>1, <1>2, <1>3, <1>4, <1>5, FreezeKeepsFresh, ValidateKeepsFresh, SaveKeepsFresh,
       ReprocessKeepsFresh
       DEF P!Next, P!Show, P!Conflict
  <1> QED BY <1>1, <1>5 DEF Next, vars, policyVars

(* A pending assessment is one of the standard in force, unless the policy *)
(* changed inside the transaction that saved it.                           *)
THEOREM NoEditMissesAnAssessment == Spec => []StaleOnlyIfOverlapped
  <1>1. Fresh => StaleOnlyIfOverlapped
    BY DEF Fresh, FreshMember, Current, StaleOnlyIfOverlapped, P!StaleOnlyIfOverlapped, P!Valid
  <1> QED BY <1>1, ShownInit, FreshInit, NextKeepsShown, NextKeepsFresh, PTL DEF Spec

-----------------------------------------------------------------------------
(* The files of the resume import.                                         *)

ImportRow == [owner : SUBSET People, file : 0..MaxImports, old : SUBSET (0..MaxImports),
              status : {"pending", "assessing", "pooled", "blocked", "closed"}]
ImportItem == [st : I!ItemStates, person : SUBSET People, rev : Nat,
               resume : SUBSET Resumes, file : 0..MaxImports, sum : 0..MaxImports]
OpenImport == [pc : I!ImportStates, resume : SUBSET Resumes, person : SUBSET People,
               pdf : BOOLEAN, backup : 0..MaxImports]

ImportTypes ==
    /\ app \in [Resumes -> ImportRow]
    /\ rev \in [People -> Nat]
    /\ importItem \in [I!Import -> ImportItem]
    /\ imp \in OpenImport
    /\ count \in 0..MaxImports

\* The import has committed.
Visible(n) == n \in I!Import /\ importItem[n].st # "none"

\* A file of a committed import is on disk unless the commit was not heard.
Kept(n) == Visible(n) /\ (n \in lost \/ n \in DOMAIN disk)

\* The file is, or was, that of an application.
Named(n) == \E r \in Resumes : app[r].file = n \/ n \in app[r].old

SameFiles == \A r \in Resumes : app'[r].file = app[r].file /\ app'[r].old = app[r].old

\* A file on disk is what its import brought; an application has or had it, or
\* the import is the open one, or one a crash has cut.  Rows and items refer
\* to kept files only.  The open import is the last and has not committed;
\* its file is new.
Filed ==
    /\ ImportTypes
    /\ \A f \in DOMAIN disk :
          /\ f \in 1..count /\ disk[f] = f
          /\ f \in dead \/ (f = count /\ imp.pc = "installed" /\ imp.pdf) \/ Named(f)
    /\ \A n \in I!Import : n > count => importItem[n].st = "none"
    /\ \A r \in Resumes : app[r].file # I!NoFile => Kept(app[r].file)
    /\ \A n \in I!Import : importItem[n].file # I!NoFile => Kept(importItem[n].file)
    /\ imp.backup = 0
    /\ imp.pc # "idle" => count \in I!Import /\ ~Visible(count)
    /\ imp.pc = "rows" => count \notin DOMAIN disk
    /\ imp.pc = "installed" /\ imp.pdf => count \in DOMAIN disk

LEMMA FiledInit == Init => Filed
  <1> SUFFICES ASSUME Init PROVE Filed
    OBVIOUS
  <1>1. ImportTypes
    <2>1. I!NoRow \in ImportRow /\ I!NoItem \in ImportItem /\ I!NoImport \in OpenImport
             /\ 0 \in 0..MaxImports
      BY ImportsAssumption DEF I!NoRow, I!NoItem, I!NoImport, I!NoFile, ImportRow, ImportItem,
         OpenImport, I!ItemStates, I!ImportStates
    <2> QED BY <2>1 DEF Init, I!Init, ImportTypes
  <1>2. DOMAIN disk = {}
    BY DEF Init, I!Init
  <1> QED BY <1>1, <1>2 DEF Filed, Init, I!Init, I!NoRow, I!NoItem, I!NoImport, I!NoFile

\* The items of committed imports go on: they take no file but those of the
\* rows, and none of them appears or vanishes.
LEMMA ItemsGoOn ==
    ASSUME Filed, ImportTypes', UNCHANGED <<disk, imp, count, dead, lost>>,
           SameFiles,
           \A n \in I!Import :
              /\ importItem'[n].st = "none" <=> importItem[n].st = "none"
              /\ \/ importItem'[n].file = importItem[n].file
                 \/ \E r \in Resumes : importItem'[n].file = app[r].file
    PROVE  Filed'
  <1>1. \A n : (Visible(n)' <=> Visible(n)) /\ (Named(n)' <=> Named(n))
    BY DEF Visible, Named, SameFiles
  <1>2. \A n : Kept(n)' <=> Kept(n)
    BY <1>1 DEF Kept
  <1>3. (\A r \in Resumes : app[r].file # I!NoFile => Kept(app[r].file))'
    BY <1>2 DEF Filed, SameFiles
  <1>4. (\A n \in I!Import : importItem[n].file # I!NoFile => Kept(importItem[n].file))'
    BY <1>2 DEF Filed
  <1>5. \A n \in I!Import : n > count => importItem'[n].st = "none"
    BY DEF Filed
  <1> QED BY <1>1, <1>3, <1>4, <1>5 DEF Filed

\* An item changes, its file too only if it takes that of a row.
LEMMA ItemMoves ==
    ASSUME Filed, NEW n \in I!Import, NEW x \in ImportItem,
           importItem' = [importItem EXCEPT ![n] = x], importItem[n].st # "none", x.st # "none",
           x.file = importItem[n].file \/ \E r \in Resumes : x.file = app[r].file,
           app' \in [Resumes -> ImportRow], SameFiles,
           rev' \in [People -> Nat], UNCHANGED <<disk, imp, count, dead, lost>>
    PROVE  Filed'
  <1>1. ImportTypes'
    BY DEF Filed, ImportTypes
  <1>2. importItem'[n] = x /\ \A k \in I!Import \ {n} : importItem'[k] = importItem[k]
    BY DEF Filed, ImportTypes
  <1> QED BY <1>1, <1>2, ItemsGoOn

\* One application changes its status.
LEMMA StatusMoves ==
    ASSUME Filed, NEW r \in Resumes,
           NEW st \in {"pending", "assessing", "pooled", "blocked", "closed"},
           app' = [app EXCEPT ![r].status = st]
    PROVE  app' \in [Resumes -> ImportRow] /\ SameFiles
  <1>1. app[r] \in ImportRow /\ app \in [Resumes -> ImportRow]
    BY DEF Filed, ImportTypes
  <1>2. [app[r] EXCEPT !.status = st] \in ImportRow
           /\ [app[r] EXCEPT !.status = st].file = app[r].file
           /\ [app[r] EXCEPT !.status = st].old = app[r].old
    BY <1>1 DEF ImportRow
  <1> QED BY <1>1, <1>2 DEF SameFiles

LEMMA RevisionMoves ==
    ASSUME Filed, NEW p \in People, rev' = [rev EXCEPT ![p] = @ + 1]
    PROVE  rev' \in [People -> Nat]
  <1>1. rev \in [People -> Nat]
    BY DEF Filed, ImportTypes
  <1> QED BY <1>1

LEMMA WorkKeepsFiled ==
    ASSUME Filed, NEW n \in I!Import,
           \/ I!Prepare(n) \/ I!Skip(n) \/ I!Start(n) \/ I!Read(n) \/ I!Retry(n)
           \/ I!Unreadable(n)
           \/ \E to \in {"pooled", "closed"} : I!Finish(n, to)
    PROVE  Filed'
  <1>1. /\ importItem[n] \in ImportItem /\ app \in [Resumes -> ImportRow]
        /\ rev \in [People -> Nat]
    BY DEF Filed, ImportTypes
  \* The item goes to another state, without more.
  <1>2. ASSUME NEW st \in I!ItemStates \ {"none"}, importItem[n].st # "none",
               importItem' = [importItem EXCEPT ![n].st = st],
               app' \in [Resumes -> ImportRow], SameFiles,
               rev' \in [People -> Nat], UNCHANGED <<disk, imp, count, dead, lost>>
        PROVE  Filed'
    <2> DEFINE x == [importItem[n] EXCEPT !.st = st]
    <2>1. x \in ImportItem /\ x.st = st /\ x.file = importItem[n].file
      BY <1>1 DEF ImportItem
    <2>2. importItem' = [importItem EXCEPT ![n] = x]
      BY <1>2
    <2> HIDE DEF x
    <2> QED BY <1>2, <2>1, <2>2, ItemMoves
  <1>3. CASE I!Prepare(n)
    <2>1. PICK r \in Resumes :
                 /\ importItem' = [importItem EXCEPT ![n].st = "prepared", ![n].resume = {r},
                                                     ![n].file = app[r].file]
                 /\ importItem[n].st = "submitted"
                 /\ UNCHANGED <<app, disk, rev, imp, count, dead, lost>>
      BY <1>3 DEF I!Prepare
    <2> DEFINE x == [importItem[n] EXCEPT !.st = "prepared", !.resume = {r}, !.file = app[r].file]
    <2>2. importItem' = [importItem EXCEPT ![n] = x]
      BY <2>1
    <2>3. x \in ImportItem /\ x.st = "prepared" /\ x.file = app[r].file
      BY <1>1 DEF ImportItem, ImportRow, I!ItemStates
    <2> HIDE DEF x
    <2> QED BY <1>1, <2>1, <2>2, <2>3, ItemMoves DEF SameFiles
  <1>4. CASE I!Skip(n)
    BY <1>1, <1>2, <1>4 DEF SameFiles, I!Skip, I!ItemStates
  <1>5. CASE I!Start(n)
    <2>1. PICK r \in importItem[n].resume : app' = [app EXCEPT ![r].status = "assessing"]
      BY <1>5 DEF I!Start
    <2>2. r \in Resumes
      BY <1>1 DEF ImportItem
    <2>3. app' \in [Resumes -> ImportRow] /\ SameFiles
      BY <2>1, <2>2, StatusMoves
    <2> QED BY <1>1, <1>2, <1>5, <2>3 DEF I!Start, I!ItemStates
  <1>6. CASE I!Read(n)
    <2> DEFINE x == [importItem[n] EXCEPT !.st = "read", !.sum = disk[I!Stored(n)]]
    <2>1. importItem' = [importItem EXCEPT ![n] = x] /\ importItem[n].st = "processing"
             /\ UNCHANGED <<app, disk, rev, imp, count, dead, lost>>
      BY <1>6 DEF I!Read
    <2>2. disk[I!Stored(n)] \in 0..MaxImports
      <3>1. I!Stored(n) \in DOMAIN disk
        BY <1>6 DEF I!Read, I!Readable
      <3>2. I!Stored(n) \in 1..count /\ disk[I!Stored(n)] = I!Stored(n)
        BY <3>1 DEF Filed
      <3>3. count \in 0..MaxImports
        BY DEF Filed, ImportTypes
      <3> QED BY <3>2, <3>3, ImportsAssumption
    <2>3. x \in ImportItem /\ x.st = "read" /\ x.file = importItem[n].file
      BY <1>1, <2>2 DEF ImportItem, I!ItemStates
    <2> HIDE DEF x
    <2> QED BY <1>1, <2>1, <2>3, ItemMoves DEF SameFiles
  <1>7. CASE I!Retry(n)
    BY <1>1, <1>2, <1>7 DEF SameFiles, I!Retry, I!ItemStates
  <1>8. CASE I!Unreadable(n)
    <2>1. PICK r \in importItem[n].resume, p \in importItem[n].person :
                 /\ app' = [app EXCEPT ![r].status = "blocked"]
                 /\ rev' = [rev EXCEPT ![p] = @ + 1]
      BY <1>8 DEF I!Unreadable
    <2>2. r \in Resumes /\ p \in People
      BY <1>1 DEF ImportItem
    <2>3. app' \in [Resumes -> ImportRow] /\ SameFiles
      BY <2>1, <2>2, StatusMoves
    <2> QED BY <1>2, <1>8, <2>1, <2>2, <2>3, RevisionMoves DEF I!Unreadable, I!ItemStates
  <1>9. ASSUME NEW to \in {"pooled", "closed"}, I!Finish(n, to) PROVE Filed'
    <2>1. PICK r \in importItem[n].resume, p \in importItem[n].person :
                 /\ app' = [app EXCEPT ![r].status = to]
                 /\ rev' = [rev EXCEPT ![p] = @ + 1]
      BY <1>9 DEF I!Finish
    <2>2. r \in Resumes /\ p \in People
      BY <1>1 DEF ImportItem
    <2>3. app' \in [Resumes -> ImportRow] /\ SameFiles
      BY <2>1, <2>2, StatusMoves
    <2> QED BY <1>2, <1>9, <2>1, <2>2, <2>3, RevisionMoves DEF I!Finish, I!ItemStates
  <1> QED BY <1>3, <1>4, <1>5, <1>6, <1>7, <1>8, <1>9

LEMMA NoFileYet == I!NoFile = 0 /\ 0 \in 0..MaxImports
  BY ImportsAssumption DEF I!NoFile

LEMMA BeginKeepsFiled ==
    ASSUME Filed, NEW r \in Resumes, NEW p \in People, NEW pdf \in BOOLEAN, I!Begin(r, p, pdf)
    PROVE  Filed'
  <1> DEFINE x == [I!NoImport EXCEPT !.pc = "rows", !.resume = {r}, !.person = {p}, !.pdf = pdf]
  <1>1. /\ imp.pc = "idle" /\ count < MaxImports /\ count' = count + 1 /\ imp' = x
        /\ UNCHANGED <<app, disk, rev, importItem, dead, lost>>
    BY DEF I!Begin
  <1>2. x \in OpenImport /\ x.pc = "rows" /\ x.backup = 0
    <2>1. {r} \subseteq Resumes /\ {p} \subseteq People
      OBVIOUS
    <2> QED BY <2>1, NoFileYet DEF I!NoImport, OpenImport, I!ImportStates
  <1> HIDE DEF x
  <1>3. count \in 0..MaxImports /\ count' \in 1..MaxImports /\ count' \in 0..MaxImports
    BY <1>1, ImportsAssumption DEF Filed, ImportTypes
  <1>4. ImportTypes'
    BY <1>1, <1>2, <1>3 DEF Filed, ImportTypes
  <1>5. \A n : (Visible(n)' <=> Visible(n)) /\ (Kept(n)' <=> Kept(n)) /\ (Named(n)' <=> Named(n))
    BY <1>1 DEF Visible, Kept, Named
  <1>6. count' \in I!Import /\ ~Visible(count')
    BY <1>1, <1>3 DEF Filed, Visible, I!Import
  <1>7. count' \notin DOMAIN disk
    BY <1>1, <1>3 DEF Filed
  <1>8. \A f \in DOMAIN disk : f \in 1..count' /\ disk[f] = f /\ (f \in dead \/ Named(f))
    BY <1>1, <1>3 DEF Filed
  <1>9. \A n \in I!Import : n > count' => importItem[n].st = "none"
    BY <1>1, <1>3 DEF Filed, I!Import
  <1>10. /\ \A r1 \in Resumes : app[r1].file # I!NoFile => Kept(app[r1].file)
         /\ \A n \in I!Import : importItem[n].file # I!NoFile => Kept(importItem[n].file)
    BY DEF Filed
  <1>11. (\A f \in DOMAIN disk :
            /\ f \in 1..count /\ disk[f] = f
            /\ f \in dead \/ (f = count /\ imp.pc = "installed" /\ imp.pdf) \/ Named(f))'
    BY <1>1, <1>5, <1>8
  <1>12. /\ (\A r1 \in Resumes : app[r1].file # I!NoFile => Kept(app[r1].file))'
         /\ (\A n \in I!Import : importItem[n].file # I!NoFile => Kept(importItem[n].file))'
    BY <1>1, <1>5, <1>10
  <1>13. (imp.pc # "idle" => count \in I!Import /\ ~Visible(count))'
    BY <1>1, <1>5, <1>6
  <1> QED BY <1>1, <1>2, <1>4, <1>7, <1>9, <1>11, <1>12, <1>13 DEF Filed

LEMMA InstallKeepsFiled ==
    ASSUME Filed, I!Install
    PROVE  Filed'
  <1>1. /\ imp.pc = "rows" /\ count \in I!Import /\ ~Visible(count) /\ count \notin DOMAIN disk
        /\ I!Name = count /\ count \in 1..count
    BY DEF Filed, I!Install, I!Name, I!ResumeFilename, I!Import
  <1>2. /\ disk' = IF imp.pdf THEN I!With(disk, count, count) ELSE disk
        /\ imp' = [imp EXCEPT !.pc = "installed", !.backup = 0]
        /\ UNCHANGED <<app, rev, importItem, count, dead, lost>>
    BY <1>1 DEF I!Install
  <1>3. imp' \in OpenImport /\ imp'.pc = "installed" /\ imp'.pdf = imp.pdf /\ imp'.backup = 0
    BY <1>2, ImportsAssumption DEF Filed, ImportTypes, OpenImport, I!ImportStates
  <1>4. ImportTypes'
    BY <1>2, <1>3 DEF Filed, ImportTypes
  <1>5. /\ \A f \in DOMAIN disk : f \in DOMAIN disk' /\ disk'[f] = disk[f]
        /\ \A f \in DOMAIN disk' : f \in DOMAIN disk \/ (imp.pdf /\ f = count /\ disk'[f] = f)
        /\ imp.pdf => count \in DOMAIN disk'
    BY <1>1, <1>2 DEF I!With
  <1>6. \A n : (Visible(n)' <=> Visible(n)) /\ (Kept(n) => Kept(n)') /\ (Named(n)' <=> Named(n))
    BY <1>2, <1>5 DEF Visible, Kept, Named
  <1>7. \A f \in DOMAIN disk : f \in 1..count /\ disk[f] = f /\ (f \in dead \/ Named(f))
    BY <1>1 DEF Filed
  <1>8. (\A f \in DOMAIN disk :
            /\ f \in 1..count /\ disk[f] = f
            /\ f \in dead \/ (f = count /\ imp.pc = "installed" /\ imp.pdf) \/ Named(f))'
    BY <1>1, <1>2, <1>3, <1>5, <1>6, <1>7
  <1>9. /\ (\A r \in Resumes : app[r].file # I!NoFile => Kept(app[r].file))'
        /\ (\A n \in I!Import : importItem[n].file # I!NoFile => Kept(importItem[n].file))'
    BY <1>2, <1>6 DEF Filed
  <1>10. (imp.pc # "idle" => count \in I!Import /\ ~Visible(count))'
    BY <1>1, <1>2, <1>6
  <1>11. (\A n \in I!Import : n > count => importItem[n].st = "none")'
    BY <1>2 DEF Filed
  <1>12. (imp.pc = "rows" => count \notin DOMAIN disk)'
    BY <1>3
  <1>13. (imp.pc = "installed" /\ imp.pdf => count \in DOMAIN disk)'
    BY <1>2, <1>3, <1>5
  <1> QED BY <1>3, <1>4, <1>8, <1>9, <1>10, <1>11, <1>12, <1>13 DEF Filed

\* The import is over.
LEMMA NoOpenImport ==
    /\ I!NoImport \in OpenImport /\ I!NoImport.pc = "idle" /\ I!NoImport.backup = 0
  BY ImportsAssumption DEF I!NoImport, OpenImport, I!ImportStates

\* What an import that has not committed takes back is its own file.
LEMMA OwnFileOnly ==
    ASSUME Filed, imp.pc # "idle", disk' = I!Restored(disk)
    PROVE  /\ \A f \in DOMAIN disk' : f \in DOMAIN disk /\ disk'[f] = disk[f]
           /\ \A f \in DOMAIN disk : f # count => f \in DOMAIN disk'
           /\ imp.pc = "installed" /\ imp.pdf => count \notin DOMAIN disk'
  <1>1. CASE imp.pc = "installed" /\ imp.pdf
    <2>1. disk' = [x \in DOMAIN disk \ {count} |-> disk[x]]
      BY <1>1 DEF Filed, I!Restored, I!Name, I!ResumeFilename, I!Without
    <2> QED BY <2>1
  <1>2. CASE ~(imp.pc = "installed" /\ imp.pdf)
    <2>1. disk' = disk
      BY <1>2 DEF I!Restored
    <2> QED BY <1>2, <2>1
  <1> QED BY <1>1, <1>2

\* The import ends without a commit; if it goes on disk, a crash is to blame.
LEMMA EndsUncommitted ==
    ASSUME Filed, imp.pc # "idle", imp' = I!NoImport,
           UNCHANGED <<app, rev, importItem, count, lost>>,
           \/ disk' = I!Restored(disk) /\ UNCHANGED dead
           \/ UNCHANGED disk /\ dead' = dead \cup {count}
    PROVE  Filed'
  <1>1. count \in I!Import /\ ~Visible(count)
    BY DEF Filed
  <1>2. ImportTypes'
    BY NoOpenImport DEF Filed, ImportTypes
  <1>3. /\ \A f \in DOMAIN disk' : f \in DOMAIN disk /\ disk'[f] = disk[f]
        /\ \A f \in DOMAIN disk : f # count => f \in DOMAIN disk'
        /\ \A f \in DOMAIN disk' : imp.pc = "installed" /\ imp.pdf => f # count \/ f \in dead'
    <2>1. CASE UNCHANGED disk /\ dead' = dead \cup {count}
      BY <2>1
    <2>2. CASE disk' = I!Restored(disk)
      BY <2>2, OwnFileOnly
    <2> QED BY <2>1, <2>2
  <1>4. \A n : (Visible(n)' <=> Visible(n)) /\ (Kept(n) => Kept(n)') /\ (Named(n)' <=> Named(n))
    BY <1>1, <1>3 DEF Visible, Kept, Named
  <1>5. (\A f \in DOMAIN disk :
            /\ f \in 1..count /\ disk[f] = f
            /\ f \in dead \/ (f = count /\ imp.pc = "installed" /\ imp.pdf) \/ Named(f))'
    <2> SUFFICES ASSUME NEW f \in DOMAIN disk'
                 PROVE  f \in 1..count /\ disk'[f] = f /\ (f \in dead' \/ Named(f))
      BY <1>4
    <2>1. /\ f \in DOMAIN disk /\ disk'[f] = disk[f]
          /\ imp.pc = "installed" /\ imp.pdf => f # count \/ f \in dead'
      BY <1>3
    <2>2. dead \subseteq dead'
      OBVIOUS
    <2> QED BY <2>1, <2>2 DEF Filed
  <1>6. /\ (\A r \in Resumes : app[r].file # I!NoFile => Kept(app[r].file))'
        /\ (\A n \in I!Import : importItem[n].file # I!NoFile => Kept(importItem[n].file))'
    BY <1>4 DEF Filed
  <1>7. (\A n \in I!Import : n > count => importItem[n].st = "none")'
    BY DEF Filed
  <1> QED BY <1>2, <1>5, <1>6, <1>7, NoOpenImport DEF Filed

\* The import commits: its row refers to a file that is on disk, or gone
\* because the commit was not heard.
LEMMA EndsCommitted ==
    ASSUME Filed, imp.pc = "installed", I!Committed, imp' = I!NoImport,
           UNCHANGED <<count, dead>>,
           \/ UNCHANGED <<disk, lost>>
           \/ disk' = I!Restored(disk) /\ lost' = lost \cup {count}
    PROVE  Filed'
  <1>1. PICK r \in imp.resume, p \in imp.person :
           /\ app' = [app EXCEPT ![r].owner = {p},
                                 ![r].old = IF imp.pdf THEN @ \cup {app[r].file} ELSE @,
                                 ![r].file = IF imp.pdf THEN count ELSE @]
           /\ rev' = [rev EXCEPT ![p] = @ + 1]
           /\ importItem' = [importItem EXCEPT ![count] =
                   [I!NoItem EXCEPT !.st = "submitted", !.person = {p}, !.rev = rev[p] + 1]]
    BY DEF I!Committed
  <1>2. r \in Resumes /\ p \in People /\ count \in I!Import /\ ~Visible(count)
    BY DEF Filed, ImportTypes, OpenImport
  <1> DEFINE x == [I!NoItem EXCEPT !.st = "submitted", !.person = {p}, !.rev = rev[p] + 1]
             y == [app[r] EXCEPT !.owner = {p},
                                 !.old = IF imp.pdf THEN @ \cup {app[r].file} ELSE @,
                                 !.file = IF imp.pdf THEN count ELSE @]
  <1>3. x \in ImportItem /\ x.st = "submitted" /\ x.file = I!NoFile
    <2>1. rev[p] + 1 \in Nat
      BY <1>2 DEF Filed, ImportTypes
    <2>2. {p} \subseteq People /\ I!NoItem = [st |-> "none", person |-> {}, rev |-> 0,
                                              resume |-> {}, file |-> 0, sum |-> 0]
      BY <1>2 DEF I!NoItem, I!NoFile
    <2> QED BY <2>1, <2>2, NoFileYet DEF ImportItem, I!ItemStates
  <1>4. /\ y \in ImportRow
        /\ imp.pdf => y.file = count /\ y.old = app[r].old \cup {app[r].file}
        /\ ~imp.pdf => y.file = app[r].file /\ y.old = app[r].old
    <2>1. count \in 0..MaxImports /\ {p} \subseteq People /\ app[r] \in ImportRow
      BY <1>2 DEF Filed, ImportTypes
    <2>2. CASE imp.pdf
      BY <2>1, <2>2 DEF ImportRow
    <2>3. CASE ~imp.pdf
      <3>1. y = [app[r] EXCEPT !.owner = {p}, !.old = app[r].old, !.file = app[r].file]
        BY <2>3
      <3> HIDE DEF y
      <3> QED BY <2>1, <2>3, <3>1 DEF ImportRow
    <2> QED BY <2>2, <2>3
  <1>5. app' = [app EXCEPT ![r] = y] /\ importItem' = [importItem EXCEPT ![count] = x]
    BY <1>1
  <1> HIDE DEF x, y
  <1>6. /\ \A k \in Resumes \ {r} : app'[k] = app[k]
        /\ \A n \in I!Import \ {count} : importItem'[n] = importItem[n]
        /\ app'[r] = y /\ importItem'[count] = x
    BY <1>2, <1>5 DEF Filed, ImportTypes
  <1>7. ImportTypes'
    <2>1. app' \in [Resumes -> ImportRow] /\ importItem' \in [I!Import -> ImportItem]
      BY <1>2, <1>3, <1>4, <1>5 DEF Filed, ImportTypes
    <2>2. rev' \in [People -> Nat]
      BY <1>1, <1>2, RevisionMoves
    <2> QED BY <2>1, <2>2, NoOpenImport DEF Filed, ImportTypes
  <1>8. /\ \A f \in DOMAIN disk' : f \in DOMAIN disk /\ disk'[f] = disk[f]
        /\ \A f \in DOMAIN disk : f # count => f \in DOMAIN disk'
        /\ imp.pdf => count \in DOMAIN disk' \/ count \in lost'
    <2>1. CASE UNCHANGED <<disk, lost>>
      BY <2>1 DEF Filed
    <2>2. CASE disk' = I!Restored(disk) /\ lost' = lost \cup {count}
      BY <2>2, OwnFileOnly
    <2> QED BY <2>1, <2>2
  <1>9. Visible(count)' /\ \A n : Visible(n) => Visible(n)'
    BY <1>2, <1>3, <1>6 DEF Visible
  <1>16. (imp.pdf => Named(count)') /\ \A n : Named(n) => Named(n)'
    BY <1>2, <1>4, <1>6 DEF Named
  <1>10. \A n : Kept(n) => Kept(n)'
    <2>1. lost \subseteq lost'
      OBVIOUS
    <2>2. \A n : Kept(n) => n # count
      BY <1>2 DEF Kept
    <2> QED BY <1>8, <1>9, <2>1, <2>2 DEF Kept
  <1>11. imp.pdf => Kept(count)'
    BY <1>8, <1>9 DEF Kept
  <1>12. (\A f \in DOMAIN disk :
            /\ f \in 1..count /\ disk[f] = f
            /\ f \in dead \/ (f = count /\ imp.pc = "installed" /\ imp.pdf) \/ Named(f))'
    BY <1>8, <1>16 DEF Filed
  <1>13. (\A k \in Resumes : app[k].file # I!NoFile => Kept(app[k].file))'
    BY <1>4, <1>6, <1>10, <1>11 DEF Filed
  <1>14. (\A n \in I!Import : importItem[n].file # I!NoFile => Kept(importItem[n].file))'
    BY <1>3, <1>6, <1>10 DEF Filed
  <1>15. (\A n \in I!Import : n > count => importItem[n].st = "none")'
    <2>1. count \in Nat /\ ~(count > count)
      BY DEF Filed, ImportTypes
    <2> QED BY <1>6, <2>1 DEF Filed
  <1> QED BY <1>7, <1>12, <1>13, <1>14, <1>15, NoOpenImport DEF Filed

LEMMA NextKeepsFiled == Filed /\ [Next]_vars => Filed'
  <1> SUFFICES ASSUME Filed, [Next]_vars PROVE Filed'
    OBVIOUS
  <1>1. CASE UNCHANGED importVars
    BY <1>1 DEF importVars, Filed, ImportTypes, Visible, Kept, Named
  <1>2. CASE I!Commit \/ I!CommitUnheard
    BY <1>2, EndsCommitted DEF I!Commit, I!CommitUnheard
  <1>3. CASE I!Fail \/ I!Crash
    BY <1>3, EndsUncommitted DEF I!Fail, I!Crash
  <1>4. CASE I!Next
    BY <1>2, <1>3, <1>4, BeginKeepsFiled, InstallKeepsFiled, WorkKeepsFiled DEF I!Next
  <1> QED BY <1>1, <1>4 DEF Next, vars

(* Every file a row or a frozen item refers to is on disk and is the one   *)
(* its import brought, unless the commit of that import was not heard; a   *)
(* file nobody refers to is that of the open import, was left by a crash,  *)
(* or was replaced by a later import of its application.                   *)
THEOREM FilesAreTheRows == Spec => []FilesMatchRows
  <1>1. Filed => FilesMatchRows
    <2> SUFFICES ASSUME Filed PROVE FilesMatchRows
      OBVIOUS
    <2>1. ASSUME NEW n \in I!InUse
          PROVE  n \in lost \/ (n \in DOMAIN disk /\ disk[n] = n)
      <3>1. Kept(n)
        BY DEF I!InUse, Filed
      <3> QED BY <3>1 DEF Kept, Filed
    <2>2. ASSUME NEW f \in DOMAIN disk
          PROVE  /\ disk[f] = f
                 /\ f \in I!InUse \cup I!Replaced \cup dead \/ (f = count /\ imp.pc = "installed")
      <3>1. disk[f] = f /\ f # I!NoFile
        BY DEF Filed, ImportTypes, I!NoFile
      <3>2. Named(f) => f \in I!InUse \cup I!Replaced
        BY <3>1 DEF Named, I!InUse, I!Replaced
      <3> QED BY <3>1, <3>2 DEF Filed
    <2> QED BY <2>1, <2>2 DEF FilesMatchRows, I!FilesMatchRows, I!ResumeFilename
  <1> QED BY <1>1, FiledInit, NextKeepsFiled, PTL DEF Spec

-----------------------------------------------------------------------------
(* The schedules.  A plan and the last run it has fired.                   *)

\* A row of the plans, of the runs and of the memory of a scheduler, as far
\* as the argument goes.
PlanRow(p) == /\ p \in [status : {p.status}, repeat : {p.repeat}, at : {p.at},
                         next : {p.next}, scope : {p.scope}, last : {p.last}]
              /\ p.last \in Nat
RunRow(r) == r \in [plan : {r.plan}, due : {r.due}, items : {r.items},
                    total : {r.total}, active : BOOLEAN]
Session(x) == x \in [pc : {"idle", "claimed", "resolved"}, plan : SUBSET Schedules,
                     t : {x.t}, verdict : {x.verdict}, ids : {x.ids}]

ScheduleTypes ==
    /\ plan = [s \in Schedules |-> plan[s]]
    /\ \A s \in Schedules : PlanRow(plan[s]) /\ plan[s].last <= Len(runs)
    /\ Len(runs) \in Nat /\ runs = [r \in 1..Len(runs) |-> runs[r]]
    /\ \A r \in 1..Len(runs) : RunRow(runs[r])
    /\ sess = [w \in Schedulers |-> sess[w]]
    /\ \A w \in Schedulers : Session(sess[w])

\* A plan is locked by one scheduler, who holds no other; its last run is
\* the only one that may be in progress, and it is not once a scheduler has
\* decided to start another.
LastIsOnly ==
    /\ ScheduleTypes
    /\ \A w, v \in Schedulers : \A s \in sess[w].plan, t \in sess[v].plan :
          /\ s = t => w = v
          /\ w = v => s = t
    /\ \A w \in Schedulers : sess[w].pc = "resolved" /\ sess[w].verdict = "go"
          => \A s \in sess[w].plan : ~T!StillRunning(s)
    /\ \A s \in Schedules : plan[s].status = "none" => plan[s].last = 0
    /\ \A r \in 1..Len(runs) : runs[r].plan # 0 /\ runs[r].active =>
          runs[r].plan \in Schedules /\ plan[runs[r].plan].last = r

\* What Append does to a sequence of any rows.
LEMMA AppendRow ==
    ASSUME NEW q, Len(q) \in Nat, q = [r \in 1..Len(q) |-> q[r]], NEW e
    PROVE  /\ Len(Append(q, e)) = Len(q) + 1
           /\ Append(q, e) = [r \in 1..Len(q) + 1 |-> IF r <= Len(q) THEN q[r] ELSE e]
  <1> DEFINE S == {q[r] : r \in 1..Len(q)} \cup {e}
  <1>1. q \in Seq(S) /\ e \in S
    OBVIOUS
  <1>2. /\ Append(q, e) \in Seq(S) /\ Len(Append(q, e)) = Len(q) + 1
        /\ \A r \in 1..Len(q) : Append(q, e)[r] = q[r]
        /\ Append(q, e)[Len(q) + 1] = e
    BY <1>1, AppendProperties
  <1> HIDE DEF S
  <1>3. Append(q, e) \in [1..Len(q) + 1 -> S]
    BY <1>2, LenProperties
  <1>4. Append(q, e) = [r \in 1..Len(q) + 1 |-> Append(q, e)[r]]
    BY <1>3
  <1> QED BY <1>2, <1>4

LEMMA IdleSession == Session(T!Idle) /\ T!Idle.plan = {} /\ T!Idle.pc = "idle"
  BY DEF Session, T!Idle

LEMMA LastIsOnlyInit == Init => LastIsOnly
  <1> SUFFICES ASSUME Init PROVE LastIsOnly
    OBVIOUS
  <1>1. runs = <<>> /\ Len(runs) = 0
    BY DEF Init, T!Init
  <1>2. plan = [s \in Schedules |-> T!NoPlan] /\ sess = [w \in Schedulers |-> T!Idle]
    BY DEF Init, T!Init
  <1>3. PlanRow(T!NoPlan) /\ T!NoPlan.last = 0
    BY DEF PlanRow, T!NoPlan
  <1>4. ScheduleTypes
    BY <1>1, <1>2, <1>3, IdleSession DEF ScheduleTypes
  <1> QED BY <1>1, <1>2, <1>3, <1>4, IdleSession DEF LastIsOnly

-----------------------------------------------------------------------------
(* Every step.                                                             *)

\* The other variables are free to change.
LEMMA NothingMoves ==
    ASSUME LastIsOnly, UNCHANGED <<plan, runs, sess>>
    PROVE  LastIsOnly'
  <1>1. ScheduleTypes'
    BY DEF LastIsOnly, ScheduleTypes
  <1>2. \A s : T!StillRunning(s)' <=> T!StillRunning(s)
    BY DEF T!StillRunning
  <1> QED BY <1>1, <1>2 DEF LastIsOnly

\* Only the memory of one scheduler changes: it ends, or goes on with the
\* plan it has, or takes a plan nobody has.
LEMMA SessionMoves ==
    ASSUME LastIsOnly, NEW w \in Schedulers, NEW x, Session(x),
           sess' = [sess EXCEPT ![w] = x], UNCHANGED <<plan, runs>>,
           \A s, t \in x.plan : s = t,
           \A s \in x.plan : \A v \in Schedulers \ {w} : s \notin sess[v].plan,
           x.pc = "resolved" /\ x.verdict = "go" => \A s \in x.plan : ~T!StillRunning(s)
    PROVE  LastIsOnly'
  <1>1. sess'[w] = x /\ \A v \in Schedulers \ {w} : sess'[v] = sess[v]
    BY DEF LastIsOnly, ScheduleTypes
  <1>2. ScheduleTypes'
    BY <1>1 DEF LastIsOnly, ScheduleTypes
  <1> QED BY <1>1, <1>2 DEF LastIsOnly, T!StillRunning

\* The rows of a plan change, but not its last run.
LEMMA PlanChanges ==
    ASSUME LastIsOnly, NEW s \in Schedules, NEW p, PlanRow(p), p.last = plan[s].last,
           p.status = "none" => p.last = 0,
           plan' = [plan EXCEPT ![s] = p], UNCHANGED <<runs, sess>>
    PROVE  LastIsOnly'
  <1>1. plan'[s] = p /\ \A t \in Schedules \ {s} : plan'[t] = plan[t]
    BY DEF LastIsOnly, ScheduleTypes
  <1>2. ScheduleTypes'
    BY <1>1 DEF LastIsOnly, ScheduleTypes, PlanRow
  <1>3. \A t \in Schedules : plan'[t].last = plan[t].last
    BY <1>1
  <1>4. \A w \in Schedulers : sess[w].plan \subseteq Schedules
    BY DEF LastIsOnly, ScheduleTypes, Session
  <1> QED BY <1>1, <1>2, <1>3, <1>4 DEF LastIsOnly, T!StillRunning

\* Runs end or lose items, and a run of no plan may be added.
LEMMA RunsChange ==
    ASSUME LastIsOnly, UNCHANGED <<plan, sess>>,
           Len(runs') \in Nat, Len(runs) <= Len(runs'),
           runs' = [r \in 1..Len(runs') |-> runs'[r]],
           \A r \in 1..Len(runs') : RunRow(runs'[r]),
           \A r \in 1..Len(runs) : runs'[r].plan = runs[r].plan
                                     /\ (runs'[r].active => runs[r].active),
           \A r \in 1..Len(runs') : r > Len(runs) => runs'[r].plan = 0
    PROVE  LastIsOnly'
  <1>1. ScheduleTypes'
    BY DEF LastIsOnly, ScheduleTypes, PlanRow
  <1>2. ASSUME NEW s \in Schedules PROVE T!StillRunning(s)' => T!StillRunning(s)
    BY DEF LastIsOnly, ScheduleTypes, PlanRow, T!StillRunning
  <1>3. \A w \in Schedulers : sess[w].plan \subseteq Schedules
    BY DEF LastIsOnly, ScheduleTypes, Session
  <1>4. ASSUME NEW r \in 1..Len(runs'), runs'[r].plan # 0, runs'[r].active
        PROVE  runs'[r].plan \in Schedules /\ plan[runs'[r].plan].last = r
    <2>1. r \in 1..Len(runs)
      BY <1>4 DEF LastIsOnly, ScheduleTypes
    <2> QED BY <1>4, <2>1 DEF LastIsOnly
  <1> QED BY <1>1, <1>2, <1>3, <1>4 DEF LastIsOnly

\* The run of a plan that has none in progress.
LEMMA FireRunKeepsLastIsOnly ==
    ASSUME LastIsOnly, NEW w \in Schedulers, T!FireRun(w)
    PROVE  LastIsOnly'
  <1>1. PICK s \in sess[w].plan :
           /\ sess[w].pc = "resolved" /\ sess[w].verdict = "go"
           /\ runs' = Append(runs, T!NewRun(s, plan[s].next, sess[w].ids))
           /\ plan' = T!Settled(s, w, FALSE, Len(runs'))
           /\ sess' = [sess EXCEPT ![w] = T!Idle]
    BY DEF T!FireRun
  <1> DEFINE new == T!NewRun(s, plan[s].next, sess[w].ids)
             n == Len(runs)
  <1>2. s \in Schedules /\ n \in Nat /\ ~T!StillRunning(s)
    BY <1>1 DEF LastIsOnly, ScheduleTypes, Session
  <1>3. RunRow(new) /\ new.plan = s
    BY DEF RunRow, T!NewRun
  <1> HIDE DEF new
  <1>4. Len(runs') = n + 1 /\ runs' = [r \in 1..n + 1 |-> IF r <= n THEN runs[r] ELSE new]
    BY <1>1, <1>2 DEF LastIsOnly, ScheduleTypes, new
  <1>5. PICK p : /\ plan' = [plan EXCEPT ![s] = p] /\ PlanRow(p)
                 /\ p.last = n + 1 /\ p.status # "none"
    <2> DEFINE st == IF plan[s].repeat = "once" THEN "completed" ELSE "active"
               nx == T!NextTime(plan[s].next, plan[s].repeat, sess[w].t)
               m == n + 1
               p == [plan[s] EXCEPT !.status = st, !.next = nx, !.last = m]
    <2>1. plan' = [plan EXCEPT ![s] = p]
      BY <1>1, <1>2, <1>4 DEF T!Settled
    <2>2. PlanRow(plan[s])
      BY <1>2 DEF LastIsOnly, ScheduleTypes
    <2>3. st # "none" /\ m \in Nat
      BY <1>2
    <2> HIDE DEF st, nx, m
    <2>4. PlanRow(p) /\ p.last = m /\ p.status = st
      BY <2>2, <2>3 DEF PlanRow
    <2> QED BY <2>1, <2>3, <2>4 DEF m
  <1>6. plan'[s] = p /\ \A t \in Schedules \ {s} : plan'[t] = plan[t]
    BY <1>2, <1>5 DEF LastIsOnly, ScheduleTypes
  <1>7. sess'[w] = T!Idle /\ \A v \in Schedulers \ {w} : sess'[v] = sess[v]
    BY <1>1 DEF LastIsOnly, ScheduleTypes
  <1>8. ScheduleTypes'
    <2>1. \A t \in Schedules : PlanRow(plan'[t]) /\ plan'[t].last <= n + 1
      BY <1>2, <1>5, <1>6 DEF LastIsOnly, ScheduleTypes, PlanRow
    <2>2. ASSUME NEW r \in 1..Len(runs') PROVE RunRow(runs'[r])
      <3>1. CASE r \in 1..n
        <4>1. RunRow(runs[r]) /\ runs'[r] = runs[r]
          BY <1>4, <3>1 DEF LastIsOnly, ScheduleTypes
        <4> QED BY <4>1
      <3>2. CASE r = n + 1
        BY <1>2, <1>3, <1>4, <3>2
      <3> QED BY <1>2, <1>4, <3>1, <3>2
    <2>3. \A v \in Schedulers : Session(sess'[v])
      BY <1>7, IdleSession DEF LastIsOnly, ScheduleTypes
    <2>4. plan' = [t \in Schedules |-> plan'[t]] /\ sess' = [v \in Schedulers |-> sess'[v]]
      BY <1>1, <1>5 DEF LastIsOnly, ScheduleTypes
    <2> QED BY <1>2, <1>4, <2>1, <2>2, <2>3, <2>4 DEF ScheduleTypes
  <1>9. \A v \in Schedulers \ {w} : s \notin sess[v].plan
    BY <1>1 DEF LastIsOnly
  <1>10. ASSUME NEW v \in Schedulers, sess'[v].pc = "resolved", sess'[v].verdict = "go",
                NEW t \in sess'[v].plan
         PROVE  ~T!StillRunning(t)'
    <2>1. v # w /\ t \in sess[v].plan /\ t # s /\ t \in Schedules
      BY <1>7, <1>9, <1>10, IdleSession DEF LastIsOnly, ScheduleTypes, Session
    <2>2. ~T!StillRunning(t) /\ plan'[t] = plan[t]
      BY <1>6, <1>7, <1>10, <2>1 DEF LastIsOnly
    <2>3. plan[t].last # 0 => runs'[plan[t].last] = runs[plan[t].last]
      BY <1>2, <1>4, <2>1 DEF LastIsOnly, ScheduleTypes, PlanRow
    <2> QED BY <2>2, <2>3 DEF T!StillRunning
  <1>11. ASSUME NEW r \in 1..Len(runs'), runs'[r].plan # 0, runs'[r].active
         PROVE  runs'[r].plan \in Schedules /\ plan'[runs'[r].plan].last = r
    <2>1. CASE r = n + 1
      BY <1>2, <1>3, <1>4, <1>5, <1>6, <2>1
    <2>2. CASE r \in 1..n
      <3>1. runs'[r] = runs[r]
        BY <1>4, <2>2
      <3>2. runs[r].plan \in Schedules /\ plan[runs[r].plan].last = r
        BY <1>11, <2>2, <3>1 DEF LastIsOnly
      <3>3. runs[r].plan # s
        BY <1>2, <1>11, <2>2, <3>1, <3>2 DEF T!StillRunning
      <3> QED BY <1>6, <3>1, <3>2, <3>3
    <2> QED BY <1>2, <1>4, <2>1, <2>2
  <1>12. \A t \in Schedules : plan'[t].status = "none" => plan'[t].last = 0
    BY <1>5, <1>6 DEF LastIsOnly
  <1>13. ASSUME NEW u \in Schedulers, NEW v \in Schedulers,
                NEW x \in sess'[u].plan, NEW y \in sess'[v].plan
         PROVE  (x = y => u = v) /\ (u = v => x = y)
    BY <1>7, IdleSession DEF LastIsOnly
  <1> QED BY <1>8, <1>10, <1>11, <1>12, <1>13 DEF LastIsOnly

LEMMA UserKeepsLastIsOnly ==
    ASSUME LastIsOnly, T!User
    PROVE  LastIsOnly'
  <1>1. ASSUME NEW s \in Schedules, NEW repeat \in T!Repeats, NEW at \in 1..MaxTime,
               NEW scope \in SUBSET cands, T!Create(s, repeat, at, scope)
        PROVE  LastIsOnly'
    <2> DEFINE p == [status |-> "active", repeat |-> repeat, at |-> at,
                     next |-> at, scope |-> scope, last |-> 0]
    <2>1. plan' = [plan EXCEPT ![s] = p] /\ plan[s].last = 0 /\ UNCHANGED <<runs, sess>>
      BY <1>1 DEF T!Create, LastIsOnly
    <2>2. PlanRow(p) /\ p.last = 0
      BY DEF PlanRow
    <2> HIDE DEF p
    <2> QED BY <2>1, <2>2, PlanChanges
  <1>2. ASSUME NEW s \in Schedules, T!Cancel(s) \/ T!Pause(s) \/ T!Resume(s)
        PROVE  LastIsOnly'
    <2>0. PICK st \in {"cancelled", "paused", "active"} :
             \E nx : plan' = [plan EXCEPT ![s].status = st, ![s].next = nx]
      <3>1. CASE T!Cancel(s)
        BY <3>1 DEF T!Cancel
      <3>2. CASE T!Pause(s)
        <4>1. plan' = [plan EXCEPT ![s].status = "paused", ![s].next = plan[s].next]
          <5>1. PlanRow(plan[s])
            BY DEF LastIsOnly, ScheduleTypes
          <5>2. [plan[s] EXCEPT !.status = "paused"]
                   = [plan[s] EXCEPT !.status = "paused", !.next = plan[s].next]
            BY <5>1 DEF PlanRow
          <5> QED BY <3>2, <5>2 DEF T!Pause
        <4> QED BY <4>1
      <3>3. CASE T!Resume(s)
        BY <3>3 DEF T!Resume
      <3> QED BY <1>2, <3>1, <3>2, <3>3
    <2>1. PICK nx : plan' = [plan EXCEPT ![s].status = st, ![s].next = nx]
      BY <2>0
    <2> DEFINE p == [plan[s] EXCEPT !.status = st, !.next = nx]
    <2>2. PlanRow(plan[s])
      BY DEF LastIsOnly, ScheduleTypes
    <2>3. PlanRow(p) /\ p.last = plan[s].last /\ p.status = st
      BY <2>1, <2>2 DEF PlanRow
    <2>4. plan' = [plan EXCEPT ![s] = p] /\ UNCHANGED <<runs, sess>>
      BY <1>2, <2>1 DEF T!Cancel, T!Pause, T!Resume
    <2> HIDE DEF p
    <2> QED BY <2>1, <2>3, <2>4, PlanChanges
  <1>3. ASSUME NEW ids \in SUBSET cands, T!StartRun(ids) PROVE LastIsOnly'
    <2> DEFINE new == T!NewRun(0, 0, ids)
               n == Len(runs)
    <2>1. RunRow(new) /\ new.plan = 0
      BY DEF RunRow, T!NewRun
    <2>2. n \in Nat /\ runs' = Append(runs, new) /\ UNCHANGED <<plan, sess>>
      BY <1>3 DEF T!StartRun, LastIsOnly, ScheduleTypes
    <2> HIDE DEF new
    <2>3. Len(runs') = n + 1 /\ runs' = [r \in 1..n + 1 |-> IF r <= n THEN runs[r] ELSE new]
      BY <2>2, AppendRow DEF LastIsOnly, ScheduleTypes
    <2>4. \A r \in 1..n : RunRow(runs[r])
      BY DEF LastIsOnly, ScheduleTypes
    <2>5. \A r \in 1..n : runs'[r] = runs[r]
      BY <2>2, <2>3
    <2>6. runs'[n + 1] = new /\ \A r \in 1..n + 1 : r \in 1..n \/ r = n + 1
      BY <2>2, <2>3
    <2>7. \A r \in 1..n + 1 : RunRow(runs'[r]) /\ (r > n => runs'[r].plan = 0)
      BY <2>1, <2>2, <2>4, <2>5, <2>6
    <2> QED BY <2>2, <2>3, <2>5, <2>7, RunsChange
  <1>4. CASE T!SetAllowed
    BY <1>4, NothingMoves DEF T!SetAllowed
  <1> QED BY <1>1, <1>2, <1>3, <1>4 DEF T!User

\* A scheduler decides on a run having seen that the last one is over.
LEMMA TriggerKeepsLastIsOnly ==
    ASSUME LastIsOnly, NEW w \in Schedulers, T!Trigger(w) \/ T!Rollback(w)
    PROVE  LastIsOnly'
  <1>0. Session(sess[w])
    BY DEF LastIsOnly, ScheduleTypes
  <1>1. ASSUME NEW s \in Schedules, T!Claim(w, s) PROVE LastIsOnly'
    <2> DEFINE x == [T!Idle EXCEPT !.pc = "claimed", !.plan = {s}, !.t = now]
    <2>1. Session(x) /\ x.pc = "claimed" /\ x.plan = {s}
      BY DEF Session, T!Idle
    <2>2. sess' = [sess EXCEPT ![w] = x] /\ UNCHANGED <<plan, runs>>
             /\ \A v \in Schedulers : s \notin sess[v].plan
      BY <1>1 DEF T!Claim, T!Unlocked
    <2> HIDE DEF x
    <2>3. x.pc # "resolved" /\ \A t, u \in x.plan : t = u
      BY <2>1
    <2>4. \A t \in x.plan : \A v \in Schedulers \ {w} : t \notin sess[v].plan
      BY <2>1, <2>2
    <2> QED BY <2>1, <2>2, <2>3, <2>4, SessionMoves
  <1>2. ASSUME T!Resolve(w) PROVE LastIsOnly'
    <2>1. PICK s, ids :
             LET verdict == IF ~allowed THEN "failed"
                            ELSE IF T!StillRunning(s) THEN "skipped" ELSE "go"
             IN /\ s \in sess[w].plan
                /\ sess' = [sess EXCEPT ![w].pc = "resolved", ![w].verdict = verdict,
                                        ![w].ids = IF verdict = "go" THEN ids ELSE {}]
      BY <1>2 DEF T!Resolve
    <2> DEFINE verdict == IF ~allowed THEN "failed"
                          ELSE IF T!StillRunning(s) THEN "skipped" ELSE "go"
               chosen == IF verdict = "go" THEN ids ELSE {}
               x == [sess[w] EXCEPT !.pc = "resolved", !.verdict = verdict, !.ids = chosen]
    <2>2. verdict \in {"failed", "skipped", "go"} /\ (verdict = "go" => ~T!StillRunning(s))
      OBVIOUS
    <2>3. sess' = [sess EXCEPT ![w] = x] /\ UNCHANGED <<plan, runs>>
      BY <1>2, <2>1 DEF T!Resolve
    <2> HIDE DEF verdict, chosen
    <2>4. Session(x) /\ x.plan = sess[w].plan /\ x.verdict = verdict
      BY <1>0, <2>2 DEF Session
    <2> HIDE DEF x
    <2>5. /\ \A t, u \in x.plan : t = u
          /\ \A t \in x.plan : \A v \in Schedulers \ {w} : t \notin sess[v].plan
      BY <2>4 DEF LastIsOnly
    <2>6. x.verdict = "go" => \A t \in x.plan : ~T!StillRunning(t)
      BY <2>1, <2>2, <2>4, <2>5
    <2> QED BY <2>3, <2>4, <2>5, <2>6, SessionMoves
  <1>3. ASSUME T!FireNothing(w) PROVE LastIsOnly'
    <2>1. PICK s \in sess[w].plan, failed \in BOOLEAN :
             plan' = T!Settled(s, w, failed, plan[s].last)
      BY <1>3 DEF T!FireNothing
    <2> DEFINE st == IF failed THEN "failed"
                     ELSE IF plan[s].repeat = "once" THEN "completed" ELSE "active"
               nx == IF failed THEN T!Never
                     ELSE T!NextTime(plan[s].next, plan[s].repeat, sess[w].t)
               p == [plan[s] EXCEPT !.status = st, !.next = nx, !.last = plan[s].last]
    <2>2. plan' = [plan EXCEPT ![s] = p] /\ st # "none"
      BY <2>1 DEF T!Settled
    <2>3. s \in Schedules /\ PlanRow(plan[s])
      BY <1>0 DEF LastIsOnly, ScheduleTypes, Session
    <2> HIDE DEF st, nx
    <2>4. PlanRow(p) /\ p.last = plan[s].last /\ p.status = st
      BY <2>3 DEF PlanRow
    <2>5. sess' = [sess EXCEPT ![w] = T!Idle] /\ runs' = runs
      BY <1>3 DEF T!FireNothing
    <2> HIDE DEF p
    <2>6. sess'[w] = T!Idle /\ \A v \in Schedulers \ {w} : sess'[v] = sess[v]
      BY <2>5 DEF LastIsOnly, ScheduleTypes
    <2>7. plan'[s] = p /\ \A t \in Schedules \ {s} : plan'[t] = plan[t]
      BY <2>2, <2>3 DEF LastIsOnly, ScheduleTypes
    <2>8. ScheduleTypes'
      BY <2>2, <2>4, <2>5, <2>6, <2>7, IdleSession DEF LastIsOnly, ScheduleTypes, PlanRow
    <2>9. \A t \in Schedules : plan'[t].last = plan[t].last
      BY <2>4, <2>7
    <2>10. \A v \in Schedulers : sess[v].plan \subseteq Schedules
      BY DEF LastIsOnly, ScheduleTypes, Session
    <2> QED BY <2>2, <2>4, <2>5, <2>6, <2>7, <2>8, <2>9, <2>10, IdleSession
            DEF LastIsOnly, T!StillRunning
  <1>4. ASSUME T!Rollback(w) PROVE LastIsOnly'
    BY <1>4, IdleSession, SessionMoves DEF T!Rollback
  <1> QED BY <1>1, <1>2, <1>3, <1>4, FireRunKeepsLastIsOnly DEF T!Trigger

LEMMA NextKeepsLastIsOnly == LastIsOnly /\ [Next]_vars => LastIsOnly'
  <1> SUFFICES ASSUME LastIsOnly, [Next]_vars PROVE LastIsOnly'
    OBVIOUS
  <1>1. CASE UNCHANGED <<plan, runs, sess>>
    BY <1>1, NothingMoves
  <1>2. ASSUME NEW r \in DOMAIN runs, T!EndRun(r) PROVE LastIsOnly'
    <2> DEFINE x == [runs[r] EXCEPT !.active = FALSE]
    <2>1. r \in 1..Len(runs) /\ RunRow(runs[r])
      BY DEF LastIsOnly, ScheduleTypes
    <2>2. RunRow(x) /\ x.plan = runs[r].plan /\ ~x.active
      BY <2>1 DEF RunRow
    <2>3. runs' = [runs EXCEPT ![r] = x] /\ UNCHANGED <<plan, sess>>
      BY <1>2 DEF T!EndRun
    <2> HIDE DEF x
    <2>4. Len(runs') = Len(runs) /\ DOMAIN runs' = 1..Len(runs)
      BY <2>1, <2>3 DEF LastIsOnly, ScheduleTypes
    <2>5. runs'[r] = x /\ \A q \in 1..Len(runs) \ {r} : runs'[q] = runs[q]
      BY <2>1, <2>3 DEF LastIsOnly, ScheduleTypes
    <2>6. /\ Len(runs') \in Nat /\ Len(runs) <= Len(runs')
          /\ runs' = [q \in 1..Len(runs') |-> runs'[q]]
      <3>1. Len(runs) \in Nat /\ runs' = [q \in DOMAIN runs |-> runs'[q]]
        BY <2>3 DEF LastIsOnly, ScheduleTypes
      <3>2. DOMAIN runs = 1..Len(runs)
        BY DEF LastIsOnly, ScheduleTypes
      <3> QED BY <2>4, <3>1, <3>2
    <2>7. \A q \in 1..Len(runs) : RunRow(runs[q])
      BY DEF LastIsOnly, ScheduleTypes
    <2>8. ASSUME NEW q \in 1..Len(runs)
          PROVE  RunRow(runs'[q]) /\ runs'[q].plan = runs[q].plan
                    /\ (runs'[q].active => runs[q].active)
      BY <2>2, <2>5, <2>7
    <2>9. \A q \in 1..Len(runs') : ~(q > Len(runs))
      BY <2>4, <2>6
    <2> QED BY <2>3, <2>4, <2>6, <2>8, <2>9, RunsChange
  <1>3. CASE T!CommitDeletion
    <2>1. runs' = [r \in DOMAIN runs |-> [runs[r] EXCEPT !.items = T!Left(r)]]
             /\ UNCHANGED <<plan, sess>>
      BY <1>3 DEF T!CommitDeletion
    <2>2. DOMAIN runs = 1..Len(runs) /\ Len(runs) \in Nat
      BY DEF LastIsOnly, ScheduleTypes
    <2>3. Len(runs') = Len(runs) /\ runs' = [r \in 1..Len(runs) |-> runs'[r]]
      BY <2>1, <2>2
    <2>4. ASSUME NEW r \in 1..Len(runs)
          PROVE  RunRow(runs'[r]) /\ runs'[r].plan = runs[r].plan
                    /\ runs'[r].active = runs[r].active
      <3>1. RunRow(runs[r])
        BY DEF LastIsOnly, ScheduleTypes
      <3>2. runs'[r] = [runs[r] EXCEPT !.items = T!Left(r)]
        BY <2>1, <2>2
      <3> HIDE DEF LastIsOnly
      <3> QED BY <3>1, <3>2 DEF RunRow
    <2>5. \A r \in 1..Len(runs') : ~(r > Len(runs))
      BY <2>2, <2>3
    <2>6. Len(runs') \in Nat /\ Len(runs) <= Len(runs') /\ runs' = [r \in 1..Len(runs') |-> runs'[r]]
      BY <2>2, <2>3
    <2> QED BY <2>1, <2>3, <2>4, <2>5, <2>6, RunsChange
  <1>4. CASE T!Next
    BY <1>1, <1>2, <1>3, <1>4, UserKeepsLastIsOnly, TriggerKeepsLastIsOnly
       DEF T!Next, T!Deletion, T!BeginReplace, T!BeginDelete, T!Sweep, T!Remove,
           T!AbortDeletion, T!Tick
  <1> QED BY <1>1, <1>4 DEF Next, vars, scheduleVars

-----------------------------------------------------------------------------
(* A plan never has two runs in progress, however many scheduler loops     *)
(* work on it and however often its time passes while a run is going.      *)
THEOREM PlansRunOneAtATime == Spec => []OneRunPerPlan
  <1>1. LastIsOnly => OneRunPerPlan
    BY DEF LastIsOnly, ScheduleTypes, OneRunPerPlan, T!OneRunPerPlan
  <1> QED BY <1>1, LastIsOnlyInit, NextKeepsLastIsOnly, PTL DEF Spec


-----------------------------------------------------------------------------
(* The clock of a plan.                                                    *)

Upcoming(p) == p.status \in {"active", "paused"}

\* The next occurrence is on the wall clock of the first.
OnGrid(p) == \E k \in Nat : p.next = p.at + k * Period

\* Every run of a plan was due before the plan's next occurrence, and what a
\* scheduler has locked stays active and due.
Clocked ==
    /\ now \in Nat
    /\ \A s \in Schedules :
          /\ plan[s].at \in Nat /\ plan[s].next \in Nat
          /\ Upcoming(plan[s]) /\ plan[s].repeat # "once" => OnGrid(plan[s])
    /\ \A r \in 1..Len(runs) : runs[r].due \in Nat
    /\ \A s \in Schedules \ {0}, r \in 1..Len(runs) : runs[r].plan = s =>
          /\ plan[s].status # "none"
          /\ Upcoming(plan[s]) => runs[r].due < plan[s].next
    /\ \A w \in Schedulers :
          /\ sess[w].t \in Nat
          /\ \A s \in sess[w].plan : plan[s].status = "active" /\ plan[s].next <= now

LEMMA ClockedInit == Init => Clocked
  <1> SUFFICES ASSUME Init PROVE Clocked
    OBVIOUS
  <1>1. /\ now = 1 /\ runs = <<>> /\ Len(runs) = 0
        /\ plan = [s \in Schedules |-> T!NoPlan] /\ sess = [w \in Schedulers |-> T!Idle]
    BY DEF Init, T!Init
  <1>2. /\ T!NoPlan.at = 0 /\ T!NoPlan.next = 0 /\ ~Upcoming(T!NoPlan)
        /\ T!Idle.t = 0 /\ T!Idle.plan = {}
    BY DEF T!NoPlan, T!Never, T!Idle, Upcoming
  <1> QED BY <1>1, <1>2 DEF Clocked

\* nextScheduleTime moves forward by whole days.
LEMMA NextTimeIsLater ==
    ASSUME NEW previous \in Nat, NEW repeat, NEW t \in Nat, repeat # "once"
    PROVE  \E j \in Nat \ {0} : T!NextTime(previous, repeat, t) = previous + j * Period
  <1> DEFINE days == IF t > previous THEN (t - previous) \div Period ELSE 0
  <1>1. days \in Nat
    <2>1. CASE t > previous
      <3>1. t - previous \in Nat /\ Period \in Nat \ {0}
        BY <2>1, PeriodAssumption
      <3>2. (t - previous) \div Period \in Nat
        BY <3>1
      <3> QED BY <2>1, <3>2
    <2> QED BY <2>1
  <1>2. T!NextTime(previous, repeat, t) = previous + (days + 1) * Period
    BY DEF T!NextTime
  <1> HIDE DEF days
  <1> QED BY <1>1, <1>2

\* What is later by whole days is later, and on the wall clock.
LEMMA GridIsLater ==
    ASSUME NEW at \in Nat, NEW next, NEW k \in Nat, next = at + k * Period,
           NEW later, NEW j \in Nat \ {0}, later = next + j * Period
    PROVE  /\ later \in Nat /\ later > next /\ (later - at) % Period = 0
           /\ \E i \in Nat : later = at + i * Period
  <1>1. Period \in Nat \ {0}
    BY PeriodAssumption
  <1>2. k * Period \in Nat /\ j * Period \in Nat \ {0}
    BY <1>1
  <1>3. (k + j) * Period = k * Period + j * Period /\ k + j \in Nat
    BY <1>1
  <1>4. ((k + j) * Period) % Period = 0
    BY <1>1
  <1>5. later = at + (k + j) * Period /\ later - at = (k + j) * Period
    BY <1>2, <1>3
  <1> QED BY <1>2, <1>3, <1>4, <1>5

\* p is a row the plan s may have after a trigger.
Passed(s, p) ==
    /\ p.at = plan[s].at /\ p.repeat = plan[s].repeat /\ p.next \in Nat
    /\ p.status # "none" /\ (p.next # T!Never => Upcoming(p))
    /\ Upcoming(p) => /\ p.repeat # "once" /\ OnGrid(p)
                  /\ p.next > plan[s].next
                  /\ (p.next - p.at) % Period = 0

\* A plan that has been triggered, to fire or not.
LEMMA SettledIs ==
    ASSUME LastIsOnly, Clocked, NEW w \in Schedulers, NEW s \in sess[w].plan,
           NEW st, NEW nx, NEW run,
           \/ st = "failed" /\ nx = T!Never
           \/ /\ st = IF plan[s].repeat = "once" THEN "completed" ELSE "active"
              /\ nx = T!NextTime(plan[s].next, plan[s].repeat, sess[w].t)
    PROVE  Passed(s, [plan[s] EXCEPT !.status = st, !.next = nx, !.last = run])
  <1> DEFINE p == [plan[s] EXCEPT !.status = st, !.next = nx, !.last = run]
  <1>1. /\ s \in Schedules /\ PlanRow(plan[s]) /\ plan[s].at \in Nat /\ plan[s].next \in Nat
        /\ plan[s].status = "active" /\ sess[w].t \in Nat
        /\ plan[s].repeat # "once" => OnGrid(plan[s])
    BY DEF LastIsOnly, ScheduleTypes, Session, Clocked, Upcoming
  <1>2. /\ p.at = plan[s].at /\ p.repeat = plan[s].repeat /\ p.next = nx /\ p.status = st
    BY <1>1 DEF PlanRow
  <1> HIDE DEF p
  <1>3. CASE st = "failed" \/ plan[s].repeat = "once"
    <2>1. nx = 0 /\ st \in {"failed", "completed"}
      BY <1>3 DEF T!NextTime, T!Never
    <2>2. p.next \in Nat /\ p.next = T!Never /\ p.status # "none" /\ ~Upcoming(p)
      BY <1>2, <2>1 DEF Upcoming, T!Never
    <2>3. Passed(s, p)
      BY <1>2, <2>2 DEF Passed
    <2> QED BY <2>3 DEF p
  <1>4. CASE st # "failed" /\ plan[s].repeat # "once"
    <2>1. PICK k \in Nat : plan[s].next = plan[s].at + k * Period
      BY <1>1, <1>4 DEF OnGrid
    <2>2. st = "active" /\ nx = T!NextTime(plan[s].next, plan[s].repeat, sess[w].t)
      BY <1>4
    <2>3. PICK j \in Nat \ {0} : nx = plan[s].next + j * Period
      BY <1>1, <1>4, <2>2, NextTimeIsLater
    <2>4. /\ nx \in Nat /\ nx > plan[s].next /\ (nx - plan[s].at) % Period = 0
          /\ \E i \in Nat : nx = plan[s].at + i * Period
      <3> DEFINE at == plan[s].at
                 old == plan[s].next
      <3>1. at \in Nat /\ old = at + k * Period /\ nx = old + j * Period
        BY <1>1, <2>1, <2>3
      <3> HIDE DEF at, old
      <3>2. /\ nx \in Nat /\ nx > old /\ (nx - at) % Period = 0
            /\ \E i \in Nat : nx = at + i * Period
        BY <3>1, GridIsLater
      <3> QED BY <3>2 DEF at, old
    <2>5. OnGrid(p)
      BY <1>2, <2>4 DEF OnGrid
    <2>6. Passed(s, p)
      BY <1>2, <1>4, <2>2, <2>4, <2>5 DEF Upcoming, Passed
    <2> QED BY <2>6 DEF p
  <1> QED BY <1>3, <1>4

\* A row of a plan nobody has locked.
LEMMA PlanClock ==
    ASSUME LastIsOnly, Clocked, NEW s \in Schedules, NEW p,
           plan' = [plan EXCEPT ![s] = p], UNCHANGED <<now, runs, sess>>,
           T!Unlocked(s) \/ plan[s].status = "none",
           p.at \in Nat, p.next \in Nat, p.status # "none",
           Upcoming(p) /\ p.repeat # "once" => OnGrid(p),
           plan[s].status = "none" \/ (Upcoming(plan[s]) /\ (Upcoming(p) => p.next >= plan[s].next))
    PROVE  Clocked'
  <1>1. plan'[s] = p /\ \A t \in Schedules \ {s} : plan'[t] = plan[t]
    BY DEF LastIsOnly, ScheduleTypes
  <1>2. ASSUME NEW w \in Schedulers, NEW t \in sess[w].plan PROVE t \in Schedules \ {s}
    <2>1. Session(sess[w]) /\ plan[t].status = "active"
      BY DEF LastIsOnly, ScheduleTypes, Clocked
    <2> QED BY <2>1 DEF Session, T!Unlocked
  <1>3. \A t \in Schedules : Upcoming(plan[t])' <=> Upcoming(plan'[t])
    BY DEF Upcoming
  <1>4. ASSUME NEW t \in Schedules, Upcoming(plan'[t]), plan'[t].repeat # "once"
        PROVE  OnGrid(plan'[t])
    BY <1>1, <1>4 DEF Clocked
  <1>5. ASSUME NEW t \in Schedules \ {0}, NEW r \in 1..Len(runs), runs[r].plan = t
        PROVE  plan'[t].status # "none" /\ (Upcoming(plan'[t]) => runs[r].due < plan'[t].next)
    <2>1. /\ plan[t].status # "none" /\ runs[r].due \in Nat /\ plan[t].next \in Nat
          /\ Upcoming(plan[t]) => runs[r].due < plan[t].next
      BY <1>5 DEF Clocked
    <2> QED BY <1>1, <2>1
  <1>6. \A t \in Schedules : plan'[t].at \in Nat /\ plan'[t].next \in Nat
    BY <1>1 DEF Clocked
  <1>7. \A t \in Schedules : OnGrid(plan[t])' <=> OnGrid(plan'[t])
    BY DEF OnGrid
  <1>8. \A w \in Schedulers : \A t \in sess[w].plan :
           plan'[t].status = "active" /\ plan'[t].next <= now
    BY <1>1, <1>2 DEF Clocked
  <1> QED BY <1>3, <1>4, <1>5, <1>6, <1>7, <1>8 DEF Clocked

\* The memory of a scheduler.
LEMMA SessionClock ==
    ASSUME LastIsOnly, Clocked, NEW w \in Schedulers, NEW x,
           sess' = [sess EXCEPT ![w] = x], UNCHANGED <<now, runs, plan>>,
           x.t \in Nat, \A s \in x.plan : plan[s].status = "active" /\ plan[s].next <= now
    PROVE  Clocked'
  <1>1. sess'[w] = x /\ \A v \in Schedulers \ {w} : sess'[v] = sess[v]
    BY DEF LastIsOnly, ScheduleTypes
  <1> QED BY <1>1 DEF Clocked, Upcoming, OnGrid

\* Runs that end or lose items; a run of no plan.
LEMMA RunsClock ==
    ASSUME Clocked, UNCHANGED <<now, plan, sess>>, Len(runs) \in Nat, Len(runs') \in Nat,
           \A r \in 1..Len(runs) : runs'[r].plan = runs[r].plan /\ runs'[r].due = runs[r].due,
           \A r \in 1..Len(runs') : \/ r \in 1..Len(runs)
                                    \/ runs'[r].plan = 0 /\ runs'[r].due = 0
    PROVE  Clocked'
  <1>1. \A r \in 1..Len(runs') : runs'[r].due \in Nat
    BY DEF Clocked
  <1>2. \A s \in Schedules \ {0}, r \in 1..Len(runs') : runs'[r].plan = s =>
           r \in 1..Len(runs) /\ runs[r].plan = s /\ runs'[r].due = runs[r].due
    OBVIOUS
  <1> QED BY <1>1, <1>2 DEF Clocked, Upcoming, OnGrid

\* A trigger, with or without a run.
LEMMA TriggerClock ==
    ASSUME LastIsOnly, Clocked, NEW w \in Schedulers, NEW s \in sess[w].plan, NEW p,
           plan' = [plan EXCEPT ![s] = p], sess' = [sess EXCEPT ![w] = T!Idle],
           now' = now, Passed(s, p), Len(runs') \in Nat,
           \A r \in 1..Len(runs) : runs'[r] = runs[r],
           \A r \in 1..Len(runs') : \/ r \in 1..Len(runs)
                                    \/ runs'[r].plan = s /\ runs'[r].due = plan[s].next
    PROVE  Clocked'
  <1>0. /\ p.at = plan[s].at /\ p.next \in Nat /\ p.status # "none"
        /\ Upcoming(p) => OnGrid(p) /\ p.next > plan[s].next
    BY DEF Passed
  <1>1. /\ s \in Schedules /\ plan[s].next \in Nat
        /\ plan[s].status = "active" /\ Upcoming(plan[s])
    BY DEF LastIsOnly, ScheduleTypes, Session, Clocked, Upcoming
  <1>2. plan'[s] = p /\ \A t \in Schedules \ {s} : plan'[t] = plan[t]
    BY <1>1 DEF LastIsOnly, ScheduleTypes
  <1>3. sess'[w] = T!Idle /\ \A v \in Schedulers \ {w} : sess'[v] = sess[v]
    BY DEF LastIsOnly, ScheduleTypes
  <1>4. \A v \in Schedulers \ {w} : sess[v].plan \subseteq Schedules \ {s}
    BY DEF LastIsOnly, ScheduleTypes, Session
  <1>5. \A v \in Schedulers : sess'[v].t \in Nat /\ \A t \in sess'[v].plan :
           plan'[t].status = "active" /\ plan'[t].next <= now
    <2> SUFFICES ASSUME NEW v \in Schedulers
                 PROVE  sess'[v].t \in Nat /\ \A t \in sess'[v].plan :
                           plan'[t].status = "active" /\ plan'[t].next <= now
      OBVIOUS
    <2>1. CASE v = w
      <3>1. T!Idle.t \in Nat /\ T!Idle.plan = {}
        BY DEF T!Idle
      <3> QED BY <1>3, <2>1, <3>1
    <2>2. CASE v # w
      BY <1>2, <1>3, <1>4, <2>2 DEF Clocked
    <2> QED BY <2>1, <2>2
  <1>6. \A r \in 1..Len(runs') : runs'[r].due \in Nat
    BY <1>1 DEF Clocked
  <1>7. ASSUME NEW t \in Schedules, Upcoming(plan'[t]), plan'[t].repeat # "once"
        PROVE  OnGrid(plan'[t])
    BY <1>0, <1>2, <1>7 DEF Clocked
  <1>8. ASSUME NEW t \in Schedules \ {0}, NEW r \in 1..Len(runs'), runs'[r].plan = t
        PROVE  plan'[t].status # "none" /\ (Upcoming(plan'[t]) => runs'[r].due < plan'[t].next)
    <2>1. CASE r \in 1..Len(runs)
      <3>1. /\ runs'[r] = runs[r] /\ runs[r].due \in Nat /\ plan[t].next \in Nat
            /\ plan[t].status # "none" /\ (Upcoming(plan[t]) => runs[r].due < plan[t].next)
        BY <1>8, <2>1 DEF Clocked
      <3> QED BY <1>0, <1>1, <1>2, <3>1
    <2>2. CASE runs'[r].plan = s /\ runs'[r].due = plan[s].next
      BY <1>0, <1>1, <1>2, <1>8, <2>2
    <2> QED BY <2>1, <2>2
  <1>9. \A t \in Schedules : plan'[t].at \in Nat /\ plan'[t].next \in Nat
    BY <1>0, <1>1, <1>2 DEF Clocked
  <1>10. \A t \in Schedules : /\ Upcoming(plan[t])' <=> Upcoming(plan'[t])
                              /\ OnGrid(plan[t])' <=> OnGrid(plan'[t])
    BY DEF Upcoming, OnGrid
  <1> QED BY <1>5, <1>6, <1>7, <1>8, <1>9, <1>10 DEF Clocked

\* A plan that fires, or lets its time pass, is active and due; it is due
\* next in the future, on its wall clock.
LEMMA FireMeets ==
    ASSUME LastIsOnly, Clocked, NEW w \in Schedulers, T!FireRun(w)
    PROVE  /\ Clocked'
           /\ T!Triggered(runs'[Len(runs')].plan) \/ runs'[Len(runs')].plan = 0
  <1>1. PICK s \in sess[w].plan :
           /\ runs' = Append(runs, T!NewRun(s, plan[s].next, sess[w].ids))
           /\ plan' = T!Settled(s, w, FALSE, Len(runs'))
           /\ sess' = [sess EXCEPT ![w] = T!Idle] /\ now' = now
    BY DEF T!FireRun
  <1> DEFINE new == T!NewRun(s, plan[s].next, sess[w].ids)
             n == Len(runs)
             m == Len(runs')
  <1>2. new.plan = s /\ new.due = plan[s].next
    BY DEF T!NewRun
  <1> HIDE DEF new
  <1>3. /\ n \in Nat /\ m = n + 1 /\ runs'[n + 1] = new
        /\ \A r \in 1..n : runs'[r] = runs[r]
        /\ \A r \in 1..n + 1 : r \in 1..n \/ r = n + 1
    <2>1. n \in Nat /\ runs = [r \in 1..n |-> runs[r]]
      BY DEF LastIsOnly, ScheduleTypes
    <2>2. m = n + 1 /\ runs' = [r \in 1..n + 1 |-> IF r <= n THEN runs[r] ELSE new]
      BY <1>1, <2>1, AppendRow DEF new
    <2> HIDE DEF n, m
    <2> QED BY <2>1, <2>2
  <1>4. PICK p : plan' = [plan EXCEPT ![s] = p] /\ Passed(s, p)
    <2> DEFINE st == IF plan[s].repeat = "once" THEN "completed" ELSE "active"
               nx == T!NextTime(plan[s].next, plan[s].repeat, sess[w].t)
               p == [plan[s] EXCEPT !.status = st, !.next = nx, !.last = m]
    <2>1. plan' = [plan EXCEPT ![s] = p]
      BY <1>1 DEF T!Settled
    <2>2. Passed(s, p)
      BY SettledIs
    <2> QED BY <2>1, <2>2
  <1>5. /\ s \in Schedules /\ plan[s].at \in Nat
        /\ plan[s].status = "active" /\ plan[s].next <= now
    BY DEF LastIsOnly, ScheduleTypes, Session, Clocked
  <1>6. Clocked'
    <2>1. m \in Nat /\ \A r \in 1..n : runs'[r] = runs[r]
      BY <1>3
    <2>2. \A r \in 1..m : \/ r \in 1..n
                          \/ runs'[r].plan = s /\ runs'[r].due = plan[s].next
      BY <1>2, <1>3
    <2> QED BY <1>1, <1>4, <2>1, <2>2, TriggerClock
  <1>7. plan'[s] = p
    BY <1>4, <1>5 DEF LastIsOnly, ScheduleTypes
  <1>8. ASSUME s # 0 PROVE T!Triggered(s)
    <2>1. \A r \in 1..n : runs[r].plan = s => runs[r].due < plan[s].next
      BY <1>5, <1>8 DEF Clocked, Upcoming
    <2>2. DOMAIN runs = 1..n
      BY DEF LastIsOnly, ScheduleTypes
    <2>3. runs'[m].due = plan[s].next
      BY <1>2, <1>3
    <2>4. p.next # T!Never => p.next > plan[s].next /\ (p.next - plan[s].at) % Period = 0
      BY <1>4 DEF Passed
    <2> QED BY <1>5, <1>7, <2>1, <2>2, <2>3, <2>4 DEF T!Triggered
  <1> QED BY <1>2, <1>3, <1>6, <1>8


\* A step that starts a run of a plan starts it as it should.
FiresWhenDue ==
    Len(runs') > Len(runs) /\ runs'[Len(runs')].plan # 0 => T!Triggered(runs'[Len(runs')].plan)

LEMMA UserClock ==
    ASSUME LastIsOnly, Clocked, T!User
    PROVE  Clocked' /\ FiresWhenDue
  <1>0. Len(runs) \in Nat /\ (runs' = runs => FiresWhenDue)
    BY DEF LastIsOnly, ScheduleTypes, FiresWhenDue
  <1>1. ASSUME NEW s \in Schedules, NEW repeat \in T!Repeats, NEW at \in 1..MaxTime,
               NEW scope \in SUBSET cands, T!Create(s, repeat, at, scope)
        PROVE  Clocked' /\ FiresWhenDue
    <2> DEFINE p == [status |-> "active", repeat |-> repeat, at |-> at,
                     next |-> at, scope |-> scope, last |-> 0]
    <2>1. plan' = [plan EXCEPT ![s] = p] /\ plan[s].status = "none" /\ UNCHANGED <<now, runs, sess>>
      BY <1>1 DEF T!Create
    <2>2. at \in Nat /\ at = at + 0 * Period
      BY PeriodAssumption
    <2>3. p.at \in Nat /\ p.next \in Nat /\ p.status # "none" /\ OnGrid(p)
      BY <2>2 DEF OnGrid
    <2> HIDE DEF p
    <2> QED BY <1>0, <2>1, <2>3, PlanClock
  <1>2. ASSUME NEW s \in Schedules, T!Cancel(s) \/ T!Pause(s) \/ T!Resume(s)
        PROVE  Clocked' /\ FiresWhenDue
    <2>1. /\ PlanRow(plan[s]) /\ plan[s].at \in Nat /\ plan[s].next \in Nat /\ now \in Nat
          /\ Upcoming(plan[s]) /\ T!Unlocked(s) /\ UNCHANGED <<now, runs, sess>>
          /\ plan[s].repeat # "once" => OnGrid(plan[s])
      BY <1>2 DEF LastIsOnly, ScheduleTypes, Clocked, T!Cancel, T!Pause, T!Resume, Upcoming
    <2>2. CASE T!Cancel(s)
      <3> DEFINE p == [plan[s] EXCEPT !.status = "cancelled", !.next = T!Never]
      <3>1. plan' = [plan EXCEPT ![s] = p]
        BY <2>2 DEF T!Cancel
      <3>2. p.at \in Nat /\ p.next \in Nat /\ p.status # "none" /\ ~Upcoming(p)
        BY <2>1 DEF PlanRow, Upcoming, T!Never
      <3> HIDE DEF p
      <3> QED BY <1>0, <2>1, <3>1, <3>2, PlanClock
    <2>3. CASE T!Pause(s)
      <3> DEFINE p == [plan[s] EXCEPT !.status = "paused"]
      <3>1. plan' = [plan EXCEPT ![s] = p]
        BY <2>3 DEF T!Pause
      <3>2. /\ p.at = plan[s].at /\ p.next = plan[s].next /\ p.status = "paused"
            /\ p.repeat = plan[s].repeat
        BY <2>1 DEF PlanRow
      <3> HIDE DEF p
      <3>3. p.repeat # "once" => OnGrid(p)
        BY <2>1, <3>2 DEF OnGrid
      <3>4. p.at \in Nat /\ p.next \in Nat /\ p.next >= plan[s].next /\ p.status # "none"
        BY <2>1, <3>2
      <3> QED BY <1>0, <2>1, <3>1, <3>3, <3>4, PlanClock
    <2>4. CASE T!Resume(s)
      <3> DEFINE nx == IF plan[s].next > now THEN plan[s].next
                       ELSE IF plan[s].repeat = "once" THEN now
                       ELSE T!NextTime(plan[s].next, plan[s].repeat, now)
                 p == [plan[s] EXCEPT !.status = "active", !.next = nx]
      <3>1. plan' = [plan EXCEPT ![s] = p]
        BY <2>4 DEF T!Resume
      <3>2. /\ p.at = plan[s].at /\ p.next = nx /\ p.status = "active"
            /\ p.repeat = plan[s].repeat
        BY <2>1 DEF PlanRow
      <3>3. /\ nx \in Nat /\ nx >= plan[s].next
            /\ plan[s].repeat # "once" => \E i \in Nat : nx = plan[s].at + i * Period
        <4>1. CASE plan[s].next > now
          BY <2>1, <4>1 DEF OnGrid
        <4>2. CASE plan[s].next <= now /\ plan[s].repeat = "once"
          BY <2>1, <4>2
        <4>3. CASE plan[s].next <= now /\ plan[s].repeat # "once"
          <5>1. nx = T!NextTime(plan[s].next, plan[s].repeat, now)
            BY <2>1, <4>3
          <5>2. PICK j \in Nat \ {0} : nx = plan[s].next + j * Period
            BY <2>1, <4>3, <5>1, NextTimeIsLater
          <5>3. PICK k \in Nat : plan[s].next = plan[s].at + k * Period
            BY <2>1, <4>3 DEF OnGrid
          <5> DEFINE at == plan[s].at
                     old == plan[s].next
          <5>4. at \in Nat /\ old \in Nat /\ old = at + k * Period /\ nx = old + j * Period
            BY <2>1, <5>2, <5>3
          <5> HIDE DEF at, old, nx
          <5>5. nx \in Nat /\ nx > old /\ \E i \in Nat : nx = at + i * Period
            BY <5>4, GridIsLater
          <5>6. nx >= old
            BY <5>4, <5>5
          <5> QED BY <5>5, <5>6 DEF at, old
        <4> QED BY <2>1, <4>1, <4>2, <4>3
      <3> HIDE DEF nx, p
      <3>4. p.repeat # "once" => OnGrid(p)
        BY <3>2, <3>3 DEF OnGrid
      <3> QED BY <1>0, <2>1, <3>1, <3>2, <3>3, <3>4, PlanClock
    <2> QED BY <1>2, <2>2, <2>3, <2>4
  <1>3. ASSUME NEW ids \in SUBSET cands, T!StartRun(ids) PROVE Clocked' /\ FiresWhenDue
    <2> DEFINE new == T!NewRun(0, 0, ids)
               n == Len(runs)
    <2>1. new.plan = 0 /\ new.due = 0
      BY DEF T!NewRun
    <2>2. n \in Nat /\ runs' = Append(runs, new) /\ UNCHANGED <<now, plan, sess>>
      BY <1>3 DEF T!StartRun, LastIsOnly, ScheduleTypes
    <2> HIDE DEF new
    <2>3. Len(runs') = n + 1 /\ runs' = [r \in 1..n + 1 |-> IF r <= n THEN runs[r] ELSE new]
      BY <2>2, AppendRow DEF LastIsOnly, ScheduleTypes
    <2>4. \A r \in 1..n : runs'[r] = runs[r]
      BY <2>2, <2>3
    <2>5. runs'[n + 1] = new /\ \A r \in 1..n + 1 : r \in 1..n \/ r = n + 1
      BY <2>2, <2>3
    <2>6. \A r \in 1..n + 1 : r \in 1..n \/ (runs'[r].plan = 0 /\ runs'[r].due = 0)
      BY <2>1, <2>5
    <2>7. FiresWhenDue
      BY <2>1, <2>3, <2>5 DEF FiresWhenDue
    <2> QED BY <2>2, <2>3, <2>4, <2>6, <2>7, RunsClock
  <1>4. CASE T!SetAllowed
    <2>1. UNCHANGED <<now, plan, runs, sess>>
      BY <1>4 DEF T!SetAllowed
    <2> QED BY <1>0, <2>1 DEF Clocked, Upcoming, OnGrid
  <1> QED BY <1>1, <1>2, <1>3, <1>4 DEF T!User

LEMMA LoopClock ==
    ASSUME LastIsOnly, Clocked, NEW w \in Schedulers, T!Trigger(w) \/ T!Rollback(w)
    PROVE  Clocked' /\ FiresWhenDue
  <1>0. /\ Len(runs) \in Nat /\ (runs' = runs => FiresWhenDue)
        /\ Session(sess[w]) /\ sess[w].t \in Nat /\ now \in Nat
        /\ \A s \in sess[w].plan : plan[s].status = "active" /\ plan[s].next <= now
    <2>1. Len(runs) \in Nat /\ Session(sess[w])
      BY DEF LastIsOnly, ScheduleTypes
    <2>2. runs' = runs => FiresWhenDue
      BY <2>1 DEF FiresWhenDue
    <2> QED BY <2>1, <2>2 DEF Clocked
  <1>1. ASSUME NEW s \in Schedules, T!Claim(w, s) PROVE Clocked' /\ FiresWhenDue
    <2> DEFINE x == [T!Idle EXCEPT !.pc = "claimed", !.plan = {s}, !.t = now]
    <2>1. x.t = now /\ x.plan = {s}
      BY DEF T!Idle
    <2>2. sess' = [sess EXCEPT ![w] = x] /\ UNCHANGED <<now, plan, runs>>
             /\ plan[s].status = "active" /\ plan[s].next <= now
      BY <1>1 DEF T!Claim, T!Due
    <2> HIDE DEF x
    <2> QED BY <1>0, <2>1, <2>2, SessionClock
  <1>2. ASSUME T!Resolve(w) PROVE Clocked' /\ FiresWhenDue
    <2>1. PICK verdict, ids :
             sess' = [sess EXCEPT ![w].pc = "resolved", ![w].verdict = verdict, ![w].ids = ids]
      BY <1>2 DEF T!Resolve
    <2> DEFINE x == [sess[w] EXCEPT !.pc = "resolved", !.verdict = verdict, !.ids = ids]
    <2>2. sess' = [sess EXCEPT ![w] = x] /\ UNCHANGED <<now, plan, runs>>
      BY <1>2, <2>1 DEF T!Resolve
    <2>3. x.t = sess[w].t /\ x.plan = sess[w].plan
      BY <1>0 DEF Session
    <2> HIDE DEF x
    <2> QED BY <1>0, <2>2, <2>3, SessionClock
  <1>3. ASSUME T!FireNothing(w) PROVE Clocked' /\ FiresWhenDue
    <2>1. PICK s \in sess[w].plan, failed \in BOOLEAN :
             plan' = T!Settled(s, w, failed, plan[s].last)
      BY <1>3 DEF T!FireNothing
    <2> DEFINE st == IF failed THEN "failed"
                     ELSE IF plan[s].repeat = "once" THEN "completed" ELSE "active"
               nx == IF failed THEN T!Never
                     ELSE T!NextTime(plan[s].next, plan[s].repeat, sess[w].t)
               last1 == plan[s].last
               p == [plan[s] EXCEPT !.status = st, !.next = nx, !.last = last1]
    <2>2. plan' = [plan EXCEPT ![s] = p]
      BY <2>1 DEF T!Settled
    <2>3. \/ st = "failed" /\ nx = T!Never
          \/ /\ st = IF plan[s].repeat = "once" THEN "completed" ELSE "active"
             /\ nx = T!NextTime(plan[s].next, plan[s].repeat, sess[w].t)
      OBVIOUS
    <2>4. sess' = [sess EXCEPT ![w] = T!Idle] /\ runs' = runs /\ now' = now
      BY <1>3 DEF T!FireNothing
    <2> HIDE DEF st, nx, last1
    <2>5. Passed(s, p)
      BY <2>3, SettledIs
    <2> HIDE DEF p
    <2> QED BY <1>0, <2>2, <2>4, <2>5, TriggerClock
  <1>4. ASSUME T!FireRun(w) PROVE Clocked' /\ FiresWhenDue
    BY <1>4, FireMeets DEF FiresWhenDue
  <1>5. ASSUME T!Rollback(w) PROVE Clocked' /\ FiresWhenDue
    <2>1. sess' = [sess EXCEPT ![w] = T!Idle] /\ UNCHANGED <<now, plan, runs>>
      BY <1>5 DEF T!Rollback
    <2>2. T!Idle.t \in Nat /\ T!Idle.plan = {}
      BY DEF T!Idle
    <2> QED BY <1>0, <2>1, <2>2, SessionClock
  <1> QED BY <1>1, <1>2, <1>3, <1>4, <1>5 DEF T!Trigger

LEMMA NextKeepsClocked ==
    ASSUME LastIsOnly, Clocked, [Next]_vars
    PROVE  Clocked' /\ (FiresWhenDue \/ UNCHANGED scheduleVars)
  <1>1. CASE UNCHANGED scheduleVars
    <2>1. UNCHANGED <<now, plan, runs, sess>>
      BY <1>1 DEF scheduleVars
    <2> QED BY <1>1, <2>1 DEF Clocked, Upcoming, OnGrid
  <1>2. CASE T!Next
    <2>0. /\ Len(runs) \in Nat /\ runs = [r \in 1..Len(runs) |-> runs[r]]
          /\ (runs' = runs => FiresWhenDue)
      BY DEF LastIsOnly, ScheduleTypes, FiresWhenDue
    <2>1. CASE UNCHANGED <<now, plan, runs, sess>>
      BY <2>0, <2>1 DEF Clocked, Upcoming, OnGrid
    <2>2. CASE T!Tick
      <3>1. now' = now + 1 /\ now \in Nat /\ UNCHANGED <<plan, runs, sess>>
        BY <2>2 DEF T!Tick, Clocked
      <3>2. \A w \in Schedulers : sess[w].plan \subseteq Schedules
        BY DEF LastIsOnly, ScheduleTypes, Session
      <3>3. \A w \in Schedulers : \A s \in sess[w].plan : plan[s].next <= now'
        BY <3>1, <3>2 DEF Clocked
      <3> QED BY <2>0, <3>1, <3>3 DEF Clocked, Upcoming, OnGrid
    <2>3. ASSUME NEW r \in DOMAIN runs, T!EndRun(r) PROVE Clocked' /\ FiresWhenDue
      <3>1. r \in 1..Len(runs) /\ RunRow(runs[r])
        BY <2>0 DEF LastIsOnly, ScheduleTypes
      <3> DEFINE x == [runs[r] EXCEPT !.active = FALSE]
      <3>2. x.plan = runs[r].plan /\ x.due = runs[r].due
        BY <3>1 DEF RunRow
      <3>3. runs' = [runs EXCEPT ![r] = x] /\ UNCHANGED <<now, plan, sess>>
        BY <2>3 DEF T!EndRun
      <3> HIDE DEF x
      <3>4. Len(runs') = Len(runs) /\ DOMAIN runs = 1..Len(runs)
        BY <2>0, <3>3
      <3>5. runs'[r] = x /\ \A q \in 1..Len(runs) \ {r} : runs'[q] = runs[q]
        BY <3>1, <3>3, <3>4
      <3>6. \A q \in 1..Len(runs) : runs'[q].plan = runs[q].plan /\ runs'[q].due = runs[q].due
        BY <3>2, <3>5
      <3> QED BY <2>0, <3>3, <3>4, <3>6, RunsClock DEF FiresWhenDue
    <2>4. CASE T!CommitDeletion
      <3>1. runs' = [r \in DOMAIN runs |-> [runs[r] EXCEPT !.items = T!Left(r)]]
               /\ UNCHANGED <<now, plan, sess>>
        BY <2>4 DEF T!CommitDeletion
      <3>2. DOMAIN runs = 1..Len(runs)
        BY <2>0
      <3>3. Len(runs') = Len(runs)
        BY <2>0, <3>1, <3>2
      <3>4. ASSUME NEW r \in 1..Len(runs)
            PROVE  runs'[r].plan = runs[r].plan /\ runs'[r].due = runs[r].due
        <4>1. RunRow(runs[r]) /\ runs'[r] = [runs[r] EXCEPT !.items = T!Left(r)]
          BY <3>1, <3>2 DEF LastIsOnly, ScheduleTypes
        <4> QED BY <4>1 DEF RunRow
      <3> QED BY <2>0, <3>1, <3>3, <3>4, RunsClock DEF FiresWhenDue
    <2> QED BY <1>2, <2>0, <2>1, <2>2, <2>3, <2>4, UserClock, LoopClock
            DEF T!Next, T!Deletion, T!BeginReplace, T!BeginDelete, T!Sweep, T!Remove,
                T!AbortDeletion
  <1> QED BY <1>1, <1>2 DEF Next, vars

\* A plan starts a run only while it is active and due, for the occurrence
\* it is due for and never twice for the same one; the next one lies in the
\* future of it, on the wall clock of the first (triggerSchedule,
\* nextScheduleTime), whatever pauses, cancels or triggers meanwhile.
THEOREM RunsStartWhenDue == Spec => TriggersAreDue
  <1>1. LastIsOnly /\ Clocked /\ [Next]_vars =>
           [Len(runs') > Len(runs) /\ runs'[Len(runs')].plan # 0
              => T!Triggered(runs'[Len(runs')].plan)]_(T!vars)
    <2> SUFFICES ASSUME LastIsOnly, Clocked, [Next]_vars,
                        ~UNCHANGED T!vars
                 PROVE  FiresWhenDue
      BY DEF FiresWhenDue
    <2> QED BY NextKeepsClocked DEF scheduleVars, T!vars
  <1>2. LastIsOnly /\ Clocked /\ [Next]_vars => Clocked'
    BY NextKeepsClocked
  <1> QED BY <1>1, <1>2, ClockedInit, LastIsOnlyInit, NextKeepsLastIsOnly, PTL
          DEF Spec, TriggersAreDue, T!TriggersAreDue

-----------------------------------------------------------------------------
(* The allocation plan.  The walk through the snapshot, in whatever order  *)
(* the demands come, keeps every decision the best one.                    *)

Decided == Members \ todo

Assigned == {n \in Decided : decisions[n].demand # A!Nobody}
Sent(d) == {n \in Assigned : decisions[n].demand = d}
New(d) == {n \in Sent(d) : d \notin members[n].counted}

Snapshot ==
    /\ members \in [Members -> MemberOf]
    /\ DOMAIN demands \subseteq Demands
    /\ \A d \in DOMAIN demands : demands[d] \in DemandOf
    /\ todo \subseteq Members /\ left \subseteq DOMAIN demands
    /\ DOMAIN decisions = Decided

\* Members are decided in their order of arrival.
InOrder == \A n \in Decided, m \in todo : A!Before(n, m)

\* q is the last sequence of a demand: that of the last member sent to it.
IsLatest(d, q) ==
    IF Sent(d) = {} THEN q = demands[d].last
    ELSE /\ \E n \in Sent(d) : decisions[n].sequence = q
         /\ \A n \in Sent(d) : decisions[n].sequence <= q

\* The running totals are those of the decisions made.
Tally ==
    /\ supply \in [DOMAIN demands -> Int] /\ last \in [DOMAIN demands -> Int]
    /\ sequence = NextSequence + Cardinality(Assigned)
    /\ \A n \in Assigned : decisions[n].sequence \in Nat /\ decisions[n].sequence < sequence
    /\ \A d \in DOMAIN demands :
          /\ supply[d] = demands[d].supply + Cardinality(New(d))
          /\ IsLatest(d, last[d])

RankNow(m, d) == A!Rank(m, d, supply[d], last[d])

\* x is the best decision for m among the demands ds, as things stand.
BestAmong(m, x, ds) ==
    LET takers == {d \in ds : A!Takes(m, d)}
    IN IF takers # {}
       THEN /\ x.demand \in takers /\ x.reason = "allocated"
            /\ x.matched = A!Matched(m, x.demand)
            /\ x.order = RankNow(m, x.demand)
            /\ \A d \in takers \ {x.demand} : A!Less(RankNow(m, x.demand), RankNow(m, d))
            /\ x.sequence = sequence
       ELSE x = A!Wait(IF demands = <<>> THEN "no_active_mapping"
                       ELSE IF \A d \in ds : demands[d].state # "receiving"
                       THEN "no_receiving_demand" ELSE "required_tags_unavailable")

BestSoFar == \A m \in Members : A!First(m) => BestAmong(m, best, DOMAIN demands \ left)

AllPlaced == \A m \in Decided : A!Placed(m, decisions[m])

Walking == Snapshot /\ InOrder /\ Tally /\ BestSoFar /\ AllPlaced

\* Before the snapshot is taken nothing is decided.
Idle == members = <<>> /\ todo = {} /\ left = {} /\ DOMAIN decisions = {}

PlanInvariant == Idle \/ Walking

-----------------------------------------------------------------------------
(* The two orders.                                                         *)

Ranks == Int \X Int \X Int \X Int \X Int

\* The first place at which two ranks differ decides.
LEMMA LessIs ==
    ASSUME NEW o, NEW p
    PROVE  A!Less(o, p) <=>
              \/ o[1] < p[1]
              \/ o[1] = p[1] /\ o[2] < p[2]
              \/ o[1] = p[1] /\ o[2] = p[2] /\ o[3] < p[3]
              \/ o[1] = p[1] /\ o[2] = p[2] /\ o[3] = p[3] /\ o[4] < p[4]
              \/ o[1] = p[1] /\ o[2] = p[2] /\ o[3] = p[3] /\ o[4] = p[4] /\ o[5] < p[5]
  <1> DEFINE Differ(k) == o[k] < p[k] /\ \A j \in 1..k-1 : o[j] = p[j]
  <1>1. A!Less(o, p) <=> Differ(1) \/ Differ(2) \/ Differ(3) \/ Differ(4) \/ Differ(5)
    <2>1. 1..5 = {1, 2, 3, 4, 5}
      OBVIOUS
    <2>2. A!Less(o, p) <=> \E k \in 1..5 : Differ(k)
      BY DEF A!Less
    <2> HIDE DEF Differ
    <2> QED BY <2>1, <2>2
  <1>2. /\ 1..1-1 = {} /\ 1..2-1 = {1} /\ 1..3-1 = {1, 2} /\ 1..4-1 = {1, 2, 3}
        /\ 1..5-1 = {1, 2, 3, 4}
    OBVIOUS
  <1>3. Differ(1) <=> o[1] < p[1]
    BY <1>2
  <1>4. Differ(2) <=> o[1] = p[1] /\ o[2] < p[2]
    BY <1>2
  <1>5. Differ(3) <=> o[1] = p[1] /\ o[2] = p[2] /\ o[3] < p[3]
    BY <1>2
  <1>6. Differ(4) <=> o[1] = p[1] /\ o[2] = p[2] /\ o[3] = p[3] /\ o[4] < p[4]
    BY <1>2
  <1>7. Differ(5) <=> o[1] = p[1] /\ o[2] = p[2] /\ o[3] = p[3] /\ o[4] = p[4] /\ o[5] < p[5]
    BY <1>2
  <1> HIDE DEF Differ
  <1> QED BY <1>1, <1>3, <1>4, <1>5, <1>6, <1>7

\* One of two ranks that end differently comes before the other.
LEMMA LessIsTotal ==
    ASSUME NEW o \in Ranks, NEW p \in Ranks, o[5] # p[5]
    PROVE  A!Less(o, p) \/ A!Less(p, o)
  <1>1. /\ o[1] \in Int /\ o[2] \in Int /\ o[3] \in Int /\ o[4] \in Int /\ o[5] \in Int
        /\ p[1] \in Int /\ p[2] \in Int /\ p[3] \in Int /\ p[4] \in Int /\ p[5] \in Int
    BY DEF Ranks
  <1> QED BY <1>1, LessIs

\* The order of ranks is transitive.
LEMMA LessIsTransitive ==
    ASSUME NEW o \in Ranks, NEW p \in Ranks, NEW q \in Ranks, A!Less(o, p), A!Less(p, q)
    PROVE  A!Less(o, q)
  <1>1. /\ o[1] \in Int /\ o[2] \in Int /\ o[3] \in Int /\ o[4] \in Int /\ o[5] \in Int
        /\ p[1] \in Int /\ p[2] \in Int /\ p[3] \in Int /\ p[4] \in Int /\ p[5] \in Int
        /\ q[1] \in Int /\ q[2] \in Int /\ q[3] \in Int /\ q[4] \in Int /\ q[5] \in Int
    BY DEF Ranks
  <1> QED BY <1>1, LessIs

\* The instance counts with the Cardinality of FiniteSets.
LEMMA PlanCounts == ASSUME NEW S PROVE A!Cardinality(S) = Cardinality(S)
  BY DEF A!Cardinality, Cardinality

\* A rank is five integers, the last of which is the demand.
LEMMA RankIsRank ==
    ASSUME Snapshot, Tally, NEW m \in Members, NEW d \in DOMAIN demands
    PROVE  RankNow(m, d) \in Ranks /\ RankNow(m, d)[5] = d
  <1>1. A!Preferred(m, d) \in Nat
    <2> DEFINE wanted == A!Usable(m) \cap demands[d].preferred
    <2>1. wanted \in SUBSET Tags /\ IsFiniteSet(Tags)
      BY SnapshotAssumption DEF A!Usable
    <2> HIDE DEF wanted
    <2>2. IsFiniteSet(wanted)
      BY <2>1, FS_Subset
    <2>3. Cardinality(wanted) \in Nat
      BY <2>2, FS_CardinalityType
    <2> QED BY <2>3, PlanCounts DEF A!Preferred, wanted
  <1>2. d \in Int /\ demands[d].priority \in Int
    <2>1. d \in Demands /\ demands[d] \in DemandOf
      BY DEF Snapshot
    <2> QED BY <2>1, SnapshotAssumption
  <1>3. supply[d] \in Int /\ last[d] \in Int
    BY DEF Tally
  <1> QED BY <1>1, <1>2, <1>3 DEF RankNow, A!Rank, Ranks

\* Arrival is a strict total order.
LEMMA BeforeIsStrict ==
    ASSUME members \in [Members -> MemberOf], NEW m \in Members, NEW n \in Members
    PROVE  /\ A!Before(m, n) => ~A!Before(n, m)
           /\ m # n => A!Before(m, n) \/ A!Before(n, m)
  <1>1. members[m].created \in Int /\ members[n].created \in Int /\ m \in Int /\ n \in Int
    BY SnapshotAssumption
  <1> QED BY <1>1 DEF A!Before

\* One member is the first.
LEMMA OneFirst ==
    ASSUME Snapshot, NEW m \in Members, NEW n \in Members, A!First(m), A!First(n)
    PROVE  m = n
  BY BeforeIsStrict DEF Snapshot, A!First

-----------------------------------------------------------------------------
(* What was decided before a member.                                       *)

\* Who comes before a member is decided if the member is, or is the first.
LEMMA EarlierIsDecided ==
    ASSUME Snapshot, InOrder, NEW m \in Members, m \in Decided \/ A!First(m),
           NEW n \in Members, A!Before(n, m)
    PROVE  n \in Decided
  <1>1. CASE m \in Decided
    BY <1>1, BeforeIsStrict DEF Snapshot, InOrder, Decided
  <1>2. CASE A!First(m)
    BY <1>2 DEF A!First, Decided
  <1> QED BY <1>1, <1>2

\* For the first member, that is everybody who is decided.
LEMMA EarlierThanFirst ==
    ASSUME Snapshot, InOrder, NEW m \in Members, A!First(m)
    PROVE  /\ A!Earlier(m) = Assigned
           /\ \A d : A!SentTo(m, d) = Sent(d)
  <1>1. DOMAIN members = Members
    BY DEF Snapshot
  <1>2. A!Earlier(m) \subseteq Assigned
    BY <1>1, EarlierIsDecided DEF A!Earlier, Assigned
  <1>3. \A n \in Decided : A!Before(n, m)
    BY DEF InOrder, A!First
  <1>4. Assigned \subseteq A!Earlier(m)
    BY <1>1, <1>3 DEF A!Earlier, Assigned, Decided
  <1>5. A!Earlier(m) = Assigned
    BY <1>2, <1>4
  <1> QED BY <1>5 DEF A!SentTo, Sent

\* A set has one greatest integer.
LEMMA OneGreatest ==
    ASSUME NEW S \in SUBSET Int, NEW q \in S, \A y \in S : y <= q
    PROVE  A!Max(S) = q
  <1>1. A!Max(S) \in S /\ \A y \in S : A!Max(S) >= y
    BY DEF A!Max
  <1> DEFINE max == A!Max(S)
  <1>2. max \in S /\ max >= q /\ max <= q
    BY <1>1
  <1>3. max \in Int /\ q \in Int
    BY <1>2
  <1> HIDE DEF max
  <1>4. max = q
    BY <1>2, <1>3
  <1> QED BY <1>4 DEF max

\* The totals are those the first member is to be ranked with.
LEMMA TotalsAreForFirst ==
    ASSUME Snapshot, InOrder, Tally, NEW m \in Members, A!First(m), NEW d \in DOMAIN demands
    PROVE  A!RankFor(m, d) = RankNow(m, d)
  <1>1. A!SentTo(m, d) = Sent(d)
    BY EarlierThanFirst
  <1>2. A!SupplyFor(m, d) = supply[d]
    BY <1>1, PlanCounts DEF A!SupplyFor, Tally, New
  <1>3. A!LatestFor(m, d) = last[d]
    <2>1. CASE Sent(d) = {}
      BY <1>1, <2>1 DEF A!LatestFor, Tally, IsLatest
    <2>2. CASE Sent(d) # {}
      <3> DEFINE seqs == {decisions[n].sequence : n \in Sent(d)}
      <3>1. /\ seqs \in SUBSET Int /\ last[d] \in seqs
            /\ \A y \in seqs : y <= last[d]
        BY <2>2 DEF Tally, IsLatest, Sent
      <3> HIDE DEF seqs
      <3>2. A!Max(seqs) = last[d]
        BY <3>1, OneGreatest
      <3> QED BY <1>1, <2>2, <3>2 DEF A!LatestFor, seqs
    <2> QED BY <2>1, <2>2
  <1> QED BY <1>2, <1>3 DEF A!RankFor, RankNow

-----------------------------------------------------------------------------
(* One demand more.                                                        *)

Offer(m, d) == [demand |-> d, matched |-> A!Matched(m, d), order |-> RankNow(m, d),
                sequence |-> sequence, reason |-> "allocated"]

TakersIn(m, ds) == {d \in ds : A!Takes(m, d)}

\* The two cases of a decision.
LEMMA BestTaken ==
    ASSUME NEW m, NEW x, NEW ds, TakersIn(m, ds) # {}
    PROVE  BestAmong(m, x, ds) <=>
              /\ x.demand \in TakersIn(m, ds) /\ x.reason = "allocated"
              /\ x.matched = A!Matched(m, x.demand)
              /\ x.order = RankNow(m, x.demand)
              /\ \A d \in TakersIn(m, ds) \ {x.demand} :
                    A!Less(RankNow(m, x.demand), RankNow(m, d))
              /\ x.sequence = sequence
  BY DEF BestAmong, TakersIn

LEMMA BestWait ==
    ASSUME NEW m, NEW x, NEW ds, TakersIn(m, ds) = {}
    PROVE  BestAmong(m, x, ds) <=>
              x = A!Wait(IF demands = <<>> THEN "no_active_mapping"
                         ELSE IF \A d \in ds : demands[d].state # "receiving"
                         THEN "no_receiving_demand" ELSE "required_tags_unavailable")
  BY DEF BestAmong, TakersIn

\* A decision among demands names nobody if none of them takes the member.
LEMMA NobodyIfNone ==
    ASSUME Snapshot, NEW m, NEW x, NEW ds \in SUBSET DOMAIN demands, BestAmong(m, x, ds)
    PROVE  x.demand = A!Nobody <=> TakersIn(m, ds) = {}
  <1>1. CASE TakersIn(m, ds) = {}
    BY <1>1, BestWait DEF A!Wait
  <1>2. CASE TakersIn(m, ds) # {}
    <2>1. x.demand \in Demands
      BY <1>2, BestTaken DEF TakersIn, Snapshot
    <2> QED BY <2>1, <1>2, SnapshotAssumption DEF A!Nobody
  <1> QED BY <1>1, <1>2

\* A demand that does not take the member leaves the decision, but for the
\* reason to wait.
LEMMA NotTaken ==
    ASSUME Snapshot, NEW m \in Members, NEW ds \in SUBSET DOMAIN demands,
           NEW d \in DOMAIN demands, ~A!Takes(m, d), NEW x, BestAmong(m, x, ds)
    PROVE  BestAmong(m, IF x.demand = A!Nobody /\ demands[d].state = "receiving"
                        THEN A!Wait("required_tags_unavailable") ELSE x, ds \cup {d})
  <1> DEFINE y == IF x.demand = A!Nobody /\ demands[d].state = "receiving"
                  THEN A!Wait("required_tags_unavailable") ELSE x
  <1>1. TakersIn(m, ds \cup {d}) = TakersIn(m, ds)
    BY DEF TakersIn
  <1>2. demands # <<>>
    OBVIOUS
  <1>3. CASE TakersIn(m, ds) # {}
    <2>1. y = x
      BY <1>3, NobodyIfNone
    <2> HIDE DEF y
    <2>2. BestAmong(m, y, ds \cup {d})
      BY <1>1, <1>3, <2>1, BestTaken
    <2> QED BY <2>2 DEF y
  <1>4. CASE TakersIn(m, ds) = {}
    <2>1. x.demand = A!Nobody
      BY <1>4, NobodyIfNone
    <2>2. x = A!Wait(IF \A e \in ds : demands[e].state # "receiving"
                     THEN "no_receiving_demand" ELSE "required_tags_unavailable")
      BY <1>2, <1>4, BestWait
    <2>3. y = A!Wait(IF \A e \in ds \cup {d} : demands[e].state # "receiving"
                     THEN "no_receiving_demand" ELSE "required_tags_unavailable")
      BY <2>1, <2>2
    <2> HIDE DEF y
    <2>4. BestAmong(m, y, ds \cup {d})
      BY <1>1, <1>2, <1>4, <2>3, BestWait
    <2> QED BY <2>4 DEF y
  <1> QED BY <1>3, <1>4

\* A demand that takes the member gets it if it comes before the best so far.
LEMMA TakenOver ==
    ASSUME Snapshot, Tally, NEW m \in Members, NEW ds \in SUBSET DOMAIN demands,
           NEW d \in DOMAIN demands \ ds, A!Takes(m, d), NEW x, BestAmong(m, x, ds),
           x.demand = A!Nobody \/ A!Less(RankNow(m, d), x.order)
    PROVE  BestAmong(m, Offer(m, d), ds \cup {d})
  <1>1. TakersIn(m, ds \cup {d}) = TakersIn(m, ds) \cup {d}
    BY DEF TakersIn
  <1>2. \A e \in TakersIn(m, ds) : A!Less(RankNow(m, d), RankNow(m, e))
    <2>1. CASE TakersIn(m, ds) = {}
      BY <2>1
    <2>2. CASE TakersIn(m, ds) # {}
      <3>1. x.demand \in TakersIn(m, ds) /\ A!Less(RankNow(m, d), RankNow(m, x.demand))
        BY <2>2, BestTaken, NobodyIfNone
      <3>2. ASSUME NEW e \in TakersIn(m, ds), e # x.demand
            PROVE  A!Less(RankNow(m, d), RankNow(m, e))
        <4>1. A!Less(RankNow(m, x.demand), RankNow(m, e))
          BY <2>2, <3>2, BestTaken
        <4>2. x.demand \in DOMAIN demands /\ e \in DOMAIN demands
          BY <3>1, <3>2 DEF TakersIn
        <4>3. /\ RankNow(m, d) \in Ranks /\ RankNow(m, x.demand) \in Ranks
              /\ RankNow(m, e) \in Ranks
          BY <4>2, RankIsRank
        <4> QED BY <3>1, <4>1, <4>3, LessIsTransitive
      <3> QED BY <3>1, <3>2
    <2> QED BY <2>1, <2>2
  <1> DEFINE y == Offer(m, d)
  <1>3. /\ y.demand = d /\ y.reason = "allocated" /\ y.matched = A!Matched(m, d)
        /\ y.order = RankNow(m, d) /\ y.sequence = sequence
    BY DEF Offer
  <1> HIDE DEF y
  <1>4. BestAmong(m, y, ds \cup {d})
    BY <1>1, <1>2, <1>3, BestTaken
  <1> QED BY <1>4 DEF y

\* Otherwise the best so far keeps it.
LEMMA NotTakenOver ==
    ASSUME Snapshot, Tally, NEW m \in Members, NEW ds \in SUBSET DOMAIN demands,
           NEW d \in DOMAIN demands \ ds, A!Takes(m, d), NEW x, BestAmong(m, x, ds),
           x.demand # A!Nobody, ~A!Less(RankNow(m, d), x.order)
    PROVE  BestAmong(m, x, ds \cup {d})
  <1>1. TakersIn(m, ds \cup {d}) = TakersIn(m, ds) \cup {d}
    BY DEF TakersIn
  <1>2. TakersIn(m, ds) # {}
    BY NobodyIfNone
  <1>3. x.demand \in TakersIn(m, ds) /\ x.order = RankNow(m, x.demand)
    BY <1>2, BestTaken
  <1>4. A!Less(RankNow(m, x.demand), RankNow(m, d))
    <2>1. x.demand \in DOMAIN demands /\ x.demand # d
      BY <1>3 DEF TakersIn
    <2>2. /\ RankNow(m, d) \in Ranks /\ RankNow(m, d)[5] = d
          /\ RankNow(m, x.demand) \in Ranks /\ RankNow(m, x.demand)[5] = x.demand
      BY <2>1, RankIsRank
    <2> QED BY <1>3, <2>1, <2>2, LessIsTotal
  <1> QED BY <1>1, <1>2, <1>3, <1>4, BestTaken

-----------------------------------------------------------------------------
(* Every step.                                                             *)

\* The facts of a snapshot.
LEMMA SnapshotFacts ==
    ASSUME UNCHANGED <<members, demands>>, NEW m, NEW d
    PROVE  /\ A!Takes(m, d)' = A!Takes(m, d) /\ A!Matched(m, d)' = A!Matched(m, d)
           /\ A!Preferred(m, d)' = A!Preferred(m, d)
           /\ \A n : A!Before(m, n)' = A!Before(m, n)
  BY DEF A!Takes, A!Matched, A!Preferred, A!Usable, A!Before

\* A decision is what it should be as long as those before it stay.
LEMMA PlacedStays ==
    ASSUME UNCHANGED <<members, demands>>, NEW m, NEW x, A!Placed(m, x),
           A!Earlier(m)' = A!Earlier(m),
           \A n \in A!Earlier(m) : decisions'[n] = decisions[n]
    PROVE  A!Placed(m, x)'
  <1>1. \A d : A!SentTo(m, d)' = A!SentTo(m, d)
    BY DEF A!SentTo
  <1>2. \A d : A!SupplyFor(m, d)' = A!SupplyFor(m, d)
    BY <1>1 DEF A!SupplyFor
  <1>3. ASSUME NEW d PROVE A!LatestFor(m, d)' = A!LatestFor(m, d)
    <2> DEFINE old == {decisions[n].sequence : n \in A!SentTo(m, d)}
               new == {decisions'[n].sequence : n \in A!SentTo(m, d)'}
    <2>1. new = old
      BY <1>1 DEF A!SentTo
    <2>2. A!Max(new) = A!Max(old)
      BY <2>1
    <2> HIDE DEF old, new
    <2> QED BY <1>1, <2>2 DEF A!LatestFor, old, new
  <1>4. \A d : A!RankFor(m, d)' = A!RankFor(m, d)
    BY <1>2, <1>3, SnapshotFacts DEF A!RankFor, A!Rank
  <1> QED BY <1>4, SnapshotFacts DEF A!Placed

LEMMA ConsiderKeeps ==
    ASSUME Walking, NEW m \in Members, NEW d \in Demands, A!Consider(m, d)
    PROVE  Walking'
  <1>1. /\ A!First(m) /\ d \in left /\ left' = left \ {d}
        /\ UNCHANGED <<members, demands, supply, last, sequence, todo, decisions>>
    BY DEF A!Consider
  <1>2. Snapshot'
    BY <1>1 DEF Walking, Snapshot, Decided
  <1>3. InOrder'
    BY <1>1 DEF Walking, InOrder, Decided, A!Before
  <1>4. Tally'
    <2>1. Assigned' = Assigned
      BY <1>1 DEF Assigned, Decided
    <2>2. \A e : Sent(e)' = Sent(e) /\ New(e)' = New(e)
      BY <1>1, <2>1 DEF Sent, New
    <2> QED BY <1>1, <2>1, <2>2 DEF Walking, Tally, IsLatest
  <1>5. AllPlaced'
    <2>1. \A n : A!Earlier(n)' = A!Earlier(n)
      BY <1>1, SnapshotFacts DEF A!Earlier
    <2> QED BY <1>1, <2>1, PlacedStays DEF Walking, AllPlaced, Decided
  <1> DEFINE ds == DOMAIN demands \ left
  <1>6. BestAmong(m, best', ds \cup {d})
    <2>1. /\ Snapshot /\ Tally /\ ds \in SUBSET DOMAIN demands /\ d \in DOMAIN demands \ ds
          /\ BestAmong(m, best, ds)
      BY <1>1 DEF Walking, Snapshot, BestSoFar
    <2>2. best' = IF A!Takes(m, d) /\ (best.demand = A!Nobody
                                         \/ A!Less(RankNow(m, d), best.order))
                  THEN Offer(m, d)
                  ELSE IF best.demand = A!Nobody /\ demands[d].state = "receiving"
                  THEN A!Wait("required_tags_unavailable") ELSE best
      BY DEF A!Consider, Offer, RankNow
    <2> HIDE DEF ds
    <2>3. CASE ~A!Takes(m, d)
      BY <2>1, <2>2, <2>3, NotTaken
    <2>4. CASE A!Takes(m, d) /\ (best.demand = A!Nobody
                                   \/ A!Less(RankNow(m, d), best.order))
      BY <2>1, <2>2, <2>4, TakenOver
    <2>5. CASE A!Takes(m, d) /\ best.demand # A!Nobody
                 /\ ~A!Less(RankNow(m, d), best.order)
      BY <2>1, <2>2, <2>5, NotTakenOver
    <2> QED BY <2>3, <2>4, <2>5
  <1>7. BestSoFar'
    <2> SUFFICES ASSUME NEW n \in Members, A!First(n)'
                 PROVE  BestAmong(n, best, DOMAIN demands \ left)'
      BY DEF BestSoFar
    <2>1. A!First(n)
      BY <1>1 DEF A!First, A!Before
    <2>2. n = m
      BY <1>1, <2>1, OneFirst DEF Walking
    <2>3. DOMAIN demands' \ left' = ds \cup {d}
      BY <1>1 DEF Walking, Snapshot
    <2> QED BY <1>1, <1>6, <2>2, <2>3
            DEF BestAmong, A!Takes, A!Usable, A!Matched, RankNow, A!Rank, A!Preferred
  <1> QED BY <1>2, <1>3, <1>4, <1>5, <1>7 DEF Walking

\* A snapshot to begin with.
LEMMA StartKeeps ==
    ASSUME PlanInvariant, A!Start
    PROVE  Walking'
  <1>1. /\ members' \in [Members -> MemberOf]
        /\ DOMAIN demands' \subseteq Demands
        /\ \A d \in DOMAIN demands' : demands'[d] \in DemandOf
        /\ supply' = [d \in DOMAIN demands' |-> demands'[d].supply]
        /\ last' = [d \in DOMAIN demands' |-> demands'[d].last]
        /\ sequence' = NextSequence /\ todo' = Members /\ left' = DOMAIN demands'
        /\ best' = A!Undecided(demands')
    <2>1. demands' \in UNION {[d -> DemandOf] : d \in SUBSET Demands}
      BY DEF A!Start
    <2>2. PICK ds \in SUBSET Demands : demands' \in [ds -> DemandOf]
      BY <2>1
    <2> QED BY <2>2 DEF A!Start
  <1>2. DOMAIN decisions' = {} /\ members = <<>>
    <2>1. members = <<>> /\ decisions' = decisions
      BY DEF A!Start
    <2>2. CASE Walking
      <3>1. DOMAIN members = Members /\ DOMAIN decisions \subseteq Members
        BY <2>2 DEF Walking, Snapshot, Decided
      <3>2. DOMAIN members = {}
        BY <2>1
      <3> QED BY <2>1, <3>1, <3>2
    <2> QED BY <2>1, <2>2 DEF PlanInvariant, Idle
  <1>3. Decided' = {} /\ Assigned' = {}
    BY <1>1 DEF Decided, Assigned
  <1>4. Snapshot'
    BY <1>1, <1>2, <1>3 DEF Snapshot
  <1>5. InOrder' /\ AllPlaced'
    BY <1>3 DEF InOrder, AllPlaced
  <1>6. Tally'
    <2>1. \A d : Sent(d)' = {} /\ New(d)' = {}
      BY <1>3 DEF Sent, New
    <2>2. Cardinality({}) = 0
      BY FS_EmptySet
    <2>3. \A d \in DOMAIN demands' : demands'[d].supply \in Int /\ demands'[d].last \in Int
      BY <1>1, SnapshotAssumption
    <2>4. /\ supply' \in [DOMAIN demands' -> Int] /\ last' \in [DOMAIN demands' -> Int]
      BY <1>1, <2>3
    <2>5. sequence' = NextSequence + Cardinality(Assigned')
      BY <1>1, <1>3, <2>2, SnapshotAssumption
    <2>6. \A d \in DOMAIN demands' : supply'[d] = demands'[d].supply + Cardinality(New(d)')
      <3> SUFFICES ASSUME NEW d \in DOMAIN demands'
                   PROVE  supply'[d] = demands'[d].supply + Cardinality(New(d)')
        OBVIOUS
      <3>1. supply'[d] = demands'[d].supply /\ demands'[d].supply \in Int
        BY <1>1, <2>3
      <3>2. Cardinality(New(d)') = 0
        BY <2>1, <2>2
      <3> QED BY <3>1, <3>2
    <2>7. \A d \in DOMAIN demands' : last'[d] = demands'[d].last
      BY <1>1
    <2> QED BY <1>3, <2>1, <2>4, <2>5, <2>6, <2>7 DEF Tally, IsLatest
  <1>7. BestSoFar'
    <2> SUFFICES ASSUME NEW n \in Members
                 PROVE  BestAmong(n, best, DOMAIN demands \ left)'
      BY DEF BestSoFar
    <2>1. DOMAIN demands' \ left' = {}
      BY <1>1
    <2> QED BY <1>1, <2>1 DEF BestAmong, A!Undecided
  <1> QED BY <1>4, <1>5, <1>6, <1>7 DEF Walking

\* The decision for the member at hand, all demands considered, is the one
\* it should be.
LEMMA FirstIsPlaced ==
    ASSUME Walking, NEW m \in Members, A!First(m), left = {}
    PROVE  A!Placed(m, best)
  <1>1. BestAmong(m, best, DOMAIN demands)
    BY DEF Walking, BestSoFar
  <1>2. \A d \in DOMAIN demands : A!RankFor(m, d) = RankNow(m, d)
    BY TotalsAreForFirst DEF Walking
  <1>3. sequence = NextSequence + A!Cardinality(A!Earlier(m))
    BY EarlierThanFirst, PlanCounts DEF Walking, Tally
  <1> QED BY <1>1, <1>2, <1>3 DEF BestAmong, A!Placed

\* Who is decided is decided for good, and so is the member at hand.
LEMMA DecideMeets ==
    ASSUME Walking, NEW m \in Members, A!Decide(m)
    PROVE  /\ A!First(m) /\ left = {} /\ m \in todo /\ UNCHANGED <<members, demands>>
           /\ todo' = todo \ {m} /\ left' = DOMAIN demands /\ best' = A!Undecided(demands)
           /\ Decided' = Decided \cup {m} /\ DOMAIN decisions' = Decided'
           /\ decisions'[m] = best /\ \A n \in Decided : decisions'[n] = decisions[n]
  <1>1. /\ A!First(m) /\ left = {} /\ m \in todo /\ UNCHANGED <<members, demands>>
        /\ todo' = todo \ {m} /\ left' = DOMAIN demands /\ best' = A!Undecided(demands)
        /\ decisions' = [n \in DOMAIN decisions \cup {m} |->
                           IF n = m THEN best ELSE decisions[n]]
    BY DEF A!Decide, A!First
  <1>2. DOMAIN decisions = Decided /\ m \notin Decided
    BY <1>1 DEF Walking, Snapshot, Decided
  <1>3. Decided' = Decided \cup {m}
    BY <1>1 DEF Decided
  <1> QED BY <1>1, <1>2, <1>3

\* The totals without and with an assignment.
LEMMA DecideTallies ==
    ASSUME Walking, NEW m \in Members, A!Decide(m)
    PROVE  Tally'
  <1>1. /\ A!First(m) /\ left = {} /\ UNCHANGED <<members, demands>>
        /\ Decided' = Decided \cup {m} /\ m \notin Decided
        /\ decisions'[m] = best /\ \A n \in Decided : decisions'[n] = decisions[n]
    BY DecideMeets DEF Decided
  <1>2. Tally /\ Snapshot /\ BestAmong(m, best, DOMAIN demands)
    BY <1>1 DEF Walking, BestSoFar
  <1>3. /\ IsFiniteSet(Assigned) /\ Cardinality(Assigned) \in Nat /\ m \notin Assigned
        /\ \A d : /\ m \notin Sent(d) /\ m \notin New(d)
                  /\ IsFiniteSet(New(d)) /\ Cardinality(New(d)) \in Nat
    <2>1. Assigned \in SUBSET Members /\ \A d : New(d) \in SUBSET Members
      BY DEF Assigned, Decided, New, Sent
    <2>2. IsFiniteSet(Assigned) /\ \A d : IsFiniteSet(New(d))
      BY <2>1, SnapshotAssumption, FS_Subset
    <2> QED BY <1>1, <2>2, FS_CardinalityType DEF Assigned, New, Sent
  <1>4. CASE best.demand = A!Nobody
    <2>1. UNCHANGED <<supply, last, sequence>>
      BY <1>4 DEF A!Decide
    <2>2. Assigned' = Assigned
      BY <1>1, <1>4 DEF Assigned
    <2>3. \A n \in Assigned : decisions'[n] = decisions[n]
      BY <1>1 DEF Assigned
    <2>4. \A d : Sent(d)' = Sent(d) /\ New(d)' = New(d)
      BY <1>1, <2>2, <2>3 DEF Sent, New
    <2>5. \A d \in DOMAIN demands : IsLatest(d, last[d])'
      <3> SUFFICES ASSUME NEW d \in DOMAIN demands PROVE IsLatest(d, last[d])'
        BY <1>1
      <3>1. IsLatest(d, last[d])
        BY <1>2 DEF Tally
      <3>2. \A n \in Sent(d) : decisions'[n] = decisions[n]
        BY <2>3 DEF Sent
      <3> QED BY <1>1, <2>1, <2>4, <3>1, <3>2 DEF IsLatest
    <2> QED BY <1>1, <1>2, <2>1, <2>2, <2>3, <2>4, <2>5 DEF Tally
  <1>5. CASE best.demand # A!Nobody
    <2>1. PICK b \in DOMAIN demands : b = best.demand /\ best.sequence = sequence
      <3>1. TakersIn(m, DOMAIN demands) # {}
        BY <1>2, <1>5, NobodyIfNone
      <3> QED BY <1>2, <3>1, BestTaken DEF TakersIn
    <2>2. /\ supply' = [supply EXCEPT ![b] = A!Supplied(m, b)]
          /\ last' = [last EXCEPT ![b] = sequence]
          /\ sequence' = sequence + 1
      BY <1>5, <2>1 DEF A!Decide
    <2>3. Assigned' = Assigned \cup {m}
      BY <1>1, <1>5 DEF Assigned
    <2>4. \A n \in Assigned : decisions'[n] = decisions[n]
      BY <1>1 DEF Assigned
    <2>5. Sent(b)' = Sent(b) \cup {m} /\ \A d : d # b => Sent(d)' = Sent(d)
      BY <1>1, <2>1, <2>3, <2>4 DEF Sent
    <2>6. /\ New(b)' = IF b \in members[m].counted THEN New(b) ELSE New(b) \cup {m}
          /\ \A d : d # b => New(d)' = New(d)
      BY <1>1, <2>5 DEF New
    <2>7. sequence \in Nat /\ sequence' = NextSequence + Cardinality(Assigned')
      <3>1. Cardinality(Assigned') = Cardinality(Assigned) + 1
        BY <1>3, <2>3, FS_AddElement
      <3>2. sequence = NextSequence + Cardinality(Assigned)
        BY <1>2 DEF Tally
      <3> QED BY <1>3, <2>2, <3>1, <3>2, SnapshotAssumption
    <2>8. \A n \in Assigned' : decisions'[n].sequence \in Nat
                                 /\ decisions'[n].sequence < sequence'
      BY <1>1, <1>2, <2>1, <2>2, <2>3, <2>4, <2>7 DEF Tally
    <2>9. ASSUME NEW d \in DOMAIN demands
          PROVE  /\ supply'[d] = demands[d].supply + Cardinality(New(d)')
                 /\ supply'[d] \in Int
      <3>1. /\ supply[d] = demands[d].supply + Cardinality(New(d)) /\ supply[d] \in Int
            /\ supply \in [DOMAIN demands -> Int]
        BY <1>2 DEF Tally
      <3>2. demands[d].supply \in Int
        BY <1>2, SnapshotAssumption DEF Snapshot
      <3>3. CASE d # b
        BY <2>2, <2>6, <3>1, <3>3
      <3>4. CASE d = b /\ d \in members[m].counted
        BY <2>2, <2>6, <3>1, <3>4 DEF A!Supplied
      <3>5. CASE d = b /\ d \notin members[m].counted
        <4>1. supply'[d] = supply[d] + 1
          BY <2>2, <3>1, <3>5 DEF A!Supplied
        <4>2. New(d)' = New(d) \cup {m}
          BY <2>6, <3>5
        <4>3. Cardinality(New(d)') = Cardinality(New(d)) + 1
          BY <1>3, <4>2, FS_AddElement
        <4> QED BY <1>3, <3>1, <3>2, <4>1, <4>3
      <3> QED BY <3>3, <3>4, <3>5
    <2>10. ASSUME NEW d \in DOMAIN demands
           PROVE  IsLatest(d, last[d])'
      <3>1. IsLatest(d, last[d]) /\ last \in [DOMAIN demands -> Int]
        BY <1>2 DEF Tally
      <3>2. CASE d # b
        <4>1. Sent(d)' = Sent(d) /\ last'[d] = last[d]
          BY <2>2, <2>5, <3>1, <3>2
        <4>2. \A n \in Sent(d) : decisions'[n] = decisions[n]
          BY <2>4 DEF Sent
        <4> QED BY <1>1, <3>1, <4>1, <4>2 DEF IsLatest
      <3>3. CASE d = b
        <4>1. Sent(d)' = Sent(d) \cup {m} /\ last'[d] = sequence
          BY <2>1, <2>2, <2>5, <3>1, <3>3
        <4>2. \A n \in Sent(d) : decisions'[n].sequence <= sequence
          BY <1>2, <2>4, <2>7 DEF Sent, Tally
        <4> QED BY <1>1, <2>1, <2>7, <4>1, <4>2 DEF IsLatest
      <3> QED BY <3>2, <3>3
    <2>11. /\ supply' \in [DOMAIN demands -> Int] /\ last' \in [DOMAIN demands -> Int]
      <3>1. supply \in [DOMAIN demands -> Int] /\ last \in [DOMAIN demands -> Int]
        BY <1>2 DEF Tally
      <3>2. last' \in [DOMAIN demands -> Int]
        BY <2>2, <2>7, <3>1
      <3>3. supply'[b] = A!Supplied(m, b) /\ A!Supplied(m, b) \in Int
        BY <2>2, <2>9, <3>1
      <3> QED BY <2>2, <3>1, <3>2, <3>3
    <2> QED BY <1>1, <2>7, <2>8, <2>9, <2>10, <2>11 DEF Tally
  <1> QED BY <1>4, <1>5

LEMMA DecideKeeps ==
    ASSUME Walking, NEW m \in Members, A!Decide(m)
    PROVE  Walking'
  <1>1. /\ A!First(m) /\ left = {} /\ m \in todo /\ UNCHANGED <<members, demands>>
        /\ todo' = todo \ {m} /\ left' = DOMAIN demands /\ best' = A!Undecided(demands)
        /\ Decided' = Decided \cup {m} /\ DOMAIN decisions' = Decided'
        /\ decisions'[m] = best /\ \A n \in Decided : decisions'[n] = decisions[n]
    BY DecideMeets
  <1>2. Snapshot'
    BY <1>1 DEF Walking, Snapshot
  <1>3. InOrder'
    <2>1. ASSUME NEW n \in todo, n # m PROVE A!Before(m, n)
      <3>1. n \in Members /\ members \in [Members -> MemberOf] /\ ~A!Before(n, m)
        BY <1>1 DEF Walking, Snapshot, A!First
      <3> QED BY <2>1, <3>1, BeforeIsStrict
    <2>2. \A n \in Decided', k \in todo' : A!Before(n, k)
      BY <1>1, <2>1 DEF Walking, InOrder
    <2> QED BY <1>1, <2>2, SnapshotFacts DEF InOrder
  <1>4. AllPlaced'
    <2> SUFFICES ASSUME NEW n \in Decided', NEW x, x = decisions'[n]
                 PROVE  A!Placed(n, x)'
      BY DEF AllPlaced
    <2>1. n \in Members /\ (n \in Decided \/ n = m)
      BY <1>1 DEF Decided
    <2>2. A!Placed(n, x)
      <3>1. A!Placed(m, best)
        BY <1>1, FirstIsPlaced
      <3> QED BY <1>1, <2>1, <3>1 DEF Walking, AllPlaced
    <2>3. \A k \in Members : A!Before(k, n) => k \in Decided
      BY <1>1, <2>1, EarlierIsDecided DEF Walking
    <2>4. DOMAIN members = Members
      BY DEF Walking, Snapshot
    <2>5. \A k \in A!Earlier(n) : decisions'[k] = decisions[k]
      BY <1>1, <2>3, <2>4 DEF A!Earlier
    <2>6. A!Earlier(n)' = A!Earlier(n)
      BY <1>1, <2>3, <2>4, SnapshotFacts DEF A!Earlier
    <2> QED BY <1>1, <2>2, <2>5, <2>6, PlacedStays
  <1>5. BestSoFar'
    <2> SUFFICES ASSUME NEW n \in Members
                 PROVE  BestAmong(n, best, DOMAIN demands \ left)'
      BY DEF BestSoFar
    <2>1. DOMAIN demands' \ left' = {}
      BY <1>1
    <2> QED BY <1>1, <2>1 DEF BestAmong, A!Undecided
  <1> QED BY <1>2, <1>3, <1>4, <1>5, DecideTallies DEF Walking

-----------------------------------------------------------------------------
(* The theorem.                                                            *)

LEMMA PlanInit == Init => PlanInvariant
  <1> SUFFICES ASSUME Init PROVE Idle
    BY DEF PlanInvariant
  <1>1. A!Init
    BY DEF Init
  <1>2. DOMAIN <<>> = {}
    OBVIOUS
  <1> QED BY <1>1, <1>2 DEF A!Init, Idle

LEMMA NextKeepsPlan == PlanInvariant /\ [Next]_vars => PlanInvariant'
  <1> SUFFICES ASSUME PlanInvariant, [Next]_vars PROVE PlanInvariant'
    OBVIOUS
  <1>1. CASE UNCHANGED orderVars
    <2>1. UNCHANGED <<members, demands, supply, last, sequence, todo, left, best, decisions>>
      BY <1>1 DEF orderVars
    <2>2. ASSUME Idle PROVE Idle'
      BY <2>1, <2>2 DEF Idle
    <2>3. ASSUME Walking PROVE Walking'
      <3>1. Snapshot'
        BY <2>1, <2>3 DEF Walking, Snapshot, Decided
      <3>2. InOrder'
        BY <2>1, <2>3 DEF Walking, InOrder, Decided, A!Before
      <3>3. Assigned' = Assigned
        BY <2>1 DEF Assigned, Decided
      <3>4. \A d : Sent(d)' = Sent(d) /\ New(d)' = New(d)
        BY <2>1, <3>3 DEF Sent, New
      <3>5. Tally'
        BY <2>1, <2>3, <3>3, <3>4 DEF Walking, Tally, IsLatest
      <3>6. AllPlaced'
        <4>1. \A n : A!Earlier(n)' = A!Earlier(n)
          BY <2>1, SnapshotFacts DEF A!Earlier
        <4> QED BY <2>1, <2>3, <4>1, PlacedStays DEF Walking, AllPlaced, Decided
      <3>7. BestSoFar'
        <4> SUFFICES ASSUME NEW n \in Members, A!First(n)'
                     PROVE  BestAmong(n, best, DOMAIN demands \ left)'
          BY DEF BestSoFar
        <4>1. A!First(n)
          BY <2>1 DEF A!First, A!Before
        <4>2. BestAmong(n, best, DOMAIN demands \ left)
          BY <2>3, <4>1 DEF Walking, BestSoFar
        <4>3. \A d : /\ RankNow(n, d)' = RankNow(n, d) /\ A!Takes(n, d)' = A!Takes(n, d)
                     /\ A!Matched(n, d)' = A!Matched(n, d)
          BY <2>1, SnapshotFacts DEF RankNow, A!Rank
        <4> QED BY <2>1, <4>2, <4>3 DEF BestAmong
      <3> QED BY <3>1, <3>2, <3>5, <3>6, <3>7 DEF Walking
    <2> QED BY <2>2, <2>3 DEF PlanInvariant
  <1>2. CASE A!Next
    <2>1. CASE A!Start
      BY <2>1, StartKeeps DEF PlanInvariant
    <2>2. ASSUME NEW m \in Members, A!Decide(m) \/ \E d \in Demands : A!Consider(m, d)
          PROVE  PlanInvariant'
      <3>1. A!First(m)
        BY <2>2 DEF A!Decide, A!Consider
      <3>2. Walking
        BY <3>1 DEF PlanInvariant, Idle, A!First
      <3> QED BY <2>2, <3>2, DecideKeeps, ConsiderKeeps DEF PlanInvariant
    <2> QED BY <1>2, <2>1, <2>2 DEF A!Next
  <1> QED BY <1>1, <1>2 DEF Next, vars

\* expectedAllocation: whatever the order of the demands, every member is
\* given the demand that is best for it once all earlier members are placed,
\* or waits, for the reason stated, if no demand takes it.
THEOREM ExpectedPlanIsBest == Spec => []PlanIsBest
  <1>1. PlanInvariant => PlanIsBest
    <2> SUFFICES ASSUME PlanInvariant, NEW m \in DOMAIN decisions
                 PROVE  A!Placed(m, decisions[m])
      BY DEF PlanIsBest, A!PlanIsBest
    <2>1. Walking
      BY DEF PlanInvariant, Idle
    <2> QED BY <2>1 DEF Walking, Snapshot, AllPlaced
  <1> QED BY <1>1, PlanInit, NextKeepsPlan, PTL DEF Spec
===============================================================================
