------------------------------- MODULE Imports -------------------------------
(***************************************************************************)
(* The resume import (imports.go): one database transaction that upserts   *)
(* applications, installs PDF files on disk and starts a run, and the      *)
(* processing items of earlier imports that go on meanwhile.  The          *)
(* transaction and the file system are not atomic together: the module     *)
(* keeps both, the process may die between any two steps, and the client   *)
(* may leave while the commit is on its way.  Each import of the model     *)
(* brings one row and at most one file.                                    *)
(***************************************************************************)
EXTENDS Naturals, FiniteSets

CONSTANTS Resumes,        \* rows of core_resume, by apply_id
          People,         \* rows of core_candidate, by identity_hash
          MaxImports,     \* bound: import requests
          MaxFaults       \* bound: crashes, broken connections, failing steps

Import == 1..MaxImports

VARIABLES
    app,        \* core_resume (file: the import that brought it; old: the ones before,
                \* which the row does not keep) and its application
    decisions,  \* core_agentdispatchdecision: workflow, resume, content assessed
    disk,       \* name -> content of the files under MEDIA_ROOT/resumes
    rev,        \* core_candidateworkflow.revision of each person
    item,       \* the scope item of the run each import starts
    imp,        \* the open import; an advisory lock admits one
    count,      \* imports so far
    dead, lost, \* imports cut by a crash; imports whose commit got no answer
    faults

vars == <<app, decisions, disk, rev, item, imp, count, dead, lost, faults>>

NoFile == 0
NoRow == [owner |-> {}, file |-> NoFile, old |-> {}, status |-> "pending"]
NoItem == [st |-> "none", person |-> {}, rev |-> 0, resume |-> {}, file |-> NoFile, sum |-> 0]
NoImport == [pc |-> "idle", resume |-> {}, person |-> {}, pdf |-> FALSE, backup |-> 0]

Init ==
    /\ app = [r \in Resumes |-> NoRow]
    /\ decisions = {}
    /\ disk = <<>>
    /\ rev = [p \in People |-> 0]
    /\ item = [n \in Import |-> NoItem]
    /\ imp = NoImport
    /\ count = 0
    /\ dead = {} /\ lost = {}
    /\ faults = 0

-----------------------------------------------------------------------------
(* Helpers.                                                                *)

(* Mutant: the file keeps the name it has in the package. *)
PackageFilename(n) == 1

(* immutableResumeFilename: a random prefix, so every import makes a new   *)
(* physical file.                                                          *)
ResumeFilename(n) == n

With(f, name, content) ==
    [x \in DOMAIN f \cup {name} |-> IF x = name THEN content ELSE f[x]]

Without(f, name) == [x \in DOMAIN f \ {name} |-> f[x]]

Fault == faults < MaxFaults /\ faults' = faults + 1

(* Decisions, attempts or an application that is no longer pending. *)
HasHistory(r) == app[r].status # "pending" \/ \E d \in decisions : d.resume = r

Name == ResumeFilename(count)

-----------------------------------------------------------------------------
(* The import.                                                             *)

(* The row is matched to a person and, by its apply_id, to a resume; a     *)
(* resume with a history does not change hands.                            *)
Begin(r, p, pdf) ==
    /\ imp.pc = "idle" /\ count < MaxImports
    /\ app[r].owner \subseteq {p} \/ ~HasHistory(r)
    /\ count' = count + 1
    /\ imp' = [NoImport EXCEPT !.pc = "rows", !.resume = {r}, !.person = {p}, !.pdf = pdf]
    /\ UNCHANGED <<app, decisions, disk, rev, item, dead, lost, faults>>

(* stagedFiles.close of an import that did not commit. *)
Restored(files) ==
    IF imp.pc # "installed" \/ ~imp.pdf THEN files
    ELSE IF imp.backup # 0 THEN With(files, Name, imp.backup)
    ELSE Without(files, Name)

(* stagePackage copies the file aside; install moves it to its place. *)
Install ==
    /\ imp.pc = "rows"
    /\ disk' = IF imp.pdf THEN With(disk, Name, count) ELSE disk
    /\ imp' = [imp EXCEPT !.pc = "installed",
                          !.backup = IF imp.pdf /\ Name \in DOMAIN disk THEN disk[Name] ELSE 0]
    /\ UNCHANGED <<app, decisions, rev, item, count, dead, lost, faults>>

(* What the commit makes visible: the row, the file name, a new revision   *)
(* that voids the work in progress on the person, and the run.             *)
Committed ==
    /\ \E r \in imp.resume, p \in imp.person :
          /\ app' = [app EXCEPT ![r].owner = {p},
                                ![r].old = IF imp.pdf THEN @ \cup {app[r].file} ELSE @,
                                ![r].file = IF imp.pdf THEN count ELSE @]
          /\ rev' = [rev EXCEPT ![p] = @ + 1]
          /\ item' = [item EXCEPT ![count] =
                        [NoItem EXCEPT !.st = "submitted", !.person = {p}, !.rev = rev[p] + 1]]
    /\ UNCHANGED decisions

Commit ==
    /\ imp.pc = "installed"
    /\ Committed
    /\ imp' = NoImport
    /\ UNCHANGED <<disk, count, dead, lost, faults>>

(* The client goes away while COMMIT is on its way: the server commits,    *)
(* the handler sees an error and takes the file back.                      *)
CommitUnheard ==
    /\ imp.pc = "installed"
    /\ Fault
    /\ Committed
    /\ disk' = Restored(disk)
    /\ lost' = lost \cup {count}
    /\ imp' = NoImport
    /\ UNCHANGED <<count, dead>>

(* Any step fails: the transaction rolls back and the files go back. *)
Fail ==
    /\ imp.pc # "idle"
    /\ Fault
    /\ disk' = Restored(disk)
    /\ imp' = NoImport
    /\ UNCHANGED <<app, decisions, rev, item, count, dead, lost>>

(* The process dies: the transaction rolls back, the files stay. *)
Crash ==
    /\ imp.pc # "idle"
    /\ Fault
    /\ dead' = dead \cup {count}
    /\ imp' = NoImport
    /\ UNCHANGED <<app, decisions, disk, rev, item, count, lost>>

-----------------------------------------------------------------------------
(* The items of the runs, as far as they meet the import.                  *)

Current(n) == \A p \in item[n].person : rev[p] = item[n].rev

Open(r) == app[r].status # "closed"

Stored(n) == ResumeFilename(item[n].file)

(* extractText: the file is there, and is the one read before, if any.     *)
Readable(n) == Stored(n) \in DOMAIN disk /\ item[n].sum \in {0, disk[Stored(n)]}

(* freezeCase: the person's applications and their file names are read     *)
(* without a lock and kept in the item.                                    *)
Prepare(n) ==
    /\ item[n].st = "submitted"
    /\ \E r \in Resumes :
          /\ app[r].owner = item[n].person /\ app[r].file # NoFile /\ Open(r)
          /\ item' = [item EXCEPT ![n].st = "prepared", ![n].resume = {r},
                                  ![n].file = app[r].file]
    /\ UNCHANGED <<app, decisions, disk, rev, imp, count, dead, lost, faults>>

(* An item whose workflow changed, or with nothing to assess, ends. *)
Skip(n) ==
    /\ \/ item[n].st \in {"submitted", "prepared", "processing", "read"} /\ ~Current(n)
       \/ item[n].st = "submitted"
             /\ \A r \in Resumes : app[r].owner = item[n].person
                                      => app[r].file = NoFile \/ ~Open(r)
    /\ item' = [item EXCEPT ![n].st = "skipped"]
    /\ UNCHANGED <<app, decisions, disk, rev, imp, count, dead, lost, faults>>

(* First transaction of processItem. *)
Start(n) ==
    /\ item[n].st = "prepared" /\ Current(n)
    /\ \E r \in item[n].resume :
          /\ Open(r)
          /\ app' = [app EXCEPT ![r].status = "assessing"]
    /\ item' = [item EXCEPT ![n].st = "processing"]
    /\ UNCHANGED <<decisions, disk, rev, imp, count, dead, lost, faults>>

Read(n) ==
    /\ item[n].st = "processing"
    /\ Readable(n)
    /\ item' = [item EXCEPT ![n].st = "read", ![n].sum = disk[Stored(n)]]
    /\ UNCHANGED <<app, decisions, disk, rev, imp, count, dead, lost, faults>>

(* The worker dies, and another takes the item again. *)
Retry(n) ==
    /\ item[n].st \in {"processing", "read"}
    /\ Fault
    /\ item' = [item EXCEPT ![n].st = "prepared"]
    /\ UNCHANGED <<app, decisions, disk, rev, imp, count, dead, lost>>

(* Second transaction of processItem: a decision, or an open error. *)
Finish(n, to) ==
    /\ item[n].st = "read" /\ Current(n)
    /\ \E r \in item[n].resume, p \in item[n].person :
          /\ app' = [app EXCEPT ![r].status = to]
          /\ decisions' = decisions \cup {[person |-> p, resume |-> r, content |-> item[n].sum]}
          /\ rev' = [rev EXCEPT ![p] = @ + 1]
    /\ item' = [item EXCEPT ![n].st = "done"]
    /\ UNCHANGED <<disk, imp, count, dead, lost, faults>>

(* The file is missing or was replaced in place. *)
Unreadable(n) ==
    /\ item[n].st = "processing" /\ Current(n)
    /\ ~Readable(n)
    /\ \E r \in item[n].resume, p \in item[n].person :
          /\ app' = [app EXCEPT ![r].status = "blocked"]
          /\ decisions' = decisions \cup {[person |-> p, resume |-> r, content |-> 0]}
          /\ rev' = [rev EXCEPT ![p] = @ + 1]
    /\ item' = [item EXCEPT ![n].st = "failed"]
    /\ UNCHANGED <<disk, imp, count, dead, lost, faults>>

-----------------------------------------------------------------------------
Next ==
    \/ \E r \in Resumes, p \in People, pdf \in BOOLEAN : Begin(r, p, pdf)
    \/ Install \/ Commit \/ CommitUnheard \/ Fail \/ Crash
    \/ \E n \in Import :
          \/ Prepare(n) \/ Skip(n) \/ Start(n) \/ Read(n) \/ Retry(n) \/ Unreadable(n)
          \/ \E to \in {"pooled", "closed"} : Finish(n, to)

Spec == Init /\ [][Next]_vars

-----------------------------------------------------------------------------
(* Properties.                                                             *)

ImportStates == {"idle", "rows", "installed"}
ItemStates == {"none", "submitted", "prepared", "processing", "read", "skipped", "failed", "done"}

(* Every variable has its type. *)
TypeOK ==
    /\ app \in [Resumes -> [owner : SUBSET People, file : 0..MaxImports,
                            old : SUBSET (0..MaxImports),
                            status : {"pending", "assessing", "pooled", "blocked", "closed"}]]
    /\ disk \in [DOMAIN disk -> Import] /\ DOMAIN disk \subseteq Import
    /\ rev \in [People -> Nat]
    /\ item \in [Import -> [st : ItemStates, person : SUBSET People, rev : Nat,
                            resume : SUBSET Resumes, file : 0..MaxImports, sum : 0..MaxImports]]
    /\ imp \in [pc : ImportStates, resume : SUBSET Resumes, person : SUBSET People,
                pdf : BOOLEAN, backup : 0..MaxImports]
    /\ count \in 0..MaxImports /\ faults \in 0..MaxFaults
    /\ dead \subseteq Import /\ lost \subseteq Import

(* The file system agrees with the database.  A file the database or a     *)
(* frozen item refers to is on disk and holds what its import brought,     *)
(* whatever later imports of the same file did, failed to do or were cut   *)
(* short in; the only exception is an import whose COMMIT succeeded        *)
(* unheard.  And a file neither a row nor an item refers to is that of the *)
(* open import, or was left by a crash, or was replaced: a later import    *)
(* brought the same application another one, and nothing removes the old.  *)
(* A failed import, or an unheard commit, leaves none.                     *)
InUse == ({app[r].file : r \in Resumes} \cup {item[n].file : n \in Import}) \ {NoFile}

Replaced == UNION {app[r].old : r \in Resumes}

FilesMatchRows ==
    /\ \A n \in InUse :
          n \in lost \/ (ResumeFilename(n) \in DOMAIN disk /\ disk[ResumeFilename(n)] = n)
    /\ \A f \in DOMAIN disk :
          LET n == disk[f]
          IN n \in InUse \cup Replaced \cup dead \/ (n = count /\ imp.pc = "installed")

(* An application with a processing history keeps its identity: a decision *)
(* was made on the workflow of the person the application belongs to.      *)
HistoryKeepsIdentity == \A d \in decisions : app[d.resume].owner = {d.person}

=============================================================================
