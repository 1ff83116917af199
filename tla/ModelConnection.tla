--------------------------- MODULE ModelConnection ---------------------------
(***************************************************************************)
(* The connection to the model service (config.go): four rows of           *)
(* core_config that administrators change, a test that asks the service    *)
(* and records a fingerprint of what it tested, and the callers who use    *)
(* the connection if its fingerprint is the recorded one.  Everybody reads *)
(* the rows one statement at a time, outside any transaction.  Model name  *)
(* and API style are one row here.                                         *)
(***************************************************************************)
EXTENDS Naturals

CONSTANTS Urls, Models, Keys,
          Unset,          \* nothing is stored in the row
          Admins, Testers, Callers,
          MaxPatches      \* bound: changes of the settings

Actors == Admins \cup Testers \cup Callers

VARIABLES
    conf,       \* core_config: ai_connection_base_url, _model_name, _api_key
    test,       \* ai_connection_test_fingerprint; a set of at most one
    mem,        \* what each actor has read so far
    patches,
    passed      \* connections a probe has succeeded on

vars == <<conf, test, mem, patches, passed>>

Rows == {"url", "model", "key"}
Start == [pc |-> "model", url |-> {}, model |-> {}, key |-> {}, old |-> {}]

Init ==
    /\ conf = [row \in Rows |-> Unset]
    /\ test = {}
    /\ mem = [a \in Actors |-> Start]
    /\ patches = 0
    /\ passed = {}

-----------------------------------------------------------------------------
(* connection: model, then address, then key. *)

After == [model |-> "url", url |-> "key", key |-> "ready"]

ReadRow(a, row) ==
    /\ mem[a].pc = row
    /\ mem' = [mem EXCEPT ![a].pc = After[row], ![a][row] = {conf[row]}]
    /\ UNCHANGED <<conf, test, patches, passed>>

Connection(m) == m.url \X m.model \X m.key

(* Mutant: the key does not count. *)
FingerprintNoKey(m) == m.url \X m.model \X {Unset}

(* connectionFingerprint *)
Fingerprint(m) == Connection(m)

-----------------------------------------------------------------------------
(* PATCH ai-connection.                                                    *)

(* The address in force is read on another connection than the update. *)
ReadOld(a) ==
    /\ mem[a].pc = "ready"
    /\ mem' = [mem EXCEPT ![a].pc = "old", ![a].old = {conf.url}]
    /\ UNCHANGED <<conf, test, patches, passed>>

(* Fields that are not in the body keep what was read; a key that is not   *)
(* goes when the address changes; every change voids the test.             *)
Patch(a) ==
    /\ mem[a].pc = "old" /\ patches < MaxPatches
    /\ \E url \in Urls, model \in Models, key \in Keys, named \in SUBSET Rows, clear \in BOOLEAN :
          LET newUrl == IF "url" \in named THEN {url} ELSE mem[a].url
              newModel == IF "model" \in named THEN {model} ELSE mem[a].model
          IN \E u \in newUrl \ {Unset}, m \in newModel \ {Unset} :
                conf' = [url |-> u, model |-> m,
                         key |-> IF clear \/ ("key" \notin named /\ mem[a].old # newUrl) THEN Unset
                                 ELSE IF "key" \in named THEN key ELSE conf.key]
    /\ test' = {}
    /\ patches' = patches + 1
    /\ mem' = [mem EXCEPT ![a] = Start]
    /\ UNCHANGED passed

-----------------------------------------------------------------------------
(* POST ai-connection/test.                                                *)

(* probeModel: the strict mode, then the compatible one. *)
Probe(a, ok) ==
    /\ mem[a].pc = "ready"
    /\ ok => mem[a].url # {Unset} /\ mem[a].model # {Unset}
    /\ mem' = [mem EXCEPT ![a].pc = IF ok THEN "passed" ELSE "failed"]
    /\ passed' = IF ok THEN passed \cup Connection(mem[a]) ELSE passed
    /\ UNCHANGED <<conf, test, patches>>

(* The outcome is recorded, whatever the settings are by now. *)
Record(a) ==
    /\ mem[a].pc \in {"passed", "failed"}
    /\ test' = IF mem[a].pc = "passed" THEN Fingerprint(mem[a]) ELSE {}
    /\ mem' = [mem EXCEPT ![a] = Start]
    /\ UNCHANGED <<conf, patches, passed>>

-----------------------------------------------------------------------------
(* runtimePin, analyze, enrichSchools: the fingerprint is compared, and    *)
(* the call is made with what was read.                                    *)

Check(a) ==
    /\ mem[a].pc = "ready"
    /\ mem' = [mem EXCEPT ![a] = IF test = Fingerprint(mem[a]) THEN [@ EXCEPT !.pc = "checked"]
                                 ELSE Start]
    /\ UNCHANGED <<conf, test, patches, passed>>

Call(a) ==
    /\ mem[a].pc = "checked"
    /\ mem' = [mem EXCEPT ![a] = Start]
    /\ UNCHANGED <<conf, test, patches, passed>>

Next ==
    \/ \E a \in Actors, row \in Rows : ReadRow(a, row)
    \/ \E a \in Admins : ReadOld(a) \/ Patch(a)
    \/ \E a \in Testers : Record(a) \/ \E ok \in BOOLEAN : Probe(a, ok)
    \/ \E a \in Callers : Check(a) \/ Call(a)

Spec == Init /\ [][Next]_vars

-----------------------------------------------------------------------------
(* Properties.                                                             *)

Known(values) == values \cup {Unset}

(* Every variable has its type. *)
TypeOK ==
    /\ conf \in [url : Known(Urls), model : Known(Models), key : Known(Keys)]
    /\ passed \subseteq Known(Urls) \X Known(Models) \X Known(Keys)
    /\ test \subseteq Known(Urls) \X Known(Models) \X Known(Keys)
    /\ mem \in [Actors -> [pc : Rows \cup {"ready", "old", "passed", "failed", "checked"},
                           url : SUBSET Known(Urls), model : SUBSET Known(Models),
                           key : SUBSET Known(Keys), old : SUBSET Known(Urls)]]
    /\ patches \in Nat

(* No model call is made with a combination of address, model and key that *)
(* no test has passed, however the reads of the caller, the reads of the   *)
(* test and the changes of administrators interleave: a connection nobody  *)
(* ever saved may be read, but then its fingerprint is not the recorded    *)
(* one.                                                                    *)
UsedIsTested == \A a \in Callers : mem[a].pc = "checked" => Connection(mem[a]) \subseteq passed

=============================================================================
