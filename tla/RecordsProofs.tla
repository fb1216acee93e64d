------------------------------ MODULE RecordsProofs ------------------------------
(***************************************************************************)
(* Proofs about the rows of the REST interface, for any number of rows,     *)
(* requests, types, files and syncs, one section per module.                *)
(***************************************************************************)
EXTENDS PacketDecisions, EntityRecords, TaskTypes, MemorySync, Counting, FiniteSetTheorems,
        SequenceTheorems, TLAPS

-----------------------------------------------------------------------------
(***************************************************************************)
(* TaskTypes: the registry and its directory.                               *)
(***************************************************************************)
Pending(r) == reg[r].step \in DOMAIN WriteSteps \cup {"load"}

RegRow == [step : {"idle", "loading", "load"} \cup DOMAIN WriteSteps, name : TypeName \cup {None},
           schema : Text \cup {None}, policy : Text \cup {None}]

RegistryTypeOK ==
    /\ TypesTypeOK
    /\ read \in [TypeName -> Pair \cup {None}]
    /\ reg \in [Register -> RegRow]
    /\ \A r \in Register : Pending(r) =>
          reg[r].name \in TypeName /\ reg[r].schema \in Text /\ reg[r].policy \in Text
    /\ up \in BOOLEAN /\ reload_enabled \in BOOLEAN /\ failed \in {"no", "yes", "retried"}

LoadsByOne ==
    /\ \A r \in Register : reg[r].step = "loading" <=> lock = r
    /\ ~up => Quiet
    /\ up /\ failed = "retried" => lock # None

(* The schema file is written first. *)
SchemaFirst ==
    /\ \A n \in TypeName : files[n].policy # None => files[n].schema # None
    /\ \A r \in Register : Pending(r) /\ reg[r].step # "open schema" =>
          files[reg[r].name].schema # None

(* Half a pair has somebody who is writing the other half. *)
Whole(n) ==
    /\ files[n].schema = Empty =>
          \E r \in Register : reg[r].name = n /\ reg[r].step = "fill schema"
    /\ files[n].schema # None /\ files[n].policy = None =>
          \E r \in Register : reg[r].name = n /\ reg[r].step \in {"fill schema", "open policy"}
PairsWhole ==
    \A n \in TypeName :
        up /\ (failed = "no" \/ (failed = "retried" /\ n \notin todo)) => Whole(n)

(* What a load has read is what is there, *)
Fresh ==
    \A n \in TypeName :
        IF n \in todo THEN files[n].schema # None /\ read[n] = None
        ELSE read[n] = IF files[n].schema = None THEN None ELSE files[n]
(* unless somebody writes, who will load in turn. *)
LoadsAreFresh ==
    lock # None /\ failed # "yes" /\ (\A r \in Register : ~Pending(r)) => Fresh

Serves ==
    \A n \in TypeName : definitions[n] = IF files[n] = NoPair THEN None ELSE files[n]
ServedOrPending ==
    up /\ failed = "no" /\ lock = None /\ ~(reload_enabled /\ changed)
       /\ (\A r \in Register : ~Pending(r)) => Serves

RegistryInv ==
    /\ RegistryTypeOK /\ LoadsByOne /\ SchemaFirst
    /\ PairsWhole /\ LoadsAreFresh /\ ServedOrPending
-----------------------------------------------------------------------------
LEMMA WriteStepsAre ==
    /\ DOMAIN WriteSteps = {"open schema", "fill schema", "open policy", "fill policy"}
    /\ WriteSteps["open schema"].file = "schema" /\ WriteSteps["open schema"].next = "fill schema"
    /\ WriteSteps["fill schema"].file = "schema" /\ WriteSteps["fill schema"].next = "open policy"
    /\ WriteSteps["open policy"].file = "policy" /\ WriteSteps["open policy"].next = "fill policy"
    /\ WriteSteps["fill policy"].file = "policy" /\ WriteSteps["fill policy"].next = "load"
BY DEF WriteSteps

LEMMA NoPairIs == NoPair \in Pair /\ NoPair.schema = None /\ NoPair.policy = None
BY DEF NoPair, Pair

(* A pair that has neither file is no pair. *)
LEMMA HalfIsNoPair ==
    ASSUME NEW pair \in Pair
    PROVE  pair = NoPair <=> pair.schema = None /\ pair.policy = None
BY DEF NoPair, Pair

LEMMA NoRegIs ==
    /\ NoReg \in RegRow /\ NoReg.step = "idle" /\ NoReg.name = None
    /\ NoReg.schema = None /\ NoReg.policy = None
BY DEF NoReg, RegRow

LEMMA RegistryInit ==
    ASSUME NEW first \in [TypeName -> [schema : Text, policy : Text] \cup {NoPair}],
           TypesInit(first), reload_enabled \in BOOLEAN
    PROVE  RegistryInv
<1>1. /\ files \in [TypeName -> Pair]
      /\ \A n \in TypeName :
           files[n] = NoPair \/ (files[n].schema \in Text /\ files[n].policy \in Text)
  BY NoPairIs DEF TypesInit, Pair
<1>2. /\ definitions \in [TypeName -> Pair \cup {None}] /\ Serves
      /\ read \in [TypeName -> Pair \cup {None}]
      /\ changed = FALSE /\ lock = None /\ todo = {} /\ up = TRUE /\ failed = "no"
      /\ reg \in [Register -> RegRow] /\ \A r \in Register : reg[r] = NoReg
  BY <1>1, NoRegIs DEF TypesInit, Serves
<1>3. \A r \in Register : ~Pending(r) /\ reg[r].step = "idle" /\ lock # r
  BY <1>2, NoRegIs, WriteStepsAre, TaskTypesAssumption DEF Pending
<1>4. RegistryTypeOK
  BY <1>1, <1>2, <1>3 DEF RegistryTypeOK, TypesTypeOK, Loaders
<1>5. LoadsByOne
  BY <1>2, <1>3 DEF LoadsByOne
<1>6. SchemaFirst /\ PairsWhole
  <2>1. \A n \in TypeName : files[n].policy # None => files[n].schema # None
    BY <1>1, NoPairIs, TaskTypesAssumption
  <2>2. \A n \in TypeName : files[n].schema # Empty /\ (files[n].schema # None => files[n].policy # None)
    BY <1>1, NoPairIs, TaskTypesAssumption
  <2> QED
    BY <1>3, <2>1, <2>2 DEF SchemaFirst, PairsWhole, Whole
<1> QED
  BY <1>2, <1>4, <1>5, <1>6 DEF RegistryInv, LoadsAreFresh, ServedOrPending

(* A registration that has been accepted will write, and load. *)
LEMMA RegisterInv ==
    ASSUME RegistryInv, NEW r \in Register, NEW n \in TypeName, NEW schema \in Text,
           NEW policy_text \in Text, register(r, n, schema, policy_text)
    PROVE  RegistryInv'
<1>1. PICK row : row = [step |-> "open schema", name |-> n, schema |-> schema, policy |-> policy_text]
  OBVIOUS
<1>2. /\ up /\ reg[r].step = "idle" /\ reg' = [reg EXCEPT ![r] = row]
      /\ UNCHANGED <<files, lock, todo, read, definitions, changed, up, failed, reload_enabled>>
  BY <1>1 DEF register, LoadVars
<1>3. /\ row \in RegRow /\ row.step = "open schema" /\ row.name = n
      /\ row.schema = schema /\ row.policy = policy_text
  BY <1>1, WriteStepsAre DEF RegRow
<1>4. /\ RegistryTypeOK /\ LoadsByOne /\ SchemaFirst /\ PairsWhole /\ LoadsAreFresh
      /\ reg \in [Register -> RegRow]
  BY DEF RegistryInv, RegistryTypeOK
<1>5. /\ reg' \in [Register -> RegRow] /\ reg'[r] = row
      /\ \A q \in Register \ {r} : reg'[q] = reg[q]
  BY <1>2, <1>3, <1>4
<1>6. Pending(r)' /\ \A q \in Register \ {r} : Pending(q)' <=> Pending(q)
  BY <1>3, <1>5, WriteStepsAre DEF Pending
<1>7. RegistryTypeOK'
  BY <1>2, <1>3, <1>4, <1>5, <1>6 DEF RegistryTypeOK, TypesTypeOK
<1>8. LoadsByOne'
  <2>1. \A q \in Register : reg'[q].step = "loading" <=> lock' = q
    BY <1>2, <1>3, <1>4, <1>5 DEF LoadsByOne
  <2> QED
    BY <1>2, <1>4, <2>1 DEF LoadsByOne
<1>9. SchemaFirst'
  BY <1>2, <1>3, <1>4, <1>5, <1>6 DEF SchemaFirst
<1>10. PairsWhole'
  <2>1. \A m \in TypeName : Whole(m) => Whole(m)'
    BY <1>2, <1>5 DEF Whole
  <2> QED
    BY <1>2, <1>4, <2>1 DEF PairsWhole
<1> QED
  BY <1>6, <1>7, <1>8, <1>9, <1>10 DEF RegistryInv, LoadsAreFresh, ServedOrPending

(* One file of a pair is opened, or filled; the writer will load. *)
LEMMA WriteTextInv ==
    ASSUME RegistryInv, NEW r \in Register, write_text(r)
    PROVE  RegistryInv'
<1>0. PICK n, file, next, text :
        /\ n = reg[r].name
        /\ file = WriteSteps[reg[r].step].file /\ next = WriteSteps[reg[r].step].next
        /\ text = IF reg[r].step \in Opens THEN Empty ELSE reg[r][file]
  OBVIOUS
<1>1. /\ reg[r].step \in DOMAIN WriteSteps
      /\ files' = [files EXCEPT ![n][file] = text]
      /\ reg' = [reg EXCEPT ![r].step = next]
      /\ changed' = TRUE
      /\ UNCHANGED <<lock, todo, read, definitions, up, failed, reload_enabled>>
  BY <1>0 DEF write_text, Touched
<1>2. /\ RegistryTypeOK /\ LoadsByOne /\ SchemaFirst /\ PairsWhole
      /\ reg \in [Register -> RegRow] /\ files \in [TypeName -> Pair]
      /\ Pending(r) /\ n \in TypeName /\ reg[r].schema \in Text /\ reg[r].policy \in Text
      /\ reg[r].step # "load" /\ reg[r].step # "idle" /\ reg[r].step # "loading"
  BY <1>0, <1>1, WriteStepsAre DEF RegistryInv, RegistryTypeOK, TypesTypeOK, Pending
<1>3. \/ reg[r].step = "open schema" /\ file = "schema" /\ text = Empty /\ next = "fill schema"
      \/ reg[r].step = "fill schema" /\ file = "schema" /\ text \in Text /\ next = "open policy"
      \/ reg[r].step = "open policy" /\ file = "policy" /\ text = Empty /\ next = "fill policy"
      \/ reg[r].step = "fill policy" /\ file = "policy" /\ text \in Text /\ next = "load"
  <2>1. CASE reg[r].step = "open schema"
    <3>2. file = "schema" /\ next = "fill schema"
      BY <1>0, <2>1, WriteStepsAre
    <3> QED
      BY <1>0, <2>1, <3>2 DEF Opens
  <2>2. CASE reg[r].step = "fill schema"
    <3>2. file = "schema" /\ next = "open policy"
      BY <1>0, <2>2, WriteStepsAre
    <3>3. text = reg[r]["schema"]
      BY <1>0, <2>2, <3>2 DEF Opens
    <3> QED
      BY <1>2, <2>2, <3>2, <3>3
  <2>3. CASE reg[r].step = "open policy"
    <3>2. file = "policy" /\ next = "fill policy"
      BY <1>0, <2>3, WriteStepsAre
    <3> QED
      BY <1>0, <2>3, <3>2 DEF Opens
  <2>4. CASE reg[r].step = "fill policy"
    <3>2. file = "policy" /\ next = "load"
      BY <1>0, <2>4, WriteStepsAre
    <3>3. text = reg[r]["policy"]
      BY <1>0, <2>4, <3>2 DEF Opens
    <3> QED
      BY <1>2, <2>4, <3>2, <3>3
  <2> QED
    BY <1>1, <2>1, <2>2, <2>3, <2>4, WriteStepsAre
<1>4. /\ reg' \in [Register -> RegRow] /\ reg'[r].step = next /\ reg'[r].name = n
      /\ reg'[r].schema = reg[r].schema /\ reg'[r].policy = reg[r].policy
      /\ \A q \in Register \ {r} : reg'[q] = reg[q]
  <2>1. next \in {"idle", "loading", "load"} \cup DOMAIN WriteSteps
    BY <1>3, WriteStepsAre
  <2>2. reg[r] \in RegRow
    BY <1>2
  <2>3. reg'[r] = [reg[r] EXCEPT !.step = next] /\ \A q \in Register \ {r} : reg'[q] = reg[q]
    BY <1>1, <1>2
  <2>4. reg'[r] \in RegRow
    BY <2>1, <2>2, <2>3 DEF RegRow
  <2>5. DOMAIN reg' = Register /\ reg' = [q \in DOMAIN reg' |-> reg'[q]]
    BY <1>1, <1>2
  <2>6. reg' \in [Register -> RegRow]
    BY <1>2, <2>3, <2>4, <2>5
  <2> QED
    BY <1>0, <2>2, <2>3, <2>6 DEF RegRow
<1>5. text \in Text \cup {Empty} /\ text # None
  BY <1>3, TaskTypesAssumption
<1>6. /\ files' \in [TypeName -> Pair]
      /\ \A m \in TypeName \ {n} : files'[m] = files[m]
      /\ file = "schema" => files'[n].schema = text /\ files'[n].policy = files[n].policy
      /\ file = "policy" => files'[n].policy = text /\ files'[n].schema = files[n].schema
  <2>1. CASE file = "schema"
    <3>1. files' = [files EXCEPT ![n].schema = text]
      BY <1>1, <2>1
    <3> QED
      BY <1>2, <1>5, <2>1, <3>1 DEF Pair
  <2>2. CASE file = "policy"
    <3>1. files' = [files EXCEPT ![n].policy = text]
      BY <1>1, <2>2
    <3> QED
      BY <1>2, <1>5, <2>2, <3>1 DEF Pair
  <2> QED
    BY <1>3, <2>1, <2>2
<1>7. Pending(r)' /\ \A q \in Register \ {r} : Pending(q)' <=> Pending(q)
  BY <1>3, <1>4, WriteStepsAre DEF Pending
<1>8. RegistryTypeOK'
  BY <1>1, <1>2, <1>4, <1>6, <1>7 DEF RegistryTypeOK, TypesTypeOK
<1>9. LoadsByOne'
  <2>1. \A q \in Register : reg'[q].step = "loading" <=> lock' = q
    BY <1>1, <1>2, <1>3, <1>4 DEF LoadsByOne
  <2>2. up'
    BY <1>1, <1>2 DEF LoadsByOne, Quiet, RegistryTypeOK
  <2> QED
    BY <1>1, <1>2, <2>1, <2>2 DEF LoadsByOne
<1>10. SchemaFirst'
  <2>1. files'[n].schema # None
    BY <1>2, <1>3, <1>5, <1>6, <1>0 DEF SchemaFirst
  <2>2. \A m \in TypeName : files'[m].policy # None => files'[m].schema # None
    BY <1>2, <1>6, <2>1 DEF SchemaFirst
  <2>3. ASSUME NEW q \in Register, Pending(q)', reg'[q].step # "open schema"
        PROVE  files'[reg'[q].name].schema # None
    <3>1. CASE q = r
      BY <1>4, <2>1, <3>1
    <3>2. CASE q # r
      <4>1. reg'[q] = reg[q] /\ Pending(q)
        BY <1>4, <1>7, <2>3, <3>2
      <4>2. files[reg[q].name].schema # None /\ reg[q].name \in TypeName
        BY <1>2, <2>3, <4>1 DEF SchemaFirst, RegistryTypeOK
      <4> QED
        BY <1>6, <2>1, <4>1, <4>2
    <3> QED
      BY <3>1, <3>2
  <2> QED
    BY <2>2, <2>3 DEF SchemaFirst
<1>11. PairsWhole'
  <2>1. Whole(n) => Whole(n)'
    <3>1. CASE reg[r].step \in {"open schema", "fill schema"}
      <4>1. \/ next = "fill schema"
            \/ next = "open policy" /\ files'[n].schema # Empty
        BY <1>3, <1>6, <3>1, TaskTypesAssumption
      <4> QED
        BY <1>4, <4>1 DEF Whole
    <3>2. CASE reg[r].step \in {"open policy", "fill policy"}
      <4>1. files'[n].policy # None /\ files'[n].schema = files[n].schema
        BY <1>3, <1>5, <1>6, <3>2
      <4>2. \A q \in Register : reg[q].step = "fill schema" => reg'[q] = reg[q]
        BY <1>4, <3>2
      <4> QED
        BY <4>1, <4>2 DEF Whole
    <3> QED
      BY <1>3, <3>1, <3>2
  <2>2. ASSUME NEW m \in TypeName, m # n, Whole(m) PROVE Whole(m)'
    <3>1. \A q \in Register : reg[q].name = m => reg'[q] = reg[q]
      BY <1>0, <1>4, <2>2
    <3> QED
      BY <1>6, <2>2, <3>1 DEF Whole
  <2> QED
    BY <1>1, <1>2, <2>1, <2>2 DEF PairsWhole
<1> QED
  BY <1>7, <1>8, <1>9, <1>10, <1>11 DEF RegistryInv, LoadsAreFresh, ServedOrPending

(* A registration that fails leaves its files as they are. *)
LEMMA WriteFailsInv ==
    ASSUME RegistryInv, NEW r \in Register, write_fails(r)
    PROVE  RegistryInv'
<1>1. /\ reg[r].step \in DOMAIN WriteSteps
      /\ reg' = [q \in Register |-> IF q = r THEN NoReg ELSE reg[q]]
      /\ failed' = "yes"
      /\ UNCHANGED <<files, lock, todo, read, definitions, changed, up, reload_enabled>>
  BY DEF write_fails, Reset, LoadVars
<1>2. RegistryTypeOK /\ LoadsByOne /\ SchemaFirst /\ reg \in [Register -> RegRow] /\ reg[r].step # "loading"
  BY <1>1, WriteStepsAre DEF RegistryInv, RegistryTypeOK
<1>3. /\ reg' \in [Register -> RegRow] /\ reg'[r] = NoReg
      /\ \A q \in Register \ {r} : reg'[q] = reg[q]
  BY <1>1, <1>2, NoRegIs
<1>4. ~Pending(r)' /\ \A q \in Register \ {r} : Pending(q)' <=> Pending(q)
  BY <1>3, NoRegIs, WriteStepsAre DEF Pending
<1>5. RegistryTypeOK'
  BY <1>1, <1>2, <1>3, <1>4 DEF RegistryTypeOK, TypesTypeOK
<1>6. LoadsByOne'
  <2>1. \A q \in Register : reg'[q].step = "loading" <=> lock' = q
    BY <1>1, <1>2, <1>3, NoRegIs DEF LoadsByOne
  <2>2. Quiet => Quiet'
    BY <1>1, <1>3, NoRegIs DEF Quiet
  <2> QED
    BY <1>1, <1>2, <2>1, <2>2 DEF LoadsByOne
<1>7. SchemaFirst'
  BY <1>1, <1>2, <1>3, <1>4 DEF SchemaFirst
<1> QED
  BY <1>1, <1>5, <1>6, <1>7 DEF RegistryInv, PairsWhole, LoadsAreFresh, ServedOrPending

(* A load begins: nothing is read yet. *)
LEMMA StartLoadInv ==
    ASSUME RegistryInv, (\E r \in Register : load(r)) \/ maybe_reload
    PROVE  RegistryInv'
<1>0. PICK who \in Loaders :
        /\ StartLoad(who)
        /\ \/ who \in Register /\ reg[who].step = "load" /\ reg' = [reg EXCEPT ![who].step = "loading"]
           \/ who = "reader" /\ up /\ UNCHANGED reg
  BY DEF load, maybe_reload, Loaders
<1>1. /\ lock = None /\ lock' = who
      /\ todo' = {n \in TypeName : files[n].schema # None}
      /\ read' = [n \in TypeName |-> None]
      /\ failed' = IF failed = "yes" THEN "retried" ELSE failed
      /\ UNCHANGED <<files, definitions, changed, up, reload_enabled>>
  BY <1>0 DEF StartLoad
<1>2. /\ RegistryTypeOK /\ LoadsByOne /\ SchemaFirst /\ PairsWhole /\ reg \in [Register -> RegRow]
      /\ who # None /\ failed \in {"no", "yes", "retried"}
  BY <1>0, TaskTypesAssumption DEF RegistryInv, RegistryTypeOK, Loaders
<1>3. /\ reg' \in [Register -> RegRow]
      /\ who \in Register => reg'[who].step = "loading"
      /\ \A q \in Register \ {who} : reg'[q] = reg[q]
      /\ \A q \in Register : /\ reg'[q].name = reg[q].name /\ reg'[q].schema = reg[q].schema
                             /\ reg'[q].policy = reg[q].policy
  <2>1. CASE who \in Register
    <3>1. reg' = [reg EXCEPT ![who].step = "loading"]
      BY <1>0, <2>1, TaskTypesAssumption
    <3> QED
      BY <1>2, <2>1, <3>1, WriteStepsAre DEF RegRow
  <2>2. CASE who = "reader"
    BY <1>0, <1>2, <2>2, TaskTypesAssumption
  <2> QED
    BY <1>0, <2>1, <2>2 DEF Loaders
<1>4. /\ \A q \in Register : Pending(q)' => Pending(q) /\ reg'[q] = reg[q]
      /\ \A q \in Register : reg[q].step \in {"fill schema", "open policy"} => reg'[q] = reg[q]
  <2>1. who \in Register => ~Pending(who)'
    BY <1>3, WriteStepsAre DEF Pending
  <2>2. who \in Register => reg[who].step = "load"
    BY <1>0, TaskTypesAssumption
  <2> QED
    BY <1>3, <2>1, <2>2 DEF Pending
<1>5. RegistryTypeOK'
  <2>1. todo' \subseteq TypeName /\ failed' \in {"no", "yes", "retried"}
    BY <1>1, <1>2
  <2> QED
    BY <1>0, <1>1, <1>2, <1>3, <1>4, <2>1 DEF RegistryTypeOK, TypesTypeOK
<1>6. LoadsByOne'
  <2>1. \A q \in Register : reg[q].step # "loading"
    BY <1>1, <1>2, TaskTypesAssumption DEF LoadsByOne
  <2>2. \A q \in Register : reg'[q].step = "loading" <=> lock' = q
    BY <1>1, <1>3, <2>1
  <2>3. up'
    <3>1. ~Quiet \/ up
      BY <1>0 DEF Quiet
    <3> QED
      BY <1>1, <1>2, <3>1 DEF LoadsByOne, RegistryTypeOK
  <2> QED
    BY <1>1, <1>2, <2>2, <2>3 DEF LoadsByOne
<1>7. SchemaFirst'
  <2>1. \A n \in TypeName : files'[n].policy # None => files'[n].schema # None
    BY <1>1, <1>2 DEF SchemaFirst
  <2>2. \A r \in Register : Pending(r)' /\ reg'[r].step # "open schema" =>
          files'[reg'[r].name].schema # None
    BY <1>1, <1>2, <1>4 DEF SchemaFirst
  <2> QED
    BY <2>1, <2>2 DEF SchemaFirst
<1>8. PairsWhole'
  <2> SUFFICES ASSUME NEW n \in TypeName, up', failed' = "no" \/ (failed' = "retried" /\ n \notin todo')
               PROVE  Whole(n)'
    BY DEF PairsWhole
  <2>1. Whole(n) => Whole(n)'
    BY <1>1, <1>4 DEF Whole
  <2>2. CASE failed' = "no"
    <3>1. failed = "no" /\ up
      BY <1>1, <2>2
    <3> QED
      BY <1>2, <2>1, <3>1 DEF PairsWhole
  <2>3. CASE failed' = "retried" /\ n \notin todo'
    <3>1. files'[n].schema = None
      BY <1>1, <2>3
    <3> QED
      BY <3>1, TaskTypesAssumption DEF Whole
  <2> QED
    BY <2>2, <2>3
<1>9. Fresh'
  BY <1>1 DEF Fresh
<1> QED
  BY <1>1, <1>2, <1>5, <1>6, <1>7, <1>8, <1>9 DEF RegistryInv, LoadsAreFresh, ServedOrPending

(* One pair more is read. *)
LEMMA LoadPairInv ==
    ASSUME RegistryInv, NEW n \in TypeName, load_pair(n)
    PROVE  RegistryInv'
<1>1. /\ lock # None /\ n \in todo /\ files[n].schema # Empty /\ files[n].policy # None
      /\ todo' = todo \ {n} /\ read' = [read EXCEPT ![n] = files[n]]
      /\ UNCHANGED <<files, definitions, changed, lock, reg, up, failed, reload_enabled>>
  BY DEF load_pair, Readable
<1>2. /\ RegistryTypeOK /\ LoadsByOne /\ SchemaFirst /\ PairsWhole /\ LoadsAreFresh
      /\ read \in [TypeName -> Pair \cup {None}] /\ files \in [TypeName -> Pair]
  BY DEF RegistryInv, RegistryTypeOK, TypesTypeOK
<1>3. \A q \in Register : Pending(q)' <=> Pending(q)
  BY <1>1 DEF Pending
<1>4. /\ read' \in [TypeName -> Pair \cup {None}] /\ read'[n] = files[n]
      /\ \A m \in TypeName \ {n} : read'[m] = read[m]
  BY <1>1, <1>2
<1>5. RegistryTypeOK'
  <2>1. todo' \subseteq TypeName
    BY <1>1, <1>2 DEF RegistryTypeOK, TypesTypeOK
  <2> QED
    BY <1>1, <1>2, <1>3, <1>4, <2>1 DEF RegistryTypeOK, TypesTypeOK
<1>6. LoadsByOne' /\ SchemaFirst'
  BY <1>1, <1>2, <1>3 DEF LoadsByOne, SchemaFirst, Quiet
<1>7. PairsWhole'
  <2>1. Whole(n)'
    BY <1>1 DEF Whole
  <2>2. \A m \in TypeName : Whole(m) => Whole(m)'
    BY <1>1 DEF Whole
  <2> QED
    BY <1>1, <1>2, <2>1, <2>2 DEF PairsWhole
<1>8. LoadsAreFresh'
  <2> SUFFICES ASSUME Fresh PROVE Fresh'
    BY <1>1, <1>2, <1>3 DEF LoadsAreFresh
  <2>1. files[n].schema # None
    BY <1>1 DEF Fresh
  <2> QED
    BY <1>1, <1>4, <2>1 DEF Fresh
<1> QED
  BY <1>1, <1>5, <1>6, <1>7, <1>8 DEF RegistryInv, ServedOrPending

(* The end of a load, good or bad, releases the lock and its registration. *)
LEMMA EndLoadKeeps ==
    ASSUME RegistryTypeOK, LoadsByOne, lock # None, EndLoad, UNCHANGED <<files, up>>
    PROVE  /\ reg' \in [Register -> RegRow] /\ lock' = None /\ todo' = {}
           /\ read' \in [TypeName -> Pair \cup {None}]
           /\ \A q \in Register : IF reg[q].step = "loading" THEN reg'[q] = NoReg ELSE reg'[q] = reg[q]
           /\ \A q \in Register : Pending(q)' <=> Pending(q)
           /\ \A n \in TypeName : Whole(n) => Whole(n)'
           /\ \A q \in Register : reg'[q].step # "loading" /\ lock' # q
           /\ up /\ (SchemaFirst => SchemaFirst')
<1>1. /\ lock' = None /\ todo' = {} /\ read' = [n \in TypeName |-> None]
      /\ reg' = IF lock \in Register THEN [q \in Register |-> IF q = lock THEN NoReg ELSE reg[q]] ELSE reg
  BY DEF EndLoad, Reset
<1>2. reg \in [Register -> RegRow]
  BY DEF RegistryTypeOK
<1>3. \A q \in Register : IF reg[q].step = "loading" THEN reg'[q] = NoReg ELSE reg'[q] = reg[q]
  BY <1>1 DEF LoadsByOne
<1>4. reg' \in [Register -> RegRow]
  BY <1>1, <1>2, NoRegIs
<1>5. \A q \in Register : Pending(q)' <=> Pending(q)
  BY <1>3, NoRegIs, WriteStepsAre DEF Pending
<1>6. \A n \in TypeName : Whole(n) => Whole(n)'
  <2>1. \A q \in Register : reg[q].step \in {"fill schema", "open policy"} => reg'[q] = reg[q]
    BY <1>3
  <2> QED
    BY <2>1 DEF Whole
<1>7. \A q \in Register : reg'[q].step # "loading" /\ lock' # q
  BY <1>1, <1>3, NoRegIs, TaskTypesAssumption
<1>8. up
  BY DEF LoadsByOne, Quiet, RegistryTypeOK
<1>9. ASSUME SchemaFirst PROVE SchemaFirst'
  <2>1. \A q \in Register : Pending(q)' => reg'[q] = reg[q]
    <3>1. \A q \in Register : reg[q].step = "loading" => ~Pending(q)
      BY WriteStepsAre DEF Pending
    <3> QED
      BY <1>3, <1>5, <3>1
  <2>2. \A n \in TypeName : files'[n].policy # None => files'[n].schema # None
    BY <1>9 DEF SchemaFirst
  <2>3. \A q \in Register : Pending(q)' /\ reg'[q].step # "open schema" =>
          files'[reg'[q].name].schema # None
    BY <1>5, <1>9, <2>1 DEF SchemaFirst
  <2> QED
    BY <2>2, <2>3 DEF SchemaFirst
<1> QED
  BY <1>1, <1>3, <1>4, <1>5, <1>6, <1>7, <1>8, <1>9

(* A load that ends well serves what it read. *)
LEMMA LoadEndsInv ==
    ASSUME RegistryInv, load_ends
    PROVE  RegistryInv'
<1>1. /\ lock # None /\ todo = {} /\ ~OrphanPolicy /\ EndLoad
      /\ definitions' = read /\ changed' = FALSE
      /\ failed' = IF failed = "retried" THEN "no" ELSE failed
      /\ UNCHANGED <<files, up, reload_enabled>>
  BY DEF load_ends
<1>2. /\ RegistryTypeOK /\ LoadsByOne /\ SchemaFirst /\ PairsWhole /\ LoadsAreFresh
      /\ read \in [TypeName -> Pair \cup {None}] /\ files \in [TypeName -> Pair]
      /\ failed \in {"no", "yes", "retried"}
  BY DEF RegistryInv, RegistryTypeOK, TypesTypeOK
<1>3. /\ reg' \in [Register -> RegRow] /\ lock' = None /\ todo' = {}
      /\ read' \in [TypeName -> Pair \cup {None}]
      /\ \A q \in Register : IF reg[q].step = "loading" THEN reg'[q] = NoReg ELSE reg'[q] = reg[q]
      /\ \A q \in Register : Pending(q)' <=> Pending(q)
      /\ \A n \in TypeName : Whole(n) => Whole(n)'
      /\ \A q \in Register : reg'[q].step # "loading" /\ lock' # q
      /\ up /\ (SchemaFirst => SchemaFirst')
  BY <1>1, <1>2, EndLoadKeeps
<1>4. RegistryTypeOK'
  <2>1. \A q \in Register : Pending(q) => reg'[q] = reg[q]
    <3>1. \A q \in Register : reg[q].step = "loading" => ~Pending(q)
      BY WriteStepsAre DEF Pending
    <3> QED
      BY <1>3, <3>1
  <2>2. failed' \in {"no", "yes", "retried"}
    BY <1>1, <1>2
  <2> QED
    BY <1>1, <1>2, <1>3, <2>1, <2>2 DEF RegistryTypeOK, TypesTypeOK
<1>5. LoadsByOne'
  <2>1. ~(up' /\ failed' = "retried")
    BY <1>1
  <2> QED
    BY <1>1, <1>3, <2>1 DEF LoadsByOne
<1>6. PairsWhole'
  <2> SUFFICES ASSUME NEW n \in TypeName, failed' # "yes" PROVE Whole(n)'
    BY DEF PairsWhole
  <2>1. failed \in {"no", "retried"}
    BY <1>1, <1>2
  <2>2. Whole(n)
    BY <1>1, <1>2, <1>3, <2>1 DEF PairsWhole
  <2> QED
    BY <1>3, <2>2
<1>7. ServedOrPending'
  <2> SUFFICES ASSUME failed' = "no", \A r \in Register : ~Pending(r) PROVE Serves'
    BY <1>3 DEF ServedOrPending
  <2>1. Fresh
    BY <1>1, <1>2 DEF LoadsAreFresh
  <2>2. ASSUME NEW n \in TypeName
        PROVE  read[n] = IF files[n] = NoPair THEN None ELSE files[n]
    <3>1. read[n] = IF files[n].schema = None THEN None ELSE files[n]
      BY <1>1, <2>1 DEF Fresh
    <3>2. files[n].schema = None => files[n].policy = None
      BY <1>2 DEF SchemaFirst
    <3>3. files[n] = NoPair <=> files[n].schema = None /\ files[n].policy = None
      BY <1>2, HalfIsNoPair
    <3> QED
      BY <3>1, <3>2, <3>3
  <2> QED
    BY <1>1, <2>2 DEF Serves
<1> QED
  BY <1>2, <1>3, <1>4, <1>5, <1>6, <1>7 DEF RegistryInv, LoadsAreFresh

(* A load fails only where somebody is writing, or had failed before. *)
LEMMA LoadErrorInv ==
    ASSUME RegistryInv, load_error
    PROVE  RegistryInv'
<1>1. /\ lock # None /\ EndLoad
      /\ (\E n \in todo : ~Readable(n)) \/ (todo = {} /\ OrphanPolicy)
      /\ failed' = IF failed = "retried" THEN "yes" ELSE failed
      /\ UNCHANGED <<files, definitions, changed, up, reload_enabled>>
  BY DEF load_error
<1>2. /\ RegistryTypeOK /\ LoadsByOne /\ SchemaFirst /\ PairsWhole /\ LoadsAreFresh
      /\ files \in [TypeName -> Pair] /\ todo \subseteq TypeName
      /\ failed \in {"no", "yes", "retried"}
  BY DEF RegistryInv, RegistryTypeOK, TypesTypeOK
<1>3. /\ reg' \in [Register -> RegRow] /\ lock' = None /\ todo' = {}
      /\ read' \in [TypeName -> Pair \cup {None}]
      /\ \A q \in Register : IF reg[q].step = "loading" THEN reg'[q] = NoReg ELSE reg'[q] = reg[q]
      /\ \A q \in Register : Pending(q)' <=> Pending(q)
      /\ \A n \in TypeName : Whole(n) => Whole(n)'
      /\ \A q \in Register : reg'[q].step # "loading" /\ lock' # q
      /\ up /\ (SchemaFirst => SchemaFirst')
  BY <1>1, <1>2, EndLoadKeeps
<1>4. RegistryTypeOK'
  <2>1. \A q \in Register : Pending(q) => reg'[q] = reg[q]
    <3>1. \A q \in Register : reg[q].step = "loading" => ~Pending(q)
      BY WriteStepsAre DEF Pending
    <3> QED
      BY <1>3, <3>1
  <2>2. failed' \in {"no", "yes", "retried"}
    BY <1>1, <1>2
  <2> QED
    BY <1>1, <1>2, <1>3, <2>1, <2>2 DEF RegistryTypeOK, TypesTypeOK
<1>5. LoadsByOne'
  <2>1. ~(up' /\ failed' = "retried")
    BY <1>1
  <2> QED
    BY <1>1, <1>3, <2>1 DEF LoadsByOne
<1>6. PairsWhole'
  <2> SUFFICES ASSUME NEW n \in TypeName, failed' = "no" \/ failed' = "retried" PROVE Whole(n)'
    BY DEF PairsWhole
  <2>1. failed = "no"
    BY <1>1
  <2> QED
    BY <1>2, <1>3, <2>1 DEF PairsWhole
<1>7. ServedOrPending'
  <2> SUFFICES ASSUME failed' = "no", \A r \in Register : ~Pending(r) PROVE FALSE
    BY <1>3 DEF ServedOrPending
  <2>1. failed = "no" /\ Fresh
    BY <1>1, <1>2 DEF LoadsAreFresh
  <2>2. \A n \in TypeName : Whole(n)
    BY <1>2, <1>3, <2>1 DEF PairsWhole
  <2>3. \A r \in Register : reg[r].step \notin {"fill schema", "open policy"}
    BY WriteStepsAre DEF Pending
  <2>4. \A n \in TypeName : files[n].schema # Empty /\ (files[n].schema # None => files[n].policy # None)
    BY <2>2, <2>3 DEF Whole
  <2>5. CASE \E n \in todo : ~Readable(n)
    BY <1>2, <2>1, <2>4, <2>5 DEF Readable, Fresh
  <2>6. CASE todo = {} /\ OrphanPolicy
    <3>1. PICK n \in TypeName : files[n].policy # None /\ read[n] = None
      BY <2>6 DEF OrphanPolicy
    <3>2. files[n].schema # None /\ files[n] # None
      BY <1>2, <3>1, TaskTypesAssumption DEF SchemaFirst
    <3> QED
      BY <2>1, <2>6, <3>1, <3>2 DEF Fresh
  <2> QED
    BY <1>1, <2>5, <2>6
<1> QED
  BY <1>2, <1>3, <1>4, <1>5, <1>6, <1>7 DEF RegistryInv, LoadsAreFresh

(* Files written by hand are pairs. *)
LEMMA EditInv ==
    ASSUME RegistryInv, NEW n \in TypeName, NEW schema \in Text, NEW policy_text \in Text,
           edit(n, schema, policy_text)
    PROVE  RegistryInv'
<1>0. PICK pair : pair = [schema |-> schema, policy |-> policy_text]
  OBVIOUS
<1>1. /\ up => reload_enabled /\ Quiet
      /\ files' = [files EXCEPT ![n] = pair]
      /\ changed' = TRUE
      /\ UNCHANGED <<lock, todo, read, definitions, reg, up, failed, reload_enabled>>
  BY <1>0 DEF edit, Touched
<1>2. /\ RegistryTypeOK /\ LoadsByOne /\ SchemaFirst /\ PairsWhole
      /\ files \in [TypeName -> Pair]
  BY DEF RegistryInv, RegistryTypeOK, TypesTypeOK
<1>3. /\ pair \in Pair /\ pair.schema \in Text /\ pair.policy \in Text
      /\ pair.schema # None /\ pair.schema # Empty /\ pair.policy # None
  BY <1>0, TaskTypesAssumption DEF Pair
<1>4. /\ files' \in [TypeName -> Pair] /\ files'[n] = pair
      /\ \A m \in TypeName \ {n} : files'[m] = files[m]
  BY <1>1, <1>2, <1>3
<1>5. Quiet /\ Quiet' /\ lock = None
  BY <1>1, <1>2 DEF LoadsByOne, Quiet
<1>6. \A q \in Register : Pending(q)' <=> Pending(q)
  BY <1>1 DEF Pending
<1>7. RegistryTypeOK'
  BY <1>1, <1>2, <1>4, <1>6 DEF RegistryTypeOK, TypesTypeOK
<1>8. LoadsByOne'
  BY <1>1, <1>2, <1>5 DEF LoadsByOne
<1>9. SchemaFirst'
  <2>1. \A m \in TypeName : files'[m].policy # None => files'[m].schema # None
    BY <1>2, <1>3, <1>4 DEF SchemaFirst
  <2>2. \A q \in Register : ~Pending(q)'
    BY <1>1, <1>5, WriteStepsAre DEF Pending, Quiet
  <2> QED
    BY <2>1, <2>2 DEF SchemaFirst
<1>10. PairsWhole'
  <2>1. Whole(n)'
    BY <1>3, <1>4 DEF Whole
  <2>2. \A m \in TypeName \ {n} : Whole(m) => Whole(m)'
    BY <1>1, <1>4 DEF Whole
  <2> QED
    BY <1>1, <1>2, <2>1, <2>2 DEF PairsWhole
<1> QED
  BY <1>1, <1>5, <1>7, <1>8, <1>9, <1>10 DEF RegistryInv, LoadsAreFresh, ServedOrPending

(* A crash, and the next start. *)
LEMMA RestartInv ==
    ASSUME RegistryInv, crash \/ create_app
    PROVE  RegistryInv'
<1>1. /\ RegistryTypeOK /\ LoadsByOne /\ SchemaFirst
      /\ files \in [TypeName -> Pair] /\ reg \in [Register -> RegRow]
  BY DEF RegistryInv, RegistryTypeOK, TypesTypeOK
<1>2. CASE crash
  <2>1. /\ up' = FALSE /\ lock' = None /\ todo' = {}
        /\ definitions' = [n \in TypeName |-> None] /\ read' = [n \in TypeName |-> None]
        /\ reg' = [r \in Register |-> NoReg]
        /\ UNCHANGED <<files, changed, failed, reload_enabled>>
    BY <1>2 DEF crash
  <2>2. reg' \in [Register -> RegRow] /\ \A r \in Register : reg'[r] = NoReg
    BY <2>1, NoRegIs
  <2>3. \A r \in Register : ~Pending(r)' /\ reg'[r].step = "idle" /\ lock' # r
    BY <2>1, <2>2, NoRegIs, WriteStepsAre, TaskTypesAssumption DEF Pending
  <2>4. RegistryTypeOK'
    BY <1>1, <2>1, <2>2, <2>3 DEF RegistryTypeOK, TypesTypeOK
  <2>5. LoadsByOne' /\ SchemaFirst'
    BY <1>1, <2>1, <2>3 DEF LoadsByOne, SchemaFirst, Quiet
  <2> QED
    BY <2>1, <2>4, <2>5 DEF RegistryInv, PairsWhole, LoadsAreFresh, ServedOrPending
<1>3. CASE create_app
  <2>1. /\ ~up /\ Loadable /\ up' = TRUE /\ failed' = "no" /\ changed' = FALSE
        /\ definitions' = [n \in TypeName |-> IF files[n] = NoPair THEN None ELSE files[n]]
        /\ UNCHANGED <<files, lock, todo, read, reg, reload_enabled>>
    BY <1>3 DEF create_app
  <2>2. definitions' \in [TypeName -> Pair \cup {None}] /\ Serves'
    BY <1>1, <2>1 DEF Serves
  <2>3. Quiet /\ lock = None /\ \A r \in Register : reg[r].step = "idle"
    BY <1>1, <2>1 DEF LoadsByOne, Quiet
  <2>4. \A r \in Register : Pending(r)' <=> Pending(r)
    BY <2>1 DEF Pending
  <2>5. RegistryTypeOK'
    BY <1>1, <2>1, <2>2, <2>4 DEF RegistryTypeOK, TypesTypeOK
  <2>6. LoadsByOne' /\ SchemaFirst'
    BY <1>1, <2>1, <2>3, <2>4 DEF LoadsByOne, SchemaFirst
  <2>7. PairsWhole'
    <3>1. ASSUME NEW n \in TypeName
          PROVE  files[n].schema # Empty /\ (files[n].schema # None => files[n].policy # None)
      <4>1. files[n] = NoPair \/ (files[n].schema \notin {None, Empty} /\ files[n].policy # None)
        BY <2>1 DEF Loadable
      <4> QED
        BY <4>1, NoPairIs, TaskTypesAssumption
    <3> QED
      BY <2>1, <3>1 DEF PairsWhole, Whole
  <2> QED
    BY <2>1, <2>2, <2>3, <2>5, <2>6, <2>7 DEF RegistryInv, LoadsAreFresh, ServedOrPending
<1> QED
  BY <1>2, <1>3

THEOREM RegistryInvariant == TypesSpec => []RegistryInv
<1>1. ASSUME \E first \in [TypeName -> [schema : Text, policy : Text] \cup {NoPair}] : TypesInit(first),
             reload_enabled \in BOOLEAN
      PROVE  RegistryInv
  BY <1>1, RegistryInit
<1>2. ASSUME RegistryInv, [TypesNext]_typeVars PROVE RegistryInv'
  <2>1. CASE \E r \in Register, n \in TypeName, schema, policy_text \in Text :
               register(r, n, schema, policy_text)
    BY <1>2, <2>1, RegisterInv
  <2>2. CASE \E r \in Register : write_text(r)
    BY <1>2, <2>2, WriteTextInv
  <2>3. CASE \E r \in Register : write_fails(r)
    BY <1>2, <2>3, WriteFailsInv
  <2>4. CASE (\E r \in Register : load(r)) \/ maybe_reload
    BY <1>2, <2>4, StartLoadInv
  <2>5. CASE load_error
    BY <1>2, <2>5, LoadErrorInv
  <2>6. CASE load_ends
    BY <1>2, <2>6, LoadEndsInv
  <2>7. CASE \E n \in TypeName : load_pair(n)
    BY <1>2, <2>7, LoadPairInv
  <2>8. CASE \E n \in TypeName, schema, policy_text \in Text : edit(n, schema, policy_text)
    BY <1>2, <2>8, EditInv
  <2>9. CASE crash \/ create_app
    BY <1>2, <2>9, RestartInv
  <2>10. CASE UNCHANGED typeVars
    <3>1. UNCHANGED <<files, definitions, changed, lock, todo, read, reg, up, failed, reload_enabled>>
      BY <2>10 DEF typeVars
    <3>2. \A q : Pending(q)' <=> Pending(q)
      BY <3>1 DEF Pending
    <3>3. RegistryTypeOK' /\ LoadsByOne' /\ SchemaFirst'
      BY <1>2, <3>1, <3>2 DEF RegistryInv, RegistryTypeOK, TypesTypeOK, LoadsByOne, SchemaFirst, Quiet
    <3>4. PairsWhole' /\ LoadsAreFresh' /\ ServedOrPending'
      <4>1. \A n : Whole(n) => Whole(n)'
        BY <3>1 DEF Whole
      <4>2. PairsWhole'
        BY <1>2, <3>1, <4>1 DEF RegistryInv, PairsWhole
      <4>3. LoadsAreFresh'
        BY <1>2, <3>1, <3>2 DEF RegistryInv, LoadsAreFresh, Fresh
      <4>4. ServedOrPending'
        BY <1>2, <3>1, <3>2 DEF RegistryInv, ServedOrPending, Serves
      <4> QED
        BY <4>2, <4>3, <4>4
    <3> QED
      BY <3>3, <3>4 DEF RegistryInv
  <2> QED
    BY <1>2, <2>1, <2>2, <2>3, <2>4, <2>5, <2>6, <2>7, <2>8, <2>9, <2>10 DEF TypesNext
<1> QED
  BY <1>1, <1>2, PTL DEF TypesSpec

(* A registry nobody is changing serves what is on disk, whatever number of  *)
(* registrations overlapped before, over crashes and restarts               *)
(* (TaskTypeRegistry.register and load).                                    *)
THEOREM RegistryServes == TypesSpec => []RegistryServesTheFiles
<1>1. RegistryInv => RegistryServesTheFiles
  <2>1. Quiet => \A r \in Register : ~Pending(r)
    BY WriteStepsAre DEF Quiet, Pending
  <2> QED
    BY <2>1 DEF RegistryInv, ServedOrPending, Serves, RegistryServesTheFiles, Quiet
<1> QED
  BY <1>1, RegistryInvariant, PTL

(***************************************************************************)
(* MemorySync: what a sync of a scope leaves there.                         *)
(***************************************************************************)
MemoryRow == [id : Nat, scope : Scope, ref : File, text : Content]
SyncRow == [step : {"idle", "ingest", "prune", "commit"}, scope : Scope \cup {None},
            full_sync : BOOLEAN, items : SUBSET (File \X Content),
            added : SUBSET MemoryRow, stale : SUBSET Nat, overlapped : BOOLEAN]

(* Rows are of the scope they were read for, and have ids given before. *)
MemoryTyped ==
    /\ disk \in [File -> Content \cup {None}]
    /\ row_id \in Nat
    /\ memory_item \subseteq MemoryRow
    /\ sync \in [Sync -> SyncRow]
    /\ \A row \in memory_item : row.id \in 1..row_id
    /\ \A s \in Sync : \A row \in sync[s].added : row.id \in 1..row_id /\ row.scope = sync[s].scope

StepsInOrder ==
    \A s \in Sync :
        /\ IsFiniteSet(sync[s].items)
        /\ sync[s].step # "idle" => sync[s].scope \in Scope
        /\ sync[s].step \in {"idle", "ingest"} => sync[s].added = {}
        /\ sync[s].step = "prune" => sync[s].full_sync
        /\ sync[s].step # "commit" \/ ~sync[s].full_sync => sync[s].stale = {}

(* No id is given twice, in the table or by those who have yet to commit. *)
RowsOf(s) == memory_item \cup sync[s].added
IdsAreGivenOnce ==
    \A s, q \in Sync : \A row \in RowsOf(s), other \in RowsOf(q) : row.id = other.id => row = other

(* What a sync that nobody overtook has read, it sees stored, *)
SeesItsFiles ==
    \A s \in Sync :
        sync[s].step \in {"prune", "commit"} /\ ~sync[s].overlapped =>
            sync[s].items \subseteq Items(View(s))
(* and a full one will delete the rest. *)
PrunesTheRest ==
    \A s \in Sync :
        sync[s].step = "commit" /\ sync[s].full_sync /\ ~sync[s].overlapped =>
            \A row \in View(s) : row.id \in sync[s].stale <=> <<row.ref, row.text>> \notin sync[s].items

MemoryInv ==
    MemoryTyped /\ StepsInOrder /\ IdsAreGivenOnce /\ SeesItsFiles /\ PrunesTheRest
-----------------------------------------------------------------------------
LEMMA NoSyncIs ==
    /\ NoSync \in SyncRow /\ NoSync.step = "idle" /\ NoSync.scope = None
    /\ NoSync.items = {} /\ NoSync.added = {} /\ NoSync.stale = {}
BY DEF NoSync, SyncRow

LEMMA MemoryInitInv ==
    ASSUME MemoryInit
    PROVE  MemoryInv
<1>1. \A s \in Sync : sync[s] = NoSync
  BY DEF MemoryInit
<1>2. IsFiniteSet({})
  BY FS_EmptySet
<1>3. MemoryTyped
  BY <1>1, NoSyncIs DEF MemoryInit, MemoryTyped
<1>4. StepsInOrder
  BY <1>1, <1>2, NoSyncIs DEF StepsInOrder
<1>5. IdsAreGivenOnce /\ SeesItsFiles /\ PrunesTheRest
  BY <1>1, NoSyncIs DEF MemoryInit, IdsAreGivenOnce, RowsOf, SeesItsFiles, PrunesTheRest
<1> QED
  BY <1>3, <1>4, <1>5 DEF MemoryInv

(* One sync takes a step that writes no row of the table: what holds of the *)
(* others still does.                                                       *)
LEMMA OneSyncMoves ==
    ASSUME MemoryInv, NEW s \in Sync, NEW row \in SyncRow,
           sync' \in [Sync -> SyncRow], sync'[s] = row,
           \A q \in Sync \ {s} : sync'[q] = sync[q],
           UNCHANGED <<disk, memory_item>>, row_id' \in Nat, row_id <= row_id',
           IsFiniteSet(row.items),
           row.step # "idle" => row.scope \in Scope,
           row.step \in {"idle", "ingest"} => row.added = {},
           row.step = "prune" => row.full_sync,
           row.step # "commit" \/ ~row.full_sync => row.stale = {},
           \A x \in row.added : x.id \in 1..row_id' /\ x.scope = row.scope,
           \A x \in row.added, q \in Sync \ {s} : \A y \in RowsOf(q) : x.id = y.id => x = y,
           \A x \in row.added, y \in memory_item \cup row.added : x.id = y.id => x = y,
           row.step \in {"prune", "commit"} /\ ~row.overlapped =>
               row.items \subseteq Items(InScope(memory_item, row.scope) \cup row.added),
           row.step = "commit" /\ row.full_sync /\ ~row.overlapped =>
               \A x \in InScope(memory_item, row.scope) \cup row.added :
                   x.id \in row.stale <=> <<x.ref, x.text>> \notin row.items
    PROVE  MemoryInv'
<1>1. MemoryTyped /\ StepsInOrder /\ IdsAreGivenOnce /\ SeesItsFiles /\ PrunesTheRest
  BY DEF MemoryInv
<1>2. /\ sync' \in [Sync -> SyncRow] /\ sync'[s] = row
      /\ \A q \in Sync \ {s} : sync'[q] = sync[q]
  OBVIOUS
<1>3. MemoryTyped'
  <2>1. \A x \in memory_item : x.id \in 1..row_id'
    BY <1>1 DEF MemoryTyped
  <2>2. ASSUME NEW q \in Sync PROVE \A x \in sync'[q].added : x.id \in 1..row_id' /\ x.scope = sync'[q].scope
    <3>1. CASE q = s
      BY <1>2, <3>1
    <3>2. CASE q # s
      BY <1>1, <1>2, <3>2 DEF MemoryTyped
    <3> QED
      BY <3>1, <3>2
  <2> QED
    BY <1>1, <1>2, <2>1, <2>2 DEF MemoryTyped
<1>4. StepsInOrder'
  BY <1>1, <1>2 DEF StepsInOrder
<1>5. IdsAreGivenOnce'
  <2>1. RowsOf(s)' = memory_item \cup row.added /\ \A q \in Sync \ {s} : RowsOf(q)' = RowsOf(q)
    BY <1>2 DEF RowsOf
  <2>2. memory_item \subseteq RowsOf(s) /\ \A q \in Sync : memory_item \subseteq RowsOf(q)
    BY DEF RowsOf
  <2>3. ASSUME NEW q \in Sync, NEW v \in Sync, NEW x \in RowsOf(q)', NEW y \in RowsOf(v)', x.id = y.id
        PROVE  x = y
    <3>1. CASE q # s /\ v # s
      BY <1>1, <2>1, <2>3, <3>1 DEF IdsAreGivenOnce
    <3>2. CASE q = s /\ v = s
      BY <1>1, <2>1, <2>2, <2>3, <3>2 DEF IdsAreGivenOnce
    <3>3. CASE q = s /\ v # s
      <4>1. x \in memory_item \/ x \in row.added
        BY <2>1, <3>3
      <4> QED
        BY <1>1, <2>1, <2>2, <2>3, <3>3, <4>1 DEF IdsAreGivenOnce
    <3>4. CASE q # s /\ v = s
      <4>1. y \in memory_item \/ y \in row.added
        BY <2>1, <3>4
      <4> QED
        BY <1>1, <2>1, <2>2, <2>3, <3>4, <4>1 DEF IdsAreGivenOnce
    <3> QED
      BY <3>1, <3>2, <3>3, <3>4
  <2> QED
    BY <2>3 DEF IdsAreGivenOnce
<1>6. /\ View(s)' = InScope(memory_item, row.scope) \cup row.added
      /\ \A q \in Sync \ {s} : View(q)' = View(q)
  BY <1>2 DEF View, InScope
<1>7. SeesItsFiles'
  <2>1. ASSUME NEW q \in Sync, q # s, sync'[q].step \in {"prune", "commit"}, ~sync'[q].overlapped
        PROVE  sync'[q].items \subseteq Items(View(q)')
    BY <1>1, <1>2, <1>6, <2>1 DEF SeesItsFiles
  <2>2. ASSUME row.step \in {"prune", "commit"}, ~row.overlapped
        PROVE  row.items \subseteq Items(View(s)')
    BY <1>6, <2>2
  <2>3. \A q \in Sync : Items(View(q))' = Items(View(q)')
    BY DEF Items
  <2> QED
    BY <1>2, <2>1, <2>2, <2>3 DEF SeesItsFiles
<1>8. PrunesTheRest'
  <2>1. ASSUME NEW q \in Sync, q # s, sync'[q].step = "commit", sync'[q].full_sync, ~sync'[q].overlapped,
               NEW x \in View(q)'
        PROVE  x.id \in sync'[q].stale <=> <<x.ref, x.text>> \notin sync'[q].items
    BY <1>1, <1>2, <1>6, <2>1 DEF PrunesTheRest
  <2> QED
    BY <1>2, <1>6, <2>1 DEF PrunesTheRest
<1> QED
  BY <1>3, <1>4, <1>5, <1>7, <1>8 DEF MemoryInv

LEMMA BeginInv ==
    ASSUME MemoryInv, NEW s \in Sync, NEW scope \in Scope, NEW walk \in Walk, NEW full_sync \in BOOLEAN,
           begin_sync(s, scope, walk, full_sync)
    PROVE  MemoryInv'
<1> DEFINE said == {<<f, disk[f]>> : f \in walk}
<1>1. PICK row : row = [NoSync EXCEPT !.step = "ingest", !.scope = scope, !.full_sync = full_sync, !.items = said]
  OBVIOUS
<1>2. sync' = [sync EXCEPT ![s] = row] /\ UNCHANGED <<disk, memory_item, row_id>> /\ \A f \in walk : disk[f] # None
  BY <1>1 DEF begin_sync
<1>3. /\ walk \subseteq File /\ IsFiniteSet(walk)
      /\ disk \in [File -> Content \cup {None}] /\ row_id \in Nat
  BY MemorySyncAssumption DEF MemoryInv, MemoryTyped
<1>4. said \subseteq File \X Content
  BY <1>2, <1>3
<1>5. IsFiniteSet(said)
  <2> DEFINE f == [x \in walk |-> <<x, disk[x]>>]
  <2>1. f \in [walk -> said] /\ \A t \in said : \E x \in walk : f[x] = t
    OBVIOUS
  <2>2. f \in Surjection(walk, said)
    BY <2>1 DEF Surjection
  <2> QED
    BY <1>3, <2>2, FS_Surjection
<1> HIDE DEF said
<1>6. /\ row \in SyncRow /\ row.step = "ingest" /\ row.scope = scope
      /\ row.items = said /\ row.added = {} /\ row.stale = {}
  BY <1>1, <1>4 DEF NoSync, SyncRow
<1>20. /\ sync' \in [Sync -> SyncRow] /\ sync'[s] = row
       /\ \A q \in Sync \ {s} : sync'[q] = sync[q]
  BY <1>2, <1>6 DEF MemoryInv, MemoryTyped
<1> QED
  BY <1>2, <1>3, <1>5, <1>6, <1>20, OneSyncMoves

LEMMA RollbackInv ==
    ASSUME MemoryInv, NEW s \in Sync, rollback_sync(s)
    PROVE  MemoryInv'
<1>1. PICK row : row = NoSync
  OBVIOUS
<1>2. sync' = [sync EXCEPT ![s] = row] /\ UNCHANGED <<disk, memory_item, row_id>> /\ row_id \in Nat
  BY <1>1 DEF rollback_sync, MemoryInv, MemoryTyped
<1>3. /\ row \in SyncRow /\ row.step = "idle" /\ row.items = {} /\ row.added = {} /\ row.stale = {}
  BY <1>1, NoSyncIs
<1>4. IsFiniteSet({})
  BY FS_EmptySet
<1>20. /\ sync' \in [Sync -> SyncRow] /\ sync'[s] = row
       /\ \A q \in Sync \ {s} : sync'[q] = sync[q]
  BY <1>2, <1>3 DEF MemoryInv, MemoryTyped
<1> QED
  BY <1>2, <1>3, <1>4, <1>20, OneSyncMoves, SMTT(30)

LEMMA EditFileInv ==
    ASSUME MemoryInv, NEW f \in File, NEW said \in Content \cup {None}, edit_file(f, said)
    PROVE  MemoryInv'
<1>1. disk' = [disk EXCEPT ![f] = said] /\ UNCHANGED <<memory_item, sync, row_id>>
  BY DEF edit_file
<1>2. MemoryTyped' /\ StepsInOrder'
  BY <1>1 DEF MemoryInv, MemoryTyped, StepsInOrder
<1>3. IdsAreGivenOnce' /\ SeesItsFiles' /\ PrunesTheRest'
  BY <1>1 DEF MemoryInv, IdsAreGivenOnce, RowsOf, SeesItsFiles, PrunesTheRest, View, InScope, Items
<1> QED
  BY <1>2, <1>3 DEF MemoryInv

(* New rows: one for each item, with ids of their own above those given. *)
LEMMA NewRowsAre ==
    ASSUME NEW s \in Sync, NEW items, items \subseteq File \X Content, IsFiniteSet(items),
           row_id \in Nat, sync[s].scope \in Scope
    PROVE  /\ NewRows(s, items) \subseteq MemoryRow
           /\ Cardinality(items) \in Nat
           /\ Items(NewRows(s, items)) = items
           /\ \A x \in NewRows(s, items) :
                x.id \in (row_id + 1)..(row_id + Cardinality(items)) /\ x.scope = sync[s].scope
           /\ \A x, y \in NewRows(s, items) : x.id = y.id => x = y
<1>1. PICK n : n = Cardinality(items)
  OBVIOUS
<1>2. n \in Nat
  BY <1>1, FS_CardinalityType
<1>3. ExistsBijection(items, 1..n)
  <2>1. IsFiniteSet(1..n) /\ Cardinality(1..n) = n
    BY <1>2, FS_Interval
  <2> QED
    BY <1>1, <2>1, FS_SameCardinalityBij
<1>4. \E order \in [items -> 1..n] : \A i, j \in items : order[i] = order[j] => i = j
  BY <1>3 DEF ExistsBijection, Bijection, Injection, IsInjective
<1>5. PICK ordered : ordered = CHOOSE order \in [items -> 1..n] : \A i, j \in items : order[i] = order[j] => i = j
  OBVIOUS
<1>6. ordered \in [items -> 1..n] /\ \A i, j \in items : ordered[i] = ordered[j] => i = j
  BY <1>4, <1>5
<1> DEFINE new(i) == [id |-> row_id + ordered[i], scope |-> sync[s].scope, ref |-> i[1], text |-> i[2]]
<1>7. NewRows(s, items) = {new(i) : i \in items}
  BY <1>1, <1>5 DEF NewRows
<1>8. \A i \in items : /\ new(i) \in MemoryRow /\ new(i).id \in (row_id + 1)..(row_id + n)
                       /\ new(i).scope = sync[s].scope /\ <<new(i).ref, new(i).text>> = i
  BY <1>2, <1>6 DEF MemoryRow
<1>9. \A i, j \in items : new(i).id = new(j).id => i = j
  BY <1>6
<1> HIDE DEF new
<1> QED
  BY <1>1, <1>2, <1>7, <1>8, <1>9 DEF Items

LEMMA IngestInv ==
    ASSUME MemoryInv, NEW s \in Sync, ingest(s)
    PROVE  MemoryInv'
<1>1. PICK new : new = sync[s].items \ Items(View(s))
  OBVIOUS
<1>2. PICK rows : rows = NewRows(s, new)
  OBVIOUS
<1>3. PICK next : next = IF prunes(s) THEN "prune" ELSE "commit"
  OBVIOUS
<1>4. PICK row : row = [sync[s] EXCEPT !.added = rows, !.step = next]
  OBVIOUS
<1>5. /\ MemoryTyped /\ StepsInOrder /\ IdsAreGivenOnce /\ sync[s].step = "ingest"
      /\ sync[s] \in SyncRow /\ sync[s].scope \in Scope /\ row_id \in Nat
      /\ sync[s].added = {} /\ sync[s].stale = {}
  BY DEF ingest, MemoryInv, MemoryTyped, StepsInOrder
<1>6. /\ sync' = [sync EXCEPT ![s] = row] /\ UNCHANGED <<disk, memory_item>>
      /\ row_id' = row_id + Cardinality(new)
  BY <1>1, <1>2, <1>3, <1>4 DEF ingest
<1>7. new \subseteq File \X Content /\ IsFiniteSet(new)
  <2>1. new \in SUBSET sync[s].items /\ IsFiniteSet(sync[s].items)
    BY <1>1, <1>5 DEF StepsInOrder
  <2> QED
    BY <1>5, <2>1, FS_Subset DEF SyncRow
<1>8. /\ rows \subseteq MemoryRow /\ Cardinality(new) \in Nat /\ Items(rows) = new
      /\ \A x \in rows : x.id \in (row_id + 1)..row_id' /\ x.scope = sync[s].scope
      /\ \A x, y \in rows : x.id = y.id => x = y
  BY <1>2, <1>5, <1>6, <1>7, NewRowsAre
<1>9. /\ row \in SyncRow /\ row.step = next /\ row.scope = sync[s].scope /\ row.items = sync[s].items
      /\ row.added = rows /\ row.stale = {} /\ row.full_sync = sync[s].full_sync
      /\ next = (IF row.full_sync THEN "prune" ELSE "commit")
  BY <1>3, <1>4, <1>5, <1>8 DEF SyncRow, prunes
<1>10. row_id' \in Nat /\ row_id <= row_id' /\ \A x \in rows : x.id \in 1..row_id'
  BY <1>5, <1>6, <1>8
<1>11. \A q \in Sync : \A y \in RowsOf(q) : y.id \in 1..row_id
  BY <1>5 DEF MemoryTyped, RowsOf
<1>12. \A x \in rows, q \in Sync : \A y \in RowsOf(q) : x.id # y.id
  BY <1>5, <1>8, <1>10, <1>11
<1>13. \A x \in rows, y \in memory_item : x.id # y.id
  BY <1>12 DEF RowsOf
<1>14. row.items \subseteq Items(InScope(memory_item, row.scope) \cup rows)
  <2>1. View(s) = InScope(memory_item, row.scope)
    BY <1>5, <1>9 DEF View
  <2>2. row.items \subseteq Items(InScope(memory_item, row.scope)) \cup Items(rows)
    BY <1>1, <1>8, <1>9, <2>1
  <2> QED
    BY <2>2 DEF Items
<1>15. IsFiniteSet(row.items)
  BY <1>5, <1>9 DEF StepsInOrder
<1>16. \A x \in row.added, y \in memory_item \cup row.added : x.id = y.id => x = y
  BY <1>8, <1>9, <1>13
<1>20. /\ sync' \in [Sync -> SyncRow] /\ sync'[s] = row
       /\ \A q \in Sync \ {s} : sync'[q] = sync[q]
  BY <1>6, <1>9 DEF MemoryInv, MemoryTyped
<1> QED
  BY <1>5, <1>6, <1>8, <1>9, <1>10, <1>12, <1>14, <1>15, <1>16, <1>20, OneSyncMoves

(* The rows of the scope whose file was not read are chosen, each by its id. *)
LEMMA SelectStaleInv ==
    ASSUME MemoryInv, NEW s \in Sync, select_stale(s)
    PROVE  MemoryInv'
<1>1. PICK stale : stale = {row.id : row \in {x \in View(s) : _prune_stale_rows(s, x)}}
  OBVIOUS
<1>2. PICK row : row = [sync[s] EXCEPT !.stale = stale, !.step = "commit"]
  OBVIOUS
<1>3. /\ MemoryTyped /\ StepsInOrder /\ IdsAreGivenOnce /\ SeesItsFiles /\ sync[s].step = "prune"
      /\ sync[s] \in SyncRow /\ sync[s].scope \in Scope /\ row_id \in Nat /\ sync[s].full_sync
      /\ IsFiniteSet(sync[s].items)
  BY DEF select_stale, MemoryInv, MemoryTyped, StepsInOrder
<1>4. sync' = [sync EXCEPT ![s] = row] /\ UNCHANGED <<disk, memory_item, row_id>>
  BY <1>1, <1>2 DEF select_stale
<1>5. View(s) \subseteq RowsOf(s) /\ RowsOf(s) \subseteq MemoryRow
  BY <1>3 DEF View, InScope, RowsOf, MemoryTyped, SyncRow
<1>6. stale \subseteq Nat
  BY <1>1, <1>5 DEF MemoryRow
<1>7. /\ row \in SyncRow /\ row.step = "commit" /\ row.scope = sync[s].scope /\ row.items = sync[s].items
      /\ row.added = sync[s].added /\ row.stale = stale /\ row.full_sync
      /\ row.overlapped = sync[s].overlapped
  BY <1>2, <1>3, <1>6 DEF SyncRow
<1>8. View(s) = InScope(memory_item, row.scope) \cup row.added
  BY <1>7 DEF View
<1>9. \A x \in View(s) : x.id \in stale <=> <<x.ref, x.text>> \notin row.items
  <2>1. \A x \in View(s) : _prune_stale_rows(s, x) <=> <<x.ref, x.text>> \notin row.items
    BY <1>7 DEF _prune_stale_rows
  <2>2. \A x, y \in View(s) : x.id = y.id => x = y
    BY <1>3, <1>5 DEF IdsAreGivenOnce
  <2> QED
    BY <1>1, <2>1, <2>2
<1>10. ~row.overlapped => row.items \subseteq Items(View(s))
  BY <1>3, <1>7 DEF SeesItsFiles
<1>11. \A x \in row.added : x.id \in 1..row_id /\ x.scope = row.scope
  BY <1>3, <1>7 DEF MemoryTyped
<1>12. \A x \in row.added, q \in Sync : \A y \in RowsOf(q) : x.id = y.id => x = y
  BY <1>3, <1>7 DEF IdsAreGivenOnce, RowsOf
<1>13. \A x \in row.added, y \in memory_item \cup row.added : x.id = y.id => x = y
  BY <1>7, <1>12 DEF RowsOf
<1>20. /\ sync' \in [Sync -> SyncRow] /\ sync'[s] = row
       /\ \A q \in Sync \ {s} : sync'[q] = sync[q]
  BY <1>4, <1>7 DEF MemoryInv, MemoryTyped
<1> QED
  BY <1>3, <1>4, <1>7, <1>8, <1>9, <1>10, <1>11, <1>12, <1>13, <1>20, OneSyncMoves

(* A commit changes its own scope, and those who look at that one know. *)
LEMMA CommitInv ==
    ASSUME MemoryInv, NEW s \in Sync, commit_sync(s)
    PROVE  MemoryInv'
<1>1. /\ MemoryTyped /\ StepsInOrder /\ IdsAreGivenOnce /\ SeesItsFiles /\ PrunesTheRest
      /\ sync[s].step = "commit" /\ sync[s].scope \in Scope
      /\ sync \in [Sync -> SyncRow]
  BY DEF commit_sync, MemoryInv, MemoryTyped, StepsInOrder
<1> DEFINE Meets(q) == sync[q].step # "idle" /\ sync[q].scope = sync[s].scope
<1>2. /\ memory_item' = {row \in memory_item \cup sync[s].added : ~Deletes(row, s)}
      /\ UNCHANGED <<disk, row_id>>
      /\ sync' = [x \in Sync |-> IF x = s THEN NoSync
                                 ELSE IF Meets(x) THEN [sync[x] EXCEPT !.overlapped = TRUE] ELSE sync[x]]
  BY DEF commit_sync
<1>3. /\ memory_item' \subseteq RowsOf(s)
      /\ \A row \in memory_item' : row.id \in 1..row_id /\ row \in MemoryRow
  BY <1>1, <1>2 DEF RowsOf, MemoryTyped, SyncRow
<1>4. /\ sync' \in [Sync -> SyncRow] /\ sync'[s] = NoSync
      /\ \A q \in Sync \ {s} :
           /\ sync'[q].step = sync[q].step /\ sync'[q].scope = sync[q].scope
           /\ sync'[q].items = sync[q].items /\ sync'[q].added = sync[q].added
           /\ sync'[q].stale = sync[q].stale /\ sync'[q].full_sync = sync[q].full_sync
           /\ IF Meets(q) THEN sync'[q].overlapped ELSE sync'[q].overlapped = sync[q].overlapped
  <2>1. ASSUME NEW q \in Sync, q # s
        PROVE  /\ sync'[q] \in SyncRow
               /\ sync'[q].step = sync[q].step /\ sync'[q].scope = sync[q].scope
               /\ sync'[q].items = sync[q].items /\ sync'[q].added = sync[q].added
               /\ sync'[q].stale = sync[q].stale /\ sync'[q].full_sync = sync[q].full_sync
               /\ IF Meets(q) THEN sync'[q].overlapped ELSE sync'[q].overlapped = sync[q].overlapped
    <3>1. CASE Meets(q)
      <4>1. sync'[q] = [sync[q] EXCEPT !.overlapped = TRUE] /\ sync[q] \in SyncRow
        BY <1>1, <1>2, <2>1, <3>1
      <4> QED
        BY <3>1, <4>1 DEF SyncRow
    <3>2. CASE ~Meets(q)
      BY <1>1, <1>2, <2>1, <3>2
    <3> QED
      BY <3>1, <3>2
  <2>2. sync'[s] = NoSync
    BY <1>2
  <2>3. sync' \in [Sync -> SyncRow]
    <3>1. \A q \in Sync : sync'[q] \in SyncRow
      BY <2>1, <2>2, NoSyncIs
    <3>2. DOMAIN sync' = Sync /\ sync' = [q \in DOMAIN sync' |-> sync'[q]]
      BY <1>2
    <3> QED
      BY <3>1, <3>2
  <2> QED
    BY <2>1, <2>2, <2>3
<1>5. MemoryTyped'
  <2>1. ASSUME NEW q \in Sync
        PROVE  \A row \in sync'[q].added : row.id \in 1..row_id /\ row.scope = sync'[q].scope
    <3>1. CASE q = s
      BY <1>4, <3>1, NoSyncIs
    <3>2. CASE q # s
      BY <1>1, <1>4, <3>2 DEF MemoryTyped
    <3> QED
      BY <3>1, <3>2
  <2>2. disk' \in [File -> Content \cup {None}] /\ row_id' \in Nat /\ row_id' = row_id
    BY <1>1, <1>2 DEF MemoryTyped
  <2>3. memory_item' \subseteq MemoryRow /\ \A row \in memory_item' : row.id \in 1..row_id'
    BY <1>3, <2>2
  <2> QED
    <3>1. \A q \in Sync : \A row \in sync'[q].added : row.id \in 1..row_id' /\ row.scope = sync'[q].scope
      BY <2>1, <2>2
    <3>2. sync' \in [Sync -> SyncRow]
      BY <1>4
    <3> QED
      BY <2>2, <2>3, <3>1, <3>2 DEF MemoryTyped
<1>6. StepsInOrder'
  <2>1. IsFiniteSet({})
    BY FS_EmptySet
  <2>2. ASSUME NEW q \in Sync
        PROVE  /\ IsFiniteSet(sync'[q].items)
               /\ sync'[q].step # "idle" => sync'[q].scope \in Scope
               /\ sync'[q].step \in {"idle", "ingest"} => sync'[q].added = {}
               /\ sync'[q].step = "prune" => sync'[q].full_sync
               /\ sync'[q].step # "commit" \/ ~sync'[q].full_sync => sync'[q].stale = {}
    <3>1. CASE q = s
      BY <1>4, <2>1, <3>1, NoSyncIs
    <3>2. CASE q # s
      BY <1>1, <1>4, <3>2 DEF StepsInOrder
    <3> QED
      BY <3>1, <3>2
  <2> QED
    BY <2>2 DEF StepsInOrder
<1>7. IdsAreGivenOnce'
  <2>1. \A q \in Sync : RowsOf(q)' \subseteq RowsOf(s) \cup RowsOf(q)
    BY <1>3, <1>4, NoSyncIs DEF RowsOf
  <2> QED
    BY <1>1, <2>1 DEF IdsAreGivenOnce
<1>8. ASSUME NEW q \in Sync, sync'[q].step \in {"prune", "commit"}, ~sync'[q].overlapped
      PROVE  q # s /\ View(q)' = View(q)
  <2>1. q # s
    BY <1>4, <1>8, NoSyncIs
  <2>2. sync[q].scope # sync[s].scope
    BY <1>4, <1>8, <2>1
  <2>3. \A row \in sync[s].added : row.scope # sync[q].scope
    BY <1>1, <2>2 DEF MemoryTyped
  <2>4. InScope(memory_item', sync[q].scope) = InScope(memory_item, sync[q].scope)
    BY <1>2, <2>2, <2>3 DEF InScope, Deletes
  <2> QED
    BY <1>4, <2>1, <2>4 DEF View, InScope
<1>9. SeesItsFiles'
  <2>1. ASSUME NEW q \in Sync, sync'[q].step \in {"prune", "commit"}, ~sync'[q].overlapped
        PROVE  sync'[q].items \subseteq Items(View(q)')
    BY <1>1, <1>4, <1>8, <2>1 DEF SeesItsFiles
  <2>2. \A q \in Sync : Items(View(q))' = Items(View(q)')
    BY DEF Items
  <2> QED
    BY <2>1, <2>2 DEF SeesItsFiles
<1>10. PrunesTheRest'
  <2>1. ASSUME NEW q \in Sync, sync'[q].step = "commit", sync'[q].full_sync, ~sync'[q].overlapped
        PROVE  \A row \in View(q)' : row.id \in sync'[q].stale <=> <<row.ref, row.text>> \notin sync'[q].items
    BY <1>1, <1>4, <1>8, <2>1 DEF PrunesTheRest
  <2> QED
    BY <2>1 DEF PrunesTheRest
<1> QED
  BY <1>5, <1>6, <1>7, <1>9, <1>10 DEF MemoryInv

THEOREM MemoryInvariant == MemorySpec => []MemoryInv
<1>1. MemoryInit => MemoryInv
  BY MemoryInitInv
<1>2. ASSUME MemoryInv, [MemoryNext]_memoryVars PROVE MemoryInv'
  <2>1. CASE \E s \in Sync, scope \in Scope, walk \in Walk, full_sync \in BOOLEAN :
               begin_sync(s, scope, walk, full_sync)
    BY <1>2, <2>1, BeginInv
  <2>2. CASE \E s \in Sync : ingest(s)
    BY <1>2, <2>2, IngestInv
  <2>3. CASE \E s \in Sync : select_stale(s)
    BY <1>2, <2>3, SelectStaleInv
  <2>4. CASE \E s \in Sync : commit_sync(s)
    BY <1>2, <2>4, CommitInv
  <2>5. CASE \E s \in Sync : rollback_sync(s)
    BY <1>2, <2>5, RollbackInv
  <2>6. CASE \E f \in File, said \in Content \cup {None} : edit_file(f, said)
    BY <1>2, <2>6, EditFileInv
  <2>7. CASE UNCHANGED memoryVars
    <3>1. UNCHANGED <<disk, memory_item, sync, row_id>>
      BY <2>7 DEF memoryVars
    <3> QED
      BY <1>2, <3>1 DEF MemoryInv, MemoryTyped, StepsInOrder, IdsAreGivenOnce, RowsOf,
                        SeesItsFiles, PrunesTheRest, View, InScope, Items
  <2> QED
    BY <1>2, <2>1, <2>2, <2>3, <2>4, <2>5, <2>6, <2>7 DEF MemoryNext
<1> QED
  BY <1>1, <1>2, PTL DEF MemorySpec

(* A sync that none of its scope overtook leaves what it read, and nothing  *)
(* else if it was a full one; a partial one takes nothing away, and none    *)
(* touches another scope (MemorySyncService.sync, _prune_stale_rows).       *)
THEOREM SyncsLeaveTheirFiles == MemorySpec => SyncsAreExact
<1> DEFINE Exact(s) ==
      LET here == InScope(memory_item', sync[s].scope) IN
      /\ ~sync[s].overlapped =>
            IF sync[s].full_sync THEN Items(here) = sync[s].items
            ELSE sync[s].items \subseteq Items(here)
      /\ ~sync[s].full_sync => memory_item \subseteq memory_item'
      /\ {row \in memory_item \cup memory_item' : row.scope # sync[s].scope}
           \subseteq memory_item \cap memory_item'
<1>1. ASSUME MemoryInv, NEW s \in Sync, commit_sync(s) PROVE Exact(s)
  <2>1. /\ MemoryTyped /\ StepsInOrder /\ SeesItsFiles /\ PrunesTheRest /\ sync[s].step = "commit"
        /\ memory_item' = {row \in memory_item \cup sync[s].added : ~Deletes(row, s)}
        /\ \A row \in sync[s].added : row.scope = sync[s].scope
    BY <1>1 DEF commit_sync, MemoryInv, MemoryTyped
  <2>2. PICK here : here = InScope(memory_item', sync[s].scope)
    OBVIOUS
  <2>3. here = {row \in View(s) : row.id \notin sync[s].stale}
    BY <2>1, <2>2 DEF InScope, View, Deletes
  <2>4. ~sync[s].full_sync => sync[s].stale = {}
    BY <2>1 DEF StepsInOrder
  <2>5. ASSUME ~sync[s].overlapped
        PROVE  IF sync[s].full_sync THEN Items(here) = sync[s].items ELSE sync[s].items \subseteq Items(here)
    <3>1. sync[s].items \subseteq Items(View(s))
      BY <2>1, <2>5 DEF SeesItsFiles
    <3>2. CASE sync[s].full_sync
      <4>1. here = {row \in View(s) : <<row.ref, row.text>> \in sync[s].items}
        BY <2>1, <2>3, <2>5, <3>2 DEF PrunesTheRest
      <4> QED
        BY <3>1, <3>2, <4>1 DEF Items
    <3>3. CASE ~sync[s].full_sync
      <4>1. here = View(s)
        BY <2>3, <2>4, <3>3
      <4> QED
        BY <3>1, <3>3, <4>1
    <3> QED
      BY <3>2, <3>3
  <2>6. ~sync[s].full_sync => memory_item \subseteq memory_item'
    BY <2>1, <2>4 DEF Deletes
  <2>7. {row \in memory_item \cup memory_item' : row.scope # sync[s].scope} \subseteq memory_item \cap memory_item'
    BY <2>1 DEF Deletes
  <2> QED
    BY <2>2, <2>5, <2>6, <2>7
<1>2. MemoryInv /\ [MemoryNext]_memoryVars => [\A s \in Sync : commit_sync(s) => Exact(s)]_memoryVars
  BY <1>1
<1> QED
  BY <1>2, MemoryInvariant, PTL DEF MemorySpec, SyncsAreExact

(***************************************************************************)
(* EntityRecords: what is stored was validated, and pages miss nothing.     *)
(***************************************************************************)
(* What a validated update will write is of the columns' types, and never   *)
(* when the row was updated.                                                *)
Columns == {"type", "contract", "policy_id"}
PatchTyped(w) ==
    /\ patching[w].of \in {None, "task", "policy"}
    /\ patching[w].of = "task" =>
         /\ patching[w].id \in Id /\ patching[w].began \in 0..now
         /\ DOMAIN patching[w].sets \subseteq Columns
         /\ "type" \in DOMAIN patching[w].sets => patching[w].sets["type"] \in Type
         /\ "contract" \in DOMAIN patching[w].sets => patching[w].sets["contract"] \in Contract
         /\ "policy_id" \in DOMAIN patching[w].sets => patching[w].sets["policy_id"] \in Policy \cup {None}
    /\ patching[w].of = "policy" =>
         patching[w].id \in Policy /\ patching[w].sets["body"] \in Body

ListingRow == [on : BOOLEAN, cursor : Nat \X Nat \X Nat, seen : SUBSET Id, owed : SUBSET Id]

RecordsTyped ==
    /\ RecordsTypeOK
    /\ now \in 0..MaxTime
    /\ patching = [w \in Writer |-> patching[w]]
    /\ \A w \in Writer : PatchTyped(w)
    /\ listing \in ListingRow

(* The column as it will be stored. *)
Column(w, col) ==
    IF col \in DOMAIN patching[w].sets THEN patching[w].sets[col] ELSE task[patching[w].id][col]

(* What was validated is still what will be stored, *)
UpdatesFit ==
    \A w \in Writer \ overtaken :
        patching[w].of = "task" /\ task[patching[w].id] # None =>
            <<Column(w, "type"), Column(w, "contract")>> \in Fits
(* and a policy seen open is open. *)
PoliciesOpen ==
    \A w \in Writer \ overtaken : patching[w].of = "policy" => ~Attached(patching[w].id)

(* A row that is owed is behind the cursor or ahead of it. *)
Ahead(i) == apply_cursor_clause(order_columns(i), listing.cursor)
PagesOwe ==
    IF listing.on
    THEN \A i \in listing.owed : i \in Matching /\ (i \in listing.seen \/ Ahead(i))
    ELSE listing.owed \subseteq listing.seen

RecordsInv == RecordsTyped /\ ContractsFit /\ UpdatesFit /\ PoliciesOpen /\ PagesOwe
-----------------------------------------------------------------------------
(* Both ways of comparing keys are the lexicographic one. *)
Later(key, other) ==
    \/ key[1] > other[1]
    \/ key[1] = other[1] /\ key[2] > other[2]
    \/ key[1] = other[1] /\ key[2] = other[2] /\ key[3] > other[3]

LEMMA KeysCompare ==
    ASSUME NEW key \in Nat \X Nat \X Nat, NEW other \in Nat \X Nat \X Nat
    PROVE  /\ apply_cursor_clause(key, other) <=> Later(key, other)
           /\ ordered_before(other, key) <=> Later(key, other)
<1>1. /\ key[1] \in Nat /\ key[2] \in Nat /\ key[3] \in Nat
      /\ other[1] \in Nat /\ other[2] \in Nat /\ other[3] \in Nat
  OBVIOUS
<1>2. apply_cursor_clause(key, other) <=> Later(key, other)
  <2>1. 1..3 = {1, 2, 3} /\ 1..(1 - 1) = {} /\ 1..(2 - 1) = {1} /\ 1..(3 - 1) = {1, 2}
    OBVIOUS
  <2> DEFINE Here(n) == key[n] > other[n] /\ \A m \in 1..(n - 1) : key[m] = other[m]
  <2>2. apply_cursor_clause(key, other) <=> Here(1) \/ Here(2) \/ Here(3)
    BY <2>1 DEF apply_cursor_clause
  <2>3. /\ Here(1) <=> key[1] > other[1]
        /\ Here(2) <=> key[2] > other[2] /\ key[1] = other[1]
        /\ Here(3) <=> key[3] > other[3] /\ key[1] = other[1] /\ key[2] = other[2]
    BY <2>1
  <2> HIDE DEF Here
  <2> QED
    BY <2>2, <2>3 DEF Later
<1>3. ordered_before(other, key) <=> Later(key, other)
  <2> DEFINE unequal == {n \in 1..3 : other[n] # key[n]}
             First(n) == n \in unequal /\ other[n] < key[n] /\ \A m \in unequal : n <= m
  <2>1. ordered_before(other, key) <=> First(1) \/ First(2) \/ First(3)
    <3>1. ordered_before(other, key) <=> \E n \in unequal : other[n] < key[n] /\ \A m \in unequal : n <= m
      BY DEF ordered_before
    <3>2. unequal \subseteq {1, 2, 3}
      OBVIOUS
    <3> QED
      BY <3>1, <3>2
  <2>2. First(1) <=> key[1] > other[1]
    BY <1>1
  <2>3. First(2) <=> key[1] = other[1] /\ key[2] > other[2]
    BY <1>1
  <2>4. First(3) <=> key[1] = other[1] /\ key[2] = other[2] /\ key[3] > other[3]
    BY <1>1
  <2> HIDE DEF First
  <2> QED
    BY <2>1, <2>2, <2>3, <2>4 DEF Later
<1> QED
  BY <1>2, <1>3

LEMMA KeysAre ==
    ASSUME RecordsTyped, NEW i \in Present
    PROVE  /\ order_columns(i) \in Nat \X Nat \X Nat
           /\ order_columns(i)[1] = Created[i]
           /\ order_columns(i)[2] = task[i].updated_at
           /\ order_columns(i)[3] = i
           /\ Created[i] \in Nat /\ task[i].updated_at \in Nat /\ i \in Nat \ {0} /\ i \in Id
           /\ task[i] \in TaskRow
<1>1. i \in Id /\ i \in Nat \ {0} /\ Created[i] \in Nat /\ task[i] \in TaskRow
  BY RecordsAssumption DEF RecordsTyped, RecordsTypeOK, Present
<1>2. task[i].updated_at \in Nat
  BY <1>1, RecordsAssumption DEF TaskRow
<1> QED
  BY <1>1, <1>2 DEF order_columns

LEMMA NoPatchIs == NoPatch.of = None /\ None \notin {"task", "policy"}
BY RecordsAssumption DEF NoPatch

LEMMA NoListingIs ==
    /\ NoListing \in ListingRow /\ ~NoListing.on
    /\ NoListing.cursor = <<0, 0, 0>> /\ NoListing.seen = {} /\ NoListing.owed = {}
BY DEF NoListing, ListingRow

LEMMA RecordsInitInv ==
    ASSUME RecordsInit
    PROVE  RecordsInv
<1>1. /\ \A i \in Id : task[i] = None
      /\ task \in [Id -> TaskRow \cup {None}]
      /\ policy \in [Policy -> Body \cup {None}]
      /\ overtaken = {} /\ unchecked = {} /\ listing = NoListing /\ now = 0
      /\ patching = [w \in Writer |-> patching[w]] /\ \A w \in Writer : patching[w] = NoPatch
  BY DEF RecordsInit
<1>2. Present = {}
  BY <1>1 DEF Present
<1>3. \A w \in Writer : PatchTyped(w) /\ patching[w].of = None
  BY <1>1, NoPatchIs DEF PatchTyped
<1>4. RecordsTypeOK
  BY <1>1, <1>2, NoListingIs DEF RecordsTypeOK
<1>5. RecordsTyped
  BY <1>1, <1>3, <1>4, NoListingIs, RecordsAssumption DEF RecordsTyped
<1>6. ContractsFit /\ UpdatesFit /\ PoliciesOpen /\ PagesOwe
  BY <1>1, <1>2, <1>3, NoPatchIs, NoListingIs DEF ContractsFit, UpdatesFit, PoliciesOpen, PagesOwe
<1> QED
  BY <1>5, <1>6 DEF RecordsInv

(* A row is written, by a request that ends or without one: requests that   *)
(* looked at it, or at the policy it names, are overtaken.                  *)
LEMMA RowWritten ==
    ASSUME RecordsInv, NEW i \in Id, NEW row \in TaskRow, NEW gone \in SUBSET Writer,
           task' \in [Id -> TaskRow \cup {None}], task'[i] = row,
           \A k \in Id \ {i} : task'[k] = task[k],
           row.policy_id # None => policy[row.policy_id] # None,
           patching' = [w \in Writer |-> patching'[w]],
           \A w \in gone : patching'[w] = NoPatch,
           \A w \in Writer \ gone : patching'[w] = patching[w],
           overtaken' = (overtaken \cup Passed(i, row.policy_id)) \ gone,
           unchecked' \subseteq Id, \A k \in Id \ {i} : k \in unchecked <=> k \in unchecked',
           i \in unchecked' \/ <<row.type, row.contract>> \in Fits,
           listing' \in ListingRow, listing'.on = listing.on, listing'.cursor = listing.cursor,
           listing'.seen = listing.seen, listing'.owed \subseteq listing.owed,
           i \in listing'.owed =>
               (task[i] # None => row.type = Wanted /\ row.updated_at >= task[i].updated_at),
           listing.on /\ i \in listing'.owed => task[i] # None,
           UNCHANGED <<policy, now>>
    PROVE  RecordsInv'
<1>1. /\ RecordsTyped /\ RecordsTypeOK /\ ContractsFit /\ UpdatesFit /\ PoliciesOpen /\ PagesOwe
      /\ row # None
  BY RecordsAssumption DEF RecordsInv, RecordsTyped
<1>2. Present' = Present \cup {i}
  BY <1>1 DEF Present
<1>3. \A w \in Writer : patching'[w].of # None => w \notin gone /\ patching'[w] = patching[w]
  BY NoPatchIs
<1>4. ASSUME NEW w \in Writer, w \notin overtaken', patching'[w].of # None
      PROVE  /\ w \notin overtaken /\ patching'[w] = patching[w]
             /\ patching[w].of = "task" => patching[w].id # i
             /\ patching[w].of = "policy" => patching[w].id # row.policy_id
  BY <1>3, <1>4 DEF Passed
<1>5. RecordsTyped'
  <2>1. RecordsTypeOK'
    <3>1. \A k \in Present' : task'[k].policy_id # None => policy[task'[k].policy_id] # None
      BY <1>1, <1>2 DEF RecordsTypeOK, Present
    <3>2. overtaken' \subseteq Writer
      BY <1>1 DEF RecordsTypeOK, Passed
    <3>3. listing'.seen \subseteq Id /\ listing'.owed \subseteq Id
      BY DEF ListingRow
    <3> QED
      BY <1>1, <3>1, <3>2, <3>3 DEF RecordsTypeOK
  <2>2. ASSUME NEW w \in Writer PROVE PatchTyped(w)'
    <3>1. CASE w \in gone
      BY <3>1, NoPatchIs DEF PatchTyped
    <3>2. CASE w \notin gone
      BY <1>1, <3>2 DEF RecordsTyped, PatchTyped
    <3> QED
      BY <3>1, <3>2
  <2> QED
    BY <1>1, <2>1, <2>2 DEF RecordsTyped
<1>6. ContractsFit'
  BY <1>1, <1>2 DEF ContractsFit, Present
<1>7. UpdatesFit'
  <2>1. ASSUME NEW w \in Writer \ overtaken', patching'[w].of = "task", task'[patching'[w].id] # None
        PROVE  <<Column(w, "type"), Column(w, "contract")>>' \in Fits
    <3>1. /\ w \in Writer \ overtaken /\ patching'[w] = patching[w] /\ patching[w].id # i
          /\ patching[w].id \in Id
      BY <1>1, <1>4, <2>1, NoPatchIs DEF RecordsTyped, PatchTyped
    <3>2. task'[patching[w].id] = task[patching[w].id]
      BY <3>1
    <3>3. Column(w, "type")' = Column(w, "type") /\ Column(w, "contract")' = Column(w, "contract")
      BY <3>1, <3>2 DEF Column
    <3> QED
      BY <1>1, <2>1, <3>1, <3>2, <3>3 DEF UpdatesFit
  <2> QED
    BY <2>1 DEF UpdatesFit
<1>8. PoliciesOpen'
  <2>1. ASSUME NEW w \in Writer \ overtaken', patching'[w].of = "policy"
        PROVE  ~Attached(patching[w].id)'
    <3>1. /\ w \in Writer \ overtaken /\ patching'[w] = patching[w]
          /\ patching[w].id # row.policy_id
      BY <1>4, <2>1, NoPatchIs
    <3>2. ~Attached(patching[w].id)
      BY <1>1, <2>1, <3>1 DEF PoliciesOpen
    <3> QED
      BY <1>2, <3>1, <3>2 DEF Attached, Present
  <2> QED
    BY <2>1 DEF PoliciesOpen
<1>9. PagesOwe'
  <2>1. CASE ~listing.on
    BY <1>1, <2>1 DEF PagesOwe
  <2>2. CASE listing.on
    <3>1. \A k \in listing'.owed : k \in Matching /\ (k \in listing.seen \/ Ahead(k))
      BY <1>1, <2>2 DEF PagesOwe
    <3>2. ASSUME NEW k \in listing'.owed
          PROVE  k \in Matching' /\ (k \in listing.seen \/ Ahead(k)')
      <4>1. k \in Matching /\ k \in Present /\ k \in Present' /\ (k \in listing.seen \/ Ahead(k))
        BY <1>2, <3>1, <3>2 DEF Matching
      <4>2. task'[k].type = Wanted /\ task'[k].updated_at >= task[k].updated_at
        <5>1. CASE k = i
          BY <2>2, <3>2, <5>1
        <5>2. CASE k # i
          BY <1>1, <4>1, <5>2, KeysAre DEF Matching
        <5> QED
          BY <5>1, <5>2
      <4>3. Ahead(k) => Ahead(k)'
        <5>1. /\ order_columns(k) \in Nat \X Nat \X Nat
              /\ order_columns(k)[1] = Created[k] /\ order_columns(k)[3] = k
              /\ order_columns(k)[2] = task[k].updated_at
              /\ Created[k] \in Nat /\ task[k].updated_at \in Nat /\ k \in Nat
          BY <1>1, <4>1, KeysAre
        <5>2. /\ order_columns(k)' \in Nat \X Nat \X Nat
              /\ order_columns(k)'[1] = Created[k] /\ order_columns(k)'[3] = k
              /\ order_columns(k)'[2] = task'[k].updated_at /\ task'[k].updated_at \in Nat
          <6>1. task'[k] \in TaskRow
            BY <4>1 DEF Present
          <6>2. task'[k].updated_at \in Nat
            BY <6>1, RecordsAssumption DEF TaskRow
          <6> QED
            BY <5>1, <6>2 DEF order_columns
        <5>3. PICK cursor \in Nat \X Nat \X Nat : cursor = listing.cursor /\ cursor = listing'.cursor
          BY <1>1 DEF RecordsTyped, ListingRow
        <5>4. PICK key, later : key = order_columns(k) /\ later = order_columns(k)'
          OBVIOUS
        <5>5. Later(key, cursor) => Later(later, cursor)
          BY <4>2, <5>1, <5>2, <5>3, <5>4 DEF Later
        <5>6. /\ apply_cursor_clause(key, cursor) <=> Later(key, cursor)
              /\ apply_cursor_clause(later, cursor) <=> Later(later, cursor)
          BY <5>1, <5>2, <5>3, <5>4, KeysCompare
        <5>7. Ahead(k)' <=> apply_cursor_clause(later, cursor)
          BY <5>3, <5>4 DEF Ahead, apply_cursor_clause
        <5> QED
          BY <5>3, <5>4, <5>5, <5>6, <5>7 DEF Ahead
      <4> QED
        BY <4>1, <4>2, <4>3 DEF Matching
    <3> QED
      BY <2>2, <3>2 DEF PagesOwe
  <2> QED
    BY <2>1, <2>2
<1> QED
  BY <1>5, <1>6, <1>7, <1>8, <1>9 DEF RecordsInv

LEMMA CreateEntityInv ==
    ASSUME RecordsInv, NEW i \in Id, NEW fit \in Fits, NEW p \in Policy \cup {None},
           create_entity(i, fit[1], fit[2], p)
    PROVE  RecordsInv'
<1>1. PICK row : row = [type |-> fit[1], contract |-> fit[2], policy_id |-> p, updated_at |-> now]
  OBVIOUS
<1>2. /\ task[i] = None /\ fit \in Fits
      /\ p # None => policy[p] # None
      /\ task' = [task EXCEPT ![i] = row]
      /\ overtaken' = overtaken \cup Passed(i, p)
      /\ UNCHANGED <<policy, patching, unchecked, listing, now>>
  BY <1>1 DEF create_entity
<1>3. /\ RecordsTyped /\ ContractsFit /\ PagesOwe /\ now \in 0..MaxTime
      /\ task \in [Id -> TaskRow \cup {None}] /\ unchecked \subseteq Id /\ listing \in ListingRow
      /\ patching = [w \in Writer |-> patching[w]]
  BY DEF RecordsInv, RecordsTyped, RecordsTypeOK
<1>4. /\ row \in TaskRow /\ row.policy_id = p /\ <<row.type, row.contract>> \in Fits
      /\ fit[1] \in Type /\ fit[2] \in Contract
  <2>1. Fits \subseteq Type \X Contract
    BY RecordsAssumption
  <2>2. fit[1] \in Type /\ fit[2] \in Contract /\ fit = <<fit[1], fit[2]>>
    BY <2>1
  <2> QED
    BY <1>1, <1>3, <2>2 DEF TaskRow
<1>5. /\ task' \in [Id -> TaskRow \cup {None}] /\ task'[i] = row
      /\ \A k \in Id \ {i} : task'[k] = task[k]
  BY <1>2, <1>3, <1>4
<1>6. listing.on => i \notin listing'.owed
  <2>1. i \notin Matching
    BY <1>2 DEF Matching, Present
  <2>2. listing.on => \A k \in listing.owed : k \in Matching
    BY <1>3 DEF PagesOwe
  <2> QED
    BY <1>2, <2>1, <2>2
<1>7. PICK gone \in SUBSET Writer : gone = {}
  OBVIOUS
<1>8. /\ overtaken' = (overtaken \cup Passed(i, row.policy_id)) \ gone
      /\ patching' = [w \in Writer |-> patching'[w]] /\ \A w \in gone : patching'[w] = NoPatch
      /\ \A w \in Writer \ gone : patching'[w] = patching[w]
  BY <1>2, <1>3, <1>4, <1>7
<1>9. /\ unchecked' \subseteq Id /\ \A k \in Id \ {i} : k \in unchecked <=> k \in unchecked'
      /\ listing' \in ListingRow /\ listing'.on = listing.on /\ listing'.cursor = listing.cursor
      /\ listing'.seen = listing.seen /\ listing'.owed \subseteq listing.owed
  BY <1>2, <1>3
<1>10. /\ row.policy_id # None => policy[row.policy_id] # None
       /\ UNCHANGED <<policy, now>> /\ task[i] = None /\ row \in TaskRow
  BY <1>2, <1>4
<1>11. i \in unchecked' \/ <<row.type, row.contract>> \in Fits
  BY <1>4
<1> QED
  BY <1>5, <1>6, <1>8, <1>9, <1>10, <1>11, RowWritten

(* Columns that changed since stay as they are; the date is the writer's. *)
LEMMA FlushTaskInv ==
    ASSUME RecordsInv, NEW w \in Writer, flush_task(w)
    PROVE  RecordsInv'
<1>1. PICK i, sets : i = patching[w].id /\ sets = patching[w].sets
  OBVIOUS
<1>2. PICK row : row = [c \in DOMAIN task[i] |->
                          IF c \in DOMAIN sets THEN sets[c]
                          ELSE IF c = "updated_at" /\ DOMAIN sets # {} THEN patching[w].began
                          ELSE task[i][c]]
  OBVIOUS
<1>3. /\ patching[w].of = "task" /\ task[i] # None
      /\ row.policy_id # None => policy[row.policy_id] # None
      /\ task' = [task EXCEPT ![i] = row]
      /\ unchecked' = IF w \in overtaken THEN unchecked \cup {i} ELSE unchecked \ {i}
      /\ listing' = [listing EXCEPT !.owed =
                       IF row.type # Wanted \/ row.updated_at < task[i].updated_at
                       THEN listing.owed \ {i} ELSE listing.owed]
      /\ patching' = [patching EXCEPT ![w] = NoPatch]
      /\ overtaken' = (overtaken \cup Passed(i, row.policy_id)) \ {w}
      /\ UNCHANGED <<policy, now>>
  BY <1>1, <1>2 DEF flush_task
<1>4. /\ RecordsTyped /\ UpdatesFit /\ PagesOwe /\ now \in 0..MaxTime /\ PatchTyped(w)
      /\ task \in [Id -> TaskRow \cup {None}] /\ unchecked \subseteq Id /\ listing \in ListingRow
      /\ patching = [x \in Writer |-> patching[x]]
  BY DEF RecordsInv, RecordsTyped, RecordsTypeOK
<1>5. /\ i \in Id /\ task[i] \in TaskRow /\ DOMAIN task[i] = {"type", "contract", "policy_id", "updated_at"}
      /\ patching[w].began \in 0..MaxTime /\ DOMAIN sets \subseteq Columns
  <2>1. i \in Id /\ task[i] \in TaskRow /\ DOMAIN sets \subseteq Columns
    BY <1>1, <1>3, <1>4 DEF PatchTyped
  <2>2. patching[w].began \in 0..MaxTime
    BY <1>1, <1>3, <1>4, RecordsAssumption DEF PatchTyped
  <2> QED
    BY <2>1, <2>2 DEF TaskRow
<1>6. /\ row.type = (IF "type" \in DOMAIN sets THEN sets["type"] ELSE task[i].type)
      /\ row.contract = (IF "contract" \in DOMAIN sets THEN sets["contract"] ELSE task[i].contract)
      /\ row.policy_id = (IF "policy_id" \in DOMAIN sets THEN sets["policy_id"] ELSE task[i].policy_id)
      /\ row.updated_at \in {patching[w].began, task[i].updated_at}
      /\ DOMAIN row = {"type", "contract", "policy_id", "updated_at"}
  BY <1>2, <1>5 DEF Columns
<1>7. row \in TaskRow
  <2>1. /\ row.type \in Type /\ row.contract \in Contract /\ row.policy_id \in Policy \cup {None}
        /\ row.updated_at \in 0..MaxTime
    BY <1>1, <1>3, <1>4, <1>5, <1>6 DEF PatchTyped, TaskRow
  <2>2. row = [c \in {"type", "contract", "policy_id", "updated_at"} |-> row[c]]
    BY <1>2, <1>6
  <2> QED
    BY <2>1, <2>2 DEF TaskRow
<1>8. /\ task' \in [Id -> TaskRow \cup {None}] /\ task'[i] = row
      /\ \A k \in Id \ {i} : task'[k] = task[k]
  BY <1>3, <1>4, <1>5, <1>7
<1>9. i \in unchecked' \/ <<row.type, row.contract>> \in Fits
  <2>1. CASE w \in overtaken
    BY <1>3, <2>1
  <2>2. CASE w \notin overtaken
    <3>1. Column(w, "type") = row.type /\ Column(w, "contract") = row.contract
      BY <1>1, <1>6 DEF Column
    <3>2. <<Column(w, "type"), Column(w, "contract")>> \in Fits
      BY <1>1, <1>3, <1>4, <2>2 DEF UpdatesFit
    <3> QED
      BY <3>1, <3>2
  <2> QED
    BY <2>1, <2>2
<1>10. /\ unchecked' \subseteq Id /\ \A k \in Id \ {i} : k \in unchecked <=> k \in unchecked'
  BY <1>3, <1>4, <1>5
<1>11. /\ listing' \in ListingRow /\ listing'.on = listing.on /\ listing'.cursor = listing.cursor
       /\ listing'.seen = listing.seen /\ listing'.owed \subseteq listing.owed
       /\ i \in listing'.owed => row.type = Wanted /\ ~(row.updated_at < task[i].updated_at)
  BY <1>3, <1>4 DEF ListingRow
<1>12. i \in listing'.owed => row.type = Wanted /\ row.updated_at >= task[i].updated_at
  BY <1>5, <1>7, <1>11, RecordsAssumption DEF TaskRow
<1>13. PICK gone \in SUBSET Writer : gone = {w}
  OBVIOUS
<1>14. /\ overtaken' = (overtaken \cup Passed(i, row.policy_id)) \ gone
       /\ patching' = [x \in Writer |-> patching'[x]] /\ \A x \in gone : patching'[x] = NoPatch
       /\ \A x \in Writer \ gone : patching'[x] = patching[x]
  BY <1>3, <1>4, <1>13
<1>15. /\ row.policy_id # None => policy[row.policy_id] # None
       /\ UNCHANGED <<policy, now>> /\ task[i] # None /\ i \in Id
  BY <1>3, <1>5
<1> QED
  BY <1>7, <1>8, <1>9, <1>10, <1>11, <1>12, <1>14, <1>15, RowWritten, SMTT(30)

(* A request decides what to write, or ends without having written a row. *)
LEMMA PatchingChanges ==
    ASSUME RecordsInv, NEW w \in Writer,
           patching' = [x \in Writer |-> patching'[x]],
           \A x \in Writer \ {w} : patching'[x] = patching[x],
           PatchTyped(w)', overtaken' \in {overtaken, overtaken \ {w}},
           UNCHANGED <<task, unchecked, listing, now>>,
           policy' \in [Policy -> Body \cup {None}],
           \A p \in Policy : policy[p] # None => policy'[p] # None,
           patching'[w].of = "task" /\ task[patching'[w].id] # None =>
               <<Column(w, "type")', Column(w, "contract")'>> \in Fits,
           patching'[w].of = "policy" => ~Attached(patching'[w].id)
    PROVE  RecordsInv'
<1>1. RecordsTyped /\ RecordsTypeOK /\ ContractsFit /\ UpdatesFit /\ PoliciesOpen /\ PagesOwe
  BY DEF RecordsInv, RecordsTyped
<1>2. RecordsTypeOK'
  <2>1. \A i \in Present : task[i].policy_id # None => task[i].policy_id \in Policy
    BY <1>1 DEF RecordsTypeOK, Present, TaskRow
  <2>2. \A i \in Present' : task'[i].policy_id # None => policy'[task'[i].policy_id] # None
    BY <1>1, <2>1 DEF RecordsTypeOK, Present
  <2> QED
    BY <1>1, <2>2 DEF RecordsTypeOK
<1>3. \A x \in Writer \ {w} : PatchTyped(x)'
  BY <1>1 DEF RecordsTyped, PatchTyped
<1>4. RecordsTyped'
  BY <1>1, <1>2, <1>3 DEF RecordsTyped
<1>5. ContractsFit'
  BY <1>1 DEF ContractsFit, Present
<1>6. UpdatesFit'
  <2>1. ASSUME NEW x \in Writer \ overtaken', patching'[x].of = "task", task'[patching'[x].id] # None
        PROVE  <<Column(x, "type"), Column(x, "contract")>>' \in Fits
    <3>1. CASE x = w
      BY <2>1, <3>1
    <3>2. CASE x # w
      <4>1. patching'[x] = patching[x] /\ x \in Writer \ overtaken
        BY <2>1, <3>2
      <4>2. Column(x, "type")' = Column(x, "type") /\ Column(x, "contract")' = Column(x, "contract")
        BY <4>1 DEF Column
      <4> QED
        BY <1>1, <2>1, <4>1, <4>2 DEF UpdatesFit
    <3> QED
      BY <3>1, <3>2
  <2> QED
    BY <2>1 DEF UpdatesFit
<1>7. PoliciesOpen'
  BY <1>1 DEF PoliciesOpen, Attached, Present
<1>8. PagesOwe'
  BY <1>1 DEF PagesOwe, Matching, Present, Ahead, order_columns, apply_cursor_clause
<1> QED
  BY <1>4, <1>5, <1>6, <1>7, <1>8 DEF RecordsInv

(* The row with the patch is validated; what is written is what differs. *)
LEMMA UpdateTaskInv ==
    ASSUME RecordsInv, NEW w \in Writer, NEW i \in Id, NEW patch, NEW began \in 0..now,
           update_task(w, i, patch, began)
    PROVE  RecordsInv'
<1>1. PICK merged : merged = validate_patch(task[i], patch)
  OBVIOUS
<1>2. PICK sets : sets = [c \in {k \in DOMAIN merged : merged[k] # task[i][k]} |-> merged[c]]
  OBVIOUS
<1>3. PICK row : row = [of |-> "task", id |-> i, began |-> began, sets |-> sets]
  OBVIOUS
<1>4. /\ task[i] # None /\ Acceptable(patch) /\ merged \in TaskRow /\ ContractAccepted(merged)
      /\ patching' = [patching EXCEPT ![w] = row]
      /\ UNCHANGED <<task, policy, overtaken, unchecked, listing, now>>
  BY <1>1, <1>2, <1>3 DEF update_task
<1>5. /\ RecordsTyped /\ task \in [Id -> TaskRow \cup {None}] /\ policy \in [Policy -> Body \cup {None}]
      /\ patching = [x \in Writer |-> patching[x]]
  BY DEF RecordsInv, RecordsTyped, RecordsTypeOK
<1>6. /\ task[i] \in TaskRow /\ DOMAIN task[i] = Columns \cup {"updated_at"}
      /\ DOMAIN merged = Columns \cup {"updated_at"}
  BY <1>4, <1>5 DEF TaskRow, Columns
<1>7. merged.updated_at = task[i].updated_at
  <2>1. "updated_at" \notin Said(patch)
    BY <1>4 DEF Acceptable, Immutable
  <2> QED
    BY <1>1, <1>6, <2>1 DEF validate_patch
<1>8. DOMAIN sets = {k \in Columns : merged[k] # task[i][k]} /\ \A c \in DOMAIN sets : sets[c] = merged[c]
  BY <1>2, <1>6, <1>7
<1>9. \A c \in Columns : (IF c \in DOMAIN sets THEN sets[c] ELSE task[i][c]) = merged[c]
  BY <1>8
<1>10. /\ patching' = [x \in Writer |-> patching'[x]] /\ patching'[w] = row
       /\ \A x \in Writer \ {w} : patching'[x] = patching[x]
  BY <1>4, <1>5
<1>11. row.of = "task" /\ row.id = i /\ row.began = began /\ row.sets = sets
  BY <1>3
<1>12. PatchTyped(w)'
  <2>1. DOMAIN sets \subseteq Columns
    BY <1>8
  <2>2. /\ "type" \in DOMAIN sets => sets["type"] \in Type
        /\ "contract" \in DOMAIN sets => sets["contract"] \in Contract
        /\ "policy_id" \in DOMAIN sets => sets["policy_id"] \in Policy \cup {None}
    BY <1>4, <1>8 DEF TaskRow
  <2> QED
    BY <1>4, <1>10, <1>11, <2>1, <2>2 DEF PatchTyped
<1>13. <<Column(w, "type")', Column(w, "contract")'>> \in Fits
  <2>1. Column(w, "type")' = merged.type /\ Column(w, "contract")' = merged.contract
    BY <1>4, <1>9, <1>10, <1>11 DEF Column, Columns
  <2> QED
    BY <1>4, <2>1 DEF ContractAccepted
<1>14. patching'[w].of # "policy"
  BY <1>10, <1>11
<1> QED
  BY <1>4, <1>5, <1>10, <1>12, <1>13, <1>14, PatchingChanges

LEMMA UpdatePolicyInv ==
    ASSUME RecordsInv, NEW w \in Writer, NEW p \in Policy, NEW body \in Body, update_policy(w, p, body)
    PROVE  RecordsInv'
<1>1. PICK row : row = [of |-> "policy", id |-> p, began |-> 0, sets |-> [body |-> body]]
  OBVIOUS
<1>2. /\ ~Attached(p) /\ patching' = [patching EXCEPT ![w] = row]
      /\ UNCHANGED <<task, policy, overtaken, unchecked, listing, now>>
  BY <1>1 DEF update_policy, PolicyOpen
<1>3. policy \in [Policy -> Body \cup {None}] /\ patching = [x \in Writer |-> patching[x]]
  BY DEF RecordsInv, RecordsTyped, RecordsTypeOK
<1>4. /\ patching' = [x \in Writer |-> patching'[x]] /\ patching'[w] = row
      /\ \A x \in Writer \ {w} : patching'[x] = patching[x]
  BY <1>2, <1>3
<1>5. row.of = "policy" /\ row.id = p /\ row.sets["body"] = body
  BY <1>1
<1>6. PatchTyped(w)'
  BY <1>4, <1>5 DEF PatchTyped
<1> QED
  BY <1>2, <1>3, <1>4, <1>5, <1>6, PatchingChanges

LEMMA EndsUpdateInv ==
    ASSUME RecordsInv, NEW w \in Writer, flush_policy(w) \/ abandon_update(w)
    PROVE  RecordsInv'
<1>1. /\ patching' = [patching EXCEPT ![w] = NoPatch] /\ overtaken' = overtaken \ {w}
      /\ UNCHANGED <<task, unchecked, listing, now>>
  BY DEF flush_policy, abandon_update, Idle
<1>2. /\ policy \in [Policy -> Body \cup {None}] /\ patching = [x \in Writer |-> patching[x]]
      /\ PatchTyped(w)
  BY DEF RecordsInv, RecordsTyped, RecordsTypeOK
<1>3. /\ patching' = [x \in Writer |-> patching'[x]] /\ patching'[w] = NoPatch
      /\ \A x \in Writer \ {w} : patching'[x] = patching[x]
  BY <1>1, <1>2
<1>4. PatchTyped(w)' /\ patching'[w].of = None /\ None \notin {"task", "policy"}
  BY <1>3, NoPatchIs DEF PatchTyped
<1>5. /\ policy' \in [Policy -> Body \cup {None}]
      /\ \A p \in Policy : policy[p] # None => policy'[p] # None
  <2>1. CASE flush_policy(w)
    <3>1. /\ patching[w].of = "policy" /\ patching[w].id \in Policy /\ patching[w].sets["body"] \in Body
          /\ policy' = [policy EXCEPT ![patching[w].id] = patching[w].sets["body"]]
      BY <1>2, <2>1 DEF flush_policy, PatchTyped
    <3>2. patching[w].sets["body"] # None
      BY <3>1, RecordsAssumption
    <3> QED
      BY <1>2, <3>1, <3>2
  <2>2. CASE abandon_update(w)
    BY <1>2, <2>2 DEF abandon_update
  <2> QED
    BY <2>1, <2>2
<1> QED
  BY <1>1, <1>3, <1>4, <1>5, PatchingChanges

LEMMA DeleteTaskInv ==
    ASSUME RecordsInv, NEW i \in Id, delete_task(i)
    PROVE  RecordsInv'
<1>1. /\ task' = [task EXCEPT ![i] = None] /\ listing' = [listing EXCEPT !.owed = listing.owed \ {i}]
      /\ unchecked' = unchecked \ {i} /\ UNCHANGED <<policy, patching, overtaken, now>>
  BY DEF delete_task
<1>2. /\ RecordsTyped /\ RecordsTypeOK /\ ContractsFit /\ UpdatesFit /\ PoliciesOpen /\ PagesOwe
      /\ task \in [Id -> TaskRow \cup {None}]
  BY DEF RecordsInv, RecordsTyped, RecordsTypeOK
<1>3. /\ task' \in [Id -> TaskRow \cup {None}] /\ task'[i] = None /\ \A k \in Id \ {i} : task'[k] = task[k]
      /\ Present' = Present \ {i}
  BY <1>1, <1>2 DEF Present
<1>4. /\ listing' \in ListingRow /\ listing'.on = listing.on /\ listing'.cursor = listing.cursor
      /\ listing'.seen = listing.seen /\ listing'.owed = listing.owed \ {i}
  BY <1>1, <1>2 DEF RecordsTyped, ListingRow
<1>5. RecordsTypeOK'
  <2>1. \A k \in Present' : task'[k].policy_id # None => policy[task'[k].policy_id] # None
    BY <1>2, <1>3 DEF RecordsTypeOK, Present
  <2> QED
    BY <1>1, <1>2, <1>3, <1>4, <2>1 DEF RecordsTypeOK, ListingRow
<1>6. RecordsTyped'
  BY <1>1, <1>2, <1>4, <1>5 DEF RecordsTyped, PatchTyped
<1>7. ContractsFit'
  BY <1>1, <1>2, <1>3 DEF ContractsFit, Present
<1>8. UpdatesFit'
  <2>1. ASSUME NEW w \in Writer \ overtaken, patching[w].of = "task", task'[patching[w].id] # None
        PROVE  <<Column(w, "type"), Column(w, "contract")>>' \in Fits
    <3>1. patching[w].id \in Id /\ patching[w].id # i /\ task'[patching[w].id] = task[patching[w].id]
      BY <1>2, <1>3, <2>1 DEF RecordsTyped, PatchTyped
    <3>2. Column(w, "type")' = Column(w, "type") /\ Column(w, "contract")' = Column(w, "contract")
      BY <1>1, <3>1 DEF Column
    <3> QED
      BY <1>2, <2>1, <3>1, <3>2 DEF UpdatesFit
  <2> QED
    BY <1>1, <2>1 DEF UpdatesFit
<1>9. PoliciesOpen'
  BY <1>1, <1>2, <1>3 DEF PoliciesOpen, Attached, Present
<1>10. PagesOwe'
  <2>1. CASE listing.on
    <3>1. ASSUME NEW k \in listing.owed \ {i}
          PROVE  k \in Matching' /\ (k \in listing.seen \/ Ahead(k)')
      <4>1. k \in Matching /\ (k \in listing.seen \/ Ahead(k)) /\ k \in Id
        BY <1>2, <2>1, <3>1 DEF PagesOwe, Matching, Present
      <4>2. task'[k] = task[k]
        BY <1>3, <3>1, <4>1
      <4>3. Ahead(k)' <=> Ahead(k)
        BY <1>4, <4>2 DEF Ahead, order_columns, apply_cursor_clause
      <4> QED
        BY <1>3, <3>1, <4>1, <4>2, <4>3 DEF Matching
    <3> QED
      BY <1>4, <2>1, <3>1 DEF PagesOwe
  <2>2. CASE ~listing.on
    BY <1>2, <1>4, <2>2 DEF PagesOwe
  <2> QED
    BY <2>1, <2>2
<1> QED
  BY <1>6, <1>7, <1>8, <1>9, <1>10 DEF RecordsInv

(* The rows it was attached to keep their other columns. *)
LEMMA DeletePolicyInv ==
    ASSUME RecordsInv, NEW p \in Policy, delete_policy(p)
    PROVE  RecordsInv'
<1>1. /\ policy' = [policy EXCEPT ![p] = None]
      /\ task' = [i \in Id |-> IF task[i] # None /\ task[i].policy_id = p
                               THEN [task[i] EXCEPT !.policy_id = None] ELSE task[i]]
      /\ UNCHANGED <<patching, overtaken, unchecked, listing, now>>
  BY DEF delete_policy
<1>2. /\ RecordsTyped /\ RecordsTypeOK /\ ContractsFit /\ UpdatesFit /\ PoliciesOpen /\ PagesOwe
      /\ task \in [Id -> TaskRow \cup {None}] /\ policy \in [Policy -> Body \cup {None}]
      /\ None \notin TaskRow /\ None \notin Policy
  BY RecordsAssumption DEF RecordsInv, RecordsTyped, RecordsTypeOK
<1>3. ASSUME NEW i \in Id, task[i] # None
      PROVE  /\ task'[i] \in TaskRow
             /\ task'[i].type = task[i].type /\ task'[i].contract = task[i].contract
             /\ task'[i].updated_at = task[i].updated_at
             /\ task'[i].policy_id = (IF task[i].policy_id = p THEN None ELSE task[i].policy_id)
  <2>1. task[i] \in TaskRow
    BY <1>2, <1>3
  <2>2. CASE task[i].policy_id = p
    <3>1. task'[i] = [task[i] EXCEPT !.policy_id = None]
      BY <1>1, <1>3, <2>2
    <3> QED
      BY <2>1, <2>2, <3>1 DEF TaskRow
  <2>3. CASE task[i].policy_id # p
    BY <1>1, <2>1, <2>3
  <2> QED
    BY <2>2, <2>3
<1>4. \A i \in Id : task[i] = None => task'[i] = None
  BY <1>1
<1>5. Present' = Present /\ task' \in [Id -> TaskRow \cup {None}]
  <2>1. \A i \in Id : task'[i] \in TaskRow \cup {None} /\ (task'[i] # None <=> task[i] # None)
    BY <1>2, <1>3, <1>4
  <2>2. DOMAIN task' = Id /\ task' = [i \in DOMAIN task' |-> task'[i]]
    BY <1>1
  <2> QED
    BY <2>1, <2>2 DEF Present
<1>6. RecordsTypeOK'
  <2>1. policy' \in [Policy -> Body \cup {None}]
    BY <1>1, <1>2
  <2>2. ASSUME NEW i \in Present, task'[i].policy_id # None PROVE policy'[task'[i].policy_id] # None
    <3>1. /\ task[i].policy_id # p /\ task[i].policy_id # None /\ task'[i].policy_id = task[i].policy_id
          /\ task[i] \in TaskRow
      BY <1>2, <1>3, <2>2 DEF Present
    <3>2. task[i].policy_id \in Policy /\ policy[task[i].policy_id] # None
      BY <1>2, <3>1 DEF RecordsTypeOK, TaskRow
    <3> QED
      BY <1>1, <1>2, <3>1, <3>2
  <2> QED
    BY <1>1, <1>2, <1>5, <2>1, <2>2 DEF RecordsTypeOK
<1>7. RecordsTyped'
  BY <1>1, <1>2, <1>6 DEF RecordsTyped, PatchTyped
<1>8. ContractsFit'
  BY <1>1, <1>2, <1>3, <1>5 DEF ContractsFit, Present
<1>9. UpdatesFit'
  <2>1. ASSUME NEW w \in Writer \ overtaken, patching[w].of = "task", task'[patching[w].id] # None
        PROVE  <<Column(w, "type"), Column(w, "contract")>>' \in Fits
    <3>1. PICK i \in Id : i = patching[w].id
      BY <1>2, <2>1 DEF RecordsTyped, PatchTyped
    <3>2. task[i] # None
      BY <1>4, <2>1, <3>1
    <3>3. task'[i].type = task[i].type /\ task'[i].contract = task[i].contract
      BY <1>3, <3>2
    <3>4. Column(w, "type")' = Column(w, "type") /\ Column(w, "contract")' = Column(w, "contract")
      BY <1>1, <3>1, <3>3 DEF Column
    <3> QED
      BY <1>2, <2>1, <3>1, <3>2, <3>4 DEF UpdatesFit
  <2> QED
    BY <1>1, <2>1 DEF UpdatesFit
<1>10. PoliciesOpen'
  <2>1. ASSUME NEW w \in Writer \ overtaken, patching[w].of = "policy"
        PROVE  ~ \E i \in Present : task'[i].policy_id = patching[w].id
    <3>1. patching[w].id # None /\ ~ \E i \in Present : task[i].policy_id = patching[w].id
      BY <1>2, <2>1 DEF RecordsTyped, PatchTyped, PoliciesOpen, Attached
    <3> QED
      BY <1>3, <3>1 DEF Present
  <2> QED
    BY <1>1, <1>5, <2>1 DEF PoliciesOpen, Attached
<1>11. PagesOwe'
  <2>1. CASE listing.on
    <3>1. ASSUME NEW k \in listing.owed
          PROVE  k \in Matching' /\ (k \in listing.seen \/ Ahead(k)')
      <4>1. k \in Matching /\ k \in Present /\ k \in Id /\ task[k] # None /\ (k \in listing.seen \/ Ahead(k))
        BY <1>2, <2>1, <3>1 DEF PagesOwe, Matching, Present
      <4>2. task'[k].updated_at = task[k].updated_at /\ task'[k].type = task[k].type
        BY <1>3, <4>1
      <4>3. Ahead(k)' <=> Ahead(k)
        BY <1>1, <4>2 DEF Ahead, order_columns, apply_cursor_clause
      <4> QED
        BY <1>5, <4>1, <4>2, <4>3 DEF Matching
    <3> QED
      BY <1>1, <2>1, <3>1 DEF PagesOwe
  <2>2. CASE ~listing.on
    BY <1>1, <1>2, <2>2 DEF PagesOwe
  <2> QED
    BY <2>1, <2>2
<1> QED
  BY <1>7, <1>8, <1>9, <1>10, <1>11 DEF RecordsInv
-----------------------------------------------------------------------------
(* Matching rows follow one another in one order. *)
LEMMA RowsInOrder ==
    ASSUME RecordsTyped, NEW i \in Present, NEW j \in Present
    PROVE  /\ ordered_before(order_columns(i), order_columns(j)) <=> Later(order_columns(j), order_columns(i))
           /\ ~Later(order_columns(i), order_columns(i))
           /\ i # j => \/ Later(order_columns(i), order_columns(j))
                       \/ Later(order_columns(j), order_columns(i))
           /\ Later(order_columns(i), order_columns(j)) => ~Later(order_columns(j), order_columns(i))
           /\ \A k \in Present :
                Later(order_columns(i), order_columns(j)) /\ Later(order_columns(j), order_columns(k))
                    => Later(order_columns(i), order_columns(k))
<1>1. ordered_before(order_columns(i), order_columns(j)) <=> Later(order_columns(j), order_columns(i))
  BY KeysAre, KeysCompare
<1>2. ASSUME NEW k \in Present
      PROVE  /\ order_columns(k)[1] \in Nat /\ order_columns(k)[2] \in Nat
             /\ order_columns(k)[3] \in Nat /\ order_columns(k)[3] = k
  BY <1>2, KeysAre
<1> QED
  BY <1>1, <1>2 DEF Later

(* The rows before one on a page, and the page's last. *)
LEMMA PageOfRows ==
    ASSUME NEW A, NEW Before, IsFiniteSet(A), A # {},
           DOMAIN Before = A,
           \A i \in A : Before[i] \subseteq A \ {i},
           \A i, j \in A : i # j => i \in Before[j] \/ j \in Before[i],
           \A i, j, k \in A : i \in Before[j] /\ j \in Before[k] => i \in Before[k]
    PROVE  LET page == {i \in A : Cardinality(Before[i]) < Limit}
               last == CHOOSE i \in page : page \ {i} = Before[i] \cap page
           IN /\ Cardinality(A) <= Limit => page = A
              /\ last \in page /\ \A i \in A \ page : last \in Before[i]
<1>1. Limit \in Nat \ {0} /\ Cardinality(A) \in Nat
  BY RecordsAssumption, FS_CardinalityType
<1>2. ASSUME NEW i \in A
      PROVE  /\ IsFiniteSet(Before[i]) /\ Cardinality(Before[i]) \in Nat
             /\ Cardinality(Before[i]) < Cardinality(A)
  <2>1. Before[i] \in SUBSET A /\ Before[i] # A
    OBVIOUS
  <2>2. IsFiniteSet(Before[i]) /\ Cardinality(Before[i]) <= Cardinality(A) /\ Cardinality(A) # Cardinality(Before[i])
    BY <2>1, FS_Subset
  <2>3. Cardinality(Before[i]) \in Nat
    BY <2>2, FS_CardinalityType
  <2> QED
    BY <1>1, <2>2, <2>3
<1>3. ASSUME NEW i \in A, NEW j \in A, i \in Before[j]
      PROVE  Cardinality(Before[i]) < Cardinality(Before[j])
  <2>1. Before[i] \subseteq Before[j] /\ i \notin Before[i]
    BY <1>3
  <2>2. Before[i] \in SUBSET Before[j] /\ Before[i] # Before[j]
    BY <1>3, <2>1
  <2>3. /\ Cardinality(Before[i]) <= Cardinality(Before[j])
        /\ Cardinality(Before[j]) # Cardinality(Before[i])
    BY <1>2, <2>2, FS_Subset
  <2> QED
    BY <1>2, <2>3
<1> DEFINE page == {i \in A : Cardinality(Before[i]) < Limit}
           last == CHOOSE i \in page : page \ {i} = Before[i] \cap page
<1>4. Cardinality(A) <= Limit => page = A
  BY <1>1, <1>2
<1>5. page # {}
  <2> DEFINE T == {Cardinality(Before[i]) : i \in A}
  <2>1. T \subseteq Nat /\ T # {}
    BY <1>2
  <2>2. PICK n \in T : \A m \in T : n <= m
    BY <2>1, LeastNat
  <2>3. PICK i \in A : n = Cardinality(Before[i])
    BY <2>2
  <2>4. Before[i] = {}
    <3>1. ASSUME NEW j \in Before[i] PROVE FALSE
      <4>1. j \in A /\ Cardinality(Before[j]) < Cardinality(Before[i]) /\ Cardinality(Before[j]) \in T
        BY <1>3, <3>1
      <4>2. n <= Cardinality(Before[j])
        BY <2>2, <4>1
      <4> QED
        BY <1>2, <2>3, <4>1, <4>2
    <3> QED
      BY <3>1
  <2>5. Cardinality(Before[i]) = 0
    BY <2>4, FS_EmptySet
  <2> QED
    BY <1>1, <2>5
<1>6. \E i \in page : page \ {i} = Before[i] \cap page
  <2> DEFINE T == {Limit - Cardinality(Before[i]) : i \in page}
  <2>1. T \subseteq Nat /\ T # {}
    BY <1>1, <1>2, <1>5
  <2>2. PICK n \in T : \A m \in T : n <= m
    BY <2>1, LeastNat
  <2>3. PICK i \in page : n = Limit - Cardinality(Before[i])
    BY <2>2
  <2>4. ASSUME NEW j \in page, j # i PROVE j \in Before[i]
    <3>1. n <= Limit - Cardinality(Before[j])
      BY <2>2
    <3>2. ~(Cardinality(Before[i]) < Cardinality(Before[j]))
      BY <1>1, <1>2, <2>3, <3>1
    <3>3. i \notin Before[j]
      BY <1>3, <3>2
    <3> QED
      BY <2>4, <3>3
  <2>5. i \notin Before[i]
    OBVIOUS
  <2> QED
    BY <2>4, <2>5
<1>7. last \in page
  BY <1>6
<1>8. ASSUME NEW i \in A \ page PROVE last \in Before[i]
  <2>1. last \in A /\ Cardinality(Before[last]) < Limit /\ ~(Cardinality(Before[i]) < Limit)
    BY <1>7, <1>8
  <2>2. last # i /\ ~(Cardinality(Before[i]) < Cardinality(Before[last]))
    <3>1. Cardinality(Before[last]) \in Nat /\ Cardinality(Before[i]) \in Nat
      BY <1>2, <1>8, <2>1
    <3> HIDE DEF page, last
    <3> QED
      BY <1>1, <2>1, <3>1
  <2>3. i \notin Before[last]
    BY <1>3, <2>1, <2>2
  <2> QED
    BY <2>1, <2>2, <2>3
<1> QED
  BY <1>4, <1>7, <1>8

(* A page takes the rows next to the cursor, and leaves it on its last: what *)
(* was owed is on it, or before it, or ahead.                               *)
LEMMA ListInv ==
    ASSUME RecordsInv, list_entities
    PROVE  RecordsInv'
<1>1. PICK after : after = {i \in Matching : apply_cursor_clause(order_columns(i), listing.cursor)}
  OBVIOUS
<1>2. PICK Before : Before = [i \in after |->
                                {j \in after : ordered_before(order_columns(j), order_columns(i))}]
  OBVIOUS
<1>3. PICK page : page = {i \in after : Cardinality(Before[i]) < Limit}
  OBVIOUS
<1>4. PICK last : last = CHOOSE i \in page : page \ {i} = Before[i] \cap page
  OBVIOUS
<1>5. PICK owed : owed = IF listing.on THEN listing.owed ELSE Matching
  OBVIOUS
<1>6. /\ listing' = IF Cardinality(after) > Limit
                    THEN [on |-> TRUE, cursor |-> order_columns(last), owed |-> owed,
                          seen |-> listing.seen \cup page]
                    ELSE [NoListing EXCEPT !.seen = listing.seen \cup page, !.owed = owed]
      /\ listing.on \/ listing = NoListing
      /\ UNCHANGED <<task, policy, patching, overtaken, unchecked, now>>
  <2>1. \A i \in after : Before[i] = {j \in after : ordered_before(order_columns(j), order_columns(i))}
    BY <1>2
  <2>2. page = {i \in after :
                  Cardinality({j \in after : ordered_before(order_columns(j), order_columns(i))}) < Limit}
    BY <1>3, <2>1
  <2>3. last = CHOOSE i \in page :
                 page \ {i} = {j \in after : ordered_before(order_columns(j), order_columns(i))} \cap page
    BY <1>3, <1>4, <2>1
  <2> QED
    BY <1>1, <1>5, <2>2, <2>3 DEF list_entities
<1>7. /\ RecordsTyped /\ RecordsTypeOK /\ ContractsFit /\ UpdatesFit /\ PoliciesOpen /\ PagesOwe
      /\ listing \in ListingRow
  BY DEF RecordsInv, RecordsTyped
<1>8. after \subseteq Present /\ after \subseteq Id /\ after \subseteq Matching /\ IsFiniteSet(after)
  <2>1. after \subseteq Present /\ after \subseteq Matching /\ after \in SUBSET Id
    BY <1>1 DEF Matching, Present
  <2> QED
    BY <2>1, FS_Subset, RecordsAssumption
<1>9. /\ DOMAIN Before = after
      /\ \A i \in after : Before[i] \subseteq after \ {i}
      /\ \A i, j \in after : i \in Before[j] <=> Later(order_columns(j), order_columns(i))
      /\ \A i, j \in after : i # j => i \in Before[j] \/ j \in Before[i]
      /\ \A i, j, k \in after : i \in Before[j] /\ j \in Before[k] => i \in Before[k]
  <2>1. DOMAIN Before = after /\ \A i \in after : Before[i] \subseteq after
    BY <1>2
  <2>2. \A i, j \in after : i \in Before[j] <=> Later(order_columns(j), order_columns(i))
    BY <1>2, <1>7, <1>8, RowsInOrder
  <2>3. \A i \in after : i \notin Before[i]
    BY <1>7, <1>8, <2>2, RowsInOrder
  <2>4. \A i, j \in after : i # j => i \in Before[j] \/ j \in Before[i]
    BY <1>7, <1>8, <2>2, RowsInOrder
  <2>5. ASSUME NEW i \in after, NEW j \in after, NEW k \in after, i \in Before[j], j \in Before[k]
        PROVE  i \in Before[k]
    <3>1. Later(order_columns(j), order_columns(i)) /\ Later(order_columns(k), order_columns(j))
      BY <2>2, <2>5
    <3> QED
      BY <1>7, <1>8, <2>2, <3>1, RowsInOrder
  <2> QED
    BY <2>1, <2>2, <2>3, <2>4, <2>5
<1>10. after # {} =>
         /\ Cardinality(after) <= Limit => page = after
         /\ last \in page /\ \A i \in after \ page : last \in Before[i]
  BY <1>3, <1>4, <1>8, <1>9, PageOfRows
<1>11. page \subseteq after /\ (after = {} => page = after)
  BY <1>3
<1>12. Cardinality(after) \in Nat /\ Limit \in Nat \ {0} /\ (after = {} => Cardinality(after) = 0)
  BY <1>8, FS_CardinalityType, FS_EmptySet, RecordsAssumption
(* What is owed was seen, or comes after the cursor. *)
<1>13. owed \subseteq listing.seen \cup after /\ owed \subseteq Matching
  <2>1. CASE listing.on
    BY <1>1, <1>5, <1>7, <2>1 DEF PagesOwe, Ahead
  <2>2. CASE ~listing.on
    <3>1. listing.cursor = <<0, 0, 0>> /\ owed = Matching
      BY <1>5, <1>6, <2>2, NoListingIs
    <3>2. ASSUME NEW i \in Matching PROVE apply_cursor_clause(order_columns(i), listing.cursor)
      <4>1. i \in Present
        BY DEF Matching
      <4>2. /\ order_columns(i) \in Nat \X Nat \X Nat /\ order_columns(i)[1] \in Nat
            /\ order_columns(i)[2] \in Nat /\ order_columns(i)[3] \in Nat \ {0}
        BY <1>7, <4>1, KeysAre
      <4>3. PICK cursor \in Nat \X Nat \X Nat : cursor = listing.cursor /\ cursor = <<0, 0, 0>>
        BY <3>1
      <4>4. Later(order_columns(i), cursor)
        BY <4>2, <4>3 DEF Later
      <4> QED
        BY <4>2, <4>3, <4>4, KeysCompare
    <3> QED
      BY <1>1, <3>1, <3>2
  <2> QED
    BY <2>1, <2>2
<1>14. CASE Cardinality(after) > Limit
  <2>1. after # {} /\ last \in page /\ \A i \in after \ page : last \in Before[i]
    BY <1>10, <1>12, <1>14
  <2>2. last \in Present /\ last \in after
    BY <1>8, <1>11, <2>1
  <2>3. order_columns(last) \in Nat \X Nat \X Nat
    BY <1>7, <2>2, KeysAre
  <2>4. /\ listing'.on = TRUE /\ listing'.cursor = order_columns(last) /\ listing'.owed = owed
        /\ listing'.seen = listing.seen \cup page
        /\ listing' = [on |-> TRUE, cursor |-> order_columns(last), owed |-> owed,
                       seen |-> listing.seen \cup page]
    BY <1>6, <1>14
  <2>5. owed \subseteq Id /\ listing.seen \cup page \subseteq Id
    BY <1>7, <1>8, <1>11, <1>13 DEF Matching, Present, ListingRow
  <2>6. listing' \in ListingRow
    BY <2>3, <2>4, <2>5 DEF ListingRow
  <2>7. RecordsTypeOK'
    BY <1>6, <1>7, <2>4, <2>5 DEF RecordsTypeOK, Present
  <2>8. RecordsTyped'
    BY <1>6, <1>7, <2>6, <2>7 DEF RecordsTyped, PatchTyped
  <2>9. ASSUME NEW i \in owed PROVE i \in Matching' /\ (i \in listing'.seen \/ Ahead(i)')
    <3>1. i \in Matching'
      BY <1>6, <1>13 DEF Matching, Present
    <3>2. CASE i \in listing.seen \cup page
      BY <2>4, <3>1, <3>2
    <3>3. CASE i \in after \ page
      <4>1. Later(order_columns(i), order_columns(last)) /\ i \in Present
        BY <1>8, <1>9, <2>1, <2>2, <3>3
      <4>2. order_columns(i) \in Nat \X Nat \X Nat
        BY <1>7, <4>1, KeysAre
      <4>3. apply_cursor_clause(order_columns(i), order_columns(last))
        BY <2>3, <4>1, <4>2, KeysCompare
      <4>4. Ahead(i)'
        BY <1>6, <2>4, <4>3 DEF Ahead, apply_cursor_clause, order_columns
      <4> QED
        BY <3>1, <4>4
    <3> QED
      BY <1>13, <3>2, <3>3
  <2>10. PagesOwe'
    BY <2>4, <2>9 DEF PagesOwe
  <2>11. ContractsFit' /\ UpdatesFit' /\ PoliciesOpen'
    BY <1>6, <1>7 DEF ContractsFit, UpdatesFit, PoliciesOpen, Present, Column, Attached
  <2> QED
    BY <2>8, <2>10, <2>11 DEF RecordsInv
<1>15. CASE ~(Cardinality(after) > Limit)
  <2>1. page = after
    BY <1>10, <1>11, <1>12, <1>15
  <2>2. listing' = [NoListing EXCEPT !.seen = listing.seen \cup page, !.owed = owed]
    BY <1>6, <1>15
  <2>3. owed \subseteq Id /\ listing.seen \cup page \subseteq Id
    BY <1>7, <1>8, <1>11, <1>13 DEF Matching, Present, ListingRow
  <2>4. /\ listing' \in ListingRow /\ ~listing'.on
        /\ listing'.seen = listing.seen \cup page /\ listing'.owed = owed
    BY <2>2, <2>3, NoListingIs DEF ListingRow
  <2>5. RecordsTypeOK'
    BY <1>6, <1>7, <2>3, <2>4 DEF RecordsTypeOK, Present
  <2>6. RecordsTyped'
    BY <1>6, <1>7, <2>4, <2>5 DEF RecordsTyped, PatchTyped
  <2>7. PagesOwe'
    BY <1>13, <2>1, <2>4 DEF PagesOwe
  <2>8. ContractsFit' /\ UpdatesFit' /\ PoliciesOpen'
    BY <1>6, <1>7 DEF ContractsFit, UpdatesFit, PoliciesOpen, Present, Column, Attached
  <2> QED
    BY <2>6, <2>7, <2>8 DEF RecordsInv
<1> QED
  BY <1>14, <1>15

LEMMA TickInv ==
    ASSUME RecordsInv, tick \/ UNCHANGED recordVars
    PROVE  RecordsInv'
<1>1. UNCHANGED <<task, policy, patching, overtaken, unchecked, listing>>
  BY DEF tick, recordVars
<1>2. RecordsTyped /\ RecordsTypeOK /\ ContractsFit /\ UpdatesFit /\ PoliciesOpen /\ PagesOwe /\ now \in 0..MaxTime
  BY DEF RecordsInv, RecordsTyped
<1>3. now' \in 0..MaxTime /\ now <= now'
  BY <1>2, RecordsAssumption DEF tick, recordVars
<1>4. RecordsTypeOK'
  BY <1>1, <1>2 DEF RecordsTypeOK, Present
<1>5. ASSUME NEW w \in Writer PROVE PatchTyped(w)'
  BY <1>1, <1>2, <1>3, RecordsAssumption DEF RecordsTyped, PatchTyped
<1>6. RecordsTyped'
  BY <1>1, <1>2, <1>3, <1>4, <1>5 DEF RecordsTyped
<1>7. ContractsFit' /\ UpdatesFit' /\ PoliciesOpen'
  BY <1>1, <1>2 DEF ContractsFit, UpdatesFit, PoliciesOpen, Present, Column, Attached
<1>8. PagesOwe'
  BY <1>1, <1>2 DEF PagesOwe, Matching, Present, Ahead, order_columns, apply_cursor_clause
<1> QED
  BY <1>6, <1>7, <1>8 DEF RecordsInv

THEOREM RecordsInvariant == RecordsSpec => []RecordsInv
<1>1. RecordsInit => RecordsInv
  BY RecordsInitInv
<1>2. ASSUME RecordsInv, [RecordsNext]_recordVars PROVE RecordsInv'
  <2>1. CASE \E i \in Id, fit \in Fits, p \in Policy \cup {None} : create_entity(i, fit[1], fit[2], p)
    BY <1>2, <2>1, CreateEntityInv
  <2>2. CASE \E i \in Id : delete_task(i)
    BY <1>2, <2>2, DeleteTaskInv
  <2>3. CASE \E w \in Writer, i \in Id, patch \in Patch, began \in 0..now : update_task(w, i, patch, began)
    BY <1>2, <2>3, UpdateTaskInv
  <2>4. CASE \E w \in Writer, p \in Policy, body \in Body : update_policy(w, p, body)
    BY <1>2, <2>4, UpdatePolicyInv
  <2>5. CASE \E w \in Writer : flush_task(w)
    BY <1>2, <2>5, FlushTaskInv
  <2>6. CASE \E w \in Writer : flush_policy(w) \/ abandon_update(w)
    BY <1>2, <2>6, EndsUpdateInv
  <2>7. CASE \E p \in Policy : delete_policy(p)
    BY <1>2, <2>7, DeletePolicyInv
  <2>8. CASE list_entities
    BY <1>2, <2>8, ListInv
  <2>9. CASE tick \/ UNCHANGED recordVars
    BY <1>2, <2>9, TickInv
  <2> QED
    BY <1>2, <2>1, <2>2, <2>3, <2>4, <2>5, <2>6, <2>7, <2>8, <2>9 DEF RecordsNext
<1> QED
  BY <1>1, <1>2, PTL DEF RecordsSpec

(* What the registry accepted is what is stored, but for rows two updates   *)
(* wrote at once (update_entity, validate_patch).                           *)
THEOREM StoredContractsFit == RecordsSpec => []ContractsFit
<1>1. RecordsInv => ContractsFit
  BY DEF RecordsInv
<1> QED
  BY <1>1, RecordsInvariant, PTL

(* A walk over the pages misses no row that was there all along and was not *)
(* moved back, whatever is created, updated and deleted meanwhile           *)
(* (list_entities, apply_cursor_clause).                                    *)
THEOREM PagesAreComplete == RecordsSpec => []PagesMissNothing
<1>1. RecordsInv => PagesMissNothing
  BY DEF RecordsInv, PagesOwe, PagesMissNothing
<1> QED
  BY <1>1, RecordsInvariant, PTL

(* A policy that is attached keeps its body, unless the attachment overtook *)
(* the change (update_policy).                                              *)
THEOREM AttachedPoliciesStay == RecordsSpec => AttachedPolicyFixed
<1> DEFINE Fixed ==
      \A p \in Policy :
         (policy'[p] # policy[p] /\ policy'[p] # None) =>
            ~Attached(p) \/ \E w \in overtaken : patching[w].of = "policy" /\ patching[w].id = p
<1>1. ASSUME RecordsInv, [RecordsNext]_recordVars
      PROVE  [Fixed]_recordVars
  <2>1. CASE \E w \in Writer : flush_policy(w)
    <3>1. PICK w \in Writer : flush_policy(w)
      BY <2>1
    <3>2. /\ patching[w].of = "policy" /\ patching[w].id \in Policy /\ policy \in [Policy -> Body \cup {None}]
          /\ policy' = [policy EXCEPT ![patching[w].id] = patching[w].sets.body]
      BY <1>1, <3>1 DEF flush_policy, RecordsInv, RecordsTyped, RecordsTypeOK, PatchTyped
    <3>3. w \in overtaken \/ ~Attached(patching[w].id)
      BY <1>1, <3>2 DEF RecordsInv, PoliciesOpen
    <3>4. ASSUME NEW p \in Policy, policy'[p] # policy[p]
          PROVE  ~Attached(p) \/ \E x \in overtaken : patching[x].of = "policy" /\ patching[x].id = p
      <4>1. p = patching[w].id
        BY <3>2, <3>4
      <4> QED
        BY <3>2, <3>3, <4>1
    <3> QED
      BY <3>4
  <2>2. CASE \E p \in Policy : delete_policy(p)
    <3>1. PICK p \in Policy : policy' = [policy EXCEPT ![p] = None] /\ policy \in [Policy -> Body \cup {None}]
      BY <1>1, <2>2 DEF delete_policy, RecordsInv, RecordsTyped, RecordsTypeOK
    <3> QED
      BY <3>1
  <2>3. CASE UNCHANGED policy
    BY <2>3
  <2> QED
    BY <1>1, <2>1, <2>2, <2>3, ZenonT(30) DEF RecordsNext, create_entity, delete_task, update_task, update_policy,
       flush_task, abandon_update, list_entities, tick, recordVars
<1>2. RecordsInv /\ [RecordsNext]_recordVars => [Fixed]_recordVars
  BY <1>1
<1> QED
  BY <1>2, RecordsInvariant, PTL DEF RecordsSpec, AttachedPolicyFixed

(***************************************************************************)
(* DependencyGraph: cycles come from requests that overlapped.              *)
(***************************************************************************)
Write == [op : {"none", "create", "update"}, edge : Edge \cup {None}, row : EdgeRow \cup {None},
          changed : SUBSET {"src", "dst", "relation", "metadata"}, overtaken : BOOLEAN]

GraphTyped ==
    /\ edge \in [Edge -> EdgeRow \cup {None}]
    /\ editing \in [Request -> Write]
    /\ late \subseteq Edge
    /\ \A r \in Request :
          /\ editing[r].op # "none" => editing[r].row \in EdgeRow
          /\ editing[r].op = "update" => editing[r].edge \in Edge

Searched == Followed({"depends_on"})
Depends(row) == row.relation = "depends_on" /\ active_edge_condition(row.metadata)
Timely == {edge[e] : e \in Dependencies \ late}
NoWayBack(rows, row) ==
    row.src # row.dst /\ \A length \in 1..MaxDepth : ~Connected(rows, row.dst, row.src, length)

(* Until another edge is written, what a request was checked against holds, *)
ChecksHold ==
    \A r \in Request :
        editing[r].op # "none" /\ ~editing[r].overtaken /\ Depends(editing[r].row) =>
            NoWayBack(Searched, editing[r].row)
(* and the columns it keeps are the stored ones. *)
KeptColumns ==
    \A r \in Request :
        LET e == editing[r].edge IN
        editing[r].op = "update" /\ ~editing[r].overtaken /\ edge[e] # None =>
            \A col \in DOMAIN editing[r].row \ editing[r].changed : editing[r].row[col] = edge[e][col]

GraphInv == GraphTyped /\ ChecksHold /\ KeptColumns /\ CyclesComeFromOverlaps
-----------------------------------------------------------------------------
(* Paths. *)
LEMMA MorePaths ==
    ASSUME NEW rows, NEW more, rows \subseteq more, NEW from, NEW to, NEW length, Connected(rows, from, to, length)
    PROVE  Connected(more, from, to, length)
BY DEF Connected

LEMMA OneEdge ==
    ASSUME NEW rows, NEW row \in rows
    PROVE  Connected(rows, row.src, row.dst, 1)
<1> DEFINE p == [i \in 1..1 |-> row]
<1>1. p \in [1..1 -> rows] /\ p[1] = row /\ 1..(1 - 1) = {}
  OBVIOUS
<1> HIDE DEF p
<1> QED
  BY <1>1 DEF Connected

LEMMA OneMoreEdge ==
    ASSUME NEW rows, NEW row \in rows, NEW from, NEW length \in Nat \ {0},
           Connected(rows, from, row.src, length)
    PROVE  Connected(rows, from, row.dst, length + 1)
<1>1. PICK p \in [1..length -> rows] :
         /\ p[1].src = from /\ p[length].dst = row.src
         /\ \A i \in 1..(length - 1) : p[i].dst = p[i + 1].src
  BY DEF Connected
<1> DEFINE q == [i \in 1..(length + 1) |-> IF i <= length THEN p[i] ELSE row]
<1>2. q \in [1..(length + 1) -> rows]
  BY <1>1
<1>3. q[1].src = from /\ q[length + 1].dst = row.dst
  BY <1>1
<1>4. ASSUME NEW i \in 1..((length + 1) - 1) PROVE q[i].dst = q[i + 1].src
  <2>1. CASE i < length
    <3>1. q[i] = p[i] /\ q[i + 1] = p[i + 1] /\ i \in 1..(length - 1)
      BY <2>1
    <3> QED
      BY <1>1, <3>1
  <2>2. CASE i = length
    <3>1. q[i] = p[length] /\ q[i + 1] = row
      BY <2>2
    <3> QED
      BY <1>1, <3>1
  <2> QED
    BY <2>1, <2>2
<1> HIDE DEF q
<1> QED
  BY <1>2, <1>3, <1>4 DEF Connected

(* A path ends with an edge, and without it leads to where that one begins. *)
LEMMA LastEdge ==
    ASSUME NEW rows, NEW from, NEW to, NEW length \in Nat \ {0}, Connected(rows, from, to, length)
    PROVE  \E row \in rows :
              /\ row.dst = to
              /\ IF length = 1 THEN row.src = from ELSE Connected(rows, from, row.src, length - 1)
<1>1. PICK p \in [1..length -> rows] :
         /\ p[1].src = from /\ p[length].dst = to
         /\ \A i \in 1..(length - 1) : p[i].dst = p[i + 1].src
  BY DEF Connected
<1>2. p[length] \in rows
  BY <1>1
<1>3. CASE length = 1
  BY <1>1, <1>2, <1>3
<1>4. CASE length # 1
  <2>1. Connected(rows, from, p[length].src, length - 1)
    <3> DEFINE q == [i \in 1..(length - 1) |-> p[i]]
    <3>1. q \in [1..(length - 1) -> rows] /\ \A i \in 1..(length - 1) : q[i] = p[i]
      BY <1>1
    <3>2. 1 \in 1..(length - 1) /\ length - 1 \in 1..(length - 1) /\ (length - 1) + 1 = length
      BY <1>4
    <3>3. q[1].src = from /\ q[length - 1].dst = p[length].src
      BY <1>1, <3>1, <3>2
    <3>4. \A i \in 1..((length - 1) - 1) : i \in 1..(length - 1) /\ i + 1 \in 1..(length - 1)
      OBVIOUS
    <3>5. \A i \in 1..((length - 1) - 1) : q[i].dst = q[i + 1].src
      BY <1>1, <3>1, <3>4
    <3> HIDE DEF q
    <3> QED
      BY <3>1, <3>3, <3>5 DEF Connected
  <2> QED
    BY <1>1, <1>2, <1>4, <2>1
<1> QED
  BY <1>3, <1>4

(* A search that finds nothing shows that there is no path as long as its   *)
(* depth: the sets it grows are the nodes that paths reach.                 *)
LEMMA SearchesFindPaths ==
    ASSUME NEW rows, rows \subseteq EdgeRow, NEW from \in Node, NEW to,
           shortest_path(rows, from, to, MaxDepth) = None
    PROVE  \A length \in 1..MaxDepth : ~Connected(rows, from, to, length)
<1> DEFINE next(S) == {row.dst : row \in {k \in rows : k.src \in S}}
           By(d) == {n \in Node : n = from \/ \E k \in 1..d : Connected(rows, from, n, k)}
<1>0. MaxDepth \in Nat \ {0} /\ None \notin 1..MaxDepth
  BY GraphAssumption
<1> DEFINE sets == CHOOSE g : g = [d \in 0..MaxDepth |-> IF d = 0 THEN {from} ELSE g[d - 1] \cup next(g[d - 1])]
           at == {d \in 1..MaxDepth : to \in next(sets[d - 1])}
<1>a. at = {} \/ (CHOOSE d \in at : \A k \in at : d <= k) = None
  BY DEF shortest_path
<1>1. PICK reached : reached = sets
  OBVIOUS
<1>2. PICK found : found = at /\ found = {d \in 1..MaxDepth : to \in next(reached[d - 1])}
  BY <1>1
<1> HIDE DEF at
<1>3. found = {} \/ (CHOOSE d \in found : \A k \in found : d <= k) = None
  BY <1>a, <1>2
<1>4. found = {}
  <2>1. SUFFICES ASSUME found # {} PROVE FALSE
    OBVIOUS
  <2>2. found \subseteq Nat /\ found \subseteq 1..MaxDepth
    BY <1>0, <1>2
  <2>3. \E d \in found : \A k \in found : d <= k
    BY <2>1, <2>2, LeastNat
  <2>4. (CHOOSE d \in found : \A k \in found : d <= k) \in found
    BY <2>3
  <2> QED
    BY <1>0, <1>3, <2>1, <2>2, <2>4
<1>5. By(0) = {from}
  OBVIOUS
<1>6. ASSUME NEW d \in 1..MaxDepth PROVE By(d) = By(d - 1) \cup next(By(d - 1))
  <2>0. d \in Nat \ {0} /\ d - 1 \in Nat
    BY <1>0
  <2>1. ASSUME NEW n \in By(d), n \notin By(d - 1) PROVE n \in next(By(d - 1))
    <3>1. n # from /\ Connected(rows, from, n, d)
      <4>1. PICK k \in 1..d : n # from /\ Connected(rows, from, n, k)
        BY <2>0, <2>1
      <4>2. k \notin 1..(d - 1)
        BY <2>1, <4>1
      <4>3. k = d
        BY <2>0, <4>2
      <4> QED
        BY <4>1, <4>3
    <3>2. PICK row \in rows :
            row.dst = n /\ IF d = 1 THEN row.src = from ELSE Connected(rows, from, row.src, d - 1)
      BY <2>0, <3>1, LastEdge
    <3>3. row.src \in Node
      BY DEF EdgeRow
    <3>4. d # 1 => d - 1 \in 1..(d - 1)
      BY <2>0
    <3>5. row.src \in By(d - 1)
      BY <3>2, <3>3, <3>4
    <3> QED
      BY <3>2, <3>5
  <2>2. By(d - 1) \subseteq By(d)
    <3>1. 1..(d - 1) \subseteq 1..d
      BY <2>0
    <3> QED
      BY <3>1
  <2>3. ASSUME NEW n \in next(By(d - 1)) PROVE n \in By(d)
    <3>1. PICK row \in rows : row.src \in By(d - 1) /\ n = row.dst
      OBVIOUS
    <3>2. n \in Node
      BY <3>1 DEF EdgeRow
    <3>3. \E k \in 1..d : Connected(rows, from, n, k)
      <4>1. CASE row.src = from
        BY <2>0, <3>1, <4>1, OneEdge
      <4>2. CASE row.src # from
        <5>1. PICK k \in 1..(d - 1) : Connected(rows, from, row.src, k)
          BY <3>1, <4>2
        <5>2. k \in Nat \ {0} /\ k + 1 \in 1..d
          BY <2>0
        <5>3. Connected(rows, from, n, k + 1)
          BY <3>1, <5>1, <5>2, OneMoreEdge
        <5> QED
          BY <5>2, <5>3
      <4> QED
        BY <4>1, <4>2
    <3> QED
      BY <3>2, <3>3
  <2> HIDE DEF By, next
  <2> QED
    BY <2>1, <2>2, <2>3
<1> HIDE DEF By, next
<1>7. reached = [d \in 0..MaxDepth |-> IF d = 0 THEN {from} ELSE reached[d - 1] \cup next(reached[d - 1])]
  <2> DEFINE g == [d \in 0..MaxDepth |-> By(d)]
  <2>1. g = [d \in 0..MaxDepth |-> IF d = 0 THEN {from} ELSE g[d - 1] \cup next(g[d - 1])]
    <3>1. ASSUME NEW d \in 0..MaxDepth
          PROVE  g[d] = IF d = 0 THEN {from} ELSE g[d - 1] \cup next(g[d - 1])
      <4>1. CASE d = 0
        BY <1>0, <1>5, <4>1
      <4>2. CASE d # 0
        <5>1. d \in 1..MaxDepth /\ d - 1 \in 0..MaxDepth
          BY <1>0, <4>2
        <5>2. g[d] = By(d) /\ g[d - 1] = By(d - 1)
          BY <5>1
        <5> HIDE DEF g
        <5> QED
          BY <1>6, <4>2, <5>1, <5>2
      <4> QED
        BY <4>1, <4>2
    <3>2. DOMAIN g = 0..MaxDepth /\ g = [d \in DOMAIN g |-> g[d]]
      OBVIOUS
    <3> HIDE DEF g
    <3> QED
      BY <3>1, <3>2
  <2> HIDE DEF g
  <2> QED
    BY <1>1, <2>1
<1>8. \A d \in 0..MaxDepth : reached[d] = By(d)
  <2> DEFINE T == {d \in 0..MaxDepth : reached[d] # By(d)}
  <2>1. SUFFICES ASSUME T # {} PROVE FALSE
    OBVIOUS
  <2>2. T \subseteq Nat
    BY <1>0
  <2>3. PICK d \in T : \A k \in T : d <= k
    BY <2>1, <2>2, LeastNat
  <2>4. d \in 0..MaxDepth /\ d \in Nat
    BY <1>0
  <2>5. CASE d = 0
    <3>1. reached[0] = {from}
      BY <1>7, <2>4, <2>5
    <3> QED
      BY <1>5, <2>3, <2>5, <3>1
  <2>6. CASE d # 0
    <3>1. d - 1 \in 0..MaxDepth /\ d \in 1..MaxDepth /\ ~(d <= d - 1)
      BY <1>0, <2>4, <2>6
    <3>2. reached[d - 1] = By(d - 1)
      BY <2>3, <3>1
    <3>3. reached[d] = reached[d - 1] \cup next(reached[d - 1])
      BY <1>7, <2>4, <2>6
    <3> QED
      BY <1>6, <2>3, <3>1, <3>2, <3>3
  <2> QED
    BY <2>5, <2>6
<1>9. ASSUME NEW d \in 1..MaxDepth, Connected(rows, from, to, d) PROVE FALSE
  <2>0. d \in Nat \ {0} /\ d - 1 \in 0..MaxDepth
    BY <1>0
  <2>1. PICK row \in rows :
          row.dst = to /\ IF d = 1 THEN row.src = from ELSE Connected(rows, from, row.src, d - 1)
    BY <1>9, <2>0, LastEdge
  <2>2. row.src \in Node
    BY DEF EdgeRow
  <2>3. d # 1 => d - 1 \in 1..(d - 1)
    BY <2>0
  <2>4. row.src \in By(d - 1)
    BY <2>1, <2>2, <2>3 DEF By
  <2>5. to \in next(reached[d - 1])
    BY <1>8, <2>0, <2>1, <2>4 DEF next
  <2> QED
    BY <1>2, <1>4, <2>5
<1> QED
  BY <1>9

(* A walk that begins with an edge and leads back to it. *)
Cycle(rows, row, length) ==
    \E q \in [1..length -> rows] :
        /\ q[1] = row /\ q[length].dst = row.src
        /\ \A k \in 1..(length - 1) : q[k].dst = q[k + 1].src

(* A cycle through an edge can be walked from that edge, *)
LEMMA CycleFromEdge ==
    ASSUME NEW rows, NEW length \in Nat \ {0}, NEW p \in [1..length -> rows],
           p[length].dst = p[1].src, \A i \in 1..(length - 1) : p[i].dst = p[i + 1].src,
           NEW i \in 1..length
    PROVE  Cycle(rows, p[i], length)
<1> DEFINE at(k) == IF k + i - 1 <= length THEN k + i - 1 ELSE k + i - 1 - length
           q == [k \in 1..length |-> p[at(k)]]
<1>1. \A k \in 1..length : at(k) \in 1..length /\ q[k] = p[at(k)]
  OBVIOUS
<1>2. q \in [1..length -> rows] /\ q[1] = p[i]
  <2>1. at(1) = i
    OBVIOUS
  <2> HIDE DEF at
  <2> QED
    BY <1>1, <2>1
<1>3. q[length].dst = q[1].src
  <2>1. CASE i = 1
    <3>1. at(length) = length /\ at(1) = 1
      BY <2>1
    <3> HIDE DEF at
    <3> QED
      BY <1>1, <3>1
  <2>2. CASE i # 1
    <3>1. at(length) = i - 1 /\ at(1) = i /\ i - 1 \in 1..(length - 1) /\ (i - 1) + 1 = i
      BY <2>2
    <3>2. p[i - 1].dst = p[i].src
      BY <3>1
    <3> HIDE DEF at
    <3> QED
      BY <1>1, <3>1, <3>2
  <2> QED
    BY <2>1, <2>2
<1>4. ASSUME NEW k \in 1..(length - 1) PROVE q[k].dst = q[k + 1].src
  <2>0. k \in 1..length /\ k + 1 \in 1..length
    OBVIOUS
  <2>1. CASE at(k) = length
    <3>1. at(k + 1) = 1
      BY <2>1
    <3> HIDE DEF at
    <3> QED
      BY <1>1, <2>0, <2>1, <3>1
  <2>2. CASE at(k) # length
    <3>1. at(k) \in 1..(length - 1) /\ at(k + 1) = at(k) + 1
      BY <1>1, <2>0, <2>2
    <3>2. p[at(k)].dst = p[at(k) + 1].src
      BY <3>1
    <3> HIDE DEF at
    <3> QED
      BY <1>1, <2>0, <3>1, <3>2
  <2> QED
    BY <2>1, <2>2
<1> HIDE DEF q
<1> QED
  BY <1>2, <1>3, <1>4 DEF Cycle

(* so that an edge without a way back closes no cycle. *)
LEMMA NoCycleThroughEdge ==
    ASSUME NEW rows, NEW row, NoWayBack(rows, row),
           \A length \in 1..(MaxDepth + 1) : \A k \in rows : ~Connected(rows, k.src, k.src, length)
    PROVE  \A length \in 1..(MaxDepth + 1) : \A k \in rows \cup {row} :
              ~Connected(rows \cup {row}, k.src, k.src, length)
<1>0. MaxDepth \in Nat \ {0}
  BY GraphAssumption
<1> DEFINE more == rows \cup {row}
<1>1. ASSUME NEW n \in 1..(MaxDepth + 1), Cycle(more, row, n) PROVE FALSE
  <2> DEFINE T == {m \in 1..(MaxDepth + 1) : Cycle(more, row, m)}
  <2>1. T \subseteq Nat /\ T # {}
    BY <1>0, <1>1
  <2>2. PICK m \in T : \A k \in T : m <= k
    BY <2>1, LeastNat
  <2>3. m \in 1..(MaxDepth + 1) /\ m \in Nat \ {0}
    BY <1>0
  <2>4. PICK q \in [1..m -> more] :
           /\ q[1] = row /\ q[m].dst = row.src
           /\ \A k \in 1..(m - 1) : q[k].dst = q[k + 1].src
    BY <2>2 DEF Cycle
  <2>5. ASSUME NEW j \in 2..m PROVE q[j] \in rows
    <3>1. SUFFICES ASSUME q[j] = row PROVE FALSE
      BY <2>3, <2>4
    <3>2. /\ j \in Nat /\ j - 1 \in 1..(MaxDepth + 1) /\ j - 1 \in 1..(m - 1) /\ (j - 1) + 1 = j
          /\ 1 \in 1..(j - 1) /\ j - 1 \in 1..m /\ ~(m <= j - 1)
      BY <1>0, <2>3
    <3>3. q[j - 1].dst = row.src
      BY <2>4, <3>1, <3>2
    <3> DEFINE s == [k \in 1..(j - 1) |-> q[k]]
    <3>4. \A k \in 1..(j - 1) : k \in 1..m
      BY <2>3, <3>2
    <3>5. s \in [1..(j - 1) -> more] /\ \A k \in 1..(j - 1) : s[k] = q[k]
      BY <2>4, <3>4
    <3>6. \A k \in 1..((j - 1) - 1) : k \in 1..(j - 1) /\ k + 1 \in 1..(j - 1) /\ k \in 1..(m - 1)
      <4>1. j \in Nat /\ m \in Nat /\ 2 <= j /\ j <= m
        BY <2>3
      <4> QED
        BY <4>1
    <3>7. \A k \in 1..((j - 1) - 1) : s[k].dst = s[k + 1].src
      BY <2>4, <3>5, <3>6
    <3> HIDE DEF s
    <3>8. s[1] = row /\ s[j - 1].dst = row.src
      BY <2>4, <3>2, <3>3, <3>5
    <3>9. Cycle(more, row, j - 1)
      BY <3>5, <3>7, <3>8 DEF Cycle
    <3> QED
      BY <2>2, <3>2, <3>9
  <2>6. CASE m = 1
    BY <2>4, <2>6 DEF NoWayBack
  <2>7. CASE m # 1
    <3>1. m - 1 \in 1..MaxDepth /\ 1 \in 1..(m - 1)
      BY <1>0, <2>3, <2>7
    <3> DEFINE s == [k \in 1..(m - 1) |-> q[k + 1]]
    <3>2. \A k \in 1..(m - 1) : k + 1 \in 2..m /\ k + 1 \in 1..m
      BY <2>3
    <3>3. s \in [1..(m - 1) -> rows] /\ \A k \in 1..(m - 1) : s[k] = q[k + 1]
      BY <2>5, <3>2
    <3>4. \A k \in 1..((m - 1) - 1) : k \in 1..(m - 1) /\ k + 1 \in 1..(m - 1)
      BY <2>3
    <3>5. \A k \in 1..((m - 1) - 1) : s[k].dst = s[k + 1].src
      BY <2>4, <3>3, <3>4
    <3>6. (m - 1) + 1 = m /\ m - 1 \in 1..(m - 1)
      BY <2>3, <3>1
    <3>7. s[1] = q[2] /\ s[m - 1] = q[m]
      BY <3>1, <3>3, <3>6
    <3> HIDE DEF s
    <3>8. s[1].src = row.dst /\ s[m - 1].dst = row.src
      BY <2>4, <3>1, <3>7
    <3>9. Connected(rows, row.dst, row.src, m - 1)
      BY <3>3, <3>5, <3>8 DEF Connected
    <3> QED
      BY <3>1, <3>9 DEF NoWayBack
  <2> QED
    BY <2>6, <2>7
<1>2. ASSUME NEW n \in 1..(MaxDepth + 1), NEW k \in more, Connected(more, k.src, k.src, n) PROVE FALSE
  <2>1. n \in Nat \ {0}
    BY <1>0
  <2>2. PICK p \in [1..n -> more] :
           /\ p[1].src = k.src /\ p[n].dst = k.src
           /\ \A i \in 1..(n - 1) : p[i].dst = p[i + 1].src
    BY <1>2 DEF Connected
  <2>3. CASE \E i \in 1..n : p[i] = row
    <3>1. PICK i \in 1..n : p[i] = row
      BY <2>3
    <3>2. Cycle(more, p[i], n)
      <4>1. p[n].dst = p[1].src
        BY <2>2
      <4> HIDE DEF more
      <4> QED
        BY <2>1, <2>2, <4>1, CycleFromEdge
    <3>3. Cycle(more, row, n)
      BY <3>1, <3>2
    <3> QED
      BY <1>1, <3>3
  <2>4. CASE \A i \in 1..n : p[i] # row
    <3>1. p \in [1..n -> rows] /\ 1 \in 1..n
      BY <2>1, <2>2, <2>4
    <3>2. p[1] \in rows
      BY <3>1
    <3>3. Connected(rows, p[1].src, p[1].src, n)
      BY <2>2, <3>1 DEF Connected
    <3> QED
      BY <3>2, <3>3
  <2> QED
    BY <2>3, <2>4
<1> QED
  BY <1>2
-----------------------------------------------------------------------------
LEMMA NoWriteIs == NoWrite \in Write /\ NoWrite.op = "none" /\ None \notin EdgeRow
BY GraphAssumption DEF NoWrite, Write

LEMMA SearchedAre ==
    ASSUME edge \in [Edge -> EdgeRow \cup {None}]
    PROVE  /\ Searched = {edge[e] : e \in Dependencies} /\ Searched \subseteq EdgeRow
           /\ Timely \subseteq Searched
           /\ \A e \in Edge : e \in Dependencies <=> edge[e] # None /\ Depends(edge[e])
BY DEF Searched, Followed, Rows, Dependencies, Timely, Depends

(* The Boolean that Python looks at follows from the one of the search. *)
LEMMA CheckedEdge ==
    ASSUME edge \in [Edge -> EdgeRow \cup {None}], NEW row \in EdgeRow,
           maybe_validate_edge(row), Depends(row)
    PROVE  NoWayBack(Searched, row)
<1>1. ~edge_metadata_marks_superseded(row.metadata) /\ row.relation = "depends_on"
  BY DEF Depends, active_edge_condition, edge_metadata_marks_superseded
<1>2. row.src # row.dst /\ shortest_path(Searched, row.dst, row.src, MaxDepth) = None
  BY <1>1 DEF maybe_validate_edge, ensure_dependency_edge_is_acyclic, Searched
<1>3. Searched \subseteq EdgeRow /\ row.dst \in Node
  BY SearchedAre DEF EdgeRow
<1> QED
  BY <1>2, <1>3, SearchesFindPaths DEF NoWayBack

(* With fewer edges there are fewer ways back, and fewer cycles. *)
LEMMA FewerEdges ==
    ASSUME NEW rows, NEW more, rows \subseteq more
    PROVE  /\ \A row : NoWayBack(more, row) => NoWayBack(rows, row)
           /\ (\A length \in 1..(MaxDepth + 1) : \A row \in more : ~Connected(more, row.src, row.src, length))
                => (\A length \in 1..(MaxDepth + 1) : \A row \in rows : ~Connected(rows, row.src, row.src, length))
BY MorePaths DEF NoWayBack

(* A request decides what to write, or ends without a write. *)
LEMMA EditingChanges ==
    ASSUME GraphInv, NEW r \in Request, NEW w \in Write,
           editing' \in [Request -> Write], editing'[r] = w,
           \A q \in Request \ {r} : editing'[q] = editing[q],
           UNCHANGED <<edge, late>>,
           w.op # "none" => w.row \in EdgeRow,
           w.op = "update" => w.edge \in Edge,
           w.op # "none" /\ ~w.overtaken /\ Depends(w.row) => NoWayBack(Searched, w.row),
           w.op = "update" /\ ~w.overtaken /\ edge[w.edge] # None =>
               \A c \in DOMAIN w.row \ w.changed : w.row[c] = edge[w.edge][c]
    PROVE  GraphInv'
<1>1. GraphTyped /\ ChecksHold /\ KeptColumns /\ CyclesComeFromOverlaps
  BY DEF GraphInv
<1>2. GraphTyped'
  <2>1. ASSUME NEW q \in Request
        PROVE  /\ editing'[q].op # "none" => editing'[q].row \in EdgeRow
               /\ editing'[q].op = "update" => editing'[q].edge \in Edge
    <3>1. CASE q = r
      BY <3>1
    <3>2. CASE q # r
      BY <1>1, <3>2 DEF GraphTyped
    <3> QED
      BY <3>1, <3>2
  <2> QED
    BY <1>1, <2>1 DEF GraphTyped
<1>3. Searched' = Searched
  BY DEF Searched, Followed, Rows
<1>4. ChecksHold'
  <2>1. ASSUME NEW q \in Request, editing'[q].op # "none", ~editing'[q].overtaken, Depends(editing'[q].row)
        PROVE  NoWayBack(Searched, editing'[q].row)
    <3>1. CASE q = r
      BY <2>1, <3>1
    <3>2. CASE q # r
      BY <1>1, <2>1, <3>2 DEF ChecksHold
    <3> QED
      BY <3>1, <3>2
  <2>2. \A row : Depends(row)' <=> Depends(row)
    BY DEF Depends
  <2> QED
    BY <1>3, <2>1, <2>2 DEF ChecksHold, NoWayBack, Depends
<1>5. KeptColumns'
  <2>1. ASSUME NEW q \in Request, editing'[q].op = "update", ~editing'[q].overtaken,
               edge'[editing'[q].edge] # None,
               NEW col \in DOMAIN editing'[q].row \ editing'[q].changed
        PROVE  editing'[q].row[col] = edge'[editing'[q].edge][col]
    <3>1. CASE q = r
      BY <2>1, <3>1
    <3>2. CASE q # r
      BY <1>1, <2>1, <3>2 DEF KeptColumns
    <3> QED
      BY <3>1, <3>2
  <2> QED
    BY <2>1 DEF KeptColumns
<1>6. CyclesComeFromOverlaps'
  BY <1>1 DEF CyclesComeFromOverlaps, Dependencies, Connected
<1> QED
  BY <1>2, <1>4, <1>5, <1>6 DEF GraphInv

LEMMA CreateEdgeInv ==
    ASSUME GraphInv, NEW r \in Request, NEW row \in EdgeRow, create_edge(r, row)
    PROVE  GraphInv'
<1>1. PICK w : w = [NoWrite EXCEPT !.op = "create", !.row = row]
  OBVIOUS
<1>2. /\ maybe_validate_edge(row) /\ editing' = [editing EXCEPT ![r] = w] /\ UNCHANGED <<edge, late>>
  BY <1>1 DEF create_edge
<1>3. editing \in [Request -> Write] /\ edge \in [Edge -> EdgeRow \cup {None}]
  BY DEF GraphInv, GraphTyped
<1>4. w \in Write /\ w.op = "create" /\ w.row = row
  BY <1>1 DEF NoWrite, Write
<1>5. /\ editing' \in [Request -> Write] /\ editing'[r] = w
      /\ \A q \in Request \ {r} : editing'[q] = editing[q]
  BY <1>2, <1>3, <1>4
<1>6. Depends(w.row) => NoWayBack(Searched, w.row)
  BY <1>2, <1>3, <1>4, CheckedEdge
<1>7. w.row \in EdgeRow /\ w.op # "update"
  BY <1>4
<1> QED
  BY <1>2, <1>4, <1>5, <1>6, <1>7, EditingChanges

LEMMA UpdateEdgeInv ==
    ASSUME GraphInv, NEW r \in Request, NEW e \in Edge, NEW patch, update_edge(r, e, patch)
    PROVE  GraphInv'
<1>1. PICK row : row = Merged(edge[e], patch)
  OBVIOUS
<1>2. PICK columns : columns = {c \in DOMAIN row : row[c] # edge[e][c]}
  OBVIOUS
<1>3. PICK w : w = [NoWrite EXCEPT !.op = "update", !.edge = e, !.row = row, !.changed = columns]
  OBVIOUS
<1>4. /\ row \in EdgeRow /\ maybe_validate_edge(row) /\ editing' = [editing EXCEPT ![r] = w]
      /\ UNCHANGED <<edge, late>>
  BY <1>1, <1>2, <1>3 DEF update_edge
<1>5. editing \in [Request -> Write] /\ edge \in [Edge -> EdgeRow \cup {None}]
  BY DEF GraphInv, GraphTyped
<1>6. columns \subseteq {"src", "dst", "relation", "metadata"}
  BY <1>2, <1>4 DEF EdgeRow
<1>7. w \in Write /\ w.op = "update" /\ w.row = row /\ w.edge = e /\ w.changed = columns
  BY <1>3, <1>4, <1>6 DEF NoWrite, Write
<1>8. /\ editing' \in [Request -> Write] /\ editing'[r] = w
      /\ \A q \in Request \ {r} : editing'[q] = editing[q]
  BY <1>4, <1>5, <1>7
<1>9. Depends(w.row) => NoWayBack(Searched, w.row)
  BY <1>4, <1>5, <1>7, CheckedEdge
<1>10. \A c \in DOMAIN w.row \ w.changed : w.row[c] = edge[w.edge][c]
  BY <1>2, <1>7
<1>11. w.row \in EdgeRow /\ w.edge \in Edge
  BY <1>4, <1>7
<1> QED
  BY <1>4, <1>7, <1>8, <1>9, <1>10, <1>11, EditingChanges

LEMMA AbandonEdgeInv ==
    ASSUME GraphInv, NEW r \in Request, abandon_edge(r)
    PROVE  GraphInv'
<1>1. PICK w : w = NoWrite
  OBVIOUS
<1>2. editing' = [editing EXCEPT ![r] = w] /\ UNCHANGED <<edge, late>>
  BY <1>1 DEF abandon_edge
<1>3. editing \in [Request -> Write] /\ w \in Write /\ w.op = "none"
  BY <1>1, NoWriteIs DEF GraphInv, GraphTyped
<1>4. /\ editing' \in [Request -> Write] /\ editing'[r] = w
      /\ \A q \in Request \ {r} : editing'[q] = editing[q]
  BY <1>2, <1>3
<1> QED
  BY <1>2, <1>3, <1>4, EditingChanges

LEMMA DeleteEdgeInv ==
    ASSUME GraphInv, NEW e \in Edge, delete_edge(e)
    PROVE  GraphInv'
<1>1. edge' = [edge EXCEPT ![e] = None] /\ late' = late \ {e} /\ UNCHANGED editing
  BY DEF delete_edge
<1>2. GraphTyped /\ ChecksHold /\ KeptColumns /\ CyclesComeFromOverlaps
  BY DEF GraphInv
<1>3. GraphTyped'
  BY <1>1, <1>2 DEF GraphTyped
<1>4. /\ edge' \in [Edge -> EdgeRow \cup {None}] /\ edge'[e] = None
      /\ \A k \in Edge \ {e} : edge'[k] = edge[k]
  BY <1>1, <1>2 DEF GraphTyped
<1>5. Dependencies' = Dependencies \ {e}
  BY <1>4 DEF Dependencies
<1>6. Searched' \subseteq Searched
  BY <1>4 DEF Searched, Followed, Rows
<1>7. Timely' \subseteq Timely
  BY <1>1, <1>4, <1>5 DEF Timely, Dependencies
<1>8. ChecksHold'
  <2>1. ASSUME NEW q \in Request, editing[q].op # "none", ~editing[q].overtaken, Depends(editing[q].row)
        PROVE  NoWayBack(Searched', editing[q].row)
    <3>1. NoWayBack(Searched, editing[q].row)
      BY <1>2, <2>1 DEF ChecksHold
    <3> QED
      BY <1>6, <3>1, FewerEdges
  <2> QED
    BY <1>1, <2>1 DEF ChecksHold, NoWayBack, Depends, Connected
<1>9. KeptColumns'
  BY <1>1, <1>2, <1>4 DEF KeptColumns, GraphTyped
<1>10. CyclesComeFromOverlaps'
  <2>1. \A length \in 1..(MaxDepth + 1) : \A row \in Timely : ~Connected(Timely, row.src, row.src, length)
    BY <1>2 DEF CyclesComeFromOverlaps, Timely
  <2>2. \A length \in 1..(MaxDepth + 1) : \A row \in Timely' : ~Connected(Timely', row.src, row.src, length)
    BY <1>7, <2>1, FewerEdges
  <2> QED
    BY <2>2 DEF CyclesComeFromOverlaps, Timely, Connected
<1> QED
  BY <1>3, <1>8, <1>9, <1>10 DEF GraphInv

(* The write of a request that nobody overtook closes no cycle with the     *)
(* edges of its kind; all others that have decided are overtaken by it.     *)
LEMMA FlushEdgeInv ==
    ASSUME GraphInv, NEW r \in Request, flush_edge(r)
    PROVE  GraphInv'
<1>1. PICK e : e = Target(r)
  OBVIOUS
<1>2. PICK written : written = Written(r)
  OBVIOUS
<1>3. /\ editing[r].op # "none"
      /\ editing[r].op = "create" => \E k \in Edge : edge[k] = None
      /\ editing[r].op = "update" => edge[e] # None
      /\ edge' = [edge EXCEPT ![e] = written]
      /\ late' = IF editing[r].overtaken /\ active_edge_condition(written.metadata)
                 THEN late \cup {e} ELSE late \ {e}
      /\ editing' = [k \in Request |->
                       IF k = r \/ editing[k].op = "none" THEN NoWrite
                       ELSE [editing[k] EXCEPT !.overtaken = TRUE]]
  BY <1>1, <1>2 DEF flush_edge
<1>4. /\ GraphTyped /\ ChecksHold /\ KeptColumns /\ CyclesComeFromOverlaps
      /\ edge \in [Edge -> EdgeRow \cup {None}] /\ editing \in [Request -> Write] /\ late \subseteq Edge
      /\ editing[r].row \in EdgeRow /\ editing[r] \in Write
  BY <1>3 DEF GraphInv, GraphTyped
<1>5. /\ e \in Edge
      /\ editing[r].op = "update" => e = editing[r].edge
  BY <1>1, <1>3, <1>4 DEF Target, FreeEdge, GraphTyped, Write
<1>6. DOMAIN editing[r].row = {"src", "dst", "relation", "metadata"}
  BY <1>4 DEF EdgeRow
<1>7. written \in EdgeRow
  <2>1. CASE editing[r].op = "create"
    BY <1>2, <1>4, <2>1 DEF Written
  <2>2. CASE editing[r].op = "update"
    <3>1. edge[e] \in EdgeRow /\ editing[r].row \in EdgeRow
      BY <1>3, <1>4, <1>5, <2>2
    <3>2. written = [c \in {"src", "dst", "relation", "metadata"} |->
                       IF c \in editing[r].changed THEN editing[r].row[c] ELSE edge[e][c]]
      BY <1>2, <1>5, <1>6, <2>2 DEF Written
    <3> QED
      BY <3>1, <3>2 DEF EdgeRow
  <2> QED
    BY <1>3, <1>4, <2>1, <2>2 DEF Write
<1>8. ~editing[r].overtaken => written = editing[r].row
  <2>1. CASE editing[r].op = "create"
    BY <1>2, <2>1 DEF Written
  <2>2. CASE editing[r].op = "update" /\ ~editing[r].overtaken
    <3>1. \A c \in DOMAIN editing[r].row \ editing[r].changed : editing[r].row[c] = edge[e][c]
      BY <1>3, <1>4, <1>5, <2>2 DEF KeptColumns
    <3>2. written = [c \in DOMAIN editing[r].row |->
                       IF c \in editing[r].changed THEN editing[r].row[c] ELSE edge[e][c]]
      BY <1>2, <1>5, <2>2 DEF Written
    <3>3. editing[r].row = [c \in DOMAIN editing[r].row |-> editing[r].row[c]]
      BY <1>4 DEF EdgeRow
    <3> QED
      BY <3>1, <3>2, <3>3
  <2> QED
    BY <1>3, <1>4, <2>1, <2>2 DEF Write
<1>9. /\ edge' \in [Edge -> EdgeRow \cup {None}] /\ edge'[e] = written
      /\ \A k \in Edge \ {e} : edge'[k] = edge[k]
      /\ written # None
  BY <1>3, <1>4, <1>5, <1>7, NoWriteIs
<1>10. ASSUME NEW q \in Request
       PROVE  /\ editing'[q] \in Write
              /\ editing'[q].op # "none" => editing'[q].overtaken
              /\ editing'[q].op # "none" => editing'[q].row \in EdgeRow
              /\ editing'[q].op = "update" => editing'[q].edge \in Edge
  <2>1. CASE q = r \/ editing[q].op = "none"
    <3>1. editing'[q] = NoWrite
      BY <1>3, <2>1
    <3> QED
      BY <3>1, NoWriteIs
  <2>2. CASE ~(q = r \/ editing[q].op = "none")
    <3>1. editing'[q] = [editing[q] EXCEPT !.overtaken = TRUE] /\ editing[q] \in Write
      BY <1>3, <1>4, <2>2
    <3>2. /\ editing'[q] \in Write /\ editing'[q].overtaken /\ editing'[q].row = editing[q].row
          /\ editing'[q].op = editing[q].op /\ editing'[q].edge = editing[q].edge
      BY <3>1 DEF Write
    <3> QED
      BY <1>4, <3>2 DEF GraphTyped
  <2> QED
    BY <2>1, <2>2
<1>11. GraphTyped'
  <2>1. editing' \in [Request -> Write]
    <3>1. DOMAIN editing' = Request /\ editing' = [q \in DOMAIN editing' |-> editing'[q]]
      BY <1>3
    <3> QED
      BY <1>10, <3>1
  <2>2. late' \subseteq Edge
    BY <1>3, <1>4, <1>5
  <2> QED
    BY <1>9, <1>10, <2>1, <2>2 DEF GraphTyped
<1>12. ChecksHold' /\ KeptColumns'
  BY <1>10 DEF ChecksHold, KeptColumns
<1>13. \A length \in 1..(MaxDepth + 1) : \A row \in Timely : ~Connected(Timely, row.src, row.src, length)
  BY <1>4 DEF CyclesComeFromOverlaps, Timely
<1>14. Timely' \subseteq Timely \/ (~editing[r].overtaken /\ Depends(written) /\ Timely' \subseteq Timely \cup {written})
  <2>1. \A k \in Edge \ {e} : (k \in Dependencies' <=> k \in Dependencies) /\ (k \in late' <=> k \in late)
    BY <1>3, <1>9 DEF Dependencies
  <2>2. e \in Dependencies' <=> Depends(written)
    BY <1>5, <1>9 DEF Dependencies, Depends
  <2>3. editing[r].overtaken /\ Depends(written) => e \in late'
    BY <1>3 DEF Depends
  <2>4. Dependencies' \subseteq Edge
    BY DEF Dependencies
  <2>5. CASE e \in Dependencies' \ late'
    BY <1>9, <2>1, <2>2, <2>3, <2>4, <2>5 DEF Timely
  <2>6. CASE e \notin Dependencies' \ late'
    BY <1>9, <2>1, <2>4, <2>6 DEF Timely
  <2> QED
    BY <2>5, <2>6
<1>15. \A length \in 1..(MaxDepth + 1) : \A row \in Timely' : ~Connected(Timely', row.src, row.src, length)
  <2>1. CASE Timely' \subseteq Timely
    BY <1>13, <2>1, FewerEdges
  <2>2. CASE ~editing[r].overtaken /\ Depends(written) /\ Timely' \subseteq Timely \cup {written}
    <3>1. NoWayBack(Searched, written)
      BY <1>3, <1>4, <1>8, <2>2 DEF ChecksHold
    <3>2. NoWayBack(Timely, written)
      BY <1>4, <3>1, SearchedAre, FewerEdges
    <3>3. \A length \in 1..(MaxDepth + 1) : \A row \in Timely \cup {written} :
             ~Connected(Timely \cup {written}, row.src, row.src, length)
      BY <1>13, <3>2, NoCycleThroughEdge
    <3> QED
      BY <2>2, <3>3, FewerEdges
  <2> QED
    BY <1>14, <2>1, <2>2
<1>16. CyclesComeFromOverlaps'
  BY <1>15 DEF CyclesComeFromOverlaps, Timely, Connected
<1> QED
  BY <1>11, <1>12, <1>16 DEF GraphInv

LEMMA GraphStep ==
    ASSUME GraphInv, [GraphNext]_graphVars
    PROVE  GraphInv'
<1>0. Plain \in Metadata
  BY DEF Plain, Metadata
<1>1. CASE \E r \in Request, row \in Posted : create_edge(r, row)
  BY <1>1, GraphAssumption, CreateEdgeInv
<1>2. CASE \E r \in Request, n, k \in Node : supersede_decision(r, n, k)
  <2>1. PICK r \in Request, n \in Node, k \in Node : supersede_decision(r, n, k)
    BY <1>2
  <2>2. PICK row : row = [src |-> k, dst |-> n, relation |-> "supersedes", metadata |-> Plain]
    OBVIOUS
  <2>3. create_edge(r, row) /\ row \in EdgeRow
    BY <1>0, <2>1, <2>2 DEF supersede_decision, EdgeRow, Relation
  <2> QED
    BY <2>3, CreateEdgeInv
<1>3. CASE \E r \in Request, link \in Linkable : link_decision(r, link[1], link[2], link[3])
  <2>1. PICK r \in Request, link \in Linkable : link_decision(r, link[1], link[2], link[3])
    BY <1>3
  <2>2. PICK row : row = [src |-> link[1], dst |-> link[2], relation |-> link[3], metadata |-> Plain]
    OBVIOUS
  <2>3. link[1] \in Node /\ link[2] \in Node /\ link[3] \in Relation
    BY GraphAssumption
  <2>4. create_edge(r, row) /\ row \in EdgeRow
    BY <1>0, <2>1, <2>2, <2>3 DEF link_decision, EdgeRow
  <2> QED
    BY <2>4, CreateEdgeInv
<1>4. CASE \E r \in Request, e \in Edge, patch \in Patches : update_edge(r, e, patch)
  BY <1>4, UpdateEdgeInv
<1>5. CASE \E r \in Request : flush_edge(r)
  BY <1>5, FlushEdgeInv
<1>6. CASE \E r \in Request : abandon_edge(r)
  BY <1>6, AbandonEdgeInv
<1>7. CASE \E e \in Edge : delete_edge(e)
  BY <1>7, DeleteEdgeInv
<1>8. CASE UNCHANGED graphVars
  <2>1. UNCHANGED <<edge, editing, late>>
    BY <1>8 DEF graphVars
  <2>2. GraphTyped' /\ KeptColumns'
    BY <2>1 DEF GraphInv, GraphTyped, KeptColumns
  <2>3. ChecksHold'
    BY <2>1 DEF GraphInv, ChecksHold, NoWayBack, Depends, Searched, Followed, Rows, Connected
  <2>4. CyclesComeFromOverlaps'
    <3>1. Timely' = Timely
      BY <2>1 DEF Timely, Dependencies
    <3>2. \A length \in 1..(MaxDepth + 1) : \A row \in Timely : ~Connected(Timely, row.src, row.src, length)
      BY DEF GraphInv, CyclesComeFromOverlaps, Timely
    <3>3. \A length \in 1..(MaxDepth + 1) : \A row \in Timely' : ~Connected(Timely', row.src, row.src, length)
      BY <3>1, <3>2
    <3> QED
      BY <3>3 DEF CyclesComeFromOverlaps, Timely, Connected
  <2> QED
    BY <2>2, <2>3, <2>4 DEF GraphInv
<1> QED
  BY <1>1, <1>2, <1>3, <1>4, <1>5, <1>6, <1>7, <1>8 DEF GraphNext

LEMMA GraphInitInv ==
    ASSUME GraphInit
    PROVE  GraphInv
<1>1. /\ edge \in [Edge -> EdgeRow \cup {None}] /\ \A e \in Edge : edge[e] = None
      /\ editing \in [Request -> Write] /\ \A r \in Request : editing[r].op = "none"
      /\ late = {}
  BY NoWriteIs DEF GraphInit
<1>2. GraphTyped /\ ChecksHold /\ KeptColumns
  BY <1>1 DEF GraphTyped, ChecksHold, KeptColumns
<1>3. CyclesComeFromOverlaps
  BY <1>1 DEF CyclesComeFromOverlaps, Dependencies
<1> QED
  BY <1>2, <1>3 DEF GraphInv

THEOREM GraphInvariant == GraphSpec => []GraphInv
<1>1. GraphInit => GraphInv
  BY GraphInitInv
<1>2. GraphInv /\ [GraphNext]_graphVars => GraphInv'
  BY GraphStep
<1> QED
  BY <1>1, <1>2, PTL DEF GraphSpec

(* Dependencies that the search can see close no cycle within its depth,    *)
(* however many requests write them, unless one of them was written after   *)
(* another write overtook the search for its way back (create_edge,         *)
(* update_edge, maybe_validate_edge, shortest_path).                        *)
THEOREM NoTimelyCycles == GraphSpec => []CyclesComeFromOverlaps
<1>1. GraphInv => CyclesComeFromOverlaps
  BY DEF GraphInv
<1> QED
  BY <1>1, GraphInvariant, PTL

(***************************************************************************)
(* PacketDecisions: packets show the decisions about their task.            *)
(***************************************************************************)
Near(row, outbound) == IF outbound THEN row.src ELSE row.dst
Far(row, outbound) == IF outbound THEN row.dst ELSE row.src

Leads(rows, outbound, from, to, length) ==
    IF outbound THEN Connected(rows, from, to, length) ELSE Connected(rows, to, from, length)

(* The nodes passed on a way along some edges, *)
Steps(rows, outbound, from, length) ==
    {p \in [1..(length + 1) -> Node] :
        /\ p[1] = from
        /\ \A i \in 1..length : \E row \in rows : Near(row, outbound) = p[i] /\ Far(row, outbound) = p[i + 1]}
(* without coming back to one of them, but for the first edge. *)
Direct(p, length) == \A j \in 3..(length + 1) : \A i \in 1..(j - 1) : p[i] # p[j]
(* A way with one node more than another. *)
Prolongs(rows, outbound, p, q) ==
    \E row \in rows : /\ p = Append(q, Far(row, outbound)) /\ Near(row, outbound) = q[Len(q)]
                      /\ Far(row, outbound) \notin {q[i] : i \in 1..Len(q)}
-----------------------------------------------------------------------------
LEMMA StepsLead ==
    ASSUME NEW rows, rows \subseteq EdgeRow, NEW outbound \in BOOLEAN, NEW from, NEW to,
           NEW length \in Nat \ {0}
    PROVE  Leads(rows, outbound, from, to, length)
             <=> \E p \in Steps(rows, outbound, from, length) : p[length + 1] = to
<1>0. \A row \in rows : row.src \in Node /\ row.dst \in Node
  BY DEF EdgeRow
<1>1. ASSUME outbound = TRUE, Leads(rows, outbound, from, to, length)
      PROVE  \E p \in Steps(rows, outbound, from, length) : p[length + 1] = to
  <2>1. PICK q \in [1..length -> rows] :
           /\ q[1].src = from /\ q[length].dst = to
           /\ \A i \in 1..(length - 1) : q[i].dst = q[i + 1].src
    BY <1>1 DEF Leads, Connected
  <2> DEFINE p == [i \in 1..(length + 1) |-> IF i <= length THEN q[i].src ELSE q[length].dst]
  <2>2. p \in [1..(length + 1) -> Node] /\ p[1] = from /\ p[length + 1] = to
    BY <1>0, <2>1
  <2>3. ASSUME NEW i \in 1..length PROVE q[i] \in rows /\ q[i].src = p[i] /\ q[i].dst = p[i + 1]
    <3>1. CASE i = length
      BY <2>1, <3>1
    <3>2. CASE i # length
      <4>1. i \in 1..(length - 1) /\ i + 1 \in 1..length
        BY <3>2
      <4> QED
        BY <2>1, <4>1
    <3> QED
      BY <3>1, <3>2
  <2> HIDE DEF p
  <2>4. p \in Steps(rows, outbound, from, length)
    BY <1>1, <2>2, <2>3 DEF Steps, Near, Far
  <2> QED
    BY <2>2, <2>4
<1>2. ASSUME outbound = FALSE, Leads(rows, outbound, from, to, length)
      PROVE  \E p \in Steps(rows, outbound, from, length) : p[length + 1] = to
  <2>1. PICK q \in [1..length -> rows] :
           /\ q[1].src = to /\ q[length].dst = from
           /\ \A i \in 1..(length - 1) : q[i].dst = q[i + 1].src
    BY <1>2 DEF Leads, Connected
  <2> DEFINE p == [i \in 1..(length + 1) |->
                     IF i <= length THEN q[length + 1 - i].dst ELSE q[1].src]
  <2>2. p \in [1..(length + 1) -> Node] /\ p[1] = from /\ p[length + 1] = to
    <3>1. \A i \in 1..length : length + 1 - i \in 1..length
      OBVIOUS
    <3> QED
      BY <1>0, <2>1, <3>1
  <2>3. ASSUME NEW i \in 1..length
        PROVE  \E row \in rows : row.dst = p[i] /\ row.src = p[i + 1]
    <3>1. length + 1 - i \in 1..length /\ p[i] = q[length + 1 - i].dst
      OBVIOUS
    <3>2. CASE i = length
      <4>1. p[i + 1] = q[1].src /\ length + 1 - i = 1
        BY <3>2
      <4> QED
        BY <3>1, <4>1
    <3>3. CASE i # length
      <4>1. /\ length - i \in 1..(length - 1) /\ (length - i) + 1 = length + 1 - i
            /\ i + 1 <= length /\ i + 1 \in 1..(length + 1) /\ length + 1 - (i + 1) = length - i
        BY <3>3
      <4>2. p[i + 1] = q[length - i].dst
        BY <4>1
      <4>3. q[length - i].dst = q[length + 1 - i].src
        BY <2>1, <4>1
      <4> HIDE DEF p
      <4> QED
        BY <3>1, <4>2, <4>3
    <3> QED
      BY <3>2, <3>3
  <2> HIDE DEF p
  <2>4. p \in Steps(rows, outbound, from, length)
    BY <1>2, <2>2, <2>3 DEF Steps, Near, Far
  <2> QED
    BY <2>2, <2>4
<1>3. ASSUME NEW p \in Steps(rows, outbound, from, length), p[length + 1] = to
      PROVE  Leads(rows, outbound, from, to, length)
  <2>1. /\ p \in [1..(length + 1) -> Node] /\ p[1] = from
        /\ \A i \in 1..length : \E row \in rows : Near(row, outbound) = p[i] /\ Far(row, outbound) = p[i + 1]
    BY DEF Steps
  <2> DEFINE row(i) == CHOOSE k \in rows : Near(k, outbound) = p[i] /\ Far(k, outbound) = p[i + 1]
  <2>2. \A i \in 1..length : /\ row(i) \in rows
                             /\ Near(row(i), outbound) = p[i] /\ Far(row(i), outbound) = p[i + 1]
    BY <2>1
  <2> HIDE DEF row
  <2>3. CASE outbound = TRUE
    <3> DEFINE q == [i \in 1..length |-> row(i)]
    <3>1. /\ q \in [1..length -> rows]
          /\ \A i \in 1..length : q[i].src = p[i] /\ q[i].dst = p[i + 1]
      BY <2>2, <2>3 DEF Near, Far
    <3> HIDE DEF q
    <3>2. \A i \in 1..(length - 1) : i \in 1..length /\ i + 1 \in 1..length
      OBVIOUS
    <3>3. Connected(rows, from, to, length)
      BY <1>3, <2>1, <3>1, <3>2 DEF Connected
    <3> QED
      BY <2>3, <3>3 DEF Leads
  <2>4. CASE outbound = FALSE
    <3> DEFINE q == [i \in 1..length |-> row(length + 1 - i)]
    <3>1. \A i \in 1..length : length + 1 - i \in 1..length /\ (length + 1 - i) + 1 = length + 2 - i
      OBVIOUS
    <3>2. /\ q \in [1..length -> rows]
          /\ \A i \in 1..length : q[i].dst = p[length + 1 - i] /\ q[i].src = p[length + 2 - i]
      BY <2>2, <2>4, <3>1 DEF Near, Far
    <3> HIDE DEF q
    <3>3. \A i \in 1..(length - 1) :
             i \in 1..length /\ i + 1 \in 1..length /\ length + 2 - (i + 1) = length + 1 - i
      OBVIOUS
    <3>4. q[1].src = to /\ q[length].dst = from
      <4>1. 1 \in 1..length /\ length \in 1..length /\ length + 2 - 1 = length + 1 /\ length + 1 - length = 1
        OBVIOUS
      <4> QED
        BY <1>3, <2>1, <3>2, <4>1
    <3>5. \A i \in 1..(length - 1) : q[i].dst = q[i + 1].src
      BY <3>2, <3>3
    <3>6. Connected(rows, to, from, length)
      BY <3>2, <3>4, <3>5 DEF Connected
    <3> QED
      BY <2>4, <3>6 DEF Leads
  <2> QED
    BY <2>3, <2>4
<1> QED
  BY <1>1, <1>2, <1>3

(* Of the ways to another node a shortest one is direct: between two visits *)
(* of a node it could be cut.                                               *)
LEMMA DirectWay ==
    ASSUME NEW rows, NEW outbound, NEW from, NEW to, NEW length \in Nat \ {0}, to # from,
           NEW p0 \in Steps(rows, outbound, from, length), p0[length + 1] = to
    PROVE  \E n \in 1..length : \E p \in Steps(rows, outbound, from, n) : p[n + 1] = to /\ Direct(p, n)
<1> DEFINE Way(n) == \E p \in Steps(rows, outbound, from, n) : p[n + 1] = to
           T == {n \in 1..length : Way(n)}
<1>1. T \subseteq Nat /\ length \in T
  OBVIOUS
<1>2. PICK n \in T : \A k \in T : n <= k
  BY <1>1, LeastNat
<1>3. n \in 1..length /\ n \in Nat \ {0} /\ \A k \in 1..length : Way(k) => n <= k
  BY <1>2
<1>4. PICK p \in Steps(rows, outbound, from, n) : p[n + 1] = to
  BY <1>2
<1>5. /\ p \in [1..(n + 1) -> Node] /\ p[1] = from
      /\ \A i \in 1..n : \E row \in rows : Near(row, outbound) = p[i] /\ Far(row, outbound) = p[i + 1]
  BY <1>4 DEF Steps
<1>6. ASSUME NEW j \in 3..(n + 1), NEW i \in 1..(j - 1), p[i] = p[j] PROVE FALSE
  <2> DEFINE m == n - (j - i)
             q == [k \in 1..(m + 1) |-> IF k <= i THEN p[k] ELSE p[k + (j - i)]]
  <2>0. /\ i \in 1..n /\ j \in 1..(n + 1) /\ i < j /\ j - i \in 1..n
        /\ m \in Nat /\ m < n /\ i \in 1..(m + 1)
        /\ (i < m + 1 => j < n + 1) /\ (i = m + 1 => j = n + 1)
    BY <1>3
  <2>1. m # 0
    <3>1. SUFFICES ASSUME m = 0 PROVE FALSE
      OBVIOUS
    <3>2. i = 1 /\ j = n + 1
      BY <1>3, <2>0, <3>1
    <3> QED
      BY <1>4, <1>5, <1>6, <3>2
  <2>2. \A k \in 1..(m + 1) : k \in 1..(n + 1) /\ (k > i => k + (j - i) \in 1..(n + 1))
    BY <1>3, <2>0
  <2>3. q \in [1..(m + 1) -> Node] /\ q[1] = from
    BY <1>5, <2>0, <2>2
  <2>4. q[m + 1] = to
    <3>1. CASE i = m + 1
      <4>1. q[m + 1] = p[i] /\ j = n + 1
        BY <2>0, <3>1
      <4> QED
        BY <1>4, <1>6, <4>1
    <3>2. CASE i # m + 1
      <4>1. q[m + 1] = p[(m + 1) + (j - i)] /\ (m + 1) + (j - i) = n + 1
        BY <1>3, <2>0, <3>2
      <4> QED
        BY <1>4, <4>1
    <3> QED
      BY <3>1, <3>2
  <2>5. ASSUME NEW k \in 1..m
        PROVE  \E row \in rows : Near(row, outbound) = q[k] /\ Far(row, outbound) = q[k + 1]
    <3>0. k \in 1..(m + 1) /\ k + 1 \in 1..(m + 1)
      BY <2>0
    <3>1. CASE k < i
      <4>1. q[k] = p[k] /\ q[k + 1] = p[k + 1] /\ k \in 1..n
        BY <2>0, <3>0, <3>1
      <4> HIDE DEF q, m
      <4> QED
        BY <1>5, <4>1
    <3>2. CASE k = i
      <4>1. q[k] = p[i] /\ q[k + 1] = p[(i + 1) + (j - i)] /\ (i + 1) + (j - i) = j + 1 /\ j \in 1..n
        BY <1>3, <2>0, <3>0, <3>2
      <4> HIDE DEF q, m
      <4>2. q[k] = p[j] /\ q[k + 1] = p[j + 1]
        BY <1>6, <4>1
      <4> QED
        BY <1>5, <4>1, <4>2
    <3>3. CASE k > i
      <4>1. /\ q[k] = p[k + (j - i)] /\ q[k + 1] = p[(k + 1) + (j - i)]
            /\ (k + 1) + (j - i) = (k + (j - i)) + 1 /\ k + (j - i) \in 1..n
        BY <1>3, <2>0, <3>0, <3>3
      <4> HIDE DEF q, m
      <4> QED
        BY <1>5, <4>1
    <3>4. k \in Int /\ i \in Int
      BY <2>0
    <3>5. k < i \/ k = i \/ k > i
      BY <3>4
    <3> HIDE DEF q, m
    <3> QED
      BY <3>1, <3>2, <3>3, <3>5, Zenon
  <2>6. m \in 1..length /\ m < n
    BY <1>3, <2>0, <2>1
  <2> HIDE DEF q, m
  <2>7. q \in Steps(rows, outbound, from, m)
    BY <2>3, <2>5 DEF Steps
  <2>8. Way(m)
    BY <2>4, <2>7
  <2> QED
    BY <1>3, <2>6, <2>8
<1>7. Direct(p, n)
  BY <1>6 DEF Direct
<1> QED
  BY <1>3, <1>4, <1>7


(* One more node on a way. *)
LEMMA OneMoreNode ==
    ASSUME NEW n \in Nat \ {0}, NEW p \in [1..n -> Node], NEW x \in Node
    PROVE  /\ Len(p) = n /\ Append(p, x) \in [1..(n + 1) -> Node]
           /\ \A i \in 1..n : Append(p, x)[i] = p[i]
           /\ Append(p, x)[n + 1] = x
<1>1. p \in Seq(Node)
  BY SeqDef
<1>2. Len(p) \in Nat /\ DOMAIN p = 1..Len(p) /\ DOMAIN p = 1..n
  BY <1>1, LenProperties
<1>3. Len(p) = n
  BY <1>2
<1>4. /\ Append(p, x) \in Seq(Node) /\ Len(Append(p, x)) = n + 1
      /\ \A i \in 1..n : Append(p, x)[i] = p[i]
      /\ Append(p, x)[n + 1] = x
  BY <1>1, <1>3, AppendProperties
<1>5. Append(p, x) \in [1..(n + 1) -> Node]
  BY <1>4, LenProperties
<1> QED
  BY <1>3, <1>4, <1>5

(* The recursive query grows the direct ways, edge by edge. *)
LEMMA DirectWaysGrow ==
    ASSUME NEW rows, rows \subseteq EdgeRow, NEW outbound \in BOOLEAN, NEW root \in Node,
           NEW d \in Nat \ {0}, NEW p
    PROVE  p \in Steps(rows, outbound, root, d + 1) /\ Direct(p, d + 1)
             <=> \E q \in Steps(rows, outbound, root, d) : Direct(q, d) /\ Prolongs(rows, outbound, p, q)
<1>0. \A row \in rows : Near(row, outbound) \in Node /\ Far(row, outbound) \in Node
  BY DEF EdgeRow, Near, Far
<1>1. ASSUME p \in Steps(rows, outbound, root, d + 1), Direct(p, d + 1)
      PROVE  \E q \in Steps(rows, outbound, root, d) : \E row \in rows :
                /\ Direct(q, d) /\ p = Append(q, Far(row, outbound))
                /\ Near(row, outbound) = q[Len(q)]
                /\ Far(row, outbound) \notin {q[i] : i \in 1..Len(q)}
  <2>1. /\ p \in [1..(d + 2) -> Node] /\ p[1] = root
        /\ \A i \in 1..(d + 1) :
              \E row \in rows : Near(row, outbound) = p[i] /\ Far(row, outbound) = p[i + 1]
    BY <1>1 DEF Steps
  <2> DEFINE q == [i \in 1..(d + 1) |-> p[i]]
  <2>2. q \in [1..(d + 1) -> Node] /\ \A i \in 1..(d + 1) : q[i] = p[i]
    BY <2>1
  <2> HIDE DEF q
  <2>3. q \in Steps(rows, outbound, root, d)
    <3>1. \A i \in 1..d : i \in 1..(d + 1) /\ i + 1 \in 1..(d + 1)
      OBVIOUS
    <3> QED
      BY <2>1, <2>2, <3>1 DEF Steps
  <2>4. PICK row \in rows : Near(row, outbound) = p[d + 1] /\ Far(row, outbound) = p[d + 2]
    <3>1. d + 1 \in 1..(d + 1) /\ (d + 1) + 1 = d + 2
      OBVIOUS
    <3> QED
      BY <2>1, <3>1
  <2>5. /\ Len(q) = d + 1 /\ Append(q, p[d + 2]) \in [1..(d + 2) -> Node]
        /\ \A i \in 1..(d + 1) : Append(q, p[d + 2])[i] = q[i]
        /\ Append(q, p[d + 2])[d + 2] = p[d + 2]
    <3>1. d + 1 \in Nat \ {0} /\ (d + 1) + 1 = d + 2 /\ p[d + 2] \in Node
      BY <2>1
    <3> QED
      BY <2>2, <3>1, OneMoreNode
  <2>6. p = Append(q, p[d + 2])
    <3>1. \A i \in 1..(d + 2) : i \in 1..(d + 1) \/ i = d + 2
      OBVIOUS
    <3> QED
      BY <2>1, <2>2, <2>5, <3>1
  <2>7. Direct(q, d)
    <3>1. \A j \in 3..(d + 1) : j \in 3..((d + 1) + 1) /\ j \in 1..(d + 1)
      OBVIOUS
    <3>2. \A j \in 3..(d + 1) : \A i \in 1..(j - 1) : i \in 1..(d + 1)
      OBVIOUS
    <3> QED
      BY <1>1, <2>2, <3>1, <3>2 DEF Direct
  <2>8. \A i \in 1..(d + 1) : p[i] # p[d + 2]
    <3>1. d + 2 \in 3..((d + 1) + 1) /\ (d + 2) - 1 = d + 1
      OBVIOUS
    <3> QED
      BY <1>1, <3>1 DEF Direct
  <2> QED
    BY <2>2, <2>3, <2>4, <2>5, <2>6, <2>7, <2>8
<1>2. ASSUME NEW q \in Steps(rows, outbound, root, d), NEW row \in rows,
             Direct(q, d), p = Append(q, Far(row, outbound)), Near(row, outbound) = q[Len(q)],
             Far(row, outbound) \notin {q[i] : i \in 1..Len(q)}
      PROVE  p \in Steps(rows, outbound, root, d + 1) /\ Direct(p, d + 1)
  <2>1. /\ q \in [1..(d + 1) -> Node] /\ q[1] = root
        /\ \A i \in 1..d : \E k \in rows : Near(k, outbound) = q[i] /\ Far(k, outbound) = q[i + 1]
    BY DEF Steps
  <2>2. d + 1 \in Nat \ {0} /\ (d + 1) + 1 = d + 2
    OBVIOUS
  <2>3. /\ Len(q) = d + 1 /\ p \in [1..(d + 2) -> Node]
        /\ \A i \in 1..(d + 1) : p[i] = q[i]
        /\ p[d + 2] = Far(row, outbound)
    BY <1>0, <1>2, <2>1, <2>2, OneMoreNode
  <2>4. ASSUME NEW i \in 1..(d + 1)
        PROVE  \E k \in rows : Near(k, outbound) = p[i] /\ Far(k, outbound) = p[i + 1]
    <3>1. CASE i = d + 1
      BY <1>2, <2>2, <2>3, <3>1
    <3>2. CASE i # d + 1
      <4>1. i \in 1..d /\ i + 1 \in 1..(d + 1)
        BY <3>2
      <4> QED
        BY <2>1, <2>3, <4>1
    <3> QED
      BY <3>1, <3>2
  <2>5. p[1] = root
    BY <2>1, <2>3
  <2>6. p \in Steps(rows, outbound, root, d + 1)
    BY <2>2, <2>3, <2>4, <2>5 DEF Steps
  <2>7. ASSUME NEW j \in 3..((d + 1) + 1), NEW i \in 1..(j - 1) PROVE p[i] # p[j]
    <3>1. CASE j = d + 2
      <4>1. i \in 1..(d + 1)
        BY <3>1
      <4> QED
        BY <1>2, <2>3, <3>1, <4>1
    <3>2. CASE j # d + 2
      <4>1. j \in 3..(d + 1) /\ j \in 1..(d + 1) /\ i \in 1..(d + 1)
        BY <3>2
      <4> QED
        BY <1>2, <2>3, <4>1 DEF Direct
    <3> QED
      BY <3>1, <3>2
  <2> QED
    BY <2>6, <2>7 DEF Direct
<1> QED
  BY <1>1, <1>2 DEF Prolongs

(* The query finds the ends of the direct ways within its depth. *)
LEMMA WalksFind ==
    ASSUME NEW rows, rows \subseteq EdgeRow, NEW outbound \in BOOLEAN, NEW root \in Node,
           NEW maxDepth \in Nat \ {0}, NEW n
    PROVE  n \in DOMAIN walk_direction(rows, root, outbound, maxDepth)
             <=> \E d \in 1..maxDepth : \E p \in Steps(rows, outbound, root, d) :
                    p[d + 1] = n /\ Direct(p, d)
<1> DEFINE near(row) == IF outbound THEN row.src ELSE row.dst
           far(row) == IF outbound THEN row.dst ELSE row.src
           base == {<<root, far(row)>> : row \in {k \in rows : near(k) = root}}
           longer(p) == {Append(p, far(row)) :
                           row \in {k \in rows : near(k) = p[Len(p)] /\ far(k) \notin {p[i] : i \in 1..Len(p)}}}
           sets == CHOOSE g : g = [d \in 1..maxDepth |->
                     IF d = 1 THEN base ELSE UNION {longer(p) : p \in g[d - 1]}]
           By(d) == {p \in Steps(rows, outbound, root, d) : Direct(p, d)}
<1>1. DOMAIN walk_direction(rows, root, outbound, maxDepth)
        = {p[Len(p)] : p \in UNION {sets[d] : d \in 1..maxDepth}}
  BY DEF walk_direction
<1>2. PICK grown : grown = sets
  OBVIOUS
<1>3. base = By(1)
  <2>0. \A row \in rows : near(row) = Near(row, outbound) /\ far(row) = Far(row, outbound) /\ far(row) \in Node
    BY DEF Near, Far, EdgeRow
  <2>1. ASSUME NEW p \in base PROVE p \in By(1)
    <3>1. PICK row \in rows : near(row) = root /\ p = <<root, far(row)>>
      OBVIOUS
    <3> HIDE DEF near, far
    <3>2. p \in [1..2 -> Node] /\ p[1] = root /\ p[2] = far(row)
      BY <2>0, <3>1
    <3>3. 1 + 1 = 2 /\ 1..1 = {1} /\ 3..2 = {}
      OBVIOUS
    <3> QED
      BY <2>0, <3>1, <3>2, <3>3 DEF Steps, Direct
  <2>2. ASSUME NEW p \in By(1) PROVE p \in base
    <3>1. p \in [1..2 -> Node] /\ p[1] = root
      BY DEF Steps
    <3>2. PICK row \in rows : Near(row, outbound) = p[1] /\ Far(row, outbound) = p[2]
      <4>1. 1 \in 1..1 /\ 1 + 1 = 2
        OBVIOUS
      <4> QED
        BY <4>1 DEF Steps
    <3>3. near(row) = root /\ far(row) = p[2]
      BY <2>0, <3>1, <3>2
    <3>4. p = <<root, p[2]>>
      BY <3>1
    <3> HIDE DEF near, far
    <3> QED
      BY <3>3, <3>4
  <2> QED
    BY <2>1, <2>2
<1>4. ASSUME NEW d \in 2..maxDepth PROVE By(d) = UNION {longer(p) : p \in By(d - 1)}
  <2>0. \A row \in rows : near(row) = Near(row, outbound) /\ far(row) = Far(row, outbound)
    BY DEF Near, Far
  <2>1. d - 1 \in Nat \ {0} /\ (d - 1) + 1 = d
    OBVIOUS
  <2>2. ASSUME NEW p
        PROVE  p \in By(d) <=> \E q \in By(d - 1) : Prolongs(rows, outbound, p, q)
    <3>1. PICK e \in Nat \ {0} : e = d - 1 /\ e + 1 = d
      BY <2>1
    <3>2. p \in Steps(rows, outbound, root, e + 1) /\ Direct(p, e + 1)
            <=> \E q \in Steps(rows, outbound, root, e) : Direct(q, e) /\ Prolongs(rows, outbound, p, q)
      BY DirectWaysGrow
    <3>3. p \in By(d) <=> p \in Steps(rows, outbound, root, e + 1) /\ Direct(p, e + 1)
      BY <3>1
    <3>4. \A q : q \in By(d - 1) <=> q \in Steps(rows, outbound, root, e) /\ Direct(q, e)
      BY <3>1
    <3> HIDE DEF By
    <3> QED
      BY <3>2, <3>3, <3>4
  <2> HIDE DEF near, far
  <2>3. \A q, p : p \in longer(q) <=> Prolongs(rows, outbound, p, q)
    BY <2>0 DEF Prolongs
  <2> HIDE DEF longer
  <2>4. \A p : p \in By(d) <=> \E q \in By(d - 1) : p \in longer(q)
    BY <2>2, <2>3
  <2> HIDE DEF By
  <2> QED
    BY <2>4
<1> HIDE DEF base, longer, By
<1>5. grown = [d \in 1..maxDepth |-> IF d = 1 THEN base ELSE UNION {longer(p) : p \in grown[d - 1]}]
  <2> DEFINE g == [d \in 1..maxDepth |-> By(d)]
  <2>1. g = [d \in 1..maxDepth |-> IF d = 1 THEN base ELSE UNION {longer(p) : p \in g[d - 1]}]
    <3>1. ASSUME NEW d \in 1..maxDepth
          PROVE  g[d] = IF d = 1 THEN base ELSE UNION {longer(p) : p \in g[d - 1]}
      <4>1. CASE d = 1
        BY <1>3, <4>1
      <4>2. CASE d # 1
        <5>1. d \in 2..maxDepth /\ d - 1 \in 1..maxDepth
          BY <4>2
        <5>2. g[d] = By(d) /\ g[d - 1] = By(d - 1)
          BY <5>1
        <5> HIDE DEF g
        <5> QED
          BY <1>4, <4>2, <5>1, <5>2
      <4> QED
        BY <4>1, <4>2
    <3>2. DOMAIN g = 1..maxDepth /\ g = [d \in DOMAIN g |-> g[d]]
      OBVIOUS
    <3> HIDE DEF g
    <3> QED
      BY <3>1, <3>2
  <2> HIDE DEF g
  <2> QED
    BY <1>2, <2>1
<1> HIDE DEF sets
<1>6. \A d \in 1..maxDepth : grown[d] = By(d)
  <2> DEFINE T == {d \in 1..maxDepth : grown[d] # By(d)}
  <2>1. SUFFICES ASSUME T # {} PROVE FALSE
    OBVIOUS
  <2>2. T \subseteq Nat
    OBVIOUS
  <2>3. PICK d \in T : \A k \in T : d <= k
    BY <2>1, <2>2, LeastNat
  <2>4. d \in 1..maxDepth /\ grown[d] # By(d)
    OBVIOUS
  <2>5. CASE d = 1
    <3>1. grown[1] = base
      BY <1>5, <2>4, <2>5
    <3> QED
      BY <1>3, <2>4, <2>5, <3>1
  <2>6. CASE d # 1
    <3>1. d - 1 \in 1..maxDepth /\ d \in 2..maxDepth /\ ~(d <= d - 1)
      BY <2>4, <2>6
    <3>2. grown[d - 1] = By(d - 1)
      BY <2>3, <3>1
    <3>3. grown[d] = UNION {longer(p) : p \in grown[d - 1]}
      BY <1>5, <2>4, <2>6
    <3> QED
      BY <1>4, <2>4, <3>1, <3>2, <3>3
  <2> QED
    BY <2>5, <2>6
<1>7. \A d \in 1..maxDepth : \A p \in By(d) : p[Len(p)] = p[d + 1]
  <2> SUFFICES ASSUME NEW d \in 1..maxDepth, NEW p \in By(d) PROVE p[Len(p)] = p[d + 1]
    OBVIOUS
  <2>1. p \in [1..(d + 1) -> Node] /\ d + 1 \in Nat \ {0}
    BY DEF By, Steps
  <2>2. Len(p) = d + 1
    BY <2>1, OneMoreNode
  <2> QED
    BY <2>2
<1>8. n \in DOMAIN walk_direction(rows, root, outbound, maxDepth)
        <=> \E d \in 1..maxDepth : \E p \in By(d) : p[Len(p)] = n
  <2>1. DOMAIN walk_direction(rows, root, outbound, maxDepth)
          = {p[Len(p)] : p \in UNION {grown[d] : d \in 1..maxDepth}}
    BY <1>1, <1>2
  <2> QED
    BY <1>6, <2>1
<1> QED
  BY <1>7, <1>8 DEF By


-----------------------------------------------------------------------------
(* The newest of some decisions, in their order. *)
LEMMA NewestInOrder ==
    ASSUME NEW ids \in SUBSET Decision
    PROVE  /\ Cardinality(ids) \in Nat
           /\ \A k \in 1..Cardinality(ids) : Newest(ids, k) \in ids
           /\ \A k, l \in 1..Cardinality(ids) : k < l => Rank[Newest(ids, k)] > Rank[Newest(ids, l)]
           /\ \A d \in ids : \E k \in 1..Cardinality(ids) : Newest(ids, k) = d
<1> DEFINE newer == [d \in ids |-> {j \in ids : Rank[j] > Rank[d]}]
           n == Cardinality(ids)
<1>1. IsFiniteSet(ids)
  BY DecisionsAssumption, FS_Subset
<1>2. \A d, k \in ids : Rank[d] \in Nat /\ (Rank[d] = Rank[k] => d = k)
  BY DecisionsAssumption
<1>3. /\ newer \in [ids -> SUBSET ids]
      /\ \A d \in ids : d \notin newer[d]
      /\ \A d, j, k \in ids : d \in newer[j] /\ j \in newer[k] => d \in newer[k]
      /\ \A d, k \in ids : d = k \/ d \in newer[k] \/ k \in newer[d]
  BY <1>2
<1>4. \A d \in ids : newer[d] = {j \in ids : Rank[j] > Rank[d]}
  OBVIOUS
<1>5. \A d, k \in ids : d \in newer[k] <=> Rank[d] > Rank[k]
  OBVIOUS
<1> HIDE DEF newer
<1>6. /\ n \in Nat
      /\ \A d \in ids : Cardinality(newer[d]) + 1 \in 1..n
      /\ \A d \in ids : Cardinality(newer[d]) \in Nat
      /\ \A d, k \in ids : d \in newer[k] => Cardinality(newer[d]) < Cardinality(newer[k])
      /\ \A k \in 1..n : \E d \in ids : Cardinality(newer[d]) = k - 1
  BY <1>1, <1>3, Line
<1> HIDE DEF n
<1>7. ASSUME NEW k \in 1..n PROVE Newest(ids, k) \in ids /\ Cardinality(newer[Newest(ids, k)]) = k - 1
  <2>1. \E d \in ids : Cardinality({j \in ids : Rank[j] > Rank[d]}) = k - 1
    BY <1>4, <1>6
  <2>2. /\ Newest(ids, k) \in ids
        /\ Cardinality({j \in ids : Rank[j] > Rank[Newest(ids, k)]}) = k - 1
    BY <2>1 DEF Newest
  <2> QED
    BY <1>4, <2>2
<1>8. ASSUME NEW k \in 1..n, NEW l \in 1..n, k < l PROVE Rank[Newest(ids, k)] > Rank[Newest(ids, l)]
  <2>1. PICK d \in ids, j \in ids : /\ d = Newest(ids, k) /\ Cardinality(newer[d]) = k - 1
                                    /\ j = Newest(ids, l) /\ Cardinality(newer[j]) = l - 1
    BY <1>7
  <2>2. d # j /\ ~(j \in newer[d])
    <3>1. k - 1 < l - 1 /\ k \in Int /\ l \in Int
      BY <1>6, <1>8
    <3> QED
      BY <1>6, <2>1, <3>1
  <2> QED
    BY <1>3, <1>5, <2>1, <2>2
<1>9. ASSUME NEW d \in ids PROVE \E k \in 1..n : Newest(ids, k) = d
  <2>1. PICK k \in 1..n : k = Cardinality(newer[d]) + 1
    BY <1>6
  <2>2. PICK j \in ids : j = Newest(ids, k) /\ Cardinality(newer[j]) = k - 1
    BY <1>7
  <2>3. Cardinality(newer[j]) = Cardinality(newer[d])
    BY <1>6, <2>1, <2>2
  <2>4. ~(j \in newer[d]) /\ ~(d \in newer[j])
    BY <1>6, <2>3
  <2> QED
    BY <1>3, <2>2, <2>4
<1> QED
  BY <1>6, <1>7, <1>8, <1>9 DEF n

LEMMA TakeNewest ==
    ASSUME NEW ids \in SUBSET Decision, NEW shown, shown = Take(ids, MaxNodes)
    PROVE  /\ shown \in Seq(ids)
           /\ \A i \in DOMAIN shown : shown[i] \in ids
           /\ \A i, j \in DOMAIN shown : i < j => Rank[shown[i]] > Rank[shown[j]]
           /\ \A d \in ids : \/ \E i \in DOMAIN shown : shown[i] = d
                             \/ Len(shown) = MaxNodes /\ \A i \in DOMAIN shown : Rank[shown[i]] > Rank[d]
<1>0. MaxNodes \in Nat
  BY DecisionsAssumption
<1>1. PICK n \in Nat : n = Cardinality(ids)
  BY NewestInOrder
<1>2. /\ \A k \in 1..n : Newest(ids, k) \in ids
      /\ \A k, l \in 1..n : k < l => Rank[Newest(ids, k)] > Rank[Newest(ids, l)]
      /\ \A d \in ids : \E k \in 1..n : Newest(ids, k) = d
  BY <1>1, NewestInOrder
<1>3. PICK size \in Nat : size = IF n < MaxNodes THEN n ELSE MaxNodes
  BY <1>0
<1>4. DOMAIN shown = 1..size /\ \A k \in 1..size : shown[k] = Newest(ids, k) /\ k \in 1..n
  <2>1. shown = [k \in 1..size |-> Newest(ids, k)]
    BY <1>1, <1>3 DEF Take
  <2>2. \A k \in 1..size : k \in 1..n
    BY <1>0, <1>3
  <2> QED
    BY <2>1, <2>2
<1>5. shown \in Seq(ids) /\ Len(shown) = size
  <2>1. shown = [k \in 1..size |-> Newest(ids, k)]
    BY <1>1, <1>3 DEF Take
  <2>2. shown \in [1..size -> ids]
    BY <1>2, <1>4, <2>1
  <2>3. shown \in Seq(ids)
    BY <2>2, SeqDef
  <2>4. DOMAIN shown = 1..Len(shown) /\ Len(shown) \in Nat
    BY <2>3, LenProperties
  <2> QED
    BY <1>3, <1>4, <2>3, <2>4
<1>6. ASSUME NEW d \in ids, \A i \in DOMAIN shown : shown[i] # d
      PROVE  Len(shown) = MaxNodes /\ \A i \in DOMAIN shown : Rank[shown[i]] > Rank[d]
  <2>1. PICK k \in 1..n : Newest(ids, k) = d
    BY <1>2
  <2>2. k \notin 1..size
    BY <1>4, <1>6, <2>1
  <2>3. size = MaxNodes /\ \A i \in 1..size : i < k
    BY <1>0, <1>3, <2>2
  <2> QED
    BY <1>2, <1>4, <1>5, <2>1, <2>3
<1>7. \A i \in DOMAIN shown : shown[i] \in ids
  BY <1>2, <1>4
<1>8. \A i, j \in DOMAIN shown : i < j => Rank[shown[i]] > Rank[shown[j]]
  BY <1>2, <1>4
<1> QED
  BY <1>5, <1>6, <1>7, <1>8


(* The decisions about the task, in two steps. *)
Chains(rows) == {row \in rows : row.relation = "depends_on"}
Links(rows) == {row \in rows : row.relation \in Neighborly}
Roots(rows) == {d \in Decision : TaskOf[d] = Subject \/ Within(Chains(rows), TaskOf[d], Subject)}
Linked(rows, k, outbound) ==
    {d \in Decision : \E length \in 1..MaxHops : Leads(Links(rows), outbound, k, d, length)}

LEMMA AboutIs ==
    ASSUME NEW rows
    PROVE  /\ Roots(rows) \subseteq About(rows)
           /\ \A k \in Roots(rows), outbound \in BOOLEAN : Linked(rows, k, outbound) \subseteq About(rows)
           /\ \A d \in About(rows) :
                 d \in Roots(rows) \/ \E k \in Roots(rows), outbound \in BOOLEAN : d \in Linked(rows, k, outbound)
<1>1. About(rows) = Roots(rows) \cup {d \in Decision : \E k \in Roots(rows) :
                                         Within(Links(rows), k, d) \/ Within(Links(rows), d, k)}
  BY DEF About, Roots, Chains, Links
<1>2. \A d, k : /\ Within(Links(rows), k, d) <=> \E length \in 1..MaxHops : Leads(Links(rows), TRUE, k, d, length)
                /\ Within(Links(rows), d, k) <=> \E length \in 1..MaxHops : Leads(Links(rows), FALSE, k, d, length)
  BY DEF Within, Leads
<1>3. \A k, d : d \in Decision =>
         (Within(Links(rows), k, d) \/ Within(Links(rows), d, k)
            <=> \E outbound \in BOOLEAN : d \in Linked(rows, k, outbound))
  BY <1>2 DEF Linked
<1>4. Roots(rows) \subseteq Decision /\ \A k, outbound : Linked(rows, k, outbound) \subseteq Decision
  BY DEF Roots, Linked
<1> QED
  BY <1>1, <1>3, <1>4

LEMMA MoreRows ==
    ASSUME NEW rows, NEW more, rows \subseteq more
    PROVE  /\ Roots(rows) \subseteq Roots(more) /\ About(rows) \subseteq About(more)
           /\ \A k, outbound : Linked(rows, k, outbound) \subseteq Linked(more, k, outbound)
<1>1. Chains(rows) \subseteq Chains(more) /\ Links(rows) \subseteq Links(more)
  BY DEF Chains, Links
<1>2. Roots(rows) \subseteq Roots(more)
  BY <1>1, MorePaths DEF Roots, Within
<1>3. \A k, outbound : Linked(rows, k, outbound) \subseteq Linked(more, k, outbound)
  BY <1>1, MorePaths DEF Linked, Leads
<1>4. About(rows) \subseteq About(more)
  <2>1. ASSUME NEW d \in About(rows) PROVE d \in About(more)
    BY <1>2, <1>3, AboutIs
  <2> QED
    BY <2>1
<1> QED
  BY <1>2, <1>3, <1>4

(* What the recursive query finds, and that it misses nothing but its root. *)
LEMMA SearchIs ==
    ASSUME NEW rows, rows \subseteq EdgeRow, NEW outbound \in BOOLEAN, NEW root \in Node, NEW n
    PROVE  /\ n \in DOMAIN walk_direction(rows, root, outbound, MaxHops) =>
                 \E length \in 1..MaxHops : Leads(rows, outbound, root, n, length)
           /\ n # root /\ (\E length \in 1..MaxHops : Leads(rows, outbound, root, n, length)) =>
                 n \in DOMAIN walk_direction(rows, root, outbound, MaxHops)
<1>0. MaxHops \in Nat \ {0}
  BY DecisionsAssumption
<1>1. n \in DOMAIN walk_direction(rows, root, outbound, MaxHops)
        <=> \E d \in 1..MaxHops : \E p \in Steps(rows, outbound, root, d) : p[d + 1] = n /\ Direct(p, d)
  BY <1>0, WalksFind
<1>2. ASSUME NEW d \in 1..MaxHops, NEW p \in Steps(rows, outbound, root, d), p[d + 1] = n
      PROVE  Leads(rows, outbound, root, n, d)
  <2>1. d \in Nat \ {0}
    BY <1>0
  <2> QED
    BY <1>2, <2>1, StepsLead
<1>3. ASSUME NEW length \in 1..MaxHops, Leads(rows, outbound, root, n, length), n # root
      PROVE  \E d \in 1..MaxHops : \E p \in Steps(rows, outbound, root, d) : p[d + 1] = n /\ Direct(p, d)
  <2>1. length \in Nat \ {0} /\ 1..length \subseteq 1..MaxHops
    BY <1>0
  <2>2. PICK p \in Steps(rows, outbound, root, length) : p[length + 1] = n
    BY <1>3, <2>1, StepsLead
  <2>3. \E d \in 1..length : \E q \in Steps(rows, outbound, root, d) : q[d + 1] = n /\ Direct(q, d)
    BY <1>3, <2>1, <2>2, DirectWay
  <2> QED
    BY <2>1, <2>3
<1> QED
  BY <1>1, <1>2, <1>3
-----------------------------------------------------------------------------
Reading == [at : {"idle", "edges", "anchors", "linked", "done"}, ids : SUBSET Decision,
            todo : SUBSET (Decision \X BOOLEAN), shown : Seq(Decision)]

(* `always` and `ever` enclose what a statement sees, *)
Enclosed ==
    reading.at \notin {"idle", "done"} => always \subseteq Now(Rows) /\ Now(Rows) \subseteq ever

(* and what was found so far lies between what they tell. *)
FoundSoFar ==
    /\ reading.at \in {"edges", "anchors"} => reading.ids = {d \in Decision : TaskOf[d] = Subject}
    /\ reading.at = "linked" =>
          /\ Roots(always) \subseteq reading.ids /\ reading.ids \subseteq About(ever)
          /\ \A d \in Decision, outbound \in BOOLEAN :
                <<d, outbound>> \in reading.todo => d \in Roots(ever)
          /\ \A d \in Roots(always), outbound \in BOOLEAN :
                <<d, outbound>> \in reading.todo \/ Linked(always, d, outbound) \subseteq reading.ids

DecisionsInv ==
    /\ GraphInv
    /\ reading \in Reading /\ ever \subseteq EdgeRow /\ always \subseteq EdgeRow
    /\ Enclosed /\ FoundSoFar /\ PacketsShowTheDecisions

(* Rows that are followed were active at some time, and those that stayed   *)
(* are followed.                                                            *)
LEMMA FollowedAre ==
    ASSUME DecisionsInv, reading.at \notin {"idle", "done"}
    PROVE  /\ Rows \subseteq EdgeRow
           /\ \A relations : Followed(relations) \subseteq EdgeRow
           /\ Chains(always) \subseteq Followed({"depends_on"}) /\ Followed({"depends_on"}) \subseteq Chains(ever)
           /\ Links(always) \subseteq Followed(Neighborly) /\ Followed(Neighborly) \subseteq Links(ever)
<1>1. Rows \subseteq EdgeRow
  BY DEF DecisionsInv, GraphInv, GraphTyped, Rows
<1>2. always \subseteq Now(Rows) /\ Now(Rows) \subseteq ever
  BY DEF DecisionsInv, Enclosed
<1> QED
  BY <1>1, <1>2 DEF Followed, Now, Chains, Links

(* With no decision to begin with there is none about the task. *)
LEMMA NothingAbout ==
    ASSUME NEW rows, Roots(rows) = {}
    PROVE  About(rows) = {}
BY AboutIs


LEMMA MeanwhileInv ==
    ASSUME DecisionsInv, GraphNext, Meanwhile
    PROVE  DecisionsInv'
<1>1. GraphInv' /\ reading' = reading
  BY GraphStep DEF DecisionsInv, Meanwhile
<1>2. Rows' \subseteq EdgeRow
  BY <1>1 DEF GraphInv, GraphTyped, Rows
<1>3. CASE reading.at \in {"idle", "done"}
  <2>1. ever' = ever /\ always' = always
    BY <1>3 DEF Meanwhile
  <2>2. Enclosed' /\ FoundSoFar' /\ PacketsShowTheDecisions'
    BY <1>1, <1>3, <2>1 DEF DecisionsInv, Enclosed, FoundSoFar, PacketsShowTheDecisions
  <2> QED
    BY <1>1, <2>1, <2>2 DEF DecisionsInv
<1>4. CASE reading.at \notin {"idle", "done"}
  <2>1. ever' = ever \cup Now(Rows') /\ always' = always \cap Rows'
    BY <1>4 DEF Meanwhile
  <2>2. /\ ever \subseteq ever' /\ always' \subseteq always
        /\ ever' \subseteq EdgeRow /\ always' \subseteq EdgeRow
    BY <1>2, <2>1 DEF DecisionsInv, Now
  <2>3. always' \subseteq Now(Rows') /\ Now(Rows') \subseteq ever'
    BY <1>4, <2>1 DEF DecisionsInv, Enclosed, Now
  <2>4. /\ Roots(ever) \subseteq Roots(ever') /\ About(ever) \subseteq About(ever')
        /\ Roots(always') \subseteq Roots(always)
        /\ \A d, outbound : Linked(always', d, outbound) \subseteq Linked(always, d, outbound)
    BY <2>2, MoreRows
  <2>5. FoundSoFar'
    BY <1>1, <2>4 DEF DecisionsInv, FoundSoFar
  <2>6. Enclosed' /\ PacketsShowTheDecisions'
    BY <1>1, <1>4, <2>3 DEF Enclosed, PacketsShowTheDecisions
  <2> QED
    BY <1>1, <2>2, <2>5, <2>6 DEF DecisionsInv
<1> QED
  BY <1>3, <1>4

LEMMA NotReadingIs == NotReading \in Reading /\ NotReading.shown = <<>> /\ NotReading.ids = {}
BY EmptySeq DEF NotReading, Reading

LEMMA BeginPacketInv ==
    ASSUME DecisionsInv, packet_decisions
    PROVE  DecisionsInv'
<1>1. /\ reading' = [NotReading EXCEPT !.at = "edges", !.ids = {d \in Decision : TaskOf[d] = Subject}]
      /\ ever' = Now(Rows) /\ always' = Now(Rows) /\ UNCHANGED graphVars
  BY DEF packet_decisions
<1>2. /\ reading' \in Reading /\ reading'.at = "edges"
      /\ reading'.ids = {d \in Decision : TaskOf[d] = Subject}
  BY <1>1, NotReadingIs DEF Reading, NotReading
<1>3. GraphInv' /\ Rows' = Rows
  <2>1. Rows' = Rows
    BY <1>1 DEF graphVars, Rows
  <2> QED
    BY <1>1, <2>1, GraphStep DEF DecisionsInv
<1>4. Now(Rows) \subseteq EdgeRow
  BY DEF Now, DecisionsInv, GraphInv, GraphTyped, Rows
<1>5. Enclosed' /\ FoundSoFar' /\ PacketsShowTheDecisions'
  BY <1>1, <1>2, <1>3 DEF Enclosed, FoundSoFar, PacketsShowTheDecisions
<1> QED
  BY <1>1, <1>2, <1>3, <1>4, <1>5 DEF DecisionsInv

(* A packet that ends early ends with nothing to show. *)
LEMMA EndsEmpty ==
    ASSUME DecisionsInv, Reads([NotReading EXCEPT !.at = "done"]), Roots(always) = {}
    PROVE  DecisionsInv'
<1>1. /\ reading' = [NotReading EXCEPT !.at = "done"]
      /\ UNCHANGED graphVars /\ ever' = ever /\ always' = always
  BY DEF Reads
<1>2. reading' \in Reading /\ reading'.at = "done" /\ reading'.shown = <<>>
  BY <1>1, NotReadingIs DEF Reading, NotReading
<1>3. GraphInv'
  BY <1>1, GraphStep DEF DecisionsInv
<1>4. About(always) = {}
  BY NothingAbout
<1>5. PacketsShowTheDecisions'
  <2>1. DOMAIN reading'.shown = {}
    BY <1>2
  <2> QED
    BY <1>1, <1>4, <2>1 DEF PacketsShowTheDecisions
<1>6. Enclosed' /\ FoundSoFar'
  BY <1>2 DEF Enclosed, FoundSoFar
<1> QED
  BY <1>1, <1>2, <1>3, <1>5, <1>6 DEF DecisionsInv

(* What is kept when a statement only reads. *)
LEMMA ReadsKeep ==
    ASSUME DecisionsInv, NEW step, Reads(step), reading.at \notin {"idle", "done"}
    PROVE  /\ reading' = step /\ ever' = ever /\ always' = always
           /\ GraphInv' /\ ever' \subseteq EdgeRow /\ always' \subseteq EdgeRow /\ Enclosed'
<1>1. reading' = step /\ UNCHANGED graphVars /\ ever' = ever /\ always' = always
  BY DEF Reads
<1>2. GraphInv'
  BY <1>1, GraphStep DEF DecisionsInv
<1>3. Rows' = Rows
  BY <1>1 DEF graphVars, Rows
<1> QED
  BY <1>1, <1>2, <1>3 DEF DecisionsInv, Enclosed


LEMMA AncestorsInv ==
    ASSUME DecisionsInv, has_dependency_ancestors
    PROVE  DecisionsInv'
<1> DEFINE own == {d \in Decision : TaskOf[d] = Subject}
<1>1. PICK edges : edges = {row \in Rows : row.relation = "depends_on" /\ row.dst = Subject}
  OBVIOUS
<1>2. /\ reading.at = "edges" /\ reading.ids = own
      /\ reading.at \notin {"idle", "done"} /\ reading \in Reading
      /\ Reads(IF ~(edges # {} \/ own # {}) THEN [NotReading EXCEPT !.at = "done"]
               ELSE [reading EXCEPT !.at = IF edges = {} THEN "linked" ELSE "anchors",
                                    !.todo = own \X BOOLEAN])
  BY <1>1 DEF has_dependency_ancestors, Worthwhile, DecisionsInv, FoundSoFar
<1>3. always \subseteq Rows
  BY <1>2 DEF DecisionsInv, Enclosed, Now
<1>4. edges = {} => Roots(always) = own
  <2> SUFFICES ASSUME edges = {}, NEW d, Within(Chains(always), TaskOf[d], Subject) PROVE FALSE
    BY DEF Roots
  <2>1. PICK length \in 1..MaxHops : Connected(Chains(always), TaskOf[d], Subject, length)
    BY DEF Within
  <2>2. length \in Nat \ {0}
    BY DecisionsAssumption
  <2>3. PICK row \in Chains(always) : row.dst = Subject
    BY <2>1, <2>2, LastEdge
  <2> QED
    BY <1>1, <1>3, <2>3 DEF Chains
<1>5. own \subseteq Roots(ever) /\ Roots(ever) \subseteq About(ever) /\ own \subseteq Decision
  BY AboutIs DEF Roots
<1> HIDE DEF own
<1>6. CASE edges = {} /\ own = {}
  BY <1>2, <1>4, <1>6, EndsEmpty
<1>7. CASE ~(edges = {} /\ own = {})
  <2>1. PICK step : step = [reading EXCEPT !.at = IF edges = {} THEN "linked" ELSE "anchors",
                                           !.todo = own \X BOOLEAN]
    OBVIOUS
  <2>2. Reads(step)
    BY <1>2, <1>7, <2>1
  <2>3. /\ step \in Reading /\ step.at = (IF edges = {} THEN "linked" ELSE "anchors")
        /\ step.ids = own /\ step.todo = own \X BOOLEAN
    BY <1>2, <1>5, <2>1 DEF Reading
  <2>4. /\ reading' = step /\ ever' = ever /\ always' = always
        /\ GraphInv' /\ ever' \subseteq EdgeRow /\ always' \subseteq EdgeRow /\ Enclosed'
    BY <1>2, <2>2, ReadsKeep
  <2>5. FoundSoFar'
    <3>1. CASE edges = {}
      BY <1>4, <1>5, <2>3, <2>4, <3>1 DEF FoundSoFar
    <3>2. CASE edges # {}
      BY <2>3, <2>4, <3>2 DEF FoundSoFar, own
    <3> QED
      BY <3>1, <3>2
  <2>6. PacketsShowTheDecisions'
    BY <2>3, <2>4 DEF PacketsShowTheDecisions
  <2> QED
    BY <2>3, <2>4, <2>5, <2>6 DEF DecisionsInv
<1> QED
  BY <1>6, <1>7

LEMMA AnchorsInv ==
    ASSUME DecisionsInv, _anchor_task_ids
    PROVE  DecisionsInv'
<1>1. PICK ids : ids = reading.ids \cup {d \in Decision : TaskOf[d] \in anchor_tasks \cup {Subject}}
  OBVIOUS
<1>2. /\ reading.at = "anchors" /\ reading.ids = {d \in Decision : TaskOf[d] = Subject}
      /\ reading.at \notin {"idle", "done"} /\ reading \in Reading
      /\ Reads(IF ids = {} THEN [NotReading EXCEPT !.at = "done"]
               ELSE [reading EXCEPT !.at = "linked", !.ids = ids, !.todo = ids \X BOOLEAN])
  BY <1>1 DEF _anchor_task_ids, DecisionsInv, FoundSoFar
<1>3. /\ \A relations : Followed(relations) \subseteq EdgeRow
      /\ Chains(always) \subseteq Followed({"depends_on"}) /\ Followed({"depends_on"}) \subseteq Chains(ever)
  BY <1>2, FollowedAre
<1>4. \A d : d \in ids <=> d \in Decision /\ (TaskOf[d] = Subject \/ TaskOf[d] \in anchor_tasks)
  BY <1>1, <1>2
<1>5. \A n : n \in anchor_tasks <=> /\ EntityType[n] = "task"
                                    /\ n \in DOMAIN walk_direction(Followed({"depends_on"}), Subject, FALSE, MaxHops)
  BY DEF anchor_tasks, ancestors
<1>6. Subject \in Node
  BY DecisionsAssumption
<1>7. ids \subseteq Roots(ever)
  <2> SUFFICES ASSUME NEW d \in Decision, TaskOf[d] \in anchor_tasks PROVE Within(Chains(ever), TaskOf[d], Subject)
    BY <1>4 DEF Roots
  <2>1. PICK length \in 1..MaxHops : Leads(Followed({"depends_on"}), FALSE, Subject, TaskOf[d], length)
    BY <1>3, <1>5, <1>6, SearchIs
  <2>2. Connected(Chains(ever), TaskOf[d], Subject, length)
    BY <1>3, <2>1, MorePaths DEF Leads
  <2> QED
    BY <2>2 DEF Within
<1>8. Roots(always) \subseteq ids
  <2> SUFFICES ASSUME NEW d \in Decision, Within(Chains(always), TaskOf[d], Subject), TaskOf[d] # Subject
               PROVE  TaskOf[d] \in anchor_tasks
    BY <1>4 DEF Roots
  <2>1. PICK length \in 1..MaxHops : Connected(Chains(always), TaskOf[d], Subject, length)
    BY DEF Within
  <2>2. Leads(Followed({"depends_on"}), FALSE, Subject, TaskOf[d], length)
    BY <1>3, <2>1, MorePaths DEF Leads
  <2>3. TaskOf[d] \in DOMAIN walk_direction(Followed({"depends_on"}), Subject, FALSE, MaxHops)
    BY <1>3, <1>6, <2>2, SearchIs
  <2>4. TaskOf[d] \in Node
    <3>1. length \in Nat \ {0} /\ 1 \in 1..length
      BY DecisionsAssumption
    <3>2. PICK p \in [1..length -> Chains(always)] : p[1].src = TaskOf[d]
      BY <2>1 DEF Connected
    <3>3. p[1] \in EdgeRow
      BY <3>1 DEF Chains, DecisionsInv
    <3> QED
      BY <3>2, <3>3 DEF EdgeRow
  <2> QED
    BY <1>5, <2>3, <2>4, DecisionsAssumption
<1>9. ids \subseteq Decision /\ ids \subseteq About(ever)
  BY <1>4, <1>7, AboutIs
<1>10. CASE ids = {}
  <2>1. Reads([NotReading EXCEPT !.at = "done"]) /\ Roots(always) = {}
    BY <1>2, <1>8, <1>10
  <2> QED
    BY <2>1, EndsEmpty
<1>11. CASE ids # {}
  <2>1. PICK step : step = [reading EXCEPT !.at = "linked", !.ids = ids, !.todo = ids \X BOOLEAN]
    OBVIOUS
  <2>2. Reads(step)
    BY <1>2, <1>11, <2>1
  <2>3. step \in Reading /\ step.at = "linked" /\ step.ids = ids /\ step.todo = ids \X BOOLEAN
    BY <1>2, <1>9, <2>1 DEF Reading
  <2>4. /\ reading' = step /\ ever' = ever /\ always' = always
        /\ GraphInv' /\ ever' \subseteq EdgeRow /\ always' \subseteq EdgeRow /\ Enclosed'
    BY <1>2, <2>2, ReadsKeep
  <2>5. FoundSoFar'
    BY <1>7, <1>8, <1>9, <2>3, <2>4 DEF FoundSoFar
  <2>6. PacketsShowTheDecisions'
    BY <2>3, <2>4 DEF PacketsShowTheDecisions
  <2> QED
    BY <2>3, <2>4, <2>5, <2>6 DEF DecisionsInv
<1> QED
  BY <1>10, <1>11

LEMMA NeighborsInv ==
    ASSUME DecisionsInv, NEW k \in Node, NEW outbound \in BOOLEAN, neighbors_of(k, outbound)
    PROVE  DecisionsInv'
<1>1. PICK hits : hits = DOMAIN walk_direction(Followed(Neighborly), k, outbound, MaxHops)
  OBVIOUS
<1>2. PICK step : step = [reading EXCEPT !.ids = @ \cup (hits \cap Decision), !.todo = @ \ {<<k, outbound>>}]
  OBVIOUS
<1>3. /\ reading.at = "linked" /\ <<k, outbound>> \in reading.todo
      /\ reading.at \notin {"idle", "done"} /\ reading \in Reading /\ Reads(step)
  BY <1>1, <1>2 DEF neighbors_of, DecisionsInv
<1>4. /\ step \in Reading /\ step.at = "linked" /\ step.ids = reading.ids \cup (hits \cap Decision)
      /\ step.todo = reading.todo \ {<<k, outbound>>}
  BY <1>2, <1>3 DEF Reading
<1>5. /\ reading' = step /\ ever' = ever /\ always' = always
      /\ GraphInv' /\ ever' \subseteq EdgeRow /\ always' \subseteq EdgeRow /\ Enclosed'
  BY <1>3, ReadsKeep
<1>6. /\ Roots(always) \subseteq reading.ids /\ reading.ids \subseteq About(ever)
      /\ \A d \in Decision, way \in BOOLEAN : <<d, way>> \in reading.todo => d \in Roots(ever)
      /\ \A d \in Roots(always), way \in BOOLEAN :
            <<d, way>> \in reading.todo \/ Linked(always, d, way) \subseteq reading.ids
  BY <1>3 DEF DecisionsInv, FoundSoFar
<1>7. /\ \A relations : Followed(relations) \subseteq EdgeRow
      /\ Links(always) \subseteq Followed(Neighborly) /\ Followed(Neighborly) \subseteq Links(ever)
  BY <1>3, FollowedAre
<1>8. k \in Roots(ever)
  <2>1. k \in Decision
    BY <1>3 DEF Reading
  <2> QED
    BY <1>3, <1>6, <2>1
<1>9. hits \cap Decision \subseteq About(ever)
  <2> SUFFICES ASSUME NEW d \in Decision, d \in hits PROVE d \in Linked(ever, k, outbound)
    BY <1>8, AboutIs
  <2>1. PICK length \in 1..MaxHops : Leads(Followed(Neighborly), outbound, k, d, length)
    BY <1>1, <1>7, SearchIs
  <2>2. Leads(Links(ever), outbound, k, d, length)
    BY <1>7, <2>1, MorePaths DEF Leads
  <2> QED
    BY <2>2 DEF Linked
<1>10. k \in Roots(always) => Linked(always, k, outbound) \subseteq step.ids
  <2> SUFFICES ASSUME k \in Roots(always), NEW d \in Linked(always, k, outbound), d # k PROVE d \in hits \cap Decision
    BY <1>4, <1>6
  <2>1. PICK length \in 1..MaxHops : Leads(Links(always), outbound, k, d, length)
    BY DEF Linked
  <2>2. Leads(Followed(Neighborly), outbound, k, d, length)
    BY <1>7, <2>1, MorePaths DEF Leads
  <2>3. d \in hits
    BY <1>1, <1>7, <2>2, SearchIs
  <2> QED
    BY <2>3 DEF Linked
<1>11. FoundSoFar'
  <2>1. Roots(always) \subseteq step.ids /\ step.ids \subseteq About(ever)
    BY <1>4, <1>6, <1>9
  <2>2. \A d \in Decision, way \in BOOLEAN : <<d, way>> \in step.todo => d \in Roots(ever)
    BY <1>4, <1>6
  <2>3. ASSUME NEW d \in Roots(always), NEW way \in BOOLEAN
        PROVE  <<d, way>> \in step.todo \/ Linked(always, d, way) \subseteq step.ids
    <3>1. CASE d = k /\ way = outbound
      BY <1>10, <3>1
    <3>2. CASE ~(d = k /\ way = outbound)
      BY <1>4, <1>6, <3>2
    <3> QED
      BY <3>1, <3>2
  <2> QED
    BY <1>4, <1>5, <2>1, <2>2, <2>3 DEF FoundSoFar
<1>12. PacketsShowTheDecisions'
  BY <1>4, <1>5 DEF PacketsShowTheDecisions
<1> QED
  BY <1>4, <1>5, <1>11, <1>12 DEF DecisionsInv

LEMMA SelectInv ==
    ASSUME DecisionsInv, select_decisions
    PROVE  DecisionsInv'
<1>1. PICK step : step = [reading EXCEPT !.at = "done", !.shown = Take(reading.ids, MaxNodes)]
  OBVIOUS
<1>2. /\ reading.at = "linked" /\ reading.todo = {} /\ Reads(step)
      /\ reading.at \notin {"idle", "done"} /\ reading \in Reading
  BY <1>1 DEF select_decisions, DecisionsInv
<1>3. PICK ids, shown : ids = reading.ids /\ shown = Take(reading.ids, MaxNodes) /\ ids \in SUBSET Decision
  BY <1>2 DEF Reading
<1>4. /\ shown \in Seq(ids)
      /\ \A i \in DOMAIN shown : shown[i] \in ids
      /\ \A i, j \in DOMAIN shown : i < j => Rank[shown[i]] > Rank[shown[j]]
      /\ \A d \in ids : \/ \E i \in DOMAIN shown : shown[i] = d
                        \/ Len(shown) = MaxNodes /\ \A i \in DOMAIN shown : Rank[shown[i]] > Rank[d]
  BY <1>3, TakeNewest
<1>5. shown \in Seq(Decision)
  BY <1>3, <1>4, SeqMonotonic
<1>6. step \in Reading /\ step.at = "done" /\ step.shown = shown
  BY <1>1, <1>2, <1>3, <1>5 DEF Reading
<1>7. /\ reading' = step /\ ever' = ever /\ always' = always
      /\ GraphInv' /\ ever' \subseteq EdgeRow /\ always' \subseteq EdgeRow /\ Enclosed'
  BY <1>2, ReadsKeep
<1>8. ids \subseteq About(ever) /\ About(always) \subseteq ids
  <2>1. /\ Roots(always) \subseteq ids /\ ids \subseteq About(ever)
        /\ \A d \in Roots(always), outbound \in BOOLEAN : Linked(always, d, outbound) \subseteq ids
    BY <1>2, <1>3 DEF DecisionsInv, FoundSoFar
  <2> QED
    BY <2>1, AboutIs
<1>9. PacketsShowTheDecisions'
  BY <1>4, <1>6, <1>7, <1>8 DEF PacketsShowTheDecisions
<1>10. FoundSoFar'
  BY <1>6, <1>7 DEF FoundSoFar
<1> QED
  BY <1>6, <1>7, <1>9, <1>10 DEF DecisionsInv

THEOREM DecisionsInvariant == DecisionsSpec => []DecisionsInv
<1>1. GraphInit /\ DecisionsInit => DecisionsInv
  <2> SUFFICES ASSUME GraphInit, DecisionsInit PROVE DecisionsInv
    OBVIOUS
  <2>1. GraphInv
    BY GraphInitInv
  <2>2. reading \in Reading /\ reading.at = "idle" /\ ever = {} /\ always = {}
    BY NotReadingIs DEF DecisionsInit, NotReading
  <2>3. Enclosed /\ FoundSoFar /\ PacketsShowTheDecisions
    BY <2>2 DEF Enclosed, FoundSoFar, PacketsShowTheDecisions
  <2> QED
    BY <2>1, <2>2, <2>3 DEF DecisionsInv
<1>2. DecisionsInv /\ [DecisionsNext]_<<graphVars, decisionVars>> => DecisionsInv'
  <2> SUFFICES ASSUME DecisionsInv, [DecisionsNext]_<<graphVars, decisionVars>> PROVE DecisionsInv'
    OBVIOUS
  <2>1. CASE UNCHANGED <<graphVars, decisionVars>>
    <3>1. UNCHANGED graphVars /\ reading' = reading /\ ever' = ever /\ always' = always
      BY <2>1 DEF decisionVars
    <3>2. GraphInv'
      BY <3>1, GraphStep DEF DecisionsInv
    <3>3. Rows' = Rows
      BY <3>1 DEF graphVars, Rows
    <3>4. Enclosed' /\ FoundSoFar' /\ PacketsShowTheDecisions'
      BY <3>1, <3>3 DEF DecisionsInv, Enclosed, FoundSoFar, PacketsShowTheDecisions
    <3> QED
      BY <3>1, <3>2, <3>4 DEF DecisionsInv
  <2> QED
    BY <2>1, MeanwhileInv, BeginPacketInv, AncestorsInv, AnchorsInv, NeighborsInv, SelectInv DEF DecisionsNext
<1> QED
  BY <1>1, <1>2, PTL DEF DecisionsSpec

(* For any edges, decisions and limits, and whatever others write between   *)
(* the statements of packet_decisions: a packet shows no decision that is   *)
(* not about its task by edges that were active at some time meanwhile, and *)
(* leaves out none that is by edges that stayed, but for the limit, and     *)
(* then an older one than all it shows.                                     *)
THEOREM PacketsAreComplete == DecisionsSpec => []PacketsShowTheDecisions
<1>1. DecisionsInv => PacketsShowTheDecisions
  BY DEF DecisionsInv
<1> QED
  BY <1>1, DecisionsInvariant, PTL

===============================================================================
