------------------------------- MODULE TaskTypes -------------------------------
(***************************************************************************)
(* The task type registry: a directory with a schema and a policy file for  *)
(* every type, and what the process has loaded from it.                     *)
(*                                                                          *)
(* A registration writes its two files one after the other under no lock,   *)
(* then loads the whole directory under one.  A file is empty from the time *)
(* it is opened for writing until its text is there; a load may meet it so. *)
(***************************************************************************)
EXTENDS FiniteSets, Absent

CONSTANTS
    TypeName,
    Text,       \* valid contents of a schema or policy file
    Empty,      \* what a file holds between open and write
    Register    \* registrations that may overlap

Pair == [schema : Text \cup {Empty, None}, policy : Text \cup {Empty, None}]

ASSUME TaskTypesAssumption ==
    /\ {None, "reader"} \cap Register = {} /\ None # "reader"
    /\ None # Empty /\ {None, Empty} \cap Text = {}
    /\ None \notin Pair

VARIABLES
    files,      \* files[n]: the schema and the policy file of type n
    definitions,\* definitions[n]: the pair the process serves, or None
    changed,    \* the files' names, times and sizes are not the signature that
                \* the last load took
    lock,       \* the registration, or "reader", that loads, or None
    todo, read, \* the names the load has still to read, the pairs it has read
    reg,        \* reg[r]: the registration in slot r
    up,         \* the process runs
    failed,     \* "no", or a file failed to be written: "yes" until a load that
                \* begins ("retried") after it ends well
    reload_enabled

typeVars == <<files, definitions, changed, lock, todo, read, reg, up, failed, reload_enabled>>

NoPair == [schema |-> None, policy |-> None]
NoReg == [step |-> "idle", name |-> None, schema |-> None, policy |-> None]
Loaders == Register \cup {"reader"}

Quiet == lock = None /\ \A r \in Register : reg[r].step = "idle"
Reset(r) == reg' = [q \in Register |-> IF q = r THEN NoReg ELSE reg[q]]
LoadVars == <<lock, todo, read, definitions, changed>>
Touched == changed' = TRUE /\ UNCHANGED <<lock, todo, read, definitions>>

-----------------------------------------------------------------------------
(* The payload is checked before the disk is touched; a bad one answers 400. *)
register(r, n, schema, policy) ==
    /\ up /\ reg[r].step = "idle"
    /\ reg' = [reg EXCEPT ![r] = [step |-> "open schema", name |-> n,
                                  schema |-> schema, policy |-> policy]]
    /\ UNCHANGED <<files, LoadVars, up, failed, reload_enabled>>

WriteSteps == [step \in {"open schema", "fill schema", "open policy", "fill policy"} |->
    CASE step = "open schema" -> [file |-> "schema", next |-> "fill schema"]
      [] step = "fill schema" -> [file |-> "schema", next |-> "open policy"]
      [] step = "open policy" -> [file |-> "policy", next |-> "fill policy"]
      [] step = "fill policy" -> [file |-> "policy", next |-> "load"]]
Opens == {"open schema", "open policy"}

(* schema_path.write_text, then policy_path.write_text. *)
write_text(r) ==
    LET q == reg[r]
        w == WriteSteps[q.step] IN
    /\ q.step \in DOMAIN WriteSteps
    /\ files' = [files EXCEPT ![q.name][w.file] = IF q.step \in Opens THEN Empty ELSE q[w.file]]
    /\ reg' = [reg EXCEPT ![r].step = w.next]
    /\ Touched
    /\ UNCHANGED <<up, failed, reload_enabled>>

(* The disk is full or the directory read-only: what was written stays. *)
write_fails(r) ==
    /\ reg[r].step \in DOMAIN WriteSteps
    /\ Reset(r)
    /\ failed' = "yes"
    /\ UNCHANGED <<files, LoadVars, up, reload_enabled>>

(* The lock is taken and the schema files are listed. *)
StartLoad(who) ==
    /\ lock = None
    /\ lock' = who
    /\ todo' = {n \in TypeName : files[n].schema # None}
    /\ read' = [n \in TypeName |-> None]
    /\ failed' = IF failed = "yes" THEN "retried" ELSE failed
    /\ UNCHANGED <<files, definitions, changed, up, reload_enabled>>

(* A registration that leaves the load to the one that is under way. *)
load_unless_loading(r) ==
    /\ reg[r].step = "load" /\ lock # None
    /\ Reset(r)
    /\ UNCHANGED <<files, LoadVars, up, failed, reload_enabled>>

load(r) ==
    /\ reg[r].step = "load"
    /\ reg' = [reg EXCEPT ![r].step = "loading"]
    /\ StartLoad(r)

(* A reader in a development set-up, which sees that the files have changed. *)
maybe_reload ==
    /\ up /\ reload_enabled /\ changed
    /\ StartLoad("reader")
    /\ UNCHANGED reg

Readable(n) == files[n].schema # Empty /\ files[n].policy # None

(* One type's schema and policy; an empty policy file reads as no rules. *)
load_pair(n) ==
    /\ lock # None /\ n \in todo /\ Readable(n)
    /\ todo' = todo \ {n}
    /\ read' = [read EXCEPT ![n] = files[n]]
    /\ UNCHANGED <<files, definitions, changed, lock, reg, up, failed, reload_enabled>>

EndLoad ==
    /\ lock' = None /\ todo' = {} /\ read' = [n \in TypeName |-> None]
    /\ IF lock \in Register THEN Reset(lock) ELSE UNCHANGED reg

OrphanPolicy == \E n \in TypeName : files[n].policy # None /\ read[n] = None

(* SchemaLoadError: a schema that is no JSON, a file without its other half. *)
load_error ==
    /\ lock # None
    /\ \/ \E n \in todo : ~Readable(n)
       \/ todo = {} /\ OrphanPolicy
    /\ EndLoad
    /\ failed' = IF failed = "retried" THEN "yes" ELSE failed
    /\ UNCHANGED <<files, definitions, changed, up, reload_enabled>>

(* All is read: the definitions are replaced and the signature is taken. *)
load_ends ==
    /\ lock # None /\ todo = {} /\ ~OrphanPolicy
    /\ definitions' = read
    /\ changed' = FALSE
    /\ failed' = IF failed = "retried" THEN "no" ELSE failed
    /\ EndLoad
    /\ UNCHANGED <<files, up, reload_enabled>>

(* Somebody writes a pair of files by hand: where they are reloaded, while   *)
(* nothing is loading, because the signature is taken after the files are   *)
(* read and would hide the edit; or to mend what a crash left.               *)
edit(n, schema, policy) ==
    /\ up => reload_enabled /\ Quiet
    /\ files' = [files EXCEPT ![n] = [schema |-> schema, policy |-> policy]]
    /\ Touched
    /\ UNCHANGED <<reg, up, failed, reload_enabled>>

(* The process dies, with the registrations in it. *)
crash ==
    /\ up /\ ~Quiet
    /\ up' = FALSE
    /\ definitions' = [n \in TypeName |-> None]
    /\ reg' = [r \in Register |-> NoReg]
    /\ lock' = None /\ todo' = {} /\ read' = [n \in TypeName |-> None]
    /\ UNCHANGED <<files, changed, failed, reload_enabled>>

Loadable == \A n \in TypeName :
    files[n] # NoPair => files[n].schema \notin {None, Empty} /\ files[n].policy # None

(* The application loads the directory as it starts, or does not start. *)
create_app ==
    /\ ~up /\ Loadable /\ \E n \in TypeName : files[n] # NoPair
    /\ up' = TRUE /\ failed' = "no"
    /\ definitions' = [n \in TypeName |-> IF files[n] = NoPair THEN None ELSE files[n]]
    /\ changed' = FALSE
    /\ UNCHANGED <<files, lock, todo, read, reg, reload_enabled>>

-----------------------------------------------------------------------------
TypesInit(first) ==
    /\ files = [n \in TypeName |-> first[n]]
    /\ definitions = [n \in TypeName |-> IF files[n] = NoPair THEN None ELSE files[n]]
    /\ changed = FALSE
    /\ lock = None /\ todo = {} /\ read = [n \in TypeName |-> None]
    /\ reg = [r \in Register |-> NoReg]
    /\ up = TRUE /\ failed = "no"

TypesNext ==
    \/ \E r \in Register :
         \/ \E n \in TypeName, schema, policy \in Text : register(r, n, schema, policy)
         \/ write_text(r) \/ write_fails(r) \/ load(r)
    \/ maybe_reload \/ load_error \/ load_ends
    \/ \E n \in TypeName : load_pair(n) \/ \E schema, policy \in Text : edit(n, schema, policy)
    \/ crash \/ create_app

(* Any directory an application starts with: complete pairs.               *)
TypesSpec ==
    /\ \E first \in [TypeName -> [schema : Text, policy : Text] \cup {NoPair}] : TypesInit(first)
    /\ reload_enabled \in BOOLEAN
    /\ [][TypesNext]_typeVars

(* Files and definitions are pairs, and a load belongs to one of the loaders. *)
TypesTypeOK ==
    /\ files \in [TypeName -> Pair] /\ changed \in BOOLEAN
    /\ definitions \in [TypeName -> Pair \cup {None}]
    /\ lock \in Loaders \cup {None}
    /\ todo \subseteq TypeName

(* A registry that nobody is changing serves what is on disk, however the    *)
(* registrations that came before overlapped: a load that met the half of    *)
(* another's pair, refused the directory or read an empty policy is followed *)
(* by that other's own.  Left out is a file that failed to be written since  *)
(* the last load that ended well; a reader who would reload first counts as  *)
(* served.                                                                   *)
RegistryServesTheFiles ==
    up /\ Quiet /\ failed = "no" /\ ~(reload_enabled /\ changed) =>
        \A n \in TypeName :
            definitions[n] = IF files[n] = NoPair THEN None ELSE files[n]
=============================================================================
