------------------------------- MODULE MemorySync -------------------------------
(***************************************************************************)
(* sync_memory: files are read and stored as rows of a memory scope; a full *)
(* sync also deletes the rows of the scope it did not see.                  *)
(*                                                                          *)
(* A row is found by its hash, which stands for the file and its text.      *)
(* Rows are read, inserted, read again and deleted in one transaction, each *)
(* time on what the others have committed by then.                          *)
(***************************************************************************)
EXTENDS Naturals, FiniteSets, Absent

CONSTANTS
    Scope,      \* <<layer, scope_id>>
    File, Content, \* files, and the texts one may hold
    Walk,       \* the sets of files that paths resolve to
    Sync,       \* syncs that may overlap
    MaxRow      \* bound: rows ever inserted

ASSUME MemorySyncAssumption ==
    /\ \A walk \in Walk : walk \subseteq File /\ IsFiniteSet(walk)
    /\ MaxRow \in Nat
    /\ None \notin Scope \cup Content

VARIABLES
    disk,       \* disk[f]: the text of file f, or None
    memory_item,\* committed rows: [id, scope, ref, text]
    sync,       \* sync[s]: the sync in slot s
    row_id      \* the newest row

memoryVars == <<disk, memory_item, sync, row_id>>

NoSync == [step |-> "idle", scope |-> None, full_sync |-> FALSE, items |-> {},
           added |-> {}, stale |-> {}, overlapped |-> FALSE]
Items(rows) == {<<row.ref, row.text>> : row \in rows}
InScope(rows, scope) == {row \in rows : row.scope = scope}
View(s) == InScope(memory_item, sync[s].scope) \cup sync[s].added

-----------------------------------------------------------------------------
(* MemorySyncService.sync: every path resolves and every file is read. *)
begin_sync(s, scope, walk, full_sync) ==
    /\ sync[s].step = "idle" /\ \A f \in walk : disk[f] # None
    /\ sync' = [sync EXCEPT ![s] = [NoSync EXCEPT
                  !.step = "ingest", !.scope = scope, !.full_sync = full_sync,
                  !.items = {<<f, disk[f]>> : f \in walk}]]
    /\ UNCHANGED <<disk, memory_item, row_id>>

NewRows(s, items) ==
    LET ordered == CHOOSE order \in [items -> 1..Cardinality(items)] :
                       \A i, j \in items : order[i] = order[j] => i = j
    IN {[id |-> row_id + ordered[i], scope |-> sync[s].scope, ref |-> i[1], text |-> i[2]] :
            i \in items}

prunes(s) == sync[s].full_sync

(* The hashes that are stored keep their rows, unchanged; the others get one. *)
ingest(s) ==
    LET new == sync[s].items \ Items(View(s)) IN
    /\ sync[s].step = "ingest" /\ row_id + Cardinality(new) <= MaxRow
    /\ row_id' = row_id + Cardinality(new)
    /\ sync' = [sync EXCEPT ![s].added = NewRows(s, new),
                            ![s].step = IF prunes(s) THEN "prune" ELSE "commit"]
    /\ UNCHANGED <<disk, memory_item>>

(* A prune that looks at the file of a row and not at its text. *)
unseen_file(s, row) == \A item \in sync[s].items : item[1] # row.ref
_prune_stale_rows(s, row) == <<row.ref, row.text>> \notin sync[s].items

select_stale(s) ==
    /\ sync[s].step = "prune"
    /\ sync' = [sync EXCEPT ![s].stale = {row.id : row \in {x \in View(s) : _prune_stale_rows(s, x)}},
                            ![s].step = "commit"]
    /\ UNCHANGED <<disk, memory_item, row_id>>

Deletes(row, s) == row.scope = sync[s].scope /\ row.id \in sync[s].stale
Clashes(s) == Items(sync[s].added) \cap Items(InScope(memory_item, sync[s].scope)) # {}

(* A waiting insert of a hash another sync commits fails: 500, rolled back.   *)
commit_sync(s) ==
    /\ sync[s].step = "commit" /\ ~Clashes(s)
    /\ memory_item' = {row \in memory_item \cup sync[s].added : ~Deletes(row, s)}
    /\ sync' = [x \in Sync |->
                  IF x = s THEN NoSync
                  ELSE IF sync[x].step # "idle" /\ sync[x].scope = sync[s].scope
                  THEN [sync[x] EXCEPT !.overlapped = TRUE] ELSE sync[x]]
    /\ UNCHANGED <<disk, row_id>>

rollback_sync(s) ==
    /\ sync[s].step # "idle"
    /\ sync' = [sync EXCEPT ![s] = NoSync]
    /\ UNCHANGED <<disk, memory_item, row_id>>

(* Somebody edits or removes a file. *)
edit_file(f, said) ==
    /\ disk[f] # said
    /\ disk' = [disk EXCEPT ![f] = said]
    /\ UNCHANGED <<memory_item, sync, row_id>>

MemoryInit ==
    /\ disk \in [File -> Content]
    /\ memory_item = {} /\ row_id = 0
    /\ sync = [s \in Sync |-> NoSync]

MemoryNext ==
    \/ \E s \in Sync :
         \/ \E scope \in Scope, walk \in Walk, full_sync \in BOOLEAN :
               begin_sync(s, scope, walk, full_sync)
         \/ ingest(s) \/ select_stale(s) \/ commit_sync(s) \/ rollback_sync(s)
    \/ \E f \in File, said \in Content \cup {None} : edit_file(f, said)

MemorySpec == MemoryInit /\ [][MemoryNext]_memoryVars

-----------------------------------------------------------------------------
(* A row is of a scope and holds a text that a file may hold. *)
MemoryTypeOK ==
    /\ \A row \in memory_item :
          row.id \in 1..row_id /\ row.scope \in Scope /\ row.ref \in File /\ row.text \in Content
    /\ \A s \in Sync : sync[s].scope \in Scope \cup {None}

(* A sync that no other of its scope overtook leaves every file it read in   *)
(* the scope, and nothing else if it was a full one; a partial sync takes no *)
(* row away, and none touches another scope.                                 *)
SyncsAreExact ==
    [][\A s \in Sync : commit_sync(s) =>
        LET here == InScope(memory_item', sync[s].scope) IN
        /\ ~sync[s].overlapped =>
              IF sync[s].full_sync THEN Items(here) = sync[s].items
              ELSE sync[s].items \subseteq Items(here)
        /\ ~sync[s].full_sync => memory_item \subseteq memory_item'
        /\ {row \in memory_item \cup memory_item' : row.scope # sync[s].scope}
             \subseteq memory_item \cap memory_item']_memoryVars

=============================================================================
