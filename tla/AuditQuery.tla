------------------------------ MODULE AuditQuery ------------------------------
(***************************************************************************)
(* Reading the ledger page by page, newest row first, while transactions   *)
(* append to it: routers/audit.py.  A page is one statement; between two   *)
(* pages the client holds nothing but a cursor.                            *)
(***************************************************************************)
EXTENDS AuditChain, Sequences

CONSTANTS
    RowId,      \* ids of audit rows: uuids, in no order of time
    Columns,    \* the columns a row may have: functions from names to values
    Token,      \* who may ask: scopes and actor_type
    Payload,    \* questions: equal (columns to values), since, until, limit
    MaxTime     \* bound on the clock

(* Ids are compared as numbers; a page has room for a row. *)
ASSUME QueryAssumption ==
    /\ RowId \subseteq Nat /\ MaxTime \in Nat
    /\ \A payload \in Payload : payload.limit \in Nat \ {0}

VARIABLES
    clock,      \* clock_timestamp()
    entry,      \* entry[p]: created_at, id and columns of the row at position p
    walk        \* the walk of a client, or NoWalk

queryVars == <<clock, entry, walk>>
NoWalk == [payload |-> None, began |-> {}, shown |-> <<>>, cursor |-> None]

-----------------------------------------------------------------------------
(* The trigger stamps the row when it has the lock. *)
stamp_row(a, id, columns) ==
    /\ audit_log_set_chain_hashes(a)
    /\ \A p \in DOMAIN entry : entry[p].id # id
    /\ entry' = Append(entry, [created_at |-> clock, id |-> id, columns |-> columns])
    /\ UNCHANGED <<clock, walk>>

passes ==
    /\ clock < MaxTime /\ clock' = clock + 1
    /\ UNCHANGED <<entry, walk, chainVars>>

Committed == {r.position : r \in audit_log}

Matches(payload, p) ==
    LET row == entry[p] IN
    /\ \A column \in DOMAIN payload.equal : row.columns[column] = payload.equal[column]
    /\ \A t \in payload.since : row.created_at >= t
    /\ \A t \in payload.until : row.created_at <= t

Newer(p, q) ==
    \/ entry[p].created_at > entry[q].created_at
    \/ entry[p].created_at = entry[q].created_at /\ entry[p].id > entry[q].id

by_time_only(p, cursor) == cursor # None => entry[p].created_at < entry[cursor].created_at

(* The cursor is the last row shown, by its created_at and its id. *)
_apply_desc_cursor_clause(p, cursor) == cursor # None => Newer(cursor, p)

_require_token_scope(token) == token.scopes \cap {"audit:read", "admin"} # {}
_require_admin_actor(token) == token.actor_type = "admin"

(* ORDER BY created_at DESC, id DESC. *)
Nth(rows, k) == CHOOSE p \in rows : Cardinality({q \in rows : Newer(q, p)}) = k - 1

(* One page, newest first; its cursor is None when it shows the last row. *)
invoke_query_audit_log(payload, cursor) ==
    LET rows == {p \in Committed : Matches(payload, p) /\ _apply_desc_cursor_clause(p, cursor)}
        more == Cardinality(rows) > payload.limit
    IN [items |-> [k \in 1..(IF more THEN payload.limit ELSE Cardinality(rows)) |-> Nth(rows, k)],
        cursor |-> IF more THEN Nth(rows, payload.limit) ELSE None]

Turn(payload, began, shown, cursor) ==
    LET page == invoke_query_audit_log(payload, cursor) IN
    /\ walk' = [payload |-> payload, began |-> began, shown |-> shown \o page.items, cursor |-> page.cursor]
    /\ UNCHANGED <<clock, entry, chainVars>>

(* GET /v1/audit: 403, or the first page. *)
first_page(token, payload) ==
    /\ walk.cursor = None
    /\ _require_token_scope(token) /\ _require_admin_actor(token)
    /\ Turn(payload, {p \in Committed : Matches(payload, p)}, <<>>, None)

next_page ==
    /\ walk.cursor # None
    /\ Turn(walk.payload, walk.began, walk.shown, walk.cursor)

-----------------------------------------------------------------------------
QueryInit == ChainInit /\ clock = 0 /\ entry = <<>> /\ walk = NoWalk

QueryNext ==
    \/ \E a \in Tx : transact(a) /\ UNCHANGED queryVars
    \/ \E a \in Tx, id \in RowId, columns \in Columns : stamp_row(a, id, columns)
    \/ passes
    \/ \E token \in Token, payload \in Payload : first_page(token, payload)
    \/ next_page

QuerySpec == QueryInit /\ [][QueryNext]_<<chainVars, queryVars>>

Shown == {walk.shown[i] : i \in DOMAIN walk.shown}

(* A walk shows each row that was committed when it began exactly once, in  *)
(* the order of time, as far as it has come; a row committed meanwhile is   *)
(* shown only if it is as new as all of those, so that an answer has no     *)
(* gap that is filled later.  It rests on the trigger, which stamps rows    *)
(* under the lock that commits them in order, and on the cursor, which      *)
(* tells rows of one instant apart.                                         *)
WalksShowTheLedger ==
    /\ \A i, j \in DOMAIN walk.shown : i < j => Newer(walk.shown[i], walk.shown[j])
    /\ \A p \in walk.began \ Shown : walk.cursor # None /\ Newer(walk.cursor, p)
    /\ \A p \in Shown \ walk.began :
          \A q \in walk.began : entry[p].created_at >= entry[q].created_at
=============================================================================
