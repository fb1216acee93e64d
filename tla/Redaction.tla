------------------------------ MODULE Redaction ------------------------------
(***************************************************************************)
(* Secret scanning of JSON bodies: middleware/secret_redaction.py.  A      *)
(* string is a record of what the scan asks of it: its length, the matches *)
(* [start, end, rule] of the pattern rules (end exclusive, rules numbered  *)
(* in order), and the outcomes of the entropy test.  Patterns, hints and   *)
(* word lists are abstracted to these outcomes.                            *)
(***************************************************************************)
EXTENDS Naturals, Sequences, FiniteSets

(* _might_contain_secret: the cheap test before the rules are tried. *)
might_contain_secret(value) ==
    \/ value.hinted
    \/ /\ value.length >= 20 /\ ~value.uuid
       /\ value.solid \/ value.candidate

(* _looks_generic_high_entropy_secret *)
looks_random(value) ==
    value.length >= 20 /\ ~value.uuid /\ value.solid /\ value.random

Before(m, n) == m.start < n.start \/ (m.start = n.start /\ m.rule < n.rule)

(* Every match of every rule; without one, the whole string if it looks     *)
(* random.  Rule 0 stands for generic_high_entropy.                         *)
find_secret_matches(value) ==
    IF ~might_contain_secret(value) THEN {}
    ELSE IF value.matches # {} THEN value.matches
    ELSE IF looks_random(value) THEN {[start |-> 0, end |-> value.length, rule |-> 0]}
    ELSE {}

(* The n-th match by start. *)
Nth(matches, n) == CHOOSE m \in matches : Cardinality({p \in matches : Before(p, m)}) = n - 1

Kept(from, to) == [k \in 1..(IF to > from THEN to - from ELSE 0) |-> [at |-> from + k - 1, redacted |-> FALSE]]
Marker(match) == <<[at |-> match.start, redacted |-> TRUE]>>

(* The next match replaced, unless it starts inside one already replaced. *)
Redact(done, m) ==
    IF m.start < done.cursor THEN done
    ELSE [cursor |-> m.end, pieces |-> done.pieces \o Kept(done.cursor, m.start) \o Marker(m)]

(* _apply_redactions: pieces of the string and markers, left to right. *)
apply_redactions(value, matches) ==
    LET done[n \in 0..Cardinality(matches)] ==
          IF n = 0 THEN [cursor |-> 0, pieces |-> <<>>] ELSE Redact(done[n - 1], Nth(matches, n))
        last == done[Cardinality(matches)] IN
    last.pieces \o Kept(last.cursor, value.length)

(* scan_json_payload over the strings of a payload; a string without a      *)
(* match is kept as it is.                                                  *)
Secrets(payload) == UNION {find_secret_matches(payload[k]) : k \in DOMAIN payload}

sanitized(payload) ==
    [k \in DOMAIN payload |-> apply_redactions(payload[k], find_secret_matches(payload[k]))]
=============================================================================
