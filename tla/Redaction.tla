------------------------------ MODULE Redaction ------------------------------
(***************************************************************************)
(* find_pii and redact (governance/pii.py): the hits in a text are found   *)
(* entity by entity and replaced one by one, from the right to the left,   *)
(* at the offsets they have in the original text.                          *)
(*                                                                         *)
(* Where the patterns match is open: a finditer() yields matches that do   *)
(* not overlap, from left to right.  Those of different entities may.      *)
(***************************************************************************)
EXTENDS Integers, Sequences, SequencesExt

CONSTANTS
    Length,     \* of the text
    Entities,   \* PiiConfig.entities, in the order of the policy
    Patterns,   \* the keys of _ENTITY_PATTERNS
    Width       \* length of the placeholder of an entity

ASSUME RedactionAssumption ==
    /\ Length \in Nat
    /\ Entities \in Seq(STRING)
    /\ Patterns \subseteq STRING /\ "text" \notin Patterns
    /\ Width \in [Patterns -> Nat \ {0}]

(* PiiHit: the characters start+1 to end of the text. *)
Hit == {h \in [entity : Patterns, start : 0..Length, end : 0..Length] : h.start < h.end}

(* A character: the at-th of the text, or the at-th of a placeholder. *)
Cell == [entity : Patterns \cup {"text"}, at : Nat]

TextCell(i) == [entity |-> "text", at |-> i]

Placeholder(entity) == [i \in 1..Width[entity] |-> [entity |-> entity, at |-> i]]

VARIABLES
    pc,       \* in find_pii, in redact, or through
    entity,   \* position in Entities of the pattern being searched
    from,     \* where its search goes on
    hits,     \* the hits, in the order they were found
    left,     \* the positions in hits of those redact has not replaced yet
    result    \* the local result of redact

vars == <<pc, entity, from, hits, left, result>>

TypeOK ==
    /\ pc \in {"finding", "redacting", "done"}
    /\ entity \in 1..(Len(Entities) + 1)
    /\ from \in 0..Length
    /\ hits \in Seq(Hit)
    /\ left \subseteq DOMAIN hits
    /\ result \in Seq(Cell)

Init ==
    /\ pc = "finding"
    /\ entity = 1
    /\ from = 0
    /\ hits = <<>>
    /\ left = {}
    /\ result = [i \in 1..Length |-> TextCell(i)]

-----------------------------------------------------------------------------
Searching(entities) ==
    /\ pc = "finding"
    /\ entity <= Len(Entities)
    /\ Entities[entity] \in entities

(* Mutant: a character is skipped. *)
ResumesAfter(hit) == hit.end + 1

ResumesAt(hit) == hit.end

(* The next match of the pattern.  One of credit_card is only a hit if its *)
(* digits pass the Luhn check.                                             *)
FindMatch ==
    /\ Searching(Patterns)
    /\ \E hit \in Hit, valid \in BOOLEAN :
        /\ hit.entity = Entities[entity] /\ hit.start >= from
        /\ valid \/ hit.entity = "credit_card"
        /\ hits' = IF valid THEN Append(hits, hit) ELSE hits
        /\ from' = ResumesAt(hit)
    /\ UNCHANGED <<pc, entity, left, result>>

(* No pattern of that name, or no match any more. *)
NextEntity ==
    /\ Searching(STRING)
    /\ entity' = entity + 1
    /\ from' = 0
    /\ UNCHANGED <<pc, hits, left, result>>

StartRedacting ==
    /\ pc = "finding"
    /\ entity > Len(Entities)
    /\ pc' = "redacting"
    /\ left' = DOMAIN hits
    /\ UNCHANGED <<entity, from, hits, result>>

(* Mutant: from the left to the right. *)
IsNextAscending(i) ==
    /\ i \in left
    /\ \A j \in left : hits[i].start < hits[j].start \/ (hits[i].start = hits[j].start /\ i <= j)

(* The next element of sorted(hits, key=start, reverse=True), which is     *)
(* stable: hits that start together stay in the order they were found in.  *)
IsNext(i) ==
    /\ i \in left
    /\ \A j \in left : hits[j].start < hits[i].start \/ (hits[i].start = hits[j].start /\ i <= j)

(* Mutant: what follows is taken from where the placeholder ends. *)
CutAfterPlaceholder(text, hit) ==
    SubSeq(text, 1, hit.start) \o Placeholder(hit.entity)
        \o SubSeq(text, hit.start + Width[hit.entity] + 1, Len(text))

(* result[:hit.start] + placeholder + result[hit.end:] *)
Cut(text, hit) ==
    SubSeq(text, 1, hit.start) \o Placeholder(hit.entity) \o SubSeq(text, hit.end + 1, Len(text))

Replace ==
    /\ pc = "redacting"
    /\ \E i \in left :
        /\ IsNext(i)
        /\ result' = Cut(result, hits[i])
        /\ left' = left \ {i}
    /\ UNCHANGED <<pc, entity, from, hits>>

Return ==
    /\ pc = "redacting"
    /\ left = {}
    /\ pc' = "done"
    /\ UNCHANGED <<entity, from, hits, left, result>>

Done == pc = "done" /\ UNCHANGED vars

Next ==
    \/ FindMatch
    \/ NextEntity
    \/ StartRedacting
    \/ Replace
    \/ Return
    \/ Done

Spec == Init /\ [][Next]_vars

-----------------------------------------------------------------------------
(* Properties.                                                             *)

Covers(hit, i) == hit.start < i /\ i <= hit.end

Apart(g, h) == g.end <= h.start \/ h.end <= g.start

(* The one that starts first ends first. *)
Staggered(g, h) ==
    \/ g.start < h.start /\ g.end < h.end
    \/ h.start < g.start /\ h.end < g.end

Pairwise(Rel(_, _)) == \A i, j \in DOMAIN hits : i # j => Rel(hits[i], hits[j])

(* Hits that do not overlap are redacted exactly: each is replaced by its  *)
(* placeholder and every other character is kept, although each            *)
(* replacement moves what lies to the right of it and the next one is made *)
(* at an offset of the original text.                                      *)
Piece(i) ==
    IF \E h \in DOMAIN hits : hits[h].start = i - 1
    THEN Placeholder(hits[CHOOSE h \in DOMAIN hits : hits[h].start = i - 1].entity)
    ELSE IF \E h \in DOMAIN hits : Covers(hits[h], i) THEN <<>> ELSE <<TextCell(i)>>

RedactsExactly ==
    pc = "done" /\ Pairwise(Apart) => result = FlattenSeq([i \in 1..Length |-> Piece(i)])

(* Nothing of a hit is left, for hits that overlap too, as long as none    *)
(* lies within another: then a replacement may cut into the placeholder    *)
(* before it, but only ever cuts too much.                                 *)
NothingLeft ==
    pc = "done" /\ Pairwise(Staggered) =>
        \A i \in DOMAIN result, h \in DOMAIN hits :
            result[i].entity = "text" => ~Covers(hits[h], result[i].at)

(* The text up to the end of every hit still to be replaced is as it was,  *)
(* when no two overlap: the offsets of the hit still are its own.          *)
OffsetsValid ==
    Pairwise(Apart) =>
        \A h \in left :
            /\ hits[h].end <= Len(result)
            /\ \A i \in 1..hits[h].end : result[i] = TextCell(i)

=============================================================================
