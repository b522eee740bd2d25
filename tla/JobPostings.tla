----------------------------- MODULE JobPostings -----------------------------
(***************************************************************************)
(* The postings that ingest_jobs() of app/search.py is given, and when it  *)
(* takes two of them to be the same job.                                   *)
(***************************************************************************)
EXTENDS Naturals, Sequences

CONSTANTS
    Callers,        \* concurrent calls of ingest_jobs()
    Sources,        \* provider names
    ExtIds,         \* provider job ids
    NoExt,          \* the posting has no external_id (NULL in the table)
    Names,          \* (company, title) as the posting spells them
    Locations,
    Norm,           \* _norm(): Python strip().lower() of both parts of a name
    DbLower,        \* SQLite lower() of both parts, which folds ASCII only
    Batches         \* the lists of items a caller may be given

Postings == [blank : BOOLEAN, source : Sources, ext : ExtIds \cup {NoExt},
             name : Names, location : Locations]

(* A row whose ASCII-folded name is the folded name of a posting is that   *)
(* name: what SQLite leaves alone was already lower case.                  *)
ASSUME PostingsAssumption ==
    /\ NoExt \notin ExtIds
    /\ Batches \subseteq Seq(Postings)
    /\ \A m, n \in Names : DbLower[m] = Norm[n] => Norm[m] = Norm[n]

(* The pair the UNIQUE constraint compares: NULL equals nothing. *)
SameExt(p, q) == p.ext # NoExt /\ p.ext = q.ext /\ p.source = q.source

(* batch_key, under which an item enters seen_keys. *)
BatchKey(p) == IF p.ext # NoExt
               THEN <<"ext", p.source, p.ext>>
               ELSE <<"ct", Norm[p.name], p.location>>

SameName(p, q) == Norm[p.name] = Norm[q.name]

(* A row of the table is named by the call that inserted it and the index  *)
(* of the posting it stores.                                               *)
Row(c, i) == <<c, i>>
Rows == Callers \X (Nat \ {0})
=============================================================================
