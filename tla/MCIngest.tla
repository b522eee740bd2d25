------------------------------ MODULE MCIngest ------------------------------
(***************************************************************************)
(* Small instances of Ingest: every pair of batches over a handful of      *)
(* postings that share ids, names, or neither.                             *)
(***************************************************************************)
EXTENDS Ingest, SequencesExt

CONSTANTS c1, c2, c3, src, x1, x2, here, there

MCSources == {src}
MCExtIds == {x1, x2}
MCLocations == {here, there}

(* Two ASCII spellings of one name, another name, and a name with an       *)
(* upper-case letter outside ASCII, which SQLite does not fold.            *)
MCNames == {"Acme", "ACME", "Bolt", "École"}
MCNorm == ("Acme" :> "acme") @@ ("ACME" :> "acme")
          @@ ("Bolt" :> "bolt") @@ ("École" :> "école")
MCDbLower == ("Acme" :> "acme") @@ ("ACME" :> "acme")
             @@ ("Bolt" :> "bolt") @@ ("École" :> "École")

Entry(e, n, l) == [blank |-> FALSE, source |-> src, ext |-> e, name |-> n, location |-> l]
Blank == [Entry(NoExt, "Bolt", here) EXCEPT !.blank = TRUE]

(* Every batch of up to two of these, two longer ones that insert a row    *)
(* before the posting another call may have inserted, and one whose name   *)
(* the two languages fold differently.                                     *)
SomePostings == {Entry(x1, "Acme", here), Entry(x1, "Bolt", here),
                 Entry(NoExt, "ACME", there)}
MCBatches == BoundedSeq(SomePostings, 2)
             \cup {<<Blank, Entry(x2, "École", here), Entry(x1, "Acme", here)>>,
                   <<Entry(NoExt, "Acme", here), Entry(NoExt, "ACME", here),
                     Entry(NoExt, "Bolt", there)>>,
                   <<Entry(NoExt, "École", here), Entry(NoExt, "École", there)>>}

(* Batches that meet in an external id under two names. *)
MeetingBatches == {<<Entry(x1, "Acme", here)>>,
                   <<Entry(NoExt, "ACME", there), Entry(x1, "Bolt", here)>>}

=============================================================================
