--------------------------- MODULE ImportRegister ---------------------------
(***************************************************************************)
(* What the uploads of modules/ingest/adapter.py and modules/analysis/     *)
(* baseline.py keep for those who read the tables of one source: files are *)
(* imported one after the other.  A file is taken in once, in one step,    *)
(* with all the voices it brings that nobody owns by then, and only if     *)
(* there are such voices; a voice never changes the file it came with.  A  *)
(* file for the keyword rules gets its baseline in that step and no other  *)
(* afterwards.  A file for a model can get one from a later upload for the *)
(* rules, and another from each upload that runs beside that one: here the *)
(* code stays behind docs/superpowers/specs/                               *)
(* 2026-08-15-bearvoice-enterprise-foundations-design.md, line 276.        *)
(***************************************************************************)
CONSTANTS
  Files, Ids,
  Brings,     \* the voices that each file brings
  Runs,       \* the baseline runs
  None        \* the owner of a voice, and the provider of a file, that has not come yet

VARIABLES
  via,        \* the provider each file was imported for
  owner,      \* the file each voice came with
  analyses    \* the baseline runs of each file

vars == << via, owner, analyses >>

New(f) == {i \in Brings[f] : owner[i] = None}

Init ==
  /\ via = [f \in Files |-> None]
  /\ owner = [i \in Ids |-> None]
  /\ analyses = [f \in Files |-> {}]

Import(f, provider) ==
  /\ via[f] = None /\ New(f) # {}
  /\ via' = [via EXCEPT ![f] = provider]
  /\ owner' = [i \in Ids |-> IF i \in New(f) THEN f ELSE owner[i]]
  /\ IF provider = "local" THEN \E run \in Runs : analyses' = [analyses EXCEPT ![f] = {run}]
                           ELSE UNCHANGED analyses

Analyse(f) ==
  /\ via[f] = "model"
  /\ \E run \in Runs : analyses' = [analyses EXCEPT ![f] = @ \cup {run}]
  /\ UNCHANGED << via, owner >>

Next ==
  \E f \in Files : Analyse(f) \/ \E provider \in {"local", "model"} : Import(f, provider)

Spec == Init /\ [][Next]_vars
=============================================================================
