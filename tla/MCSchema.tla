-------------------------------- MODULE MCSchema --------------------------------
(* The schema and its backups with two migrate processes that are alike.     *)
EXTENDS Schema, TLC

MigratorsAreAlike == Permutations(Migrators)

(* BOUND: beside a database in doubt there is one dump at most, and none     *)
(* when nothing is said of the schema any more, except what was restored.    *)
FewDumpsInDoubt ==
  /\ doubt # "none" => Cardinality(dumps) <= 1
  /\ doubt \in {"overlap", "restore"} => backup.stage = "none"
  /\ doubt = "overlap" => dumps = {}
================================================================================
