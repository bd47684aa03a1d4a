SPECIFICATION SchemaSpec
SYMMETRY MigratorsAreAlike
CONSTRAINT FewDumpsInDoubt
CONSTANTS
  Migrators = {m1, m2}
  Retention = 1
  MaxId = 4
  MaxFiles = 2
  None = none
INVARIANTS SchemaTypeOK SchemaRecorded BackupKept
