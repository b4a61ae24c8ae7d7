--------------------------- MODULE MCDbcMigration ---------------------------
EXTENDS DbcMigration
CONSTANTS o1, o2
=============================================================================
