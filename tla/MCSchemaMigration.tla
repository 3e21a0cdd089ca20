-------------------------- MODULE MCSchemaMigration --------------------------
\* The instance of SchemaMigration for TLC.
EXTENDS SchemaMigration

CONSTANTS w1, w2, r1

TwoWriters == {w1, w2}
OneRow == {r1}
=============================================================================
