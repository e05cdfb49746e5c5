----------------------------- MODULE MCFwMigrate -----------------------------
EXTENDS FwMigrate

\* Files saved by released firmware, and by any.
ReleasedFiles == [base : Levels, suffix : {NoSuffix}]
AllFiles == Strings

=============================================================================
