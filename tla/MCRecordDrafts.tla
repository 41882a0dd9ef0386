--------------------------- MODULE MCRecordDrafts ---------------------------
EXTENDS RecordDrafts, MCRecords
=============================================================================
