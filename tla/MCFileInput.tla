----------------------------- MODULE MCFileInput -----------------------------
EXTENDS FileInput

=============================================================================
