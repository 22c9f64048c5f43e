------------------------------ MODULE MCUpload ------------------------------
\* Small instances of Upload.
EXTENDS Upload, TLC

\* Control blocks differ only in name.
PcbsAlike == Permutations(Pcbs)
=============================================================================
