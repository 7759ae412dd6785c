------------------------ MODULE MCFileTxnConcurrent ------------------------
EXTENDS FileTxnConcurrent

PairOnly == {{1, 2}}
=============================================================================
