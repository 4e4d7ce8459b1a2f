--------------------------- MODULE MCSeqNumWindow ---------------------------
EXTENDS SeqNumWindow

\* A 4-bit ring walked for two and a half turns.
MCModulus == 16
MCMaxStep == 3
MCMaxTrue == 40

=============================================================================
