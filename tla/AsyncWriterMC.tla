---------------------------- MODULE AsyncWriterMC ----------------------------
(* AsyncWriter for TLC: two batches with a deadline and one without.          *)
EXTENDS AsyncWriter

CONSTANTS b1, b2, b3, t1, t2

MCBatches      == {b1, b2, b3}
MCWithDeadline == {b1, b2}
MCThreads1     == {t1}
MCThreads2     == {t1, t2}
=============================================================================
