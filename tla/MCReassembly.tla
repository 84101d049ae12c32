---------------------------- MODULE MCReassembly ----------------------------
EXTENDS Reassembly
MCISNs == {0, SeqMod - 3}
=============================================================================
