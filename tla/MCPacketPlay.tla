---------------------------- MODULE MCPacketPlay ----------------------------
EXTENDS QuicPlay
=============================================================================
