----------------------------- MODULE MCAccelTest -----------------------------
EXTENDS AccelTest

AllOpcodes == DOMAIN JobOf \ {"batch"}
=============================================================================
