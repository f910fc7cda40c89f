----------------------------- MODULE MCStartup -----------------------------
EXTENDS Startup
=============================================================================
