----------------------------- MODULE MCWebSession -----------------------------
\* Two tabs, three specs, two requests of each runtime.
EXTENDS WebSession

CONSTANTS t1, t2
===============================================================================
