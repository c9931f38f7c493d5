---- MODULE MCCodexExec ----
EXTENDS CodexExec
====
