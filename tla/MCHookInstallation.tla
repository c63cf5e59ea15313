-------------------------- MODULE MCHookInstallation ---------------------------
EXTENDS HookInstallation
================================================================================
