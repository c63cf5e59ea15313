---------------------------- MODULE MCInjectorStart -----------------------------
EXTENDS InjectorStart
================================================================================
