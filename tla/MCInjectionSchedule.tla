-------------------------- MODULE MCInjectionSchedule --------------------------
EXTENDS InjectionSchedule

MCIntervals == {1, 2}
================================================================================
