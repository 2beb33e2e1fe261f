--------------------------- MODULE MCSignalLifecycle -----------------------
\* Instances of SignalLifecycle: the signals, numbered by created_at.
EXTENDS SignalLifecycle

MCSignals == 1 .. 2

===========================================================================
