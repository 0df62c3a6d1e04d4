--------------------------- MODULE MCKernelProxy ---------------------------
EXTENDS KernelProxy, TLC

\* One thread writes a value, signals and flushes, the other reads twice.
MCProgram == (1 :> <<"putvalue", "signal", "flush">>) @@ (2 :> <<"get", "get">>)
=============================================================================
