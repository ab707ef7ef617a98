------------------------------- MODULE MCYum --------------------------------
EXTENDS Yum, TLC
CONSTANTS tool, lib
\* tool, which upstream does not carry, requires lib.
MCReq == tool :> {lib} @@ lib :> {}
=============================================================================
