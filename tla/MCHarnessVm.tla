---------------------------- MODULE MCHarnessVm -----------------------------
(***************************************************************************)
(* Instances of HarnessVm: three runs one after the other, two of which    *)
(* share their OUT file (a retry); and two runs at once, each with an OUT  *)
(* of its own.                                                             *)
(***************************************************************************)
EXTENDS HarnessVm

CONSTANTS f1, f2

MCRetry     == 1 .. 3
MCRetryOut  == <<f1, f1, f2>>
MCRetryPort == <<10022, 10022, 10022>>

MCPair      == 1 .. 2
MCPairOut   == <<f1, f2>>
MCPairPort  == <<10022, 10022>>
=============================================================================
