---------------------------- MODULE MCFuzzLoop ------------------------------
(***************************************************************************)
(* An instance of FuzzLoop: a plain program and programs that differ from  *)
(* it in one respect each.                                                 *)
(***************************************************************************)
EXTENDS FuzzLoop

Nothing == [a \in Input |-> [b \in {} |-> "fixed"]]
\* One byte, written by a site of the given kind, on every input.
Writes(byte, kind) == [a \in Input |-> [b \in {byte} |-> kind]]

Plain ==
  [trace |-> <<1>>, out |-> "accept", freq |-> "accept", fits |-> TRUE,
   deep |-> TRUE, fault |-> FALSE, sites |-> <<>>, hits |-> Nothing,
   reads |-> FALSE, wrong |-> FALSE, modelled |-> TRUE]

Stores   == [Plain EXCEPT !.trace = <<1, 2>>, !.sites = <<"fixed", "variable">>,
                          !.hits = Writes(0, "variable")]
Reads    == [Plain EXCEPT !.reads = TRUE, !.fits = FALSE, !.deep = FALSE,
                          !.fault = TRUE]
Miscomputed == [Plain EXCEPT !.wrong = TRUE, !.trace = <<3, 1, 2>>, !.deep = FALSE]
AtLimit  == [Plain EXCEPT !.freq = "too_many_states", !.trace = <<4>>]
Lossy    == [Plain EXCEPT !.freq = "verdict", !.modelled = FALSE]
Broken   == [Plain EXCEPT !.freq = "efault"]
Rejected == [Plain EXCEPT !.out = "verdict", !.freq = "verdict", !.trace = <<3>>]

MCProgram == {Plain, Stores, Reads, Miscomputed, AtLimit, Lossy, Broken, Rejected}

\* A program whose own log does not fit, for FuzzLoopDesync.
LongLog == [Plain EXCEPT !.fits = FALSE]
MCLong  == {Plain, LongLog}

MCHome(a) == a % 2
=============================================================================
