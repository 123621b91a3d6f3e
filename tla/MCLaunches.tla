----------------------------- MODULE MCLaunches -----------------------------
(* Instances of Launches for TLC. *)
EXTENDS Launches

CONSTANTS k1, k2

\* Bounds of the instance: no event too many; the rows are edited before the
\* first connection, and one is left; the terminal is used before the first
\* session of the window reports or ends, and not after the identity was lost.
Bounds ==
    /\ ~dropped
    /\ gui = "off" \/ rows = <<0>> \/ (latest = 0 /\ cli = "off")
    /\ cli # "off" =>
           /\ calm /\ evCh = NoEvents /\ label = "idle"
           /\ latest <= 1 /\ \A s \in Sessions : at[s] \in {"none", "run"}

\* The same without the terminal.
WindowOnly == Bounds /\ cli = "off"
=============================================================================
