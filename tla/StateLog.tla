------------------------------- MODULE StateLog -------------------------------
(***************************************************************************)
(* What the state commitment chain promises to the contracts that rely on   *)
(* it: a log of state roots with a final prefix.  Roots are appended at the *)
(* end; a fraud proof may remove a suffix, but nothing of the final prefix, *)
(* which grows until somebody raises the window.                            *)
(***************************************************************************)
EXTENDS Naturals, Sequences

VARIABLES
    log,    \* the state roots
    final   \* how many of them are final

Init == log = <<>> /\ final = 0

\* With a fraud proof window of zero the new roots are final at once.
AppendRoots(roots) ==
    /\ log' = log \o roots
    /\ final' \in {final, Len(log')}

RollBack(n) ==
    /\ n \in final..Len(log)
    /\ log' = SubSeq(log, 1, n)
    /\ UNCHANGED final

Finalize ==
    /\ final' \in final..Len(log)
    /\ UNCHANGED log

\* The window is raised, and roots that were final may be challenged again.
Reopen ==
    /\ final' \in 0..final
    /\ UNCHANGED log

Next ==
    \/ Len(log') > Len(log) /\ AppendRoots(SubSeq(log', Len(log) + 1, Len(log')))
    \/ \E n \in 0..Len(log) : RollBack(n)
    \/ Finalize
    \/ Reopen

Spec == Init /\ [][Next]_<<log, final>>
=============================================================================
