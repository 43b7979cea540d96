----------------------------- MODULE MC_Issuance -----------------------------
EXTENDS Issuance

CONSTANTS p1, p2,       \* commands
          f1,           \* an operation of another issuer
          MaxTime       \* bound: the last reading of the wall clock

MCTime == 0 .. MaxTime

MCOne == {p1}
MCTwo == {p1, p2}

(* One command at a time, of every kind but the publication of a file. *)
MCSequential == [p \in MCOne |-> Kind \ {"file"}]

(* An issuing command beside a publication, a push or a sync. *)
MCOverlap == [p \in MCTwo |->
                IF p = p1 THEN {"issue"} ELSE Kind \ {"issue", "stage", "prune"}]

MCForeign == {f1}
==============================================================================
