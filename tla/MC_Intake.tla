------------------------------ MODULE MC_Intake ------------------------------
EXTENDS Intake

CONSTANTS a, b

(* The grant is stale at time 2, the revocation too far ahead at time 0.  The *)
(* message may be sent twice: two listeners are then at work.                *)
Granted(i) == [issuer |-> i, grant |-> TRUE, ms |-> 0]
Revoked(i) == [issuer |-> i, grant |-> FALSE, ms |-> 1]

MCOp      == {Granted(a), Revoked(a)}
MCMessage == {<<Granted(a), Revoked(a)>>}
==============================================================================
