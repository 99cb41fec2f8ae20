------------------------------ MODULE MCGateway ------------------------------
(* An instance of Gateway for TLC. *)
EXTENDS Gateway, Sequences

CONSTANTS r1, r2, r3, acme, globex, unknown

Asks(who, as, what, whose) ==
    [tenant |-> who, role |-> as, op |-> what, run |-> r1, about |-> whose]

(* Two tenants that are configured, one that is not, and of each endpoint  *)
(* the calls whose answers differ.                                         *)
MCCalls ==
    << Asks(acme, "developer", "run", acme),
       Asks(acme, "developer", "chat", acme),
       Asks(unknown, "developer", "run", unknown),
       Asks(globex, "admin", "list", globex),
       Asks(globex, "viewer", "detail", acme),
       Asks(acme, "viewer", "detail", acme),
       Asks(acme, "viewer", "report", acme),
       Asks(acme, "viewer", "report", globex),
       Asks(globex, "admin", "report", unknown),
       Asks(globex, "admin", "rotate", globex),
       Asks(acme, "viewer", "administer", acme),
       Asks(globex, "admin", "administer", acme) >>

(* Which request asks which of them makes no difference, so r1, r2 and r3  *)
(* ask in the order of the list: that leaves the run to r1, of which the   *)
(* details are asked.                                                      *)
MCWorkloads ==
    { [r \in Requests |-> MCCalls[IF r = r1 THEN i ELSE IF r = r2 THEN j ELSE k]] :
        <<i, j, k>> \in { t \in (1 .. Len(MCCalls)) \X (1 .. Len(MCCalls)) \X (1 .. Len(MCCalls)) :
                            t[1] <= t[2] /\ t[2] <= t[3] } }

=============================================================================
