------------------------------- MODULE MCTcp -------------------------------
(***************************************************************************)
(* A client a and a server b.                                              *)
(***************************************************************************)
EXTENDS Tcp, TLC

CONSTANTS a, b

Budget(joined, loss, dup, rtx, pass, ba, bb, oa) ==
  [joined |-> joined, loss |-> loss, dup |-> dup, rtx |-> rtx, pass |-> pass,
   bytes |-> (a :> ba) @@ (b :> bb), opens |-> (a :> oa) @@ (b :> IF joined THEN 0 ELSE 1)]

\* The handshake under faults; two clients' sockets; data lost; data repeated;
\* both ways, with a close; a close under loss and with its timer.
AllBudgets ==
  {Budget(FALSE, 1, 1, 1, 0, 0, 0, 1), Budget(FALSE, 0, 0, 0, 0, 0, 0, 2),
   Budget(TRUE, 1, 0, 0, 0, 3, 0, 0),  Budget(TRUE, 0, 1, 0, 0, 2, 0, 0),
   Budget(TRUE, 0, 0, 0, 1, 1, 1, 0),  Budget(TRUE, 1, 0, 1, 2, 1, 0, 0)}

\* No fault at all and three bytes to write; no fault but one SYN sent twice.
CalmBudgets == {Budget(TRUE, 0, 0, 0, 0, 3, 0, 0)}
RetryBudgets == {Budget(FALSE, 0, 0, 1, 0, 0, 0, 1)}
=============================================================================
