---------------------------- MODULE CommandLaw ----------------------------
(***************************************************************************)
(* The lifecycle law of one command queue: what the statuses of commands    *)
(* may do, whatever the kernel that moves them.  It is the table            *)
(* validTransitions() of kernel/commands.ts, plus the two ways a command    *)
(* enters the queue: as a proposal, or already committed, as the synthetic  *)
(* command of a direct verb or the compensating command are.                *)
(***************************************************************************)
CONSTANT Commands        \* command ids, minted by randomUUID

VARIABLE status          \* "none" until the queue first holds the command

Statuses == {"proposed", "validated", "approved", "committed", "rejected", "compensated"}

validTransitions ==
  [ proposed    |-> {"validated", "rejected"},
    validated   |-> {"approved", "committed", "rejected"},
    approved    |-> {"committed", "rejected"},
    committed   |-> {"compensated"},
    rejected    |-> {},
    compensated |-> {} ]

Init == status = [c \in Commands |-> "none"]

(* A command is first persisted proposed, or committed in one go.           *)
Enter(c) ==
  /\ status[c] = "none"
  /\ \E s \in {"proposed", "committed"} : status' = [status EXCEPT ![c] = s]

Move(c) ==
  /\ status[c] \in Statuses
  /\ \E s \in validTransitions[status[c]] : status' = [status EXCEPT ![c] = s]

(* A compensation is two moves at once: the compensating command d enters   *)
(* committed and the original c leaves committed.                           *)
Compensate(c, d) ==
  /\ status[c] = "committed"
  /\ status[d] = "none"
  /\ status' = [status EXCEPT ![c] = "compensated", ![d] = "committed"]

Next == \E c \in Commands : Enter(c) \/ Move(c) \/ \E d \in Commands : Compensate(c, d)

Spec == Init /\ [][Next]_status
===========================================================================
