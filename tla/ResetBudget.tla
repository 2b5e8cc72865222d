----------------------------- MODULE ResetBudget -----------------------------
(***************************************************************************)
(* What HS promises about the processor resets it performs: each one is    *)
(* first counted, counting stops at a limit that the ground sets, and the  *)
(* count goes back to zero only on command or when it is lost.             *)
(***************************************************************************)
EXTENDS Naturals

CONSTANTS
  DefaultLimit,  \* the limit until the ground sets another
  Limits         \* those the ground may set

VARIABLES
  count,   \* resets counted
  limit,   \* resets allowed
  resets   \* resets performed since the count was last zero

vars == <<count, limit, resets>>

Init == count = 0 /\ limit = DefaultLimit /\ resets = 0

Charge ==
  /\ count < limit
  /\ count' = count + 1
  /\ UNCHANGED <<limit, resets>>

Perform ==
  /\ resets < count
  /\ resets' = resets + 1
  /\ UNCHANGED <<count, limit>>

Zero == count' = 0 /\ resets' = 0 /\ UNCHANGED limit

SetLimit == limit' \in Limits /\ UNCHANGED <<count, resets>>

Forget == count' = 0 /\ limit' = DefaultLimit /\ resets' = 0

Next == Charge \/ Perform \/ Zero \/ SetLimit \/ Forget

Spec == Init /\ [][Next]_vars

=============================================================================
