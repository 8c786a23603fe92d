------------------------------ MODULE Clearances ------------------------------
(***************************************************************************)
(* The clearance tokens that have been spent (_SpentClearances, gateway/   *)
(* webspec/guard.py).                                                      *)
(*                                                                         *)
(* A token keeps how far its timestamp lies ahead of the gateway's clock   *)
(* (its lead, negative when it lies behind), and a spent token the seconds *)
(* since it was spent, saturated beyond the time it is remembered.         *)
(***************************************************************************)
EXTENDS Integers

CONSTANTS
    Tokens,             \* clearance tokens, each minted for one request and timestamp
    ClearanceTTL        \* CLEARANCE_TTL

ASSUME ClearanceAssumption == ClearanceTTL \in Nat

-----------------------------------------------------------------------------

\* Seconds a spent token is remembered.
Remembered == 2 * ClearanceTTL + 1

Leads == -(ClearanceTTL + 1) .. ClearanceTTL + 1

SpentAges == 0 .. Remembered + 1

\* Spent tokens and how long ago; a token that is not in the dictionary is at -1.
SpentTokens == [Tokens -> SpentAges \cup {-1}]

NoneSpent == [t \in Tokens |-> -1]

OlderSpent(sp) ==
    [t \in Tokens |-> IF sp[t] # -1 /\ sp[t] <= Remembered THEN sp[t] + 1 ELSE sp[t]]

\* Faulty variant: a token is remembered for its own validity only.
PurgeSpentEarly(sp) == [t \in Tokens |-> IF sp[t] > ClearanceTTL THEN -1 ELSE sp[t]]

PurgeSpent(sp) == [t \in Tokens |-> IF sp[t] > Remembered THEN -1 ELSE sp[t]]

\* A timestamp may lie on either side of the gateway's clock.
InTime(lead) == -ClearanceTTL <= lead /\ lead <= ClearanceTTL

IsSpent(sp, t) == PurgeSpent(sp)[t] # -1

SpendToken(sp, t) == IF IsSpent(sp, t) THEN PurgeSpent(sp) ELSE [PurgeSpent(sp) EXCEPT ![t] = 0]
===============================================================================
