-------------------------- MODULE MCAdminAccounts --------------------------
(* Two admins; the accounts are the first one's at the start, who may have  *)
(* begun another login of a1.                                               *)
EXTENDS AdminAccounts, TLC

CONSTANTS u1, u2, a1, s1

MCFirstOwner == [a \in Accounts |-> u1]
NoSession == [s \in Sessions |-> None]
Asked1 == [acc |-> a1, by |-> u1, phone |-> TRUE, otp |-> FALSE, old |-> FALSE,
           st |-> "awaiting_otp", res |-> "none"]
OneSession == [NoSession EXCEPT ![s1] = Asked1]
Managed == {"enable", "disable", "logout", "delete", "login"} \X {a1}
Beside == {"logout", "rename", "role"} \X (Accounts \ {a1})
MCUses == [u \in Users |-> IF u = u1 THEN Managed \cup Beside ELSE {<<"add", a1>>}]
Alike == Permutations(Slots)
=============================================================================
