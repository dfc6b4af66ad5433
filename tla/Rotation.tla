------------------------------ MODULE Rotation ------------------------------
(***************************************************************************)
(* What a chat over several AI accounts promises its caller, whatever the  *)
(* order of the accounts and however they are stored: it asks each usable  *)
(* account at most once, gives up only when it has asked them all, says    *)
(* that the quota is used up only if an account said so, and does not come *)
(* back to an account that has refused for the day.                        *)
(***************************************************************************)
CONSTANTS Clients, Accounts

VARIABLES
    left,   \* accounts that the chat of each client has still to ask
    hit,    \* whether one of those asked had its quota used up
    spent,  \* accounts that have refused the process of the client for the day
    said    \* how the last chat of the client ended

rotation == <<left, hit, spent, said>>

Ends == {"answered", "aborted", "exhausted", "failed"}

Init ==
    /\ left = [c \in Clients |-> {}] /\ hit = [c \in Clients |-> FALSE]
    /\ spent = [c \in Clients |-> {}] /\ said = [c \in Clients |-> "new"]

\* A chat begins with accounts that have not refused
Ask(c, S) ==
    /\ said[c] # "asking" /\ S \cap spent[c] = {}
    /\ left' = [left EXCEPT ![c] = S]
    /\ said' = [said EXCEPT ![c] = IF S = {} THEN "no_accounts" ELSE "asking"]
    /\ UNCHANGED <<hit, spent>>

\* When a chat may end so, with rest still to ask
MayEnd(e, refuses, rest, hits) ==
    CASE e \in {"answered", "aborted"} -> ~refuses
      [] e = "exhausted" -> rest = {} /\ hits
      [] e = "failed" -> rest = {} /\ ~hits

\* One account is asked.  The next has its turn, or the chat ends, maybe with the
\* process and what it knows
Hear(c, a, refuses, quota) ==
    LET rest == left[c] \ {a}
        hits == hit[c] \/ quota
        knows == IF refuses THEN spent[c] \cup {a} ELSE spent[c]
    IN
    /\ said[c] = "asking" /\ a \in left[c] /\ (quota => refuses)
    /\ \/ /\ rest # {} /\ UNCHANGED said
          /\ left' = [left EXCEPT ![c] = rest] /\ hit' = [hit EXCEPT ![c] = hits]
          /\ spent' = [spent EXCEPT ![c] = knows]
       \/ /\ \E e \in Ends : MayEnd(e, refuses, rest, hits) /\ said' = [said EXCEPT ![c] = e]
          /\ left' = [left EXCEPT ![c] = {}] /\ hit' = [hit EXCEPT ![c] = FALSE]
          /\ \E s \in {knows, {}} : spent' = [spent EXCEPT ![c] = s]

\* A new process starts without a chat
Begin(c) ==
    /\ said[c] # "asking" /\ said' = [said EXCEPT ![c] = "new"]
    /\ spent' = [spent EXCEPT ![c] = {}] /\ UNCHANGED <<left, hit>>

\* The quotas are renewed
Midnight == spent' = [c \in Clients |-> {}] /\ UNCHANGED <<left, hit, said>>

Next ==
    \/ \E c \in Clients :
         \/ \E S \in SUBSET Accounts : Ask(c, S)
         \/ \E a \in Accounts, refuses, quota \in BOOLEAN : Hear(c, a, refuses, quota)
         \/ Begin(c)
    \/ Midnight

Spec == Init /\ [][Next]_rotation
=============================================================================
