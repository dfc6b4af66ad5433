---------------------------- MODULE MCCloudflareAI ----------------------------
(* An agent, a /cfai test and another /cfai command share the file of up to  *)
(* three accounts: one in use, one switched off, one only on the bridge.     *)
EXTENDS CloudflareAI

\* Each client is named for what it does
MCKind == [c \in Clients |-> c]
MCRounds == [c \in Clients |-> IF c = "agent" THEN 2 ELSE 0]
MCRuns == [c \in Clients |-> 1]
MCFile == [a \in Accounts |-> IF a = 3 THEN None ELSE [on |-> a = 1, burnt |-> FALSE, pri |-> 0]]
=============================================================================
