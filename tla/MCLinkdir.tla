----------------------------- MODULE MCLinkdir -----------------------------
(* Two groups whose rights only a member sees, and a broadcast channel     *)
(* known by an invite link.  A search finds the groups; their messages     *)
(* hold the link, and each other's name.                                   *)
EXTENDS Linkdir, TLC

CONSTANTS one, two, behind

Open1 == [ident |-> 60, qual |-> 80, can |-> "unknown", inside |-> "yes", dead |-> FALSE,
          dense |-> TRUE, small |-> FALSE, link |-> FALSE]
\* Nobody may write and nobody does
Shut1 == [Open1 EXCEPT !.can = "no", !.inside = "no", !.dead = TRUE]

MCLooksOf == [ch \in Chats |-> IF ch = behind THEN {Shut1} ELSE {Open1}]
MCLimit == [a \in {"seed_read", "resolve_username", "invite_peek", "join"} |-> 1]

MCPlans == {<<"search">>, <<"snowball", "verify">>, <<"rerank">>}

\* The groups are alike
Symmetry == Permutations(Named)
=============================================================================
