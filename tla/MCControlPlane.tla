--------------------------- MODULE MCControlPlane ---------------------------
(* Two admins, one legacy route without an owner and one source more.  One  *)
(* of the patches has two routes of a source, and not the legacy one.       *)
EXTENDS ControlPlane, TLC

CONSTANTS s1, s2

Legacy == [src |-> s1, owner |-> NoOne, public |-> TRUE, paused |-> FALSE, author |-> NoOne]
MCRepo == [on |-> [m \in {Control, Forward} |-> TRUE], routes |-> {Legacy}]

MCProfile == [m \in {Control} |-> TRUE]

Ask(act, m) == [act |-> act, mod |-> m]
Patches(m, on, routes, reload) ==
    [act |-> "patch", mod |-> m, on |-> on, routes |-> routes, reload |-> reload]
Two == [src : {s2}, owner : {NoOne}, public : {TRUE}, paused : BOOLEAN, author : {NoOne}]
MCAsked ==
    {Ask("on", Forward), Ask("off", Forward), Ask("ping", Forward),
     Patches(Forward, FALSE, NoFile, TRUE), Patches(Control, NoFile, NoFile, TRUE),
     Patches(Forward, NoFile, Two, FALSE)}
    \cup [act : {"pause", "resume"}, src : {s1}]

Admin == Permutations(Admins)
=============================================================================
