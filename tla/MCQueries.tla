----------------------------- MODULE MCQueries -----------------------------
(* An instance of Queries for TLC. The lines have two levels, of which the *)
(* first counts. The user's file has an age that would delete everything;  *)
(* the file of the project must prevail over it.                           *)
EXTENDS Queries

CONSTANT web

MCKinds    == {[stream |-> "stdout", text |-> {"ERROR", "WARN", "%"}]}
MCUser     == [max_age_days |-> -1, interval_hours |-> 0]
MCProjects == {[max_age_days |-> 1, interval_hours |-> 0]}
=============================================================================
