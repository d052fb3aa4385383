------------------------------- MODULE MCCrawler -------------------------------
(* Values for model checking Crawler: a small site with a cycle, and two     *)
(* addresses that differ in their capitals alone: to the server they are two *)
(* (it knows no type for the second), to the disk they are one file.         *)
EXTENDS Crawler, TLC

Site == {"root", "css", "CSS"}
SiteKind == [u \in Site |-> CASE u = "root" -> "html" [] u = "css" -> "css" [] OTHER -> "other"]
SiteLinks == [u \in Site |->
    CASE u = "root" -> <<"css", "CSS">> [] u = "css" -> <<"root">> [] OTHER -> <<>>]
SiteFiles == {"root", "css"}
SiteFileOf == [u \in Site |-> IF u = "CSS" THEN "css" ELSE u]

ThreadNumbers == 1 .. 2
MoreThreadNumbers == 1 .. 3

(* Once an aborted thread has acted, the properties say nothing more.  Two   *)
(* more bounds: at most one aborted thread is still alive, and of a second   *)
(* start, a cancel and an exception at most two happen.                      *)
Undisturbed ==
    /\ ~interfered
    /\ Cardinality({t \in doomed : Alive(t)}) <= 1
    /\ starts + cancels + faults <= 3
================================================================================
