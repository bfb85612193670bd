---------------------------- MODULE MCReplication ----------------------------
(***************************************************************************)
(* A remote that gets plain commits, an invalid one and one that changes   *)
(* the server section, against local commits of which one disables pushes. *)
(***************************************************************************)
EXTENDS Replication

Kind(s, v, p) == [server |-> s, valid |-> v, push |-> p]

MCLocalKinds  == {Kind("s1", TRUE, TRUE), Kind("s1", FALSE, TRUE),
                  Kind("s1", TRUE, FALSE)}
MCRemoteKinds == {Kind("s1", TRUE, TRUE), Kind("s1", FALSE, TRUE),
                  Kind("s2", TRUE, TRUE)}
==============================================================================
