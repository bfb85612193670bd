---------------------------- MODULE DocumentRequests ----------------------------
(***************************************************************************)
(* What the retrieval queue promises the indexer about the embeddings of   *)
(* documents: an absent request can be submitted, a submitted one is       *)
(* answered or given up, a given-up one is tried again on demand, and any  *)
(* may be dropped.  An answer that was given may be followed by an error,  *)
(* which is how the queue treats a worker that reports a failure because   *)
(* the acknowledgement of its answer was lost; an error never becomes an   *)
(* answer by itself, and an absent request is never answered.              *)
(***************************************************************************)
CONSTANT Documents

VARIABLE request

States == {"absent", "pending", "answered", "failed"}

Init == request = [d \in Documents |-> "absent"]

Moves == { <<"absent", "pending">>,
           <<"pending", "answered">>, <<"pending", "failed">>,
           <<"answered", "failed">>,
           <<"failed", "pending">> }

(* One operation moves one request, or drops some. *)
Move == \E d \in Documents, s \in States :
          /\ <<request[d], s>> \in Moves
          /\ request' = [request EXCEPT ![d] = s]

Drop == \E D \in SUBSET Documents :
          request' = [d \in Documents |-> IF d \in D THEN "absent" ELSE request[d]]

Next == Move \/ Drop

Spec == Init /\ [][Next]_request

TypeOK == request \in [Documents -> States]
=================================================================================
