------------------------- MODULE MCPageConversions -------------------------
(* The workspace of conversions, one call of the optical model, or the       *)
(* readings of one page: one of the three moves in a behaviour.              *)
EXTENDS MCPagesWorkspace, MCPageDecoding, MCPageReads

MCNoWorkspace ==
    /\ source = NotThere /\ code = NotThere /\ bundle = NotThere /\ target = NotThere
    /\ conversion = NoConversion /\ conversions = 0
MCNoDecoding ==
    page = Untold /\ stream = [tokens |-> <<>>, finish |-> "none"] /\ call = NoCall /\ rescued = Untold /\ answer = Untold
MCNoReads ==
    /\ paper = Unread /\ first = Unread /\ detail = Unread /\ base = Unread
    /\ result = Unread /\ owed = {} /\ readStage = Unread

MCInit ==
    \/ MCPagesInit /\ MCNoDecoding /\ MCNoReads
    \/ DecodingInit /\ MCNoWorkspace /\ MCNoReads
    \/ ReadsInit /\ MCNoWorkspace /\ MCNoDecoding
MCNext ==
    \/ source # NotThere /\ MCPagesNext /\ UNCHANGED <<decodingVars, readVars>>
    \/ page # Untold /\ DecodingNext /\ UNCHANGED <<pagesVars, readVars>>
    \/ paper # Unread /\ ReadsNext /\ UNCHANGED <<pagesVars, decodingVars>>
=============================================================================
