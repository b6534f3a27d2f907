----------------------------- MODULE MCChatOrder -----------------------------
(***************************************************************************)
(* Small instances of AiChat and ComputeOrder, which share no state: a     *)
(* behaviour is one of a chat page (two messages over two visits, after a  *)
(* chat stored before), or of a visit of one reference graph of three      *)
(* computed fields, the other at rest.                                     *)
(***************************************************************************)
EXTENDS AiChat, ComputeOrder

CONSTANTS f1, f2, f3

VARIABLE part

allVars == <<chatVars, visitVars, part>>

NothingAsked == ChatInit /\ page.id = 0
NothingComputed ==
    /\ refs = [k \in Keys |-> {}] /\ left = [k \in Keys |-> {}] /\ stack = <<>>
    /\ state = [k \in Keys |-> "done"] /\ order = <<f1, f2, f3>> /\ status = "ordered"

PartsInit ==
    \/ part = "chat" /\ ChatInit /\ NothingComputed
    \/ part = "order" /\ NothingAsked /\ VisitInit

InChat(A) == part = "chat" /\ A /\ UNCHANGED <<visitVars, part>>
InOrder(A) == part = "order" /\ A /\ UNCHANGED <<chatVars, part>>

PartsNext == InChat(ChatNext) \/ InOrder(VisitNext)

(* The fairness of each.                                                     *)
PartsSpec ==
    /\ PartsInit /\ [][PartsNext]_allVars
    /\ WF_allVars(InChat(\E n \in Turns : Serve(n) \/ Timeout(n) \/ Follow(n)))
    /\ WF_allVars(InOrder(VisitNext))
=============================================================================
