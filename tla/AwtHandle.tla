----------------------------- MODULE AwtHandle ------------------------------
(***************************************************************************)
(* What a client of awt.h may rely on: a handle is open until one awt_close *)
(* takes effect; runs of awt_exec are serialised; a close takes effect      *)
(* between runs, never during one; no run starts afterwards.  A client that *)
(* lets another call overlap with the end of an awt_close has no promise    *)
(* left.  AwtSession implements this specification.                         *)
(***************************************************************************)
CONSTANTS Threads, NoThread

VARIABLES
    state,  \* "open", "closed" or "misused"
    user    \* thread whose run is in progress, or NoThread

Init == state = "open" /\ user = NoThread

Begin(t) ==
    /\ state = "open" /\ user = NoThread
    /\ user' = t
    /\ UNCHANGED state

End(t) ==
    /\ user = t
    /\ user' = NoThread
    /\ UNCHANGED state

Close ==
    /\ state = "open" /\ user = NoThread
    /\ state' = "closed"
    /\ UNCHANGED user

Misuse ==
    /\ state' = "misused"
    /\ user' = NoThread

Next == Close \/ Misuse \/ \E t \in Threads : Begin(t) \/ End(t)

Spec == Init /\ [][Next]_<<state, user>>
=============================================================================
