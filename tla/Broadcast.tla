------------------------------ MODULE Broadcast ------------------------------
(***************************************************************************)
(* What apn_send promises its caller, with no connection, message or       *)
(* retry in sight: the tokens are decided in the order of the list, each   *)
(* once; the invalid ones are named; success is answered only when every   *)
(* token is decided.  With Lossy, tokens may be passed over in silence,    *)
(* but still none is notified twice or out of order.                       *)
(***************************************************************************)
EXTENDS Naturals

CONSTANTS
    N,          \* number of tokens
    Lossy       \* the service may lose notifications without telling

Index == 0 .. N - 1

VARIABLES
    kind,       \* kind[x]: "good", or a token the gateway does not accept
    delivered,  \* delivered[x]: how often device x was notified
    bounced,    \* tokens the gateway has refused
    blamed,     \* tokens handed to the caller as invalid
    answer      \* "none" until the call returns

bvars == <<kind, delivered, bounced, blamed, answer>>

Init ==
    /\ kind \in [Index -> {"good", "unknown", "malformed"}]
    /\ delivered = [x \in Index |-> 0]
    /\ bounced = {} /\ blamed = {} /\ answer = "none"

Decided(x) == delivered[x] > 0 \/ x \in bounced

\* The tokens are decided in order, and nothing behind x is decided yet.
Turn(x) ==
    /\ \A y \in Index : y >= x => ~Decided(y)
    /\ Lossy \/ \A y \in Index : y < x => Decided(y)

Deliver(x) ==
    /\ Turn(x) /\ kind[x] = "good"
    /\ delivered' = [delivered EXCEPT ![x] = 1]
    /\ UNCHANGED <<kind, bounced, blamed, answer>>

Bounce(x) ==
    /\ Turn(x) /\ kind[x] # "good"
    /\ bounced' = bounced \union {x}
    /\ UNCHANGED <<kind, delivered, blamed, answer>>

\* Success may only be answered when this holds.
Complete == Lossy \/ (/\ \A x \in Index : Decided(x)
                      /\ blamed' = bounced)

\* A refused token is handed over; when it was the last one to be decided, the
\* call returns in the same step.
Report(x) ==
    /\ answer = "none"
    /\ x \in bounced
    /\ blamed' = blamed \union {x}
    /\ answer' = "none" \/ (answer' = "SUCCESS" /\ Complete)
    /\ UNCHANGED <<kind, delivered, bounced>>

Answer ==
    /\ answer = "none"
    /\ answer' = "ERROR" \/ (answer' = "SUCCESS" /\ Complete)
    /\ UNCHANGED <<kind, delivered, bounced, blamed>>

Next ==
    \/ \E x \in Index : Deliver(x) \/ Bounce(x) \/ Report(x)
    \/ Answer

Spec == Init /\ [][Next]_bvars
=============================================================================
