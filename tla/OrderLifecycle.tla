--------------------------- MODULE OrderLifecycle ---------------------------
(***************************************************************************)
(* What the order management system promises its callers, whatever order   *)
(* states and transition table it uses inside: an order is opened at most  *)
(* once, a live order may absorb fills, an order that is over stays over,  *)
(* and a fill is taken in at most once and only while its order is live.   *)
(* Oms is shown to implement this specification.                           *)
(***************************************************************************)
CONSTANTS ClientOrderIds,  \* ids the program may give its orders
          FillIds          \* ids the venue may give its fills

VARIABLES phase,           \* what has become of each client order id
          taken            \* the fills taken in, as <<order, fill>> pairs

lifecycleVars == <<phase, taken>>

Phases == {"unused", "live", "over"}

LifecycleInit ==
    /\ phase = [c \in ClientOrderIds |-> "unused"]
    /\ taken = {}

(* An id is used for the first time, by a submit or by an adoption. *)
Begin(c) ==
    /\ phase[c] = "unused"
    /\ \E p \in {"live", "over"} : phase' = [phase EXCEPT ![c] = p]
    /\ UNCHANGED taken

(* A live order takes in a fill it has not seen; the fill may complete it. *)
TakeFill(c, f) ==
    /\ phase[c] = "live"
    /\ <<c, f>> \notin taken
    /\ taken' = taken \union {<<c, f>>}
    /\ \E p \in {"live", "over"} : phase' = [phase EXCEPT ![c] = p]

(* A live order ends without a fill: canceled, rejected, expired. *)
End(c) ==
    /\ phase[c] = "live"
    /\ phase' = [phase EXCEPT ![c] = "over"]
    /\ UNCHANGED taken

LifecycleNext ==
    \E c \in ClientOrderIds :
        \/ Begin(c)
        \/ End(c)
        \/ \E f \in FillIds : TakeFill(c, f)

LifecycleSpec == LifecycleInit /\ [][LifecycleNext]_lifecycleVars
=============================================================================
