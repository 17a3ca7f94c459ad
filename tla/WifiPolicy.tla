----------------------------- MODULE WifiPolicy -----------------------------
(***************************************************************************)
(* What the CM4 network task promises (spec: the factory application      *)
(* connects to the configured access point, then provisions and runs the  *)
(* demos), independently of how wifi_connect / prvWifiConnect loop:        *)
(*  - the task turns the radio on once, then makes connection attempts;   *)
(*  - it comes online only through an attempt that succeeded, and goes on *)
(*    to provisioning only while that link is up;                          *)
(*  - fewer than NETWORK_CONN_MAX_RETRY attempts fail, and the task never *)
(*    goes back to an earlier phase;                                       *)
(*  - an assertion in the task may stop it at any point.                   *)
(***************************************************************************)
EXTENDS Naturals

CONSTANT MaxRetry   \* NETWORK_CONN_MAX_RETRY

Phases == {"idle", "connecting", "online", "done", "stopped"}

VARIABLES
    net,        \* the phase of the network task
    link,       \* the last connection attempt succeeded
    failures    \* connection attempts that failed so far

wvars == <<net, link, failures>>

Init ==
    /\ net = "idle"
    /\ link = FALSE
    /\ failures = 0

\* The radio comes on and the attempts begin.
Start ==
    /\ net = "idle"
    /\ net' = "connecting"
    /\ UNCHANGED <<link, failures>>

\* An attempt fails; the task tries again, or stops.
Fail ==
    /\ net = "connecting"
    /\ failures + 1 < MaxRetry
    /\ failures' = failures + 1
    /\ link' = FALSE
    /\ net' \in {"connecting", "stopped"}

\* An attempt succeeds.
Connect ==
    /\ net = "connecting"
    /\ link' = TRUE
    /\ net' = "online"
    /\ UNCHANGED failures

\* Provisioning and the demos run over the link.
Provision ==
    /\ net = "online"
    /\ link
    /\ net' = "done"
    /\ UNCHANGED <<link, failures>>

\* An assertion blocks the task for good.
Halt ==
    /\ net # "stopped"
    /\ net' = "stopped"
    /\ UNCHANGED <<link, failures>>

Next == Start \/ Fail \/ Connect \/ Provision \/ Halt

Spec == Init /\ [][Next]_wvars

=============================================================================
