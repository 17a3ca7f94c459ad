------------------------------- MODULE Cm4App -------------------------------
(***************************************************************************)
(* The FreeRTOS applications the bootloader hands the CM4 to.              *)
(*                                                                         *)
(* Factory app (src/factory_cm4): the daemon task's startup hook creates  *)
(* the state-manager task; that task enables the button event, creates    *)
(* the LED task, waits for the button notification, then runs             *)
(* network_init: wifi_connect with its retry loop, provisioning and the   *)
(* demos, and deletes itself.                                              *)
(*                                                                         *)
(* Blinky app (src/blinky_cm4/main.c): the startup hook itself runs       *)
(* prvWifiConnect (the same retry loop), provisioning and the demos; the  *)
(* idle hook toggles the LED.                                              *)
(*                                                                         *)
(* configASSERT is vAssertCalled: it masks interrupts and loops for ever  *)
(* around vTaskDelay, whose critical sections unmask them again, so the   *)
(* calling task blocks for good (location "assert") while the other     *)
(* tasks and the ISRs go on.  Tasks interleave freely: FreeRTOS          *)
(* time-slices the equal-priority state-manager and LED tasks, and the    *)
(* daemon task blocks after its hook.                                      *)
(***************************************************************************)
EXTENDS Naturals

CONSTANT NetworkConnMaxRetry    \* NETWORK_CONN_MAX_RETRY

ASSUME RetryAssumption == NetworkConnMaxRetry \in Nat \ {0}

\* The FreeRTOS tasks: the timer/daemon task running the startup hook,
\* the state manager (factory app only) and the LED toggler (the LED task
\* of the factory app, the idle hook of the blinky app).
Tasks == {"daemon", "mgr", "led"}

\* Control locations of the tasks.
Locations == {"none", "hook", "create_mgr", "hook_done", "gpio", "led_init",
              "wait", "w_on", "w_loop", "w_connect", "w_done", "deleted",
              "run", "assert"}

VARIABLES
    app,        \* the image do_boot started: "factory" or "blinky"
    pc,         \* control location of each task
    irqReg,     \* the button falling-edge event is enabled
    notified,   \* bit 0 of the state manager's notification value
    retry,      \* nw_retry_count of the Wi-Fi loop
    connected,  \* the last WIFI_ConnectAP succeeded
    led         \* the user LED is on

vars == <<app, pc, irqReg, notified, retry, connected, led>>

\* The task that runs the Wi-Fi connection.
NetTask == IF app = "factory" THEN "mgr" ELSE "daemon"

-----------------------------------------------------------------------------
(* Helpers.                                                                *)

\* configASSERT(0) in task t: vAssertCalled never returns.
ConfigAssert(t) == pc' = [pc EXCEPT ![t] = "assert"]

\* xTaskNotifyWait(pdFALSE, ...): no bit is cleared on entry, so a
\* notification sent before the wait is kept.
WaitEntryClears(n) == n

\* Mutant: the test looks at a bit the ISR never sets.
ButtonEventOtherBit(n) == FALSE

\* `notified_val && USER_EVENT_DETECT_FLAG`: a logical, not a bitwise,
\* test, true for any non-zero value; the only notifier (the button ISR)
\* sets USER_EVENT_DETECT_FLAG alone, so the value is non-zero exactly
\* when that bit is set.
ButtonEvent(n) == n

\* Mutant: the retry counter is never advanced.
NextRetryStuck(n) == n

\* Mutant: the counter is advanced twice per failed attempt.
NextRetryTwice(n) == n + 2

\* nw_retry_count++.
NextRetry(n) == n + 1

\* Mutant: the retry limit tested with > instead of >=.
RetryLimitReachedLate(n) == n > NetworkConnMaxRetry

\* nw_retry_count >= NETWORK_CONN_MAX_RETRY.
RetryLimitReached(n) == n >= NetworkConnMaxRetry

-----------------------------------------------------------------------------
\* Where the tasks start in image a: the daemon task in its startup hook,
\* and in the blinky image the idle hook's LED toggling.
InitPc(a) ==
    [t \in Tasks |-> IF t = "daemon" THEN "hook"
                     ELSE IF t = "led" /\ a = "blinky" THEN "run" ELSE "none"]

(* main: board and logging initialisation, then the scheduler runs the     *)
(* daemon task, whose startup hook comes first.  The blinky app's idle    *)
(* hook toggles the LED from the start.                                    *)
Init ==
    /\ app \in {"factory", "blinky"}
    /\ pc = InitPc(app)
    /\ irqReg = FALSE
    /\ notified = FALSE
    /\ retry = 1
    /\ connected = FALSE
    /\ led = FALSE

(* Factory vApplicationDaemonTaskStartupHook: SYSTEM_Init, and only if it *)
(* succeeded state_mgr_task_init.                                          *)
FactoryStartupHook ==
    /\ app = "factory"
    /\ pc["daemon"] = "hook"
    /\ \E ok \in BOOLEAN :
          pc' = [pc EXCEPT !["daemon"] = IF ok THEN "create_mgr" ELSE "hook_done"]
    /\ UNCHANGED <<app, irqReg, notified, retry, connected, led>>

(* Blinky vApplicationDaemonTaskStartupHook up to prvWifiConnect: the     *)
(* result of SYSTEM_Init is not used.                                      *)
BlinkyStartupHook ==
    /\ app = "blinky"
    /\ pc["daemon"] = "hook"
    /\ pc' = [pc EXCEPT !["daemon"] = "w_on"]
    /\ UNCHANGED <<app, irqReg, notified, retry, connected, led>>

(* state_mgr_task_init: xTaskCreate, configASSERT(0) on failure.           *)
StateMgrTaskInit ==
    /\ pc["daemon"] = "create_mgr"
    /\ \/ pc' = [pc EXCEPT !["daemon"] = "hook_done", !["mgr"] = "gpio"]
       \/ ConfigAssert("daemon")
    /\ UNCHANGED <<app, irqReg, notified, retry, connected, led>>

(* state_mgr, lines 148-161: button GPIO, callback and falling-edge event. *)
ButtonInit ==
    /\ pc["mgr"] = "gpio"
    /\ irqReg' = TRUE
    /\ pc' = [pc EXCEPT !["mgr"] = "led_init"]
    /\ UNCHANGED <<app, notified, retry, connected, led>>

\* Mutant: led_task_init returns without creating the LED task.
LedTaskInitNoTask ==
    /\ pc["mgr"] = "led_init"
    /\ pc' = [pc EXCEPT !["mgr"] = "wait"]
    /\ notified' = WaitEntryClears(notified)
    /\ UNCHANGED <<app, irqReg, retry, connected, led>>

(* state_mgr, lines 163-177, with led_task_init: create the LED task      *)
(* (configASSERT(0) on failure), then enter xTaskNotifyWait.               *)
LedTaskInit ==
    /\ pc["mgr"] = "led_init"
    /\ \/ /\ pc' = [pc EXCEPT !["mgr"] = "wait", !["led"] = "run"]
          /\ notified' = WaitEntryClears(notified)
       \/ /\ ConfigAssert("mgr")
          /\ UNCHANGED notified
    /\ UNCHANGED <<app, irqReg, retry, connected, led>>

(* state_mgr, lines 172-190: the wait returns (pdPASS, portMAX_DELAY)    *)
(* once a bit is set, clearing all bits on exit; a button event ends the  *)
(* loop and the task calls network_init, anything else waits again.       *)
NotifyWait ==
    /\ pc["mgr"] = "wait"
    /\ notified
    /\ notified' = FALSE
    /\ pc' = [pc EXCEPT !["mgr"] = IF ButtonEvent(notified) THEN "w_on" ELSE "wait"]
    /\ UNCHANGED <<app, irqReg, retry, connected, led>>

(* user_button_callback: xTaskNotifyFromISR(..., eSetBits).               *)
ButtonIsr ==
    /\ irqReg
    /\ notified' = TRUE
    /\ UNCHANGED <<app, pc, irqReg, retry, connected, led>>

(* wifi_connect / prvWifiConnect up to the loop: WIFI_On, configASSERT(0) *)
(* if it fails.                                                            *)
WifiOn(t) ==
    /\ pc[t] = "w_on"
    /\ \/ pc' = [pc EXCEPT ![t] = "w_loop"]
       \/ ConfigAssert(t)
    /\ UNCHANGED <<app, irqReg, notified, retry, connected, led>>

(* `while (nw_retry_count < NETWORK_CONN_MAX_RETRY)`.                      *)
WifiLoopHead(t) ==
    /\ pc[t] = "w_loop"
    /\ pc' = [pc EXCEPT ![t] =
                 IF retry < NetworkConnMaxRetry THEN "w_connect" ELSE "w_done"]
    /\ UNCHANGED <<app, irqReg, notified, retry, connected, led>>

(* One iteration: WIFI_ConnectAP; on success WIFI_GetIP (its result only  *)
(* logged) and break; on failure count it and configASSERT(0) once the    *)
(* count reaches the limit.                                                *)
WifiConnect(t) ==
    /\ pc[t] = "w_connect"
    /\ \/ /\ connected' = TRUE
          /\ pc' = [pc EXCEPT ![t] = "w_done"]
          /\ UNCHANGED retry
       \/ /\ connected' = FALSE
          /\ retry' = NextRetry(retry)
          /\ IF RetryLimitReached(retry')
                THEN ConfigAssert(t)
                ELSE /\ pc' = [pc EXCEPT ![t] = "w_loop"]
    /\ UNCHANGED <<app, irqReg, notified, led>>

\* wifi_connect in task t: WIFI_On, then the retry loop.
WifiSteps(t) == WifiOn(t) \/ WifiLoopHead(t) \/ WifiConnect(t)

\* The blinky image's prvWifiConnect, a copy of wifi_connect, run by the
\* daemon task.
PrvWifiConnect == WifiSteps("daemon")

(* network_init after wifi_connect: vDevModeKeyProvisioning and           *)
(* DEMO_RUNNER_RunDemos; then state_mgr deletes itself (vTaskDelete).      *)
NetworkInitDone ==
    /\ pc["mgr"] = "w_done"
    /\ pc' = [pc EXCEPT !["mgr"] = "deleted"]
    /\ UNCHANGED <<app, irqReg, notified, retry, connected, led>>

(* Blinky startup hook after prvWifiConnect: vDevModeKeyProvisioning and  *)
(* DEMO_RUNNER_RunDemos, then the hook returns.                            *)
BlinkyHookDone ==
    /\ pc["daemon"] = "w_done"
    /\ pc' = [pc EXCEPT !["daemon"] = "hook_done"]
    /\ UNCHANGED <<app, irqReg, notified, retry, connected, led>>

(* led_task: toggle the user LED, vTaskDelay, for ever.                    *)
LedTaskToggle ==
    /\ app = "factory"
    /\ pc["led"] = "run"
    /\ led' = ~led
    /\ UNCHANGED <<app, pc, irqReg, notified, retry, connected>>

(* Blinky vApplicationIdleHook: toggle_user_led.                           *)
IdleHookToggle ==
    /\ app = "blinky"
    /\ pc["led"] = "run"
    /\ led' = ~led
    /\ UNCHANGED <<app, pc, irqReg, notified, retry, connected>>

\* The steps of each task.
DaemonStep ==
    \/ FactoryStartupHook \/ StateMgrTaskInit
    \/ BlinkyStartupHook \/ PrvWifiConnect \/ BlinkyHookDone
MgrStep ==
    ButtonInit \/ LedTaskInit \/ NotifyWait \/ WifiSteps("mgr") \/ NetworkInitDone
LedStep == LedTaskToggle \/ IdleHookToggle

\* Only the idle task runs when every task has ended, was never created
\* or is blocked in vAssertCalled.
Stopped ==
    /\ \A t \in Tasks : pc[t] \in {"none", "hook_done", "deleted", "assert"}
    /\ UNCHANGED vars

Next == DaemonStep \/ MgrStep \/ LedStep \/ ButtonIsr \/ Stopped

\* Every task that is ready eventually runs: FreeRTOS time-slices the
\* equal-priority tasks and the daemon task blocks after its hook.  The
\* button (ButtonIsr) and the Wi-Fi outcomes are not assumed to do
\* anything.
Fairness ==
    /\ WF_vars(DaemonStep)
    /\ WF_vars(MgrStep)
    /\ WF_vars(LedStep)

Spec == Init /\ [][Next]_vars
FairSpec == Spec /\ Fairness

-----------------------------------------------------------------------------
(* Properties.                                                             *)

\* The type invariant.
TypeOK ==
    /\ app \in {"factory", "blinky"}
    /\ pc \in [Tasks -> Locations]
    /\ irqReg \in BOOLEAN
    /\ notified \in BOOLEAN
    /\ retry \in 1..NetworkConnMaxRetry
    /\ connected \in BOOLEAN
    /\ led \in BOOLEAN

\* Provisioning and the demos start only on a connected network: once
\* wifi_connect has reported "Wi-Fi configuration successful", the last
\* WIFI_ConnectAP succeeded.
ProvisionOnlyWhenConnected ==
    pc[NetTask] \in {"w_done", "deleted", "hook_done"} => connected

\* A button press the state manager has been notified of is never lost:
\* the task eventually leaves its wait and starts the network (or has
\* itself asserted on the way there).
PressStartsNetwork ==
    notified ~> pc["mgr"] \notin {"gpio", "led_init", "wait"}

\* The user LED is the board's only sign of life before the button is
\* pressed: once SYSTEM_Init has succeeded in the factory image (from the
\* start in the blinky image), the LED eventually lights, unless the LED
\* task was never created because the task creating it asserted first.  An
\* assertion in the Wi-Fi loop blocks only its own task and is no excuse.
LedShowsLife ==
    (app = "blinky" \/ pc["daemon"] = "create_mgr")
        ~> (led \/ (pc["led"] = "none" /\ "assert" \in {pc["daemon"], pc["mgr"]}))

\* wifi_connect always ends: it connects, or gives up by asserting.
WifiConnectTerminates ==
    (pc[NetTask] = "w_on") ~> (pc[NetTask] \in {"deleted", "hook_done", "assert"})

\* NETWORK_CONN_MAX_RETRY is the number of connection attempts: when the
\* loop gives up by asserting, WIFI_ConnectAP has failed that often
\* (nw_retry_count starts at 1 and counts the failures).
GivesUpAfterMaxRetries ==
    (pc[NetTask] = "assert" /\ retry > 1) => retry - 1 = NetworkConnMaxRetry

-----------------------------------------------------------------------------
(* Refinement.                                                             *)

\* The phase of wifi_connect and network_init (blinky: of the startup
\* hook) that the network task is at.
NetPhaseOf(l) ==
    CASE l \in {"w_loop", "w_connect"} -> "connecting"
      [] l = "w_done"                  -> "online"
      [] l \in {"deleted", "hook_done"} -> "done"
      [] l = "assert"                  -> "stopped"
      [] OTHER                          -> "idle"

\* The network task seen through WifiPolicy: its phase is that of its
\* location (stopped once it blocks in vAssertCalled), the link is the
\* last WIFI_ConnectAP result, and the failed attempts are
\* nw_retry_count - 1.
WP == INSTANCE WifiPolicy
        WITH MaxRetry <- NetworkConnMaxRetry,
             net <- NetPhaseOf(pc[NetTask]),
             link <- connected,
             failures <- retry - 1

\* wifi_connect / prvWifiConnect and what follows keep WifiPolicy's
\* promises in both images: provisioning only over a link that an attempt
\* brought up, fewer than NETWORK_CONN_MAX_RETRY failed attempts, and no
\* phase entered twice.
ImplementsWifiPolicy == WP!Spec

=============================================================================
