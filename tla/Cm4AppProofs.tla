---------------------------- MODULE Cm4AppProofs ----------------------------
(***************************************************************************)
(* Machine-checked proofs about Cm4App, for both images and every value   *)
(* of NETWORK_CONN_MAX_RETRY.                                              *)
(***************************************************************************)
EXTENDS Cm4App, TLAPS

USE RetryAssumption

\* The locations from which the Wi-Fi task has entered the retry loop.
AfterLoop == {"w_loop", "w_connect", "w_done", "deleted", "hook_done", "assert"}

\* The locations of wifi_connect.
WifiLocs == {"w_on", "w_loop", "w_connect", "w_done"}

\* TypeOK, strengthened: only the factory image creates the state
\* manager; only the image's network task runs wifi_connect; and
\* WIFI_ConnectAP is called only while nw_retry_count is below the limit,
\* so one more failure keeps the counter within 1..NETWORK_CONN_MAX_RETRY.
TypeInv ==
    /\ TypeOK
    /\ pc["daemon"] = "create_mgr" => app = "factory"
    /\ app = "blinky" => pc["mgr"] = "none"
    /\ pc["daemon"] \in WifiLocs => app = "blinky"
    /\ pc["mgr"] \in WifiLocs => app = "factory"
    /\ pc["led"] \notin WifiLocs
    /\ pc[NetTask] = "w_connect" => retry < NetworkConnMaxRetry

\* The strengthening of ProvisionOnlyWhenConnected: the counter is 1
\* until the loop starts and below the limit at its head, and the state
\* manager is created once.
ConnInv ==
    /\ TypeInv
    /\ pc["daemon"] \in {"hook", "create_mgr"} => pc["mgr"] = "none"
    /\ pc[NetTask] \notin AfterLoop => retry = 1
    /\ pc[NetTask] = "w_loop" => retry < NetworkConnMaxRetry
    /\ ProvisionOnlyWhenConnected

\* The Wi-Fi task is one of the tasks.
LEMMA NetTaskType == app \in {"factory", "blinky"} => NetTask \in Tasks
BY DEF NetTask, Tasks

\* The initial state satisfies the strengthened type invariant.
LEMMA TypeInvInit == Init => TypeInv
<1> SUFFICES ASSUME Init PROVE TypeInv
  OBVIOUS
<1>1. pc \in [Tasks -> Locations]
  BY DEF Init, InitPc, Tasks, Locations
<1>2. retry \in 1..NetworkConnMaxRetry
  BY DEF Init
<1>3. TypeOK
  BY <1>1, <1>2 DEF Init, TypeOK
<1>4. pc[NetTask] # "w_connect"
  BY DEF Init, InitPc, NetTask, Tasks
<1>5. QED
  BY <1>3, <1>4 DEF TypeInv, Init, InitPc, WifiLocs, Tasks

\* Every step preserves the strengthened type invariant.
LEMMA TypeInvStep == TypeInv /\ [Next]_vars => TypeInv'
<1> SUFFICES ASSUME TypeInv, [Next]_vars PROVE TypeInv'
  OBVIOUS
<1>. USE DEF TypeInv, TypeOK, ConfigAssert, Tasks, Locations, WifiLocs
<1>1. CASE FactoryStartupHook
  BY <1>1 DEF FactoryStartupHook, NetTask
<1>2. CASE BlinkyStartupHook
  BY <1>2 DEF BlinkyStartupHook, NetTask
<1>3. CASE StateMgrTaskInit
  <2>1. CASE pc' = [pc EXCEPT !["daemon"] = "hook_done", !["mgr"] = "gpio"]
    BY <1>3, <2>1 DEF StateMgrTaskInit, NetTask
  <2>2. CASE ConfigAssert("daemon")
    BY <1>3, <2>2 DEF StateMgrTaskInit, NetTask
  <2>3. QED
    BY <1>3, <2>1, <2>2 DEF StateMgrTaskInit
<1>4. CASE ButtonInit
  BY <1>4 DEF ButtonInit, NetTask
<1>5. CASE LedTaskInit
  <2>1. CASE pc' = [pc EXCEPT !["mgr"] = "wait", !["led"] = "run"]
    BY <1>5, <2>1 DEF LedTaskInit, WaitEntryClears, NetTask
  <2>2. CASE ConfigAssert("mgr")
    BY <1>5, <2>2 DEF LedTaskInit, NetTask
  <2>3. QED
    BY <1>5, <2>1, <2>2 DEF LedTaskInit
<1>6. CASE NotifyWait
  BY <1>6 DEF NotifyWait, NetTask
<1>7. CASE ButtonIsr
  BY <1>7 DEF ButtonIsr, NetTask
<1>8. CASE WifiOn("mgr")
  <2>1. CASE pc' = [pc EXCEPT !["mgr"] = "w_loop"]
    BY <1>8, <2>1 DEF WifiOn, NetTask
  <2>2. CASE ConfigAssert("mgr")
    BY <1>8, <2>2 DEF WifiOn, NetTask
  <2>3. QED
    BY <1>8, <2>1, <2>2 DEF WifiOn
<1>9. CASE WifiLoopHead("mgr")
  BY <1>9 DEF WifiLoopHead, NetTask
<1>10. CASE WifiConnect("mgr")
  <2>0. /\ app = "factory" /\ retry < NetworkConnMaxRetry
        /\ UNCHANGED <<app, irqReg, notified, led>>
    BY <1>10 DEF WifiConnect, NetTask
  <2>1. CASE connected' = TRUE /\ pc' = [pc EXCEPT !["mgr"] = "w_done"]
             /\ UNCHANGED retry
    <3>1. retry' \in 1..NetworkConnMaxRetry
      BY <2>0, <2>1
    <3>2. TypeOK'
      BY <2>0, <2>1, <3>1, Zenon
    <3>3. QED
      BY <2>0, <2>1, <3>2 DEF NetTask
  <2>2. CASE connected' = FALSE /\ retry' = retry + 1
             /\ retry' >= NetworkConnMaxRetry /\ ConfigAssert("mgr")
    <3>1. retry' \in 1..NetworkConnMaxRetry
      BY <2>0, <2>2
    <3>2. TypeOK'
      BY <2>0, <2>2, <3>1, Zenon
    <3>3. QED
      BY <2>0, <2>2, <3>2 DEF NetTask
  <2>3. CASE connected' = FALSE /\ retry' = retry + 1
             /\ retry' < NetworkConnMaxRetry
             /\ pc' = [pc EXCEPT !["mgr"] = "w_loop"]
    <3>1. retry' \in 1..NetworkConnMaxRetry
      BY <2>0, <2>3
    <3>2. TypeOK'
      BY <2>0, <2>3, <3>1, Zenon
    <3>3. QED
      BY <2>0, <2>3, <3>2 DEF NetTask
  <2>4. retry' >= NetworkConnMaxRetry \/ retry' < NetworkConnMaxRetry
    BY <1>10 DEF WifiConnect, NextRetry
  <2>5. QED
    BY <1>10, <2>1, <2>2, <2>3, <2>4, Zenon
    DEF WifiConnect, NextRetry, RetryLimitReached
<1>11. CASE WifiOn("daemon")
  BY <1>11 DEF WifiOn, NetTask
<1>12. CASE WifiLoopHead("daemon")
  BY <1>12 DEF WifiLoopHead, NetTask
<1>13. CASE WifiConnect("daemon")
  <2>0. /\ app = "blinky" /\ retry < NetworkConnMaxRetry
        /\ UNCHANGED <<app, irqReg, notified, led>>
    BY <1>13 DEF WifiConnect, NetTask
  <2>1. CASE connected' = TRUE /\ pc' = [pc EXCEPT !["daemon"] = "w_done"]
             /\ UNCHANGED retry
    <3>1. retry' \in 1..NetworkConnMaxRetry
      BY <2>0, <2>1
    <3>2. TypeOK'
      BY <2>0, <2>1, <3>1, Zenon
    <3>3. QED
      BY <2>0, <2>1, <3>2 DEF NetTask
  <2>2. CASE connected' = FALSE /\ retry' = retry + 1
             /\ retry' >= NetworkConnMaxRetry /\ ConfigAssert("daemon")
    <3>1. retry' \in 1..NetworkConnMaxRetry
      BY <2>0, <2>2
    <3>2. TypeOK'
      BY <2>0, <2>2, <3>1, Zenon
    <3>3. QED
      BY <2>0, <2>2, <3>2 DEF NetTask
  <2>3. CASE connected' = FALSE /\ retry' = retry + 1
             /\ retry' < NetworkConnMaxRetry
             /\ pc' = [pc EXCEPT !["daemon"] = "w_loop"]
    <3>1. retry' \in 1..NetworkConnMaxRetry
      BY <2>0, <2>3
    <3>2. TypeOK'
      BY <2>0, <2>3, <3>1, Zenon
    <3>3. QED
      BY <2>0, <2>3, <3>2 DEF NetTask
  <2>4. retry' >= NetworkConnMaxRetry \/ retry' < NetworkConnMaxRetry
    BY <1>13 DEF WifiConnect, NextRetry
  <2>5. QED
    BY <1>13, <2>1, <2>2, <2>3, <2>4, Zenon
    DEF WifiConnect, NextRetry, RetryLimitReached
<1>14. CASE NetworkInitDone
  BY <1>14 DEF NetworkInitDone, NetTask
<1>15. CASE BlinkyHookDone
  BY <1>15 DEF BlinkyHookDone, NetTask
<1>16. CASE LedTaskToggle
  BY <1>16 DEF LedTaskToggle, NetTask
<1>17. CASE IdleHookToggle
  BY <1>17 DEF IdleHookToggle, NetTask
<1>18. CASE Stopped \/ UNCHANGED vars
  BY <1>18 DEF Stopped, vars, NetTask
<1>19. QED
  BY <1>1, <1>2, <1>3, <1>4, <1>5, <1>6, <1>7, <1>8, <1>9, <1>10, <1>11, <1>12, <1>13, <1>14, <1>15, <1>16, <1>17, <1>18
     DEF Next, DaemonStep, MgrStep, LedStep, WifiSteps, PrvWifiConnect

\* Every variable keeps its type: the task locations, the Boolean flags and
\* nw_retry_count in 1..NETWORK_CONN_MAX_RETRY.
THEOREM TypeCorrect == Spec => []TypeOK
BY TypeInvInit, TypeInvStep, PTL DEF Spec, TypeInv

\* With a retry limit of at least 2, the initial state satisfies ConnInv.
LEMMA ConnInvInit == NetworkConnMaxRetry >= 2 /\ Init => ConnInv
<1> SUFFICES ASSUME NetworkConnMaxRetry >= 2, Init PROVE ConnInv
  OBVIOUS
<1>1. TypeInv
  BY TypeInvInit
<1>2. QED
  BY <1>1 DEF Init, InitPc, ConnInv, ProvisionOnlyWhenConnected, AfterLoop,
     NetTask, Tasks

\* With a retry limit of at least 2, every step preserves ConnInv.
LEMMA ConnInvStep ==
    NetworkConnMaxRetry >= 2 /\ ConnInv /\ [Next]_vars => ConnInv'
<1> SUFFICES ASSUME NetworkConnMaxRetry >= 2, ConnInv, [Next]_vars
             PROVE ConnInv'
  OBVIOUS
<1>0. TypeInv'
  BY TypeInvStep DEF ConnInv
<1>. USE <1>0 DEF ConnInv, TypeInv, TypeOK, ConfigAssert, Tasks, AfterLoop,
                 WifiLocs, ProvisionOnlyWhenConnected
<1>1. CASE FactoryStartupHook
  BY <1>1 DEF FactoryStartupHook, NetTask
<1>2. CASE BlinkyStartupHook
  BY <1>2 DEF BlinkyStartupHook, NetTask
<1>3. CASE StateMgrTaskInit
  BY <1>3 DEF StateMgrTaskInit, NetTask
<1>4. CASE ButtonInit
  BY <1>4 DEF ButtonInit, NetTask
<1>5. CASE LedTaskInit
  BY <1>5 DEF LedTaskInit, WaitEntryClears, NetTask
<1>6. CASE NotifyWait
  BY <1>6 DEF NotifyWait, NetTask
<1>7. CASE ButtonIsr
  BY <1>7 DEF ButtonIsr, NetTask
<1>8. CASE WifiOn("mgr")
  BY <1>8 DEF WifiOn, NetTask
<1>9. CASE WifiLoopHead("mgr")
  BY <1>9 DEF WifiLoopHead, NetTask
<1>10. CASE WifiConnect("mgr")
  BY <1>10 DEF WifiConnect, NextRetry, RetryLimitReached, NetTask
<1>11. CASE WifiOn("daemon")
  BY <1>11 DEF WifiOn, NetTask
<1>12. CASE WifiLoopHead("daemon")
  BY <1>12 DEF WifiLoopHead, NetTask
<1>13. CASE WifiConnect("daemon")
  BY <1>13 DEF WifiConnect, NextRetry, RetryLimitReached, NetTask
<1>14. CASE NetworkInitDone
  BY <1>14 DEF NetworkInitDone, NetTask
<1>15. CASE BlinkyHookDone
  BY <1>15 DEF BlinkyHookDone, NetTask
<1>16. CASE LedTaskToggle
  BY <1>16 DEF LedTaskToggle, NetTask
<1>17. CASE IdleHookToggle
  BY <1>17 DEF IdleHookToggle, NetTask
<1>18. CASE Stopped \/ UNCHANGED vars
  BY <1>18 DEF Stopped, vars, NetTask
<1>19. QED
  BY <1>1, <1>2, <1>3, <1>4, <1>5, <1>6, <1>7, <1>8, <1>9, <1>10, <1>11, <1>12, <1>13, <1>14, <1>15, <1>16, <1>17, <1>18
     DEF Next, DaemonStep, MgrStep, LedStep, WifiSteps, PrvWifiConnect

\* Provisioning (vDevModeKeyProvisioning) and the demos run only after a
\* successful WIFI_ConnectAP, in both images, whenever
\* NETWORK_CONN_MAX_RETRY is at least 2.  (With 1 the loop body never
\* runs and the task goes on unconnected; TLC shows that case.)
THEOREM ProvisionCorrect ==
    NetworkConnMaxRetry >= 2 => (Spec => []ProvisionOnlyWhenConnected)
<1> SUFFICES ASSUME NetworkConnMaxRetry >= 2
             PROVE Spec => []ProvisionOnlyWhenConnected
  OBVIOUS
<1>1. Init => ConnInv
  BY ConnInvInit
<1>2. ConnInv /\ [Next]_vars => ConnInv'
  BY ConnInvStep
<1>3. ConnInv => ProvisionOnlyWhenConnected
  BY DEF ConnInv
<1>4. QED
  BY <1>1, <1>2, <1>3, PTL DEF Spec

-----------------------------------------------------------------------------
\* No task changes which image is running: do_boot chose it, and only a
\* power cycle (outside Cm4App) starts another.
LEMMA AppFixed == [Next]_vars => app' = app
<1>1. CASE DaemonStep
  BY <1>1 DEF DaemonStep, FactoryStartupHook, StateMgrTaskInit,
     BlinkyStartupHook, PrvWifiConnect, BlinkyHookDone, WifiSteps, WifiOn,
     WifiLoopHead, WifiConnect, ConfigAssert
<1>2. CASE MgrStep
  BY <1>2 DEF MgrStep, ButtonInit, LedTaskInit, NotifyWait, WifiSteps,
     WifiOn, WifiLoopHead, WifiConnect, NetworkInitDone, ConfigAssert
<1>3. CASE LedStep \/ ButtonIsr \/ Stopped \/ UNCHANGED vars
  BY <1>3 DEF LedStep, LedTaskToggle, IdleHookToggle, ButtonIsr, Stopped,
     vars
<1>4. QED
  BY <1>1, <1>2, <1>3 DEF Next

-----------------------------------------------------------------------------
(* The refinement of WifiPolicy.                                           *)

\* The refinement mapping's image of the state.
Net == NetPhaseOf(pc[NetTask])
WVars == <<Net, connected, retry - 1>>

\* A step that keeps the image running, the link, the counter and the
\* network task's phase is a WifiPolicy stutter.
LEMMA QuietNet ==
    ASSUME UNCHANGED <<app, connected, retry>>,
           NetPhaseOf(pc'[NetTask]) = NetPhaseOf(pc[NetTask])
    PROVE  [WP!Next]_WVars
BY DEF WVars, Net, NetTask

\* A step of a task other than the network task that keeps the image,
\* the link and the counter is a WifiPolicy stutter.
LEMMA OtherTaskQuiet ==
    ASSUME NEW t \in Tasks, t # NetTask, app' = app,
           pc' = [pc EXCEPT ![t] = pc'[t]], UNCHANGED <<connected, retry>>,
           pc \in [Tasks -> Locations]
    PROVE  [WP!Next]_WVars
<1>1. pc'[NetTask] = pc[NetTask]
  BY DEF NetTask, Tasks
<1>2. QED
  BY <1>1, QuietNet DEF NetTask

\* The network task blocking in vAssertCalled from a phase other than
\* stopped, touching neither the link nor the counter, is WifiPolicy's
\* Halt.
LEMMA HaltNet ==
    ASSUME app' = app, pc[NetTask] # "assert", pc'[NetTask] = "assert",
           UNCHANGED <<connected, retry>>
    PROVE  [WP!Next]_WVars
<1>1. Net # "stopped" /\ Net' = "stopped"
  BY DEF Net, NetPhaseOf, NetTask
<1>2. QED
  BY <1>1 DEF WP!Next, WP!Halt, WVars, Net

\* Every step of Cm4App is a WifiPolicy step under the mapping, whenever
\* NETWORK_CONN_MAX_RETRY is at least 2.
LEMMA WifiRefineStep ==
    ASSUME NetworkConnMaxRetry >= 2, ConnInv, [Next]_vars
    PROVE  [WP!Next]_WVars
<1>. USE DEF ConnInv, TypeInv, TypeOK, WifiLocs, ProvisionOnlyWhenConnected
<1>0. app' = app /\ NetTask' = NetTask
  BY AppFixed DEF NetTask
<1>1. CASE FactoryStartupHook
  BY <1>1, OtherTaskQuiet DEF FactoryStartupHook, NetTask, Tasks
<1>2. CASE BlinkyStartupHook
  BY <1>2, QuietNet DEF BlinkyStartupHook, NetTask, NetPhaseOf
<1>3. CASE StateMgrTaskInit
  <2>1. app = "factory" /\ NetTask = "mgr"
    BY <1>3 DEF StateMgrTaskInit, NetTask
  <2>2. CASE pc' = [pc EXCEPT !["daemon"] = "hook_done", !["mgr"] = "gpio"]
    <3>1. pc["mgr"] = "none"
      BY <1>3 DEF StateMgrTaskInit
    <3>2. NetPhaseOf(pc'[NetTask]) = NetPhaseOf(pc[NetTask])
      BY <2>1, <2>2, <3>1 DEF NetPhaseOf, Tasks
    <3>3. QED
      BY <1>3, <3>2, QuietNet DEF StateMgrTaskInit
  <2>3. CASE ConfigAssert("daemon")
    BY <1>3, <2>1, <2>3, OtherTaskQuiet DEF StateMgrTaskInit, ConfigAssert, Tasks
  <2>4. QED
    BY <1>3, <2>2, <2>3 DEF StateMgrTaskInit
<1>4. CASE ButtonInit
  <2>1. app = "factory" /\ NetTask = "mgr"
    BY <1>4 DEF ButtonInit, NetTask
  <2>2. NetPhaseOf(pc'[NetTask]) = NetPhaseOf(pc[NetTask])
    BY <1>4, <2>1 DEF ButtonInit, NetPhaseOf, Tasks
  <2>3. QED
    BY <1>4, <2>2, QuietNet DEF ButtonInit
<1>5. CASE LedTaskInit
  <2>1. app = "factory" /\ NetTask = "mgr" /\ pc["mgr"] = "led_init"
    BY <1>5 DEF LedTaskInit, NetTask
  <2>2. CASE pc' = [pc EXCEPT !["mgr"] = "wait", !["led"] = "run"]
    <3>1. NetPhaseOf(pc'[NetTask]) = NetPhaseOf(pc[NetTask])
      BY <2>1, <2>2 DEF NetPhaseOf, Tasks
    <3>2. QED
      BY <1>5, <3>1, QuietNet DEF LedTaskInit
  <2>3. CASE ConfigAssert("mgr")
    <3>1. pc[NetTask] # "assert" /\ pc'[NetTask] = "assert"
      BY <2>1, <2>3 DEF ConfigAssert, Tasks
    <3>2. QED
      BY <1>0, <1>5, <3>1, HaltNet DEF LedTaskInit
  <2>4. QED
    BY <1>5, <2>2, <2>3 DEF LedTaskInit
<1>6. CASE NotifyWait
  <2>1. pc["mgr"] = "wait" /\ pc'["mgr"] \in {"w_on", "wait"}
        /\ pc' = [pc EXCEPT !["mgr"] = pc'["mgr"]]
    BY <1>6 DEF NotifyWait
  <2>2. NetPhaseOf(pc'[NetTask]) = NetPhaseOf(pc[NetTask])
    BY <2>1 DEF NetTask, NetPhaseOf, Tasks
  <2>3. QED
    BY <1>6, <2>2, QuietNet DEF NotifyWait
<1>7. CASE ButtonIsr
  BY <1>7, QuietNet DEF ButtonIsr
<1>8. ASSUME NEW t \in {"mgr", "daemon"}, WifiOn(t)
      PROVE  [WP!Next]_WVars
  <2>1. t = NetTask /\ pc[t] = "w_on"
    BY <1>8 DEF WifiOn, NetTask
  <2>2. CASE pc' = [pc EXCEPT ![t] = "w_loop"]
    <3>1. /\ pc'[t] = "w_loop"
          /\ UNCHANGED <<connected, retry>>
      BY <1>8, <2>1, <2>2 DEF WifiOn, Tasks
    <3>2. Net = "idle"
      BY <2>1 DEF Net, NetPhaseOf
    <3>3. Net' = "connecting"
      BY <1>0, <2>1, <3>1 DEF Net, NetPhaseOf
    <3>4. WP!Start
      BY <3>1, <3>2, <3>3 DEF WP!Start, Net
    <3>5. QED
      BY <3>4 DEF WP!Next
  <2>3. CASE ConfigAssert(t)
    <3>1. pc[NetTask] # "assert" /\ pc'[NetTask] = "assert"
      BY <2>1, <2>3 DEF ConfigAssert, Tasks
    <3>2. QED
      BY <1>0, <1>8, <3>1, HaltNet DEF WifiOn
  <2>4. QED
    BY <1>8, <2>2, <2>3 DEF WifiOn
<1>9. ASSUME NEW t \in {"mgr", "daemon"}, WifiLoopHead(t)
      PROVE  [WP!Next]_WVars
  <2>1. t = NetTask
    BY <1>9 DEF WifiLoopHead, NetTask
  <2>2. pc'[t] = "w_connect" /\ pc[t] = "w_loop"
    BY <1>9, <2>1 DEF WifiLoopHead, Tasks
  <2>3. NetPhaseOf(pc'[NetTask]) = NetPhaseOf(pc[NetTask])
    BY <2>1, <2>2 DEF NetPhaseOf
  <2>4. QED
    BY <1>0, <1>9, <2>3, QuietNet DEF WifiLoopHead
<1>10. ASSUME NEW t \in {"mgr", "daemon"}, WifiConnect(t)
       PROVE  [WP!Next]_WVars
  <2>1. t = NetTask /\ pc[t] = "w_connect" /\ retry < NetworkConnMaxRetry
    BY <1>10 DEF WifiConnect, NetTask
  <2>2. Net = "connecting"
    BY <1>10, <2>1 DEF Net, NetPhaseOf
  <2>3. CASE connected' = TRUE
    <3>1. pc'[t] = "w_done" /\ UNCHANGED retry
      BY <1>10, <2>3 DEF WifiConnect, Tasks
    <3>2. Net' = "online"
      BY <1>0, <2>1, <3>1 DEF Net, NetPhaseOf
    <3>3. WP!Connect
      BY <2>2, <2>3, <3>1, <3>2 DEF WP!Connect, Net
    <3>4. QED
      BY <3>3 DEF WP!Next
  <2>4. CASE connected' = FALSE
    <3>1. retry' = retry + 1
      BY <1>10, <2>4 DEF WifiConnect, NextRetry
    <3>2. pc'[t] \in {"w_loop", "assert"}
      BY <1>10, <2>4 DEF WifiConnect, ConfigAssert, Tasks
    <3>3. Net' \in {"connecting", "stopped"}
      BY <1>0, <2>1, <3>2 DEF Net, NetPhaseOf
    <3>4. (retry - 1) + 1 < NetworkConnMaxRetry /\ retry' - 1 = (retry - 1) + 1
      BY <2>1, <3>1
    <3>5. WP!Fail
      BY <2>2, <2>4, <3>3, <3>4 DEF WP!Fail, Net
    <3>6. QED
      BY <3>5 DEF WP!Next
  <2>5. QED
    BY <1>10, <2>3, <2>4 DEF WifiConnect
<1>11. CASE NetworkInitDone
  <2>1. /\ "mgr" = NetTask /\ pc["mgr"] = "w_done" /\ pc'["mgr"] = "deleted"
        /\ UNCHANGED <<connected, retry>>
    BY <1>11 DEF NetworkInitDone, NetTask, Tasks
  <2>2. Net = "online" /\ Net' = "done" /\ connected
    BY <1>0, <1>11, <2>1 DEF Net, NetPhaseOf
  <2>3. WP!Provision
    BY <2>1, <2>2 DEF WP!Provision, Net
  <2>4. QED
    BY <2>3 DEF WP!Next
<1>12. CASE BlinkyHookDone
  <2>1. /\ "daemon" = NetTask /\ pc["daemon"] = "w_done"
        /\ pc'["daemon"] = "hook_done"
        /\ UNCHANGED <<connected, retry>>
    BY <1>12 DEF BlinkyHookDone, NetTask, Tasks
  <2>2. Net = "online" /\ Net' = "done" /\ connected
    BY <1>0, <1>12, <2>1 DEF Net, NetPhaseOf
  <2>3. WP!Provision
    BY <2>1, <2>2 DEF WP!Provision, Net
  <2>4. QED
    BY <2>3 DEF WP!Next
<1>13. CASE LedTaskToggle \/ IdleHookToggle
  BY <1>13, QuietNet DEF LedTaskToggle, IdleHookToggle
<1>14. CASE Stopped \/ UNCHANGED vars
  BY <1>14, QuietNet DEF Stopped, vars
<1>15. QED
  BY <1>1, <1>2, <1>3, <1>4, <1>5, <1>6, <1>7, <1>8, <1>9, <1>10, <1>11,
     <1>12, <1>13, <1>14
     DEF Next, DaemonStep, MgrStep, LedStep, WifiSteps, PrvWifiConnect

\* Whenever NETWORK_CONN_MAX_RETRY is at least 2, the network task of both
\* images keeps WifiPolicy's promises (the property ImplementsWifiPolicy
\* of run cm4_apps): provisioning only over a link a connection attempt
\* brought up, fewer than NETWORK_CONN_MAX_RETRY failed attempts, and no
\* phase entered twice.
THEOREM RefinesWifiPolicy ==
    NetworkConnMaxRetry >= 2 => (Spec => ImplementsWifiPolicy)
<1> SUFFICES ASSUME NetworkConnMaxRetry >= 2 PROVE Spec => WP!Spec
  BY DEF ImplementsWifiPolicy
<1>1. Init => WP!Init
  <2> SUFFICES ASSUME Init PROVE WP!Init
    OBVIOUS
  <2>1. pc[NetTask] \in {"none", "hook"}
    BY DEF Init, InitPc, NetTask, Tasks
  <2>2. Net = "idle" /\ retry - 1 = 0 /\ connected = FALSE
    BY <2>1 DEF Init, Net, NetPhaseOf
  <2>3. QED
    BY <2>2 DEF WP!Init, Net
<1>2. Init => ConnInv
  BY ConnInvInit
<1>3. ConnInv /\ [Next]_vars => ConnInv'
  BY ConnInvStep
<1>4. ConnInv /\ [Next]_vars => [WP!Next]_WP!wvars
  BY WifiRefineStep DEF WP!wvars, WVars, Net
<1>5. QED
  BY <1>1, <1>2, <1>3, <1>4, PTL DEF Spec, WP!Spec

=============================================================================
