---------------------------- MODULE UartRecovery ----------------------------
(***************************************************************************)
(* UartUpdate when, after any history of cuts, losses and abandoned        *)
(* sessions, the surroundings calm down.  From then on the user also lets  *)
(* the device finish what an earlier session left it with before starting  *)
(* the next one: without that pause every session can be ended by the late *)
(* answer to the one before, for ever.                                     *)
(***************************************************************************)
EXTENDS UartUpdate

VARIABLE calm  \* no fault will happen any more

CalmDown == ~calm /\ calm' = TRUE /\ UNCHANGED vars

LiveInit == Init /\ calm = FALSE

\* The user switches a device off and on again that does nothing.
SwitchOff == mode = "stuck" /\ PowerCut /\ UNCHANGED hostVars

Quiet == wire = NoFrame /\ rx = NoFrame /\ exec = NoFrame

LiveNext ==
  \/ CalmDown
  \/ (HostStep \/ DeviceStep) /\ UNCHANGED calm
  \/ User /\ (calm => Quiet) /\ UNCHANGED calm
  \/ SwitchOff /\ UNCHANGED calm
  \/ ~calm /\ Fault /\ UNCHANGED calm

\* The UpdateThread runs, poll() returns at the latest after 8 s, the device's
\* loop runs and power comes back.  Nothing obliges the user, or a fault.
LiveSpec ==
  /\ LiveInit /\ [][LiveNext]_<<vars, calm>>
  /\ WF_<<vars, calm>>(HostStep /\ UNCHANGED calm)
  /\ WF_<<vars, calm>>(PowerOn /\ UNCHANGED <<hostVars, calm>>)
  /\ WF_<<vars, calm>>(Receive /\ UNCHANGED <<hostVars, calm>>)
  /\ WF_<<vars, calm>>(Execute /\ UNCHANGED <<hostVars, calm>>)

\* Every session ends, faults or no faults: the tool never waits for ever.
SessionEnds == (pc # "idle") ~> (pc = "idle")

Running == mode = "app" /\ \E img \in Images : Matches(img)

\* No history leaves the device beyond repair: once it is calm and the user does
\* not stop trying, nor leaves it stuck in __boot_failed, the device runs a complete
\* image again and again.
Recovers ==
  (<>calm /\ []<>(pc # "idle") /\ []<>(mode # "stuck")) => []<>Running
=============================================================================
