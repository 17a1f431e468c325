----------------------------- MODULE StaffPages -----------------------------
(* A device of the shop's staff shows one page at a time, the kitchen's      *)
(* board or the dashboard, and a page begins anew when it is opened.  Here   *)
(* the choice is made once.                                                  *)
EXTENDS KdsBoard, Dashboard

VARIABLE shown  \* the page

staffVars == <<shown, vars, dashVars>>
OnBoard == shown = "board"
OnDashboard == shown = "dashboard"

\* The page that is not shown is in some state of its own.  Orders are
\* interchangeable: when they differ, the first one is further on.  Bound:
\* ready cards complete themselves only where the orders are alike at first.
StaffInit ==
    /\ shown \in {"board", "dashboard"} /\ Init /\ DashInit
    /\ LET first == CHOOSE o \in Orders : TRUE
       IN server[first] = "PendingPayment" => \A o \in Orders : server[o] = "PendingPayment"
    /\ auto => \A o, p \in Orders : server[o] = server[p]
    /\ OnDashboard => auto /\ \A o \in Orders : server[o] # "PendingPayment"

StaffNext == \/ OnBoard /\ Next /\ UNCHANGED <<shown, dashVars>>
             \/ OnDashboard /\ DashNext /\ UNCHANGED <<shown, vars>>

\* The timer polls for ever, requests end within REQUEST_TIMEOUT_MS, and what
\* waits for their answer goes on; the guard of a PATCH and the timer of a ready
\* order run out.  Nobody has to tap, choose or leave.
StaffFairness ==
    /\ WF_vars(OnBoard /\ TimerPoll)
    /\ \A p \in Polls : WF_vars(OnBoard /\ (Answer(p) \/ Apply(p)))
    /\ \A o \in Orders : /\ WF_vars(OnBoard /\ (Serve(o) \/ Agreed(o) \/ RollBack(o)))
                         /\ WF_vars(OnBoard /\ Expire(o)) /\ WF_vars(OnBoard /\ AutoComplete(o))
    /\ DashFairness

StaffSpec == StaffInit /\ [][StaffNext]_staffVars /\ StaffFairness
=============================================================================
