------------------------------ MODULE JobState ------------------------------
(***************************************************************************)
(* The durable job state machine: the states, the terminal ones and the    *)
(* map of legal edges, translated from jobs/state.py.  Pure data; every    *)
(* module that moves a job row extends it.                                 *)
(***************************************************************************)

JobStates == {"pending", "submitted", "running", "materializing",
              "ready", "failed", "expired", "cancelled"}

TERMINAL_STATES == {"ready", "failed", "expired", "cancelled"}

NonTerminal == JobStates \ TERMINAL_STATES

\* LEGAL_TRANSITIONS: the edges out of each state; a terminal state other
\* than "ready" has none.
LEGAL_TRANSITIONS ==
    [s \in JobStates |->
        CASE s = "pending"       -> {"submitted", "failed", "cancelled"}
          [] s = "submitted"     -> {"running", "failed", "cancelled"}
          [] s = "running"       -> {"materializing", "failed", "cancelled"}
          [] s = "materializing" -> {"ready", "failed"}
          [] s = "ready"         -> {"expired"}
          [] OTHER               -> {}]

\* assert_legal: the check every state change is routed through.
Legal(current, new) == new \in LEGAL_TRANSITIONS[current]
=============================================================================
