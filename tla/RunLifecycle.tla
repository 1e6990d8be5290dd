---------------------------- MODULE RunLifecycle ----------------------------
(* The state machine of a run (packages/lifecycle/src/state-machine.ts), as  *)
(* data: the transitions that the table lists, and nothing else.             *)

RunStates == {"draft", "preregistered", "initializing", "running", "pausing",
              "paused", "resuming", "evaluating", "sealing", "sealing-blocked",
              "aborting", "sealed", "aborted-sealed", "forked-invalid"}

TerminalRunStates == {"sealed", "aborted-sealed", "forked-invalid"}

\* Every state that is neither draft nor terminal.
ActiveRunStates == RunStates \ (TerminalRunStates \cup {"draft"})

Arrow(from, event, to) == [from |-> from, event |-> event, to |-> to]

Transitions ==
    {Arrow("draft", "preregister", "preregistered"),
     Arrow("preregistered", "start", "initializing"),
     Arrow("initializing", "ready", "running"),
     Arrow("running", "pause", "pausing"),
     Arrow("pausing", "pause-complete", "paused"),
     Arrow("paused", "resume", "resuming"),
     Arrow("resuming", "resume-complete", "running"),
     Arrow("running", "begin-evaluation", "evaluating"),
     Arrow("evaluating", "evaluation-complete", "sealing"),
     Arrow("aborting", "abort-complete", "aborted-sealed"),
     Arrow("sealing", "seal-complete", "sealed"),
     Arrow("sealing", "seal-blocked", "sealing-blocked"),
     Arrow("aborting", "seal-blocked", "sealing-blocked"),
     Arrow("sealing-blocked", "seal-retry", "sealing"),
     Arrow("sealing-blocked", "abandon-recovery", "aborted-sealed")}
    \cup {Arrow(from, "abort", "aborting") :
            from \in {"running", "paused", "evaluating",
                      "preregistered", "initializing", "resuming"}}
    \cup {Arrow(from, "fork-detected", "forked-invalid") : from \in ActiveRunStates}

CanApply(state, event) ==
    \E t \in Transitions : t.from = state /\ t.event = event

\* apply(event), where the table lists it.
After(state, event) ==
    (CHOOSE t \in Transitions : t.from = state /\ t.event = event).to

IsTerminal(state) == state \in TerminalRunStates

AcceptsTurns(state) == state \in {"running", "evaluating"}
=============================================================================
