----------------------------- MODULE Isolation -----------------------------
(* A learner behind its isolation boundary: the proxy adapter the runtime    *)
(* calls, its correlated requests, the host process that serves them, and,   *)
(* when the boundary is relayed, the Gateway's relay between the two         *)
(* (packages/isolation/src/remote-adapter.ts, channel.ts, host.ts;           *)
(* packages/gateway/src/learner-relay.ts; the runtime's #callAdapter).       *)
(*                                                                           *)
(* The runtime makes one call after the other: in each turn a call of the    *)
(* turn path ("act" stands for observe, act, receive and on_outcome) and     *)
(* "update", the policy update. Time is counted in ticks since the call was  *)
(* made; a policy is the number of times it has changed.                     *)
EXTENDS Integers, Sequences, FiniteSets, SequencesExt

CONSTANTS
    Boundaries,     \* [link, timing]: "direct", the host is the proxy's peer, or
                    \* "relayed"; "normalized", answers are held until the
                    \* deadline, or "plain"
    Deadline,       \* ticks a call may take
    RetryBudget,    \* retries of a failed adapter call
    DirectTurns,    \* bound: turns of a run whose host is the proxy's peer
    RelayedTurns,   \* bound: turns of a relayed one
    MaxAppends      \* bound: private-ledger appends of the learner

ASSUME IsolationAssumption ==
    /\ Boundaries \subseteq [link : {"direct", "relayed"}, timing : {"normalized", "plain"}]
    /\ Deadline \in Nat \ {0} /\ {RetryBudget, DirectTurns, RelayedTurns, MaxAppends} \subseteq Nat

VARIABLES
    boundary,       \* [link, timing] of this learner
    proxy,          \* the call the runtime waits for, and the cached policy
    requests,       \* on the way to the peer
    answers,        \* on the way back: answers, exported policies, ledger appends
    relay,          \* the relay's active call
    host,           \* calls the host is serving, the learner's policy
    private         \* private-ledger events: the turn each is stamped with

isoVars == <<boundary, proxy, requests, answers, relay, host, private>>

LastTurn == IF boundary.link = "direct" THEN DirectTurns ELSE RelayedTurns

NoCall == [id |-> 0, method |-> "none", turn |-> 0]

NoAnswer == [kind |-> "none", id |-> 0, of |-> NoCall, ok |-> FALSE, policy |-> 0]

Normalized == boundary.timing = "normalized" /\ proxy.call.method = "act"

Waiting == proxy.at \in {"call", "export"}

---------------------------------------------------------------------------
(* The proxy *)

\* A request is numbered; a closed connection refuses it.
Request(method) == [id |-> proxy.counter + 1, method |-> method, turn |-> proxy.turn]

BeginCall ==
    /\ proxy.at = "idle" /\ proxy.turn <= LastTurn
    /\ LET call == Request(proxy.next) IN
       IF proxy.closed
       THEN /\ proxy' = [proxy EXCEPT !.at = "returned", !.result = "unavailable",
                                      !.call = call, !.elapsed = 0]
            /\ UNCHANGED requests
       ELSE /\ proxy' = [proxy EXCEPT !.at = "call", !.call = call, !.waitsFor = call.id,
                                      !.counter = @ + 1, !.elapsed = 0, !.answer = NoAnswer]
            /\ requests' = Append(requests, call)
    /\ UNCHANGED <<boundary, answers, relay, host, private>>

\* The timer of a request may fire a tick late, which only matters to a call
\* that has one deadline for all of its requests.
Tick ==
    /\ proxy.at \in {"call", "export", "held"}
    /\ proxy.elapsed < IF Normalized THEN Deadline + 1 ELSE Deadline
    /\ proxy' = [proxy EXCEPT !.elapsed = @ + 1]
    /\ UNCHANGED <<boundary, requests, answers, relay, host, private>>

\* The outcome of a call; a normalized one is held until its deadline.
Settle(state, result) ==
    [state EXCEPT !.result = result,
                  !.at = IF Normalized THEN "held" ELSE "returned"]

Release ==
    /\ proxy.at = "held" /\ proxy.elapsed >= Deadline
    /\ proxy' = [proxy EXCEPT !.at = "returned"]
    /\ UNCHANGED <<boundary, requests, answers, relay, host, private>>

\* Mutant: an answer settles whatever call is pending.
AnyPending(answer) == Waiting

\* An answer settles the pending call with its number, and no other.
Pending(answer) == Waiting /\ answer.id = proxy.waitsFor


\* The policy the host says it has is fetched when it is not the cached one.
Fetch(answer) ==
    IF Normalized /\ proxy.elapsed >= Deadline
    THEN /\ proxy' = Settle([proxy EXCEPT !.answer = answer], "deadline")
         /\ UNCHANGED requests
    ELSE /\ proxy' = [proxy EXCEPT !.at = "export", !.answer = answer,
                                   !.counter = @ + 1, !.waitsFor = proxy.counter + 1,
                                   !.elapsed = IF Normalized THEN @ ELSE 0]
         /\ requests' = Append(requests, Request("export"))

\* The policy fetched must be the one announced.
Announced(policy) == policy = proxy.answer.policy

\* A message of the peer. What answers no pending call is dropped; an append is
\* served whatever became of the connection.
Receive ==
    /\ answers # <<>>
    /\ answers' = Tail(answers)
    /\ LET answer == Head(answers) IN
       \/ /\ answer.kind = "append"
          /\ private' = Append(private, [stamp |-> proxy.turn, of |-> answer.of])
          /\ host' = [host EXCEPT !.serving = {[c EXCEPT !.asked = FALSE] : c \in @}]
          /\ UNCHANGED <<proxy, requests>>
       \/ /\ answer.kind # "append" /\ ~Pending(answer)
          /\ UNCHANGED <<proxy, requests, private, host>>
       \/ /\ answer.kind # "append" /\ Pending(answer) /\ ~answer.ok
          /\ proxy' = Settle([proxy EXCEPT !.answer = answer], "host error")
          /\ UNCHANGED <<requests, private, host>>
       \/ /\ answer.kind = "answer" /\ Pending(answer) /\ answer.ok
          /\ IF answer.policy = proxy.cached
             THEN /\ proxy' = Settle([proxy EXCEPT !.answer = answer],
                                     IF Normalized /\ proxy.elapsed > Deadline
                                     THEN "deadline" ELSE "value")
                  /\ UNCHANGED requests
             ELSE Fetch(answer)
          /\ UNCHANGED <<private, host>>
       \/ /\ answer.kind = "policy" /\ Pending(answer) /\ answer.ok
          /\ proxy' = IF ~Announced(answer.policy)
                      THEN Settle(proxy, "violation")
                      ELSE Settle([proxy EXCEPT !.cached = answer.policy],
                                  IF Normalized /\ proxy.elapsed > Deadline
                                  THEN "deadline" ELSE "value")
          /\ UNCHANGED <<requests, private, host>>
    /\ UNCHANGED <<boundary, relay>>

\* The budget of the request is over; its number is abandoned.
DeadlineExceeded ==
    /\ Waiting /\ proxy.elapsed >= Deadline
    /\ proxy' = Settle(proxy, "deadline")
    /\ UNCHANGED <<boundary, requests, answers, relay, host, private>>

\* A connection that closes fails the call in flight.
Closed(state) ==
    LET closed == [state EXCEPT !.closed = TRUE] IN
    IF Waiting THEN Settle(closed, "unavailable") ELSE closed

---------------------------------------------------------------------------
(* The runtime *)

NextTurn(state) == [state EXCEPT !.turn = @ + 1, !.next = "act", !.attempt = 0]

MayRetry == proxy.attempt < RetryBudget

\* A deadline on the turn path ends the adapter; any other failure is retried,
\* and so is the deadline of an update.
RuntimeTakes ==
    /\ proxy.at = "returned"
    /\ LET idle == [proxy EXCEPT !.at = "idle", !.result = "none", !.call = NoCall,
                                 !.answer = NoAnswer, !.elapsed = 0, !.waitsFor = 0]
           act == proxy.call.method = "act"
       IN
       CASE proxy.result = "value" ->
                proxy' = IF act THEN [idle EXCEPT !.next = "update", !.attempt = 0]
                         ELSE NextTurn(idle)
         [] proxy.result = "deadline" /\ act ->
                proxy' = [idle EXCEPT !.at = "quarantined", !.closed = TRUE]
         [] OTHER ->
                proxy' = IF MayRetry
                         THEN [idle EXCEPT !.attempt = @ + 1] ELSE NextTurn(idle)
    /\ UNCHANGED <<boundary, requests, answers, relay, host, private>>

---------------------------------------------------------------------------
(* The relay *)

Refusal(call) ==
    [kind |-> "answer", id |-> call.id, of |-> call, ok |-> FALSE, policy |-> 0]

Serving(call) == [call |-> call, done |-> FALSE, asked |-> FALSE]

\* A second call while one is active is refused and ends the boundary.
Busy == relay.active # NoCall

\* A policy is exported at once.
Exported(call) ==
    [kind |-> "policy", id |-> call.id, of |-> call, ok |-> TRUE, policy |-> host.policy]

\* The peer takes the next request: the host at once, or the relay for it.
Forward ==
    /\ requests # <<>> /\ ~relay.closed
    /\ requests' = Tail(requests)
    /\ LET call == Head(requests) IN
       IF boundary.link = "relayed" /\ Busy
       THEN /\ answers' = Append(answers, Refusal(call))
            /\ relay' = [relay EXCEPT !.closing = TRUE]
            /\ UNCHANGED host
       ELSE IF call.method = "export"
       THEN answers' = Append(answers, Exported(call)) /\ UNCHANGED <<host, relay>>
       ELSE /\ host' = [host EXCEPT !.serving = @ \cup {Serving(call)}]
            /\ relay' = IF boundary.link = "relayed"
                        THEN [relay EXCEPT !.active = call] ELSE relay
            /\ UNCHANGED answers
    /\ UNCHANGED <<boundary, proxy, private>>

\* Both of its connections end; the learner's calls go on unheard.
RelayCloses ==
    /\ relay.closing /\ ~relay.closed
    /\ relay' = [active |-> NoCall, closing |-> TRUE, closed |-> TRUE]
    /\ proxy' = Closed(proxy)
    /\ UNCHANGED <<boundary, requests, answers, host, private>>

---------------------------------------------------------------------------
(* The host *)

\* The learner's own work: an update changes the policy, a call of the turn
\* path may.
Work(c) ==
    /\ c \in host.serving /\ ~c.done /\ ~c.asked
    /\ \E changes \in IF c.call.method = "update" THEN {TRUE} ELSE BOOLEAN :
        host' = [host EXCEPT !.serving = (@ \ {c}) \cup {[c EXCEPT !.done = TRUE]},
                             !.policy = IF changes THEN @ + 1 ELSE @]
    /\ UNCHANGED <<boundary, proxy, requests, answers, relay, private>>

AnswerOf(c) ==
    [kind |-> "answer", id |-> c.call.id, of |-> c.call, ok |-> c.done, policy |-> host.policy]

\* A call that does not work answers with an error.
Respond(c) ==
    /\ c \in host.serving /\ ~c.asked
    /\ answers' = IF relay.closed THEN answers ELSE Append(answers, AnswerOf(c))
    /\ host' = [host EXCEPT !.serving = @ \ {c}]
    /\ relay' = IF relay.active = c.call THEN [relay EXCEPT !.active = NoCall] ELSE relay
    /\ UNCHANGED <<boundary, proxy, requests, private>>

\* The relay stamps an append with the turn of the call it has active.
Stamp == relay.active.turn

\* The learner appends to its private ledger in a call of the turn path, and
\* waits for the answer. The relay ends with an append that no call asked for.
LedgerAppend(c) ==
    /\ c \in host.serving /\ ~c.done /\ ~c.asked /\ c.call.method = "act"
    /\ host.appends < MaxAppends
    /\ LET appends == host.appends + 1 IN
       IF boundary.link = "direct"
       THEN /\ answers' = Append(answers, [NoAnswer EXCEPT !.kind = "append", !.of = c.call])
            /\ host' = [host EXCEPT !.serving = (@ \ {c}) \cup {[c EXCEPT !.asked = TRUE]},
                                    !.appends = appends]
            /\ UNCHANGED <<relay, private>>
       ELSE /\ ~relay.closed
            /\ host' = [host EXCEPT !.appends = appends]
            /\ IF Busy
               THEN /\ private' = Append(private, [stamp |-> Stamp, of |-> c.call])
                    /\ UNCHANGED relay
               ELSE /\ relay' = [relay EXCEPT !.closing = TRUE]
                    /\ UNCHANGED private
            /\ UNCHANGED answers
    /\ UNCHANGED <<boundary, proxy, requests>>

\* The host process ends; its channel closes.
HostExits ==
    /\ ~host.exited /\ ~proxy.closed
    /\ host' = [host EXCEPT !.serving = {}, !.exited = TRUE]
    /\ requests' = <<>>
    /\ relay' = [active |-> NoCall, closing |-> TRUE, closed |-> TRUE]
    /\ proxy' = Closed(proxy)
    /\ UNCHANGED <<boundary, answers, private>>

---------------------------------------------------------------------------

IsolationInit ==
    /\ boundary \in Boundaries
    /\ proxy = [at |-> "idle", call |-> NoCall, next |-> "act", turn |-> 1, attempt |-> 0,
                counter |-> 0, waitsFor |-> 0, elapsed |-> 0, result |-> "none",
                answer |-> NoAnswer, cached |-> 0, closed |-> FALSE]
    /\ requests = <<>> /\ answers = <<>> /\ private = <<>>
    /\ relay = [active |-> NoCall, closing |-> FALSE, closed |-> FALSE]
    /\ host = [serving |-> {}, policy |-> 0, appends |-> 0, exited |-> FALSE]

\* A host whose boundary is closed is killed; until then nobody hears it.
HostSteps ==
    /\ ~proxy.closed
    /\ \E c \in host.serving : Work(c) \/ Respond(c) \/ LedgerAppend(c)

ProxySteps == BeginCall \/ Release \/ Receive \/ DeadlineExceeded \/ RuntimeTakes

IsolationNext ==
    \/ ProxySteps \/ Tick
    \/ Forward \/ RelayCloses
    \/ HostSteps \/ HostExits

IsolationSpec == IsolationInit /\ [][IsolationNext]_isoVars

\* Time passes and the runtime's process works; the host owes nothing.
TimerSteps == Tick \/ Release \/ DeadlineExceeded

IsolationFairness == WF_isoVars(TimerSteps)

---------------------------------------------------------------------------
(* Properties *)

Calls == [id : Nat, method : {"none", "act", "update", "export"}, turn : 0..LastTurn]

\* Every variable has the shape the code gives it.
IsolationTypeOK ==
    /\ proxy.at \in {"idle", "call", "export", "held", "returned", "quarantined"}
    /\ proxy.call \in Calls /\ proxy.turn \in 1..LastTurn + 1 /\ proxy.elapsed \in 0..Deadline + 1
    /\ proxy.attempt \in 0..RetryBudget /\ proxy.waitsFor <= proxy.counter
    /\ requests \in Seq(Calls) /\ relay.active \in Calls
    /\ \A c \in host.serving : c.call \in Calls /\ {c.done, c.asked} \subseteq BOOLEAN
    /\ proxy.cached <= host.policy

\* A call that returns a value returns the answer the host gave to that call:
\* an answer that comes after its deadline never settles a later call
\* (channel.ts:331).
AnswersItsOwnCall ==
    (proxy.at = "returned" /\ proxy.result = "value") => proxy.answer.of = proxy.call

\* The policy the proxy holds after a call is the one that the answer to the
\* call names, whatever updates of earlier, abandoned calls do meanwhile
\* (remote-adapter.ts syncPolicy).
HoldsAnnouncedPolicy ==
    (proxy.at = "returned" /\ proxy.result = "value") => proxy.cached = proxy.answer.policy

\* What a normalized call returns, and whether it returns anything, does not
\* show in when it returns (remote-adapter.ts padToDeadline).
ReturnsOnSchedule ==
    (proxy.at = "returned" /\ Normalized /\ ~proxy.closed) => proxy.elapsed >= Deadline

\* Behind the relay a learner works for one call at a time
\* (learner-relay.ts forward) ...
RelayedOneAtATime ==
    boundary.link = "relayed" =>
        Cardinality(host.serving) <= 1

\* ... and every event of the private ledger is stamped with the turn of the
\* call that appended it (learner-relay.ts handleBabyRequest). Without the relay
\* an append that was on its way when its host ended is stamped with the turn
\* the runtime has reached (nursery-runtime.ts:4137).
StampedWithItsTurn ==
    boundary.link = "relayed" => \A i \in DOMAIN private : private[i].stamp = private[i].of.turn

\* A call comes back to the runtime whatever the host does (channel.ts request).
CallsReturn == Waiting ~> proxy.at \in {"returned", "idle", "quarantined"}

\* What the proxy relies on when it fetches a policy: "Only one call is ever in
\* flight per host" (remote-adapter.ts:694).
OneCallInFlight == Cardinality(host.serving) <= 1

(* What the boundary of a learner promises of its calls.                     *)
IsolationSafe ==
    /\ IsolationTypeOK /\ AnswersItsOwnCall /\ HoldsAnnouncedPolicy /\ ReturnsOnSchedule
    /\ RelayedOneAtATime /\ StampedWithItsTurn
=============================================================================
