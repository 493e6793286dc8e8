----------------------------- MODULE EgressFetch -----------------------------
(***************************************************************************)
(* egressFetchWithConfig (src/egress/transport.ts) over the receipt        *)
(* history of EgressReceipts: each request awaits the receipt of a step    *)
(* before it takes the next one.  What the network does (DNS, response,    *)
(* socket error, abort) is the environment's choice at any moment.         *)
(*                                                                         *)
(* Requests of one process share its queue, so their receipts are flushed  *)
(* in groups; their continuations run on its event loop, never while a     *)
(* flush holds it.  The test-only dial hook is left out.                   *)
(***************************************************************************)
EXTENDS EgressReceipts

CONSTANTS Requests,   \* the fetches the processes start
          Owner       \* the process each of them runs in

Events == {"preflight_denied", "preflight_allowed", "dial_started",
           "response_received", "transport_failed"}

ASSUME ReceiptsAssumption == Receipts = Requests \X Events
ASSUME OwnerAssumption == Owner \in [Requests -> Procs]

VARIABLES stage,    \* how far each fetch has come
          broken    \* the dialed fetches whose socket errored or was aborted

fetchVars == <<stage, broken>>
vars == <<logVars, fetchVars>>

Reach(r, s) == stage' = [stage EXCEPT ![r] = s]

Resolved(r, ev) == promise[<<r, ev>>] = "resolved"
Told(r, ev) == promise[<<r, ev>>] \in {"resolved", "rejected"}

\* await receipt({event: ev}), leaving the fetch at stage s until it is settled.
Await(r, ev, s) == Queue(Owner[r], <<r, ev>>) /\ Reach(r, s) /\ UNCHANGED broken

\* Code after an await: runs on the owner's event loop once ev is settled.
Resume(r, ev, s) ==
    /\ pc[Owner[r]] = "idle"
    /\ Told(r, ev)
    /\ Reach(r, s)
    /\ UNCHANGED <<logVars, broken>>
-----------------------------------------------------------------------------
Preflight_NotAwaited(r) ==
    /\ stage[r] = "new"
    /\ \/ Await(r, "preflight_denied", "denying")
       \/ Await(r, "preflight_allowed", "resolving")

\* evaluateEgressPolicy decided; either decision is recorded first.
Preflight(r) ==
    /\ stage[r] = "new"
    /\ \/ Await(r, "preflight_denied", "denying")
       \/ Await(r, "preflight_allowed", "allowing")

\* A denied request is refused; an allowed one only if its receipt failed.
AfterPreflight(r) ==
    \/ stage[r] = "denying" /\ Resume(r, "preflight_denied", "refused")
    \/ /\ stage[r] = "allowing"
       /\ Resume(r, "preflight_allowed",
                 IF Resolved(r, "preflight_allowed") THEN "resolving" ELSE "refused")

ResolveTarget_DialsFirst(r) ==
    /\ stage[r] = "resolving"
    /\ \/ Await(r, "dial_started", "dialing")
       \/ Await(r, "transport_failed", "unresolved")

\* DNS answers: every address fits the target class, or the request is refused.
ResolveTarget(r) ==
    /\ stage[r] = "resolving"
    /\ \/ Await(r, "dial_started", "starting")
       \/ Await(r, "transport_failed", "unresolved")

AfterResolve(r) == stage[r] = "unresolved" /\ Resume(r, "transport_failed", "refused")

\* The socket is opened only once dial_started is on disk.
Dial(r) ==
    /\ stage[r] = "starting"
    /\ Resume(r, "dial_started", IF Resolved(r, "dial_started") THEN "dialing" ELSE "refused")

\* Response headers arrive; the body stays paused until the receipt is settled.
Respond(r) ==
    /\ stage[r] = "dialing"
    /\ Await(r, "response_received", "responding")

\* req 'error', once: a reset socket, an abort by the caller or its timeout.
\* It queues transport_failed behind anything this request already queued.
SocketError(r) ==
    /\ stage[r] \in {"dialing", "responding", "delivered"}
    /\ Queue(Owner[r], <<r, "transport_failed">>)
    /\ IF stage[r] = "dialing" THEN Reach(r, "erring") ELSE UNCHANGED stage
    /\ broken' = broken \cup {r}

Deliver_OnlyRecorded(r) ==
    /\ stage[r] = "responding"
    /\ Resolved(r, "response_received")
    /\ Resume(r, "response_received", "delivered")

\* The response goes to the caller once its receipt is on disk.  Promises of one
\* process settle in the order they were queued, so transport_failed never
\* settles before response_received: the response's own receipt decides.
Deliver(r) ==
    /\ stage[r] = "responding"
    /\ Resume(r, "response_received",
              IF Resolved(r, "response_received") THEN "delivered" ELSE "failed")

AfterError(r) == stage[r] = "erring" /\ Resume(r, "transport_failed", "failed")

Final == {"refused", "delivered", "failed", "lost"}

Stages == Final \cup {"new", "denying", "allowing", "resolving", "unresolved",
                      "starting", "dialing", "responding", "erring"}

\* A process that dies takes its fetches with it.
CrashOwner(p) ==
    /\ Crash(p)
    /\ stage' = [r \in Requests |->
                   IF Owner[r] = p /\ stage[r] \notin Final \cup {"new"} THEN "lost" ELSE stage[r]]
    /\ UNCHANGED broken
-----------------------------------------------------------------------------
Init == LogInit /\ stage = [r \in Requests |-> "new"] /\ broken = {}

\* The code's own steps of one fetch, once the environment let it proceed.
Continue(r) == AfterPreflight(r) \/ AfterResolve(r) \/ Dial(r) \/ Deliver(r) \/ AfterError(r)

Network(r) == ResolveTarget(r) \/ Respond(r) \/ SocketError(r)

LogStep ==
    /\ \/ \E p \in Procs : Progress(p) \/ StartVerify(p) \/ Restart(p) \/ IoFault(p)
       \/ \E p \in Procs : \E k \in 0 .. Len(batch[p]), cut \in Cuts : WritePartial(p, k, cut)
       \/ Operator
    /\ UNCHANGED fetchVars

Next ==
    \/ \E r \in Requests : Preflight(r) \/ Continue(r) \/ Network(r)
    \/ LogStep
    \/ \E p \in Procs : CrashOwner(p)

Spec == Init /\ [][Next]_vars

\* Microtasks run before the event loop takes more work, so a settled await
\* resumes whatever else the process is given.  The network is fair up to the
\* caller's timeout: DNS answers or fails, and a dialed request gets a response
\* or is aborted (proxy/server.ts arms upstreamTimeoutMs).
FairSpec ==
    /\ Spec
    /\ \A p \in Procs : WF_vars(Progress(p) /\ UNCHANGED fetchVars)
                     /\ SF_vars(Flush(p) /\ UNCHANGED fetchVars)
    /\ \A r \in Requests : SF_vars(Continue(r)) /\ SF_vars(ResolveTarget(r))
                        /\ SF_vars(Respond(r) \/ (stage[r] = "dialing" /\ SocketError(r)))
-----------------------------------------------------------------------------
\* Types, and the stages of a fetch agree with the receipts it has queued.
FetchTypeOK ==
    /\ stage \in [Requests -> Stages]
    /\ broken \subseteq Requests
    /\ \A r \in Requests : stage[r] = "new" => \A ev \in Events : promise[<<r, ev>>] = "none"

\* "no dial without a persisted receipt": a fetch that opened a socket has its
\* preflight and dial receipts whole in the history, one that reached its caller
\* its response receipt too.
NoDialWithoutReceipt ==
    \A r \in Requests :
        /\ stage[r] \in {"dialing", "responding", "erring", "delivered", "failed"} =>
              {<<r, "preflight_allowed">>, <<r, "dial_started">>} \subseteq recorded
        /\ stage[r] = "delivered" => <<r, "response_received">> \in recorded

\* The record of a fetch is causal whatever failed in between: no dial is on
\* record without the decision that allowed it before it in the same history, no
\* response without its dial, and never both decisions.
EvidenceCausal ==
    LET at(e) == {i \in DOMAIN file.lines : file.lines[i].id = e}
        after(r, later, earlier) ==
            /\ <<r, later>> \in recorded => <<r, earlier>> \in recorded
            /\ \A i \in at(<<r, later>>), j \in at(<<r, earlier>>) : j < i
    IN  \A r \in Requests :
            /\ after(r, "dial_started", "preflight_allowed")
            /\ after(r, "response_received", "dial_started")
            /\ ~ {<<r, "preflight_denied">>, <<r, "preflight_allowed">>} \subseteq recorded

\* transport.ts: "The request already failed (aborted or errored) while the
\* receipt was being written; release the socket": such a request is not delivered.
ErroredIsNotDelivered ==
    [][\A r \in Requests : r \in broken /\ stage[r] = "responding" => stage'[r] # "delivered"]_vars

\* Every fetch that started ends, unless its process dies.
EveryFetchEnds == \A r \in Requests : stage[r] \in {"denying", "allowing"} ~> stage[r] \in Final
=============================================================================
