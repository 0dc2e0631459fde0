---------------------------- MODULE AndroidMain ----------------------------
(***************************************************************************)
(* The parts of Android that the plugin runs on, as the plugin uses them:  *)
(* the main looper (one FIFO of messages), the activity manager's record   *)
(* of the one TunnelVpnService, and LocalBroadcastManager.                 *)
(***************************************************************************)
EXTENDS Sequences

CONSTANTS
    Services,   \* instances of TunnelVpnService that are ever created
    Addresses,  \* SOCKS server addresses passed to start()
    NoService   \* the activity manager has no record of the service

ASSUME NoServiceIsNone == NoService \notin Services

VARIABLES
    mainQ,      \* messages posted to the main looper, oldest first
    pending,    \* LocalBroadcastManager's pending broadcasts, oldest first
    service,    \* the instance the activity manager considers started
    launched    \* instances it has ever started

androidVars == <<mainQ, pending, service, launched>>

create(i)      == [what |-> "create", who |-> i]
startCmd(i, a) == [what |-> "startCommand", who |-> i, address |-> a]
destroy(i)     == [what |-> "destroy", who |-> i]
result(ok)     == [what |-> "activityResult", ok |-> ok]
execPending    == [what |-> "broadcasts"]

Messages ==
    {create(i) : i \in Services} \cup {destroy(i) : i \in Services}
      \cup {startCmd(i, a) : i \in Services, a \in Addresses}
      \cup {result(ok) : ok \in BOOLEAN} \cup {execPending}

Broadcasts == {"started", "failed", "disconnect"}

AndroidTypeOK ==
    /\ mainQ \in Seq(Messages)
    /\ pending \in Seq(Broadcasts)
    /\ service \in launched \cup {NoService}
    /\ launched \subseteq Services

AndroidInit ==
    /\ mainQ = <<>>
    /\ pending = <<>>
    /\ service = NoService
    /\ launched = {}

Posted(what) == \E k \in DOMAIN mainQ : mainQ[k].what = what

(* The main queue q after sendBroadcast: the looper message that runs the   *)
(* receivers is posted unless it is there already.                          *)
withExec(q) == IF Posted("broadcasts") THEN q ELSE Append(q, execPending)

(* sendBroadcast(b), when nothing else happens to the main queue.           *)
sendBroadcast(b) ==
    /\ pending' = Append(pending, b)
    /\ mainQ' = withExec(mainQ)
    /\ UNCHANGED <<service, launched>>

(* startService: a record of the service exists, or a new instance is made. *)
startService(a) ==
    /\ IF service # NoService
       THEN /\ mainQ' = Append(mainQ, startCmd(service, a))
            /\ UNCHANGED <<service, launched>>
       ELSE \E i \in Services \ launched :
            /\ mainQ' = mainQ \o <<create(i), startCmd(i, a)>>
            /\ service' = i
            /\ launched' = launched \cup {i}
    /\ UNCHANGED pending

(* stopSelf() of instance i, with the main queue being q before it.         *)
stopSelf(i, q) ==
    /\ IF service = i
       THEN mainQ' = Append(q, destroy(i)) /\ service' = NoService
       ELSE mainQ' = q /\ UNCHANGED service
    /\ UNCHANGED launched
=============================================================================
