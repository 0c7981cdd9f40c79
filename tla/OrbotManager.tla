---------------------------- MODULE OrbotManager ----------------------------
(***************************************************************************)
(* The library's facade (OrbotManager.kt): the calls of the app, the       *)
(* intents they send, and the local broadcasts from which the facade       *)
(* learns the status.  The service is the one ServiceStatus specifies,     *)
(* which TorService implements; its threads broadcast at any time, while   *)
(* all of the facade runs on the main thread.                              *)
(*                                                                         *)
(* Every log message carries the status of the instance that sends it, and *)
(* moves torStatus just as a status broadcast does.                        *)
(***************************************************************************)
EXTENDS ServiceStatus

CONSTANTS Requests,      \* which other intents the app sends
          MaxCalls,      \* bound: calls of the app
          MaxInstances,  \* bound: service instances created
          MaxPending     \* bound: broadcasts and messages not yet handled

ASSUME ManagerAssumption ==
  /\ Requests \subseteq {"newnym", "exit", "hup"}
  /\ MaxCalls \in Nat /\ MaxInstances \in Nat /\ MaxPending \in Nat

VARIABLES
  torStatus,
  told,       \* the status last given to the listener
  receivers,  \* registrations of mLocalBroadcastReceiver
  calls,      \* startService and stopService calls on their way
  unsent,     \* intents made with a status, not yet sent
  casts,      \* external: LocalBroadcastManager's pending broadcasts
  messages,   \* of messageHandler
  made,       \* calls of the app so far
  requested   \* history: a request since the last startTor or stopTor

facade == <<torStatus, told, receivers, calls, casts, messages, made,
            requested>>
vars   == <<service, facade, unsent>>

Init ==
  /\ ServiceInit
  /\ torStatus = "OFF" /\ told = "OFF" /\ receivers = 0 /\ made = 0
  /\ requested = FALSE
  /\ calls = <<>> /\ unsent = {} /\ casts = <<>> /\ messages = <<>>

-----------------------------------------------------------------------------
(* The app.                                                                *)

Call == /\ made < MaxCalls /\ made' = made + 1
        /\ UNCHANGED <<service, unsent, messages>>

\* startTor throws unless torStatus is OFF.  The listener is not told.
StartTor ==
  /\ torStatus = "OFF" /\ Call /\ requested' = FALSE
  /\ receivers' = receivers + 1
  /\ calls'     = Append(calls, "start")
  /\ torStatus' = "STARTING"
  /\ UNCHANGED <<told, casts>>

\* Mutant: the status is requested after stopService.
StopTorAsks ==
  /\ torStatus # "OFF" /\ Call /\ requested' = FALSE
  /\ receivers' = 0 /\ casts' = <<>>
  /\ calls'     = calls \o <<"stop", "status">>
  /\ torStatus' = "OFF" /\ told' = "OFF"

\* Mutant: the listener is not told.
StopTorSilent ==
  /\ torStatus # "OFF" /\ Call /\ requested' = FALSE
  /\ receivers' = 0 /\ casts' = <<>>
  /\ calls'     = calls \o <<"status", "stop">>
  /\ torStatus' = "OFF"
  /\ UNCHANGED told

\* stopTor throws if torStatus is OFF.  Unregistering ends every registration of
\* the receiver and what is pending for it; messages in the handler stay.
StopTor ==
  /\ torStatus # "OFF" /\ Call /\ requested' = FALSE
  /\ receivers' = 0 /\ casts' = <<>>
  /\ calls'     = calls \o <<"status", "stop">>
  /\ torStatus' = "OFF" /\ told' = "OFF"

\* stopTor, startTor.
ReconnectTor ==
  /\ torStatus # "OFF" /\ Call /\ requested' = FALSE
  /\ receivers' = 1 /\ casts' = <<>>
  /\ calls'     = calls \o <<"status", "stop", "start">>
  /\ torStatus' = "STARTING" /\ told' = "OFF"

\* requestNewTorIdentity, setExitNode; setBridge, which asks only a running Tor.
Request(k) ==
  /\ k = "hup" => torStatus = "ON"
  /\ Call /\ requested' = TRUE
  /\ calls' = Append(calls, k)
  /\ UNCHANGED <<torStatus, told, receivers, casts>>

-----------------------------------------------------------------------------
(* Main thread.                                                            *)

\* Android delivers the calls in order; stopping a service that is not there does
\* nothing, any other call creates it.
ServiceCall ==
  /\ calls # <<>> /\ calls' = Tail(calls)
  /\ LET k == Head(calls) IN
       \/ k = "stop" /\ (Destroy \/ (cur = 0 /\ UNCHANGED service))
       \/ k # "stop" /\ Len(inst) < MaxInstances /\ Create(k = "start")
       \/ k # "stop" /\ Deliver(k = "start")
  /\ UNCHANGED <<torStatus, told, receivers, casts, messages, made, requested, unsent>>

\* onReceive, once per registration: a message for the handler.
OnReceive ==
  /\ casts # <<>> /\ casts' = Tail(casts)
  /\ messages' = messages \o [i \in 1..Head(casts).copies |-> Head(casts).status]
  /\ UNCHANGED <<service, torStatus, told, receivers, calls, made, requested, unsent>>

\* Mutant: STARTING is taken for ON.
HandleMessageOn ==
  /\ messages # <<>> /\ messages' = Tail(messages)
  /\ torStatus' = (IF Head(messages) = "STARTING" THEN "ON" ELSE Head(messages))
  /\ told' = torStatus'
  /\ UNCHANGED <<service, receivers, calls, casts, made, requested, unsent>>

\* handleMessage: the listener is told of a status that differs.
HandleMessage ==
  /\ messages # <<>> /\ messages' = Tail(messages)
  /\ torStatus' = Head(messages)
  /\ told' = IF torStatus = Head(messages) THEN told ELSE Head(messages)
  /\ UNCHANGED <<service, receivers, calls, casts, made, requested, unsent>>

-----------------------------------------------------------------------------
(* The service's threads.  An intent is made with a status and sent later: *)
(* neither of two threads waits for the other.                             *)

Speak(i) ==
  /\ unsent' = unsent \cup {inst[i].status}
  /\ UNCHANGED <<service, facade>>

SendCallbackStatus(i, s) ==
  /\ Announce(i, s)
  /\ unsent' = unsent \cup {s}
  /\ UNCHANGED facade

Subscribes(i) == Subscribe(i) /\ UNCHANGED <<facade, unsent>>

SendBroadcast(s) ==
  /\ s \in unsent /\ unsent' = unsent \ {s}
  /\ \/ receivers = 0 /\ UNCHANGED casts
     \/ /\ receivers > 0 /\ Len(casts) + Len(messages) < MaxPending
        /\ casts' = Append(casts, [status |-> s, copies |-> receivers])
  /\ UNCHANGED <<service, torStatus, told, receivers, calls, messages, made,
                 requested>>

-----------------------------------------------------------------------------
App == StartTor \/ StopTor \/ ReconnectTor \/ \E k \in Requests : Request(k)

Main == ServiceCall \/ OnReceive \/ HandleMessage

Threads ==
  \/ \E i \in 1..Len(inst) :
       Speak(i) \/ Subscribes(i) \/ \E s \in Statuses : SendCallbackStatus(i, s)
  \/ \E s \in Statuses : SendBroadcast(s)

Next == App \/ Main \/ Threads
Spec == Init /\ [][Next]_vars

-----------------------------------------------------------------------------
(* Properties.                                                             *)

Intents == {"start", "status", "newnym", "exit", "hup", "stop"}
Cast    == [status : Statuses, copies : Nat]

TypeOK ==
  /\ inst \in Seq(Instance) /\ cur \in 0..Len(inst)
  /\ torStatus \in Statuses /\ told \in Statuses
  /\ receivers \in Nat /\ made \in 0..MaxCalls
  /\ requested \in BOOLEAN
  /\ calls \in Seq(Intents) /\ unsent \subseteq Statuses
  /\ messages \in Seq(Statuses)
  /\ casts \in Seq(Cast)

\* The facade shows ON only if an instance of the service has subscribed to a Tor
\* daemon: no stale, repeated or reordered message invents it.
Subscribed == \E i \in 1..Len(inst) : inst[i].subscribed
OnIsReal   == torStatus = "ON" => Subscribed

\* The listener is behind torStatus only in the STARTING of startTor itself,
\* which it is never told of; messages handled late and twice included.
ListenerIsTold == told = torStatus \/ torStatus = "STARTING"

\* An app that has stopped Tor, and made no other request since, leaves no service
\* behind, though stopTor's status request itself starts one.
StoppedMeansNoService == (receivers = 0 /\ ~ requested /\ calls = <<>>) => cur = 0

\* The inductive invariant behind the three: whatever carries the status ON was
\* made after a subscription, and with the receiver unregistered and no
\* request made the last call on its way, if there is one, is stopService.
OnInv ==
  (\/ torStatus = "ON" \/ "ON" \in unsent
   \/ \E i \in 1..Len(inst) : inst[i].status = "ON"
   \/ \E i \in 1..Len(casts) : casts[i].status = "ON"
   \/ \E i \in 1..Len(messages) : messages[i] = "ON") => Subscribed

LastIsStop ==
  (receivers = 0 /\ ~ requested) =>
    IF calls = <<>> THEN cur = 0 ELSE calls[Len(calls)] = "stop"

IInv == TypeOK /\ OnInv /\ ListenerIsTold /\ LastIsStop
=============================================================================
