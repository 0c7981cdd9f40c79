------------------------- MODULE OrbotManagerProofs -------------------------
(* Proofs about OrbotManager, for any requests and bounds.                 *)
EXTENDS OrbotManager, SequenceTheorems, TLAPS

\* The sequences of TypeOK, element by element.
LEMMA Shapes ==
  ASSUME TypeOK
  PROVE  /\ Len(inst) \in Nat /\ cur \in 0..Len(inst) /\ inst \in Seq(Instance)
         /\ \A i \in 1..Len(inst) : inst[i] \in Instance
         /\ Len(calls) \in Nat /\ calls \in Seq(Intents)
         /\ Len(casts) \in Nat /\ casts \in Seq(Cast)
         /\ \A i \in 1..Len(casts) : casts[i].status \in Statuses /\ casts[i].copies \in Nat
         /\ Len(messages) \in Nat /\ messages \in Seq(Statuses)
         /\ unsent \subseteq Statuses /\ receivers \in Nat
<1>1. /\ Len(casts) \in Nat /\ casts \in Seq(Cast)
      /\ \A i \in 1..Len(casts) : casts[i] \in Cast
  BY DEF TypeOK
<1>2. \A c \in Cast : c.status \in Statuses /\ c.copies \in Nat
  BY DEF Cast
<1> QED  BY <1>1, <1>2 DEF TypeOK

\* Messages that carry no ON beyond those that did.
Quieter ==
  /\ \A i \in 1..Len(casts') : casts'[i].status = "ON" =>
       "ON" \in unsent \/ \E j \in 1..Len(casts) : casts[j].status = "ON"
  /\ \A i \in 1..Len(messages') : messages'[i] = "ON" =>
       \/ \E j \in 1..Len(casts) : casts[j].status = "ON"
       \/ \E j \in 1..Len(messages) : messages[j] = "ON"

\* A step that leaves the service alone and makes no new ON.
LEMMA OnStep ==
  ASSUME OnInv, Quieter, UNCHANGED service, unsent' \subseteq unsent,
         torStatus' = "ON" =>
           torStatus = "ON" \/ \E j \in 1..Len(messages) : messages[j] = "ON"
  PROVE  OnInv'
  BY DEF OnInv, Quieter, Subscribed, service

\* The calls of the app.
LEMMA AppStep ==
  ASSUME IInv, App
  PROVE  IInv'
<1>1. /\ UNCHANGED <<service, unsent, messages>> /\ made' \in 0..MaxCalls
      /\ casts' \in {casts, <<>>} /\ torStatus' \in {torStatus, "OFF", "STARTING"}
  BY ManagerAssumption DEF App, StartTor, StopTor, ReconnectTor, Request, Call, IInv,
                           TypeOK
<1>2. OnInv'
  <2>1. Quieter
    BY <1>1 DEF Quieter
  <2> QED  BY <1>1, <2>1, OnStep DEF IInv
<1>3. /\ {"OFF", "STARTING"} \subseteq Statuses /\ Requests \subseteq Intents
      /\ {"start", "status", "stop"} \subseteq Intents
  BY ManagerAssumption DEF Statuses, Intents
<1>4. /\ receivers' \in Nat /\ torStatus' \in Statuses /\ told' \in Statuses
      /\ ListenerIsTold'
  BY SMTT(20), <1>1, <1>3 DEF IInv, TypeOK, ListenerIsTold, App, StartTor, StopTor,
                    ReconnectTor, Request
<1>5. calls' \in Seq(Intents)
      /\ ((receivers' = 0 /\ ~ requested') => calls' # <<>> /\ calls'[Len(calls')] = "stop")
  <2>1. calls \in Seq(Intents) /\ receivers \in Nat
    BY DEF IInv, TypeOK
  <2>2. CASE StartTor \/ \E k \in Requests : Request(k)
    BY <2>1, <2>2, <1>3 DEF StartTor, Request
  <2>3. CASE StopTor
    <3>1. calls' = Append(Append(calls, "status"), "stop")
      BY <2>1, <2>3 DEF StopTor
    <3>2. Append(calls, "status") \in Seq(Intents)
      BY <2>1, <1>3
    <3> QED  BY <3>1, <3>2, <1>3
  <2>4. CASE ReconnectTor
    <3>1. calls' = Append(Append(Append(calls, "status"), "stop"), "start")
      BY <2>1, <2>4 DEF ReconnectTor
    <3> QED  BY <3>1, <2>1, <2>4, <1>3 DEF ReconnectTor
  <2> QED  BY <2>2, <2>3, <2>4 DEF App
<1>6. TypeOK'
  <2>1. casts' \in Seq(Cast)
    <3>1. casts \in Seq(Cast) /\ <<>> \in Seq(Cast)
      BY DEF IInv, TypeOK
    <3> QED  BY <1>1, <3>1
  <2>2. requested' \in BOOLEAN
    BY DEF App, StartTor, StopTor, ReconnectTor, Request
  <2> QED  BY <1>1, <1>4, <1>5, <2>1, <2>2 DEF IInv, TypeOK, service
<1>7. LastIsStop'
  BY <1>5 DEF LastIsStop
<1> QED  BY <1>2, <1>4, <1>6, <1>7 DEF IInv

\* Android carries out a call: only the last stopService can empty the queue with
\* the receiver unregistered.
LEMMA ServiceCallStep ==
  ASSUME IInv, ServiceCall
  PROVE  IInv'
<1>1. /\ calls # <<>> /\ calls' = Tail(calls)
      /\ UNCHANGED <<torStatus, told, receivers, casts, messages, made, requested, unsent>>
  BY DEF ServiceCall
<1>2. /\ calls' \in Seq(Intents) /\ Len(calls') = Len(calls) - 1
      /\ calls' # <<>> => calls'[Len(calls')] = calls[Len(calls)]
      /\ calls' = <<>> => calls[Len(calls)] = Head(calls)
  <2>1. calls \in Seq(Intents) /\ Len(calls) \in Nat
    BY Shapes DEF IInv
  <2>2. Len(calls) # 0
    BY <1>1, <2>1
  <2>3. /\ calls' \in Seq(Intents) /\ Len(calls') = Len(calls) - 1
        /\ \A i \in 1..(Len(calls) - 1) : calls'[i] = calls[i + 1]
    BY <1>1, <2>1
  <2>4. calls' # <<>> => Len(calls') \in 1..(Len(calls) - 1)
    BY <2>1, <2>2, <2>3
  <2>5. calls' = <<>> => Len(calls) = 1
    BY <2>1, <2>3
  <2>6. Head(calls) = calls[1]
    BY <1>1, <2>1
  <2>7. ASSUME calls' # <<>> PROVE calls'[Len(calls')] = calls[Len(calls)]
    <3>1. calls'[Len(calls')] = calls[Len(calls') + 1]
      BY <2>3, <2>4, <2>7
    <3>2. Len(calls') + 1 = Len(calls)
      BY <2>1, <2>3
    <3> QED  BY <3>1, <3>2
  <2> QED  BY <2>3, <2>5, <2>6, <2>7
<1>3. LastIsStop'
  <2>1. Head(calls) = "stop" => cur' = 0
    BY DEF ServiceCall, Destroy, Create, Deliver, service
  <2> QED  BY <1>1, <1>2, <2>1 DEF IInv, LastIsStop
<1>4. CASE UNCHANGED inst /\ cur' \in {0, cur}
  <2>1. TypeOK'
    BY <1>1, <1>2, <1>4 DEF IInv, TypeOK
  <2>2. OnInv'
    BY <1>1, <1>4 DEF IInv, OnInv, Subscribed
  <2> QED  BY <1>1, <1>3, <2>1, <2>2 DEF IInv, ListenerIsTold
<1>5. CASE \E start \in BOOLEAN : Create(start)
  <2>1. PICK start \in BOOLEAN : Create(start)
    BY <1>5
  <2>2. Fresh(start) \in Instance /\ Fresh(start).status # "ON"
    BY DEF Fresh, Instance, Statuses
  <2>3. /\ inst' \in Seq(Instance) /\ Len(inst') = Len(inst) + 1
        /\ \A i \in 1..Len(inst) : inst'[i] = inst[i]
        /\ inst'[Len(inst) + 1] = Fresh(start) /\ cur' = Len(inst) + 1
        /\ Len(inst) \in Nat
    BY <2>1, <2>2, Shapes DEF IInv, Create
  <2>4. TypeOK'
    BY <1>1, <1>2, <2>3 DEF IInv, TypeOK
  <2>5. Subscribed => Subscribed'
    BY <2>3 DEF Subscribed
  <2>6. \A i \in 1..Len(inst') : inst'[i].status = "ON" =>
          i \in 1..Len(inst) /\ inst[i].status = "ON"
    BY <2>2, <2>3
  <2>7. OnInv'
    BY <1>1, <2>5, <2>6 DEF IInv, OnInv
  <2> QED  BY <1>1, <1>3, <2>4, <2>7 DEF IInv, ListenerIsTold
<1>6. CASE \E start \in BOOLEAN : Deliver(start)
  <2>1. PICK start \in BOOLEAN : Deliver(start)
    BY <1>6
  <2> DEFINE s == [inst[cur] EXCEPT !.asked = @ \/ start]
  <2>2. cur \in 1..Len(inst) /\ inst[cur] \in Instance
    BY <2>1, Shapes DEF IInv, Deliver
  <2>3. (inst[cur].asked \/ start) \in BOOLEAN
    BY <2>2 DEF Instance
  <2>4. s \in Instance /\ s.status = inst[cur].status
        /\ s.subscribed = inst[cur].subscribed
    BY <2>2, <2>3 DEF Instance
  <2>5. inst' = [inst EXCEPT ![cur] = s] /\ cur' = cur
    BY <2>1 DEF Deliver
  <2> HIDE DEF s
  <2>6. /\ inst' \in Seq(Instance) /\ Len(inst') = Len(inst)
        /\ \A i \in 1..Len(inst) : /\ inst'[i].status = inst[i].status
                                   /\ inst'[i].subscribed = inst[i].subscribed
    BY <2>2, <2>4, <2>5, Shapes DEF IInv
  <2>7. TypeOK'
    BY <1>1, <1>2, <2>5, <2>6 DEF IInv, TypeOK
  <2>8. OnInv'
    BY <1>1, <2>6 DEF IInv, OnInv, Subscribed
  <2> QED  BY <1>1, <1>3, <2>7, <2>8 DEF IInv, ListenerIsTold
<1> QED  BY <1>4, <1>5, <1>6 DEF ServiceCall, Destroy, service

\* A broadcast reaches the handler.
LEMMA OnReceiveStep ==
  ASSUME IInv, OnReceive
  PROVE  IInv'
<1> DEFINE c == Head(casts)
           m == [i \in 1..c.copies |-> c.status]
<1>1. /\ casts # <<>> /\ casts' = Tail(casts) /\ messages' = messages \o m
      /\ UNCHANGED <<service, torStatus, told, receivers, calls, made, requested, unsent>>
  BY DEF OnReceive
<1>2. /\ casts \in Seq(Cast) /\ Len(casts) \in Nat /\ 1 \in 1..Len(casts)
      /\ c = casts[1] /\ c.status \in Statuses /\ c.copies \in Nat
  <2>1. casts \in Seq(Cast) /\ Len(casts) \in Nat
    BY Shapes DEF IInv
  <2>2. 1 \in 1..Len(casts) /\ c = casts[1]
    BY <1>1, <2>1
  <2> QED  BY <2>1, <2>2, Shapes DEF IInv
<1>3. /\ casts' \in Seq(Cast) /\ Len(casts') = Len(casts) - 1
      /\ \A i \in 1..Len(casts') : casts'[i] = casts[i + 1] /\ i + 1 \in 1..Len(casts)
  BY <1>1, <1>2
<1>4. m \in Seq(Statuses) /\ Len(m) = c.copies
  BY <1>2
<1>5. \A i \in 1..Len(m) : m[i] = c.status
  BY <1>2, <1>4
<1> HIDE DEF m, c
<1>6. /\ messages' \in Seq(Statuses) /\ Len(messages') = Len(messages) + Len(m)
      /\ \A i \in 1..Len(messages') :
           messages'[i] = IF i <= Len(messages) THEN messages[i] ELSE m[i - Len(messages)]
  <2>1. messages \in Seq(Statuses) /\ m \in Seq(Statuses)
    BY <1>4, Shapes DEF IInv
  <2> QED  BY <1>1, <2>1, ConcatProperties
<1>7. Quieter
  <2>1. ASSUME NEW i \in 1..Len(messages'), messages'[i] = "ON"
        PROVE  \/ \E j \in 1..Len(casts) : casts[j].status = "ON"
               \/ \E j \in 1..Len(messages) : messages[j] = "ON"
    <3>1. Len(messages) \in Nat /\ Len(m) \in Nat
      BY <1>2, <1>4, Shapes DEF IInv
    <3>2. CASE i <= Len(messages)
      <4>1. i \in 1..Len(messages)
        BY <3>1, <3>2
      <4> QED  BY <4>1, <3>2, <2>1, <1>6
    <3>3. CASE i > Len(messages)
      <4>1. i - Len(messages) \in 1..Len(m)
        BY <3>1, <3>3, <1>6
      <4>2. messages'[i] = m[i - Len(messages)]
        BY <3>1, <3>3, <1>6
      <4> QED  BY <4>1, <4>2, <2>1, <1>2, <1>5
    <3> QED  BY <3>1, <3>2, <3>3
  <2>2. \A i \in 1..Len(casts') : casts'[i].status = "ON" =>
          \E j \in 1..Len(casts) : casts[j].status = "ON"
    BY <1>3
  <2> QED  BY <2>1, <2>2 DEF Quieter
<1>8. OnInv'
  BY <1>1, <1>7, OnStep DEF IInv
<1>9. TypeOK' /\ ListenerIsTold' /\ LastIsStop'
  BY <1>1, <1>3, <1>6 DEF IInv, TypeOK, ListenerIsTold, LastIsStop, service
<1> QED  BY <1>8, <1>9 DEF IInv

\* The handler takes a message.
LEMMA HandleMessageStep ==
  ASSUME IInv, HandleMessage
  PROVE  IInv'
<1>1. /\ messages # <<>> /\ messages' = Tail(messages)
      /\ torStatus' = Head(messages)
      /\ told' = IF torStatus = Head(messages) THEN told ELSE Head(messages)
      /\ UNCHANGED <<service, receivers, calls, casts, made, requested, unsent>>
  BY DEF HandleMessage
<1>2. messages \in Seq(Statuses) /\ Len(messages) \in Nat
  BY Shapes DEF IInv
<1>3. /\ messages' \in Seq(Statuses) /\ 1 \in 1..Len(messages)
      /\ Head(messages) = messages[1] /\ Head(messages) \in Statuses
      /\ \A i \in 1..Len(messages') :
           messages'[i] = messages[i + 1] /\ i + 1 \in 1..Len(messages)
  BY <1>1, <1>2
<1>4. Quieter
  BY <1>1, <1>3 DEF Quieter
<1>5. OnInv'
  BY <1>1, <1>3, <1>4, OnStep DEF IInv
<1>6. TypeOK'
  BY <1>1, <1>3 DEF IInv, TypeOK, service
<1>7. ListenerIsTold' /\ LastIsStop'
  BY <1>1 DEF IInv, ListenerIsTold, LastIsStop, service
<1> QED  BY <1>5, <1>6, <1>7 DEF IInv

\* A broadcast is sent.
LEMMA SendBroadcastStep ==
  ASSUME IInv, NEW s \in Statuses, SendBroadcast(s)
  PROVE  IInv'
<1> DEFINE c == [status |-> s, copies |-> receivers]
<1>1. /\ s \in unsent /\ unsent' = unsent \ {s} /\ (casts' = casts \/ casts' = Append(casts, c))
      /\ UNCHANGED <<service, torStatus, told, receivers, calls, messages, made,
                 requested>>
  BY DEF SendBroadcast
<1>2. c \in Cast /\ c.status = s /\ casts \in Seq(Cast)
  BY Shapes DEF IInv, Cast
<1> HIDE DEF c
<1>3. /\ casts' \in Seq(Cast)
      /\ \A i \in 1..Len(casts') : (i \in 1..Len(casts) /\ casts'[i] = casts[i])
                                   \/ casts'[i] = c
  <2>1. Len(casts) \in Nat /\ Append(casts, c) \in Seq(Cast)
        /\ Len(Append(casts, c)) = Len(casts) + 1
    BY <1>2
  <2>2. \A i \in 1..(Len(casts) + 1) :
          (i \in 1..Len(casts) /\ Append(casts, c)[i] = casts[i]) \/ Append(casts, c)[i] = c
    BY <1>2
  <2> QED  BY <1>1, <1>2, <2>1, <2>2
<1>4. Quieter
  BY <1>1, <1>2, <1>3 DEF Quieter
<1>5. OnInv'
  BY <1>1, <1>4, OnStep DEF IInv
<1>6. TypeOK'
  BY <1>1, <1>3 DEF IInv, TypeOK, service
<1>7. ListenerIsTold' /\ LastIsStop'
  BY <1>1 DEF IInv, ListenerIsTold, LastIsStop, service
<1> QED  BY <1>5, <1>6, <1>7 DEF IInv

\* The threads of an instance: what they put into an intent, they have.
LEMMA InstanceStep ==
  ASSUME IInv, NEW i \in 1..Len(inst),
         Speak(i) \/ Subscribes(i) \/ \E s \in Statuses : SendCallbackStatus(i, s)
  PROVE  IInv'
<1>1. inst[i] \in Instance /\ inst \in Seq(Instance)
  BY Shapes DEF IInv
<1>2. UNCHANGED <<cur, facade>>
  BY DEF Speak, Subscribes, SendCallbackStatus, Announce, Subscribe, service
<1>3. PICK n \in Instance :
        /\ inst' = [inst EXCEPT ![i] = n] /\ (inst[i].subscribed => n.subscribed)
        /\ n.status # inst[i].status /\ n.status = "ON" => n.subscribed
        /\ unsent' \subseteq unsent \cup {n.status}
  <2>1. CASE Speak(i)
    <3>1. inst' = [inst EXCEPT ![i] = inst[i]]
      BY <2>1, <1>1 DEF Speak, service
    <3> QED  BY <3>1, <2>1, <1>1 DEF Speak
  <2>2. CASE Subscribes(i)
    <3> DEFINE n == [inst[i] EXCEPT !.subscribed = TRUE]
    <3>1. n \in Instance /\ n.subscribed = TRUE /\ n.status = inst[i].status
      BY <1>1 DEF Instance
    <3>2. inst' = [inst EXCEPT ![i] = n] /\ unsent' = unsent
      BY <2>2 DEF Subscribes, Subscribe
    <3> HIDE DEF n
    <3> QED  BY <3>1, <3>2
  <2>3. ASSUME NEW s \in Statuses, SendCallbackStatus(i, s)
        PROVE  \E n \in Instance :
                 /\ inst' = [inst EXCEPT ![i] = n] /\ (inst[i].subscribed => n.subscribed)
                 /\ n.status # inst[i].status /\ n.status = "ON" => n.subscribed
                 /\ unsent' \subseteq unsent \cup {n.status}
    <3> DEFINE n == [inst[i] EXCEPT !.status = s]
    <3>1. n \in Instance /\ n.subscribed = inst[i].subscribed /\ n.status = s
      BY <1>1 DEF Instance
    <3>2. inst' = [inst EXCEPT ![i] = n] /\ unsent' = unsent \cup {s}
      BY <2>3 DEF SendCallbackStatus, Announce
    <3>3. s = "ON" => inst[i].subscribed
      BY <2>3 DEF SendCallbackStatus, Announce, MayAnnounce
    <3> HIDE DEF n
    <3> QED  BY <3>1, <3>2, <3>3
  <2> QED  BY <2>1, <2>2, <2>3
<1>4. /\ inst' \in Seq(Instance) /\ Len(inst') = Len(inst) /\ inst'[i] = n
      /\ \A j \in 1..Len(inst) : j # i => inst'[j] = inst[j]
  BY <1>1, <1>3
<1>5. Subscribed => Subscribed'
  BY <1>3, <1>4 DEF Subscribed
<1>6. n.status = "ON" => Subscribed'
  BY <1>3, <1>4, <1>5 DEF Subscribed, IInv, OnInv
<1>7. OnInv'
  BY <1>2, <1>3, <1>4, <1>5, <1>6 DEF IInv, OnInv, facade
<1>8. n.status \in Statuses
  BY DEF Instance
<1>9. TypeOK'
  BY <1>2, <1>3, <1>4, <1>8 DEF IInv, TypeOK, facade
<1>10. ListenerIsTold' /\ LastIsStop'
  BY <1>2 DEF IInv, ListenerIsTold, LastIsStop, facade
<1> QED  BY <1>7, <1>9, <1>10 DEF IInv

\* The invariant holds of every reachable state.
THEOREM Invariance == Spec => []IInv
<1>1. Init => IInv
  <2> SUFFICES ASSUME Init PROVE IInv
    OBVIOUS
  <2>1. /\ cur = 0 /\ inst = <<>> /\ Len(inst) = 0 /\ torStatus = "OFF" /\ told = "OFF"
        /\ receivers = 0 /\ made = 0 /\ calls = <<>> /\ unsent = {} /\ casts = <<>>
        /\ messages = <<>> /\ Len(casts) = 0 /\ Len(messages) = 0
    BY DEF Init, ServiceInit
  <2>2. TypeOK
    <3>1. requested \in BOOLEAN
      BY DEF Init
    <3> QED  BY <2>1, <3>1, ManagerAssumption DEF TypeOK, Statuses
  <2>3. OnInv /\ ListenerIsTold /\ LastIsStop
    BY <2>1 DEF OnInv, ListenerIsTold, LastIsStop
  <2> QED  BY <2>2, <2>3 DEF IInv
<1>2. IInv /\ [Next]_vars => IInv'
  <2> SUFFICES ASSUME IInv, [Next]_vars PROVE IInv'
    OBVIOUS
  <2>1. CASE UNCHANGED vars
    BY <2>1 DEF vars, service, facade, IInv, TypeOK, OnInv, Subscribed, ListenerIsTold,
                LastIsStop
  <2>2. CASE App
    BY <2>2, AppStep
  <2>3. CASE Main
    BY <2>3, ServiceCallStep, OnReceiveStep, HandleMessageStep DEF Main
  <2>4. CASE Threads
    BY <2>4, InstanceStep, SendBroadcastStep DEF Threads
  <2> QED  BY <2>1, <2>2, <2>3, <2>4 DEF Next
<1> QED  BY <1>1, <1>2, PTL DEF Spec

\* However broadcasts are delayed, repeated and reordered, torStatus is ON only
\* after the service has subscribed to a Tor daemon.
THEOREM OnNeedsSubscription == Spec => []OnIsReal
<1>1. IInv => OnIsReal  BY DEF IInv, OnInv, OnIsReal
<1> QED  BY <1>1, Invariance, PTL

\* The listener misses no status but the STARTING that startTor sets itself.
THEOREM ListenerFollows == Spec => []ListenerIsTold
<1>1. IInv => ListenerIsTold  BY DEF IInv
<1> QED  BY <1>1, Invariance, PTL

\* stopTor leaves no service behind until the app makes another request.
THEOREM StopLeavesNoService == Spec => []StoppedMeansNoService
<1>1. IInv => StoppedMeansNoService
  BY DEF IInv, LastIsStop, StoppedMeansNoService
<1> QED  BY <1>1, Invariance, PTL
=============================================================================
