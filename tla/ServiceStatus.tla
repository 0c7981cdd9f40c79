---------------------------- MODULE ServiceStatus ----------------------------
(***************************************************************************)
(* What TorService promises to those who follow its status: the abstract   *)
(* specification that TorService implements, and the service OrbotManager  *)
(* is checked against.                                                     *)
(***************************************************************************)
EXTENDS Naturals, Sequences

VARIABLES
  cur,   \* the instance that receives intents, 0 if the service is not running
  inst   \* the instances made so far

service == <<cur, inst>>

Statuses == {"OFF", "STARTING", "ON", "STOPPING"}

\* asked: a start intent came.  subscribed: it listens to the events of a Tor
\* daemon.
Instance == [status : Statuses, asked : BOOLEAN, subscribed : BOOLEAN, alive : BOOLEAN]
Fresh(a) == [status |-> "OFF", asked |-> a, subscribed |-> FALSE, alive |-> TRUE]

ServiceInit == cur = 0 /\ inst = <<>>

\* startService, with ACTION_START or another intent.
Create(start) ==
  /\ cur = 0
  /\ cur' = Len(inst) + 1 /\ inst' = Append(inst, Fresh(start))

Deliver(start) ==
  /\ cur # 0
  /\ inst' = [inst EXCEPT ![cur].asked = @ \/ start]
  /\ UNCHANGED cur

\* stopService.
Destroy == cur # 0 /\ cur' = 0 /\ UNCHANGED inst

\* The process dies: Android creates a running service again.
Killed ==
  LET lost == [i \in 1..Len(inst) |-> [Fresh(inst[i].asked) EXCEPT !.alive = FALSE]]
  IN IF cur = 0 THEN inst' = lost /\ UNCHANGED cur
     ELSE inst' = Append(lost, Fresh(FALSE)) /\ cur' = Len(inst) + 1

Subscribe(i) ==
  /\ inst[i].alive
  /\ inst' = [inst EXCEPT ![i].subscribed = TRUE]
  /\ UNCHANGED cur

\* STARTING takes a start intent, ON a subscription; only an instance that was
\* destroyed goes to STOPPING and back to OFF: a start that fails is never taken
\* back.
MayAnnounce(i, s) ==
  /\ inst[i].alive
  /\ CASE s = "STARTING" -> inst[i].asked
       [] s = "ON"       -> inst[i].subscribed
       [] OTHER          -> i # cur

Announce(i, s) ==
  /\ MayAnnounce(i, s)
  /\ inst' = [inst EXCEPT ![i].status = s]
  /\ UNCHANGED cur

ServiceNext ==
  \/ \E start \in BOOLEAN : Create(start) \/ Deliver(start)
  \/ Destroy \/ Killed
  \/ \E i \in 1..Len(inst) : Subscribe(i) \/ \E s \in Statuses : Announce(i, s)

ServiceSpec == ServiceInit /\ [][ServiceNext]_service
=============================================================================
