---------------------------- MODULE HTTPExchange ----------------------------
(***************************************************************************)
(* What an HTTP server promises about the connections it accepts: a        *)
(* request gets one reply, or the connection is upgraded: the client is    *)
(* told so, once, and in the same step the websocket functions become the  *)
(* ones that hear its events, for good. The client may go at any time.     *)
(***************************************************************************)
CONSTANT Conn

VARIABLES
  said,  \* what the server said: "nothing", "reply" or "101"
  ears   \* who hears the events: "nobody" yet, "http", "ws", or "gone"

vars == <<said, ears>>

Init ==
  /\ said = [c \in Conn |-> "nothing"]
  /\ ears = [c \in Conn |-> "nobody"]

Connect(c) ==
  /\ ears[c] = "nobody"
  /\ ears' = [ears EXCEPT ![c] = "http"]
  /\ UNCHANGED said

Reply(c) ==
  /\ ears[c] = "http" /\ said[c] = "nothing"
  /\ said' = [said EXCEPT ![c] = "reply"]
  /\ UNCHANGED ears

Upgrade(c) ==
  /\ ears[c] = "http" /\ said[c] = "nothing"
  /\ said' = [said EXCEPT ![c] = "101"]
  /\ ears' = [ears EXCEPT ![c] = "ws"]

(* Clients go, or are sent away; all of them when the server is destroyed. *)
Lose ==
  \E S \in SUBSET {c \in Conn : ears[c] \in {"http", "ws"}} :
    /\ ears' = [c \in Conn |-> IF c \in S THEN "gone" ELSE ears[c]]
    /\ UNCHANGED said

(* Nothing is promised for a connection whose request the program used     *)
(* after it had answered it, or upgraded it.                               *)
Waive(c) ==
  /\ said' = [said EXCEPT ![c] = "waived"]
  /\ ears' = [ears EXCEPT ![c] = "waived"]

Next ==
  \/ \E c \in Conn : Connect(c) \/ Reply(c) \/ Upgrade(c) \/ Waive(c)
  \/ Lose

Spec == Init /\ [][Next]_vars
=============================================================================
