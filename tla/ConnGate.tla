------------------------------ MODULE ConnGate ------------------------------
(***************************************************************************)
(* The gate between network events and the main thread of a client:        *)
(* event_handler runs in a thread of the network stack, sets connected and *)
(* gives or resets the semaphore run_app, on which main waits before each  *)
(* attempt. The echo and the UDP client give it in the handler, the simple *)
(* client in a work item that the handler schedules.                       *)
(*                                                                         *)
(* The two stores of the handler are one step: main reads connected in the *)
(* middle of an attempt and run_app between two, never both in between.    *)
(***************************************************************************)
EXTENDS Integers

CONSTANT MaxEvents      \* bound: network events

ASSUME GateAssumption == MaxEvents \in Nat

VARIABLES
    last,           \* last network event: "none", "up" or "down"
    events,         \* number of events so far
    connected,
    run_app,        \* count of the binary semaphore
    waiter,         \* main in k_sem_take: "no", "waiting", "token", "aborted"
    work,           \* connection_work is scheduled
    credit,         \* history: tokens given less attempts begun
    fresh           \* history: the network is up and no attempt has begun since

gate == <<last, events, connected, run_app, waiter, work, credit, fresh>>

GateInit ==
    /\ events = 0 /\ connected = FALSE
    /\ run_app = 0 /\ waiter = "no" /\ work = FALSE
    /\ credit = 0 /\ fresh = FALSE

\* Seeded fault: a token nobody waits for is dropped.
GiveToWaiter ==
    /\ waiter' = IF waiter = "waiting" THEN "token" ELSE waiter
    /\ credit' = credit + 1
    /\ UNCHANGED run_app

\* k_sem_give: the waiter gets the token; without one the count becomes 1.
Give ==
    /\ IF waiter = "waiting"
       THEN waiter' = "token" /\ UNCHANGED run_app
       ELSE run_app' = 1 /\ UNCHANGED waiter
    /\ credit' = credit + 1

Event(e) ==
    /\ events < MaxEvents /\ last # e
    /\ last' = e /\ events' = events + 1
    /\ connected' = (e = "up") /\ fresh' = (e = "up")

Connected == Event("up") /\ Give /\ UNCHANGED work

ConnectedByWork == Event("up") /\ work' = TRUE /\ UNCHANGED <<run_app, waiter, credit>>

WorkHandler ==
    /\ work /\ work' = FALSE
    /\ Give
    /\ UNCHANGED <<last, events, connected, fresh>>

\* k_sem_reset: the count is 0 and a wait ends with an error. The work item stays
\* scheduled.
Disconnected ==
    /\ Event("down")
    /\ run_app' = 0
    /\ waiter' = IF waiter = "waiting" THEN "aborted" ELSE waiter
    /\ UNCHANGED <<work, credit>>

\* k_sem_take(&run_app, K_FOREVER)
Take ==
    /\ waiter = "no"
    /\ waiter' = IF run_app = 1 THEN "token" ELSE "waiting"
    /\ run_app' = 0
    /\ UNCHANGED <<last, events, connected, work, credit, fresh>>

\* main goes on, whatever k_sem_take answered.
Enter ==
    /\ waiter \in {"token", "aborted"}
    /\ waiter' = "no"
    /\ credit' = credit - 1 /\ fresh' = FALSE
    /\ UNCHANGED <<last, events, connected, run_app, work>>

GateTyped ==
    /\ last \in {"none", "up", "down"} /\ events \in 0 .. MaxEvents
    /\ {connected, work, fresh} \subseteq BOOLEAN /\ run_app \in {0, 1}
    /\ waiter \in {"no", "waiting", "token", "aborted"}
    /\ credit \in Int
=============================================================================
