----------------------------- MODULE SerialLine -----------------------------
(***************************************************************************)
(* What the serial transmit path of apps/wpan_serial_uart promises its     *)
(* callers: frames leave one at a time, in the order they were queued, the *)
(* bytes of a frame contiguous and each at most once; "sent" is answered   *)
(* only when the whole frame is out, "timeout" cuts the frame short.       *)
(*                                                                         *)
(* synced is FALSE from the first completion that is signalled to nobody   *)
(* (see UartTx!lateGive): from then on the code keeps none of this.        *)
(***************************************************************************)
EXTENDS Naturals, Sequences

CONSTANT Lens           \* Lens[f]: number of encoded bytes of frame f

VARIABLES waiting,      \* frames queued and not yet started
          frame,        \* the frame being sent, 0 when there is none
          out,          \* how many of its bytes are out
          wire,         \* every byte <<frame, index>> ever put on the line
          result,       \* "none", "sent" or "timeout" for each frame
          synced

vars == <<waiting, frame, out, wire, result, synced>>

Init ==
    /\ waiting = <<>> /\ frame = 0 /\ out = 0 /\ wire = <<>>
    /\ result = [f \in DOMAIN Lens |-> "none"]
    /\ synced = TRUE

Accept ==
    /\ \E f \in DOMAIN Lens :
          /\ result[f] = "none" /\ frame # f
          /\ \A i \in 1 .. Len(waiting) : waiting[i] # f
          /\ waiting' = Append(waiting, f)
    /\ UNCHANGED <<frame, out, wire, result>>

Start ==
    /\ frame = 0 /\ waiting # <<>>
    /\ frame' = Head(waiting)
    /\ waiting' = Tail(waiting)
    /\ UNCHANGED <<out, wire, result>>

Emit ==
    /\ frame # 0
    /\ out' \in out + 1 .. Lens[frame]
    /\ wire' = wire \o [i \in 1 .. out' - out |-> <<frame, out + i>>]
    /\ UNCHANGED <<waiting, frame, result>>

Finish(r) ==
    /\ frame # 0
    /\ r = "sent" => out = Lens[frame]
    /\ result' = [result EXCEPT ![frame] = r]
    /\ frame' = 0 /\ out' = 0
    /\ UNCHANGED <<waiting, wire>>

Next ==
    \/ /\ synced /\ synced'
       /\ Accept \/ Start \/ Emit \/ \E r \in {"sent", "timeout"} : Finish(r)
    \/ ~synced'

Spec == Init /\ [][Next]_vars
=============================================================================
