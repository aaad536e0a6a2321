---------------------------- MODULE TurnProtocol ----------------------------
(***************************************************************************)
(* What one visitor sees of the chat socket: after a greeting, turns, each *)
(* of which names its conversation before anything of the answer, streams, *)
(* and ends in "done" or in an error.  After "done" nothing follows but    *)
(* the news that it could not be kept.                                     *)
(***************************************************************************)
VARIABLES
    stage,  \* closed, greeting, idle, asked, named, over
    last    \* the kind of the last frame the visitor received

Init == stage = "closed" /\ last = "none"

Step(from, to, frame) == stage \in from /\ stage' = to /\ last' = frame

Connect  == Step({"closed"}, "greeting", "none")
Welcome  == Step({"greeting"}, "idle", "ready")
TurnAway == Step({"greeting", "idle"}, "closed", "error")
Refuse   == Step({"idle"}, "idle", "error")
Accept   == Step({"idle"}, "asked", "none")
Name     == Step({"asked"}, "named", "conversation")
Stream   == Step({"named"}, "named", "stream")
Finish   == Step({"named"}, "over", "done") \/ Step({"named"}, "over", "error")
Settle   == Step({"over"}, "idle", last)
GiveUp   == Step({"asked", "named", "over"}, "idle", "error")
Leave    == stage # "closed" /\ stage' = "closed" /\ last' = last

Next == \/ Connect \/ Welcome \/ TurnAway \/ Refuse \/ Accept \/ Name \/ Stream
        \/ Finish \/ Settle \/ GiveUp \/ Leave

Spec == Init /\ [][Next]_<<stage, last>>
=============================================================================
