------------------------------ MODULE FrameQueue -------------------------------
(***************************************************************************)
(* What a connection promises its two ends, without bytes and buffers: the *)
(* frames sent and not yet received are a queue, received in order; the    *)
(* receiver stops at the end of the queue once the sender is gone, or at   *)
(* an empty text, and only a kill of the sender loses the end of the queue.*)
(***************************************************************************)
EXTENDS Naturals, Sequences

CONSTANT Frame, Empty(_)   \* frames, and which of them carry no text

VARIABLES queue, received, sending, receiving

vars == <<queue, received, sending, receiving>>

Init == queue = <<>> /\ received = <<>> /\ sending = TRUE /\ receiving = TRUE

\* Another process may hold the sender's end, and close it, after the sender left.
Send(f) == /\ sending /\ queue' = Append(queue, f)
           /\ UNCHANGED <<received, sending, receiving>>
Leave == sending /\ sending' = FALSE /\ UNCHANGED <<queue, received, receiving>>
Kill == /\ sending' = FALSE
        /\ \E n \in 0..Len(queue) : queue' = SubSeq(queue, 1, n)
        /\ UNCHANGED <<received, receiving>>

Receive == /\ receiving /\ queue # <<>>
           /\ received' = Append(received, Head(queue)) /\ queue' = Tail(queue)
           /\ receiving' = ~Empty(Head(queue))
           /\ UNCHANGED sending
End == /\ receiving /\ queue = <<>> /\ ~sending /\ receiving' = FALSE
       /\ UNCHANGED <<queue, received, sending>>

Next == (\E f \in Frame : Send(f)) \/ Leave \/ Kill \/ Receive \/ End

Spec == Init /\ [][Next]_vars

================================================================================
