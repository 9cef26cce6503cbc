-------------------------------- MODULE Link --------------------------------
(***************************************************************************)
(* What a room promises of the frames it relays, whatever its workers and  *)
(* channels do: each channel is a queue that may lose a frame but never    *)
(* reorders, repeats or misdirects one, and a request whose target is not  *)
(* there may be answered, to its source, once its last frame has come up.  *)
(***************************************************************************)
EXTENDS Frames

VARIABLES taken,  (* how many frames of each connection were accepted      *)
          queue,  (* the frames in transit in each channel                 *)
          log     (* what came out of each channel: which task, to whom    *)

linkVars == <<taken, queue, log>>

Init == /\ taken = [c \in Conns |-> 0]
        /\ queue = [ch \in Channels |-> <<>>]
        /\ log = [ch \in Channels |-> <<>>]

Accept(c) ==
    /\ taken[c] < Len(Script[c])
    /\ taken' = [taken EXCEPT ![c] = @ + 1]
    /\ LET t == [conn |-> c, n |-> taken[c] + 1]
       IN queue' = [queue EXCEPT ![Frame(t).chan] = Append(@, t)]
    /\ UNCHANGED log

Waiting(ch) == queue[ch] # <<>>
First(ch) == Head(queue[ch])

Report(ch, d, what) ==
    log' = [log EXCEPT ![ch] = Append(@, [task |-> First(ch), to |-> d, what |-> what])]

ComesUp(ch) == UNCHANGED taken /\ queue' = [queue EXCEPT ![ch] = Tail(@)]

Deliver(ch, d) == /\ Waiting(ch)
                  /\ NameOf[d] = Frame(First(ch)).to
                  /\ Report(ch, d, "frame")
                  /\ ComesUp(ch)

AnswerNotFound(ch, d) == /\ Waiting(ch)
                         /\ EndsRequest(First(ch))
                         /\ NameOf[d] = Frame(First(ch)).from
                         /\ Report(ch, d, "404")
                         /\ ComesUp(ch)

Lose(ch) == Waiting(ch) /\ UNCHANGED log /\ ComesUp(ch)

Next == \/ \E c \in Conns : Accept(c)
        \/ \E ch \in Channels :
              \/ Lose(ch)
              \/ \E d \in Conns : Deliver(ch, d) \/ AnswerNotFound(ch, d)

Spec == Init /\ [][Next]_linkVars
=============================================================================
