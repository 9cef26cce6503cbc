------------------------------ MODULE FrameSink ------------------------------
(***************************************************************************)
(* What a fernqd connection promises to the tasks that share it: a frame   *)
(* handed to write() is delivered whole or reported as not delivered, and  *)
(* once the connection is shut nothing more is delivered.  How locks,      *)
(* timeouts and the socket bring this about is the business of Conn.       *)
(***************************************************************************)
CONSTANTS Writes,  (* the calls of write(), one frame each *)
          Closes   (* the calls of close()                 *)

VARIABLES delivered,  (* the writes whose frame went out whole               *)
          answer,     (* what each call has been told                        *)
          closing,    (* somebody asked for the end, or a write gave up      *)
          shut        (* no frame can be delivered any more                  *)

sinkVars == <<delivered, answer, closing, shut>>

Calls == Writes \cup Closes

Init == /\ delivered = {}
        /\ answer = [c \in Calls |-> "none"]
        /\ closing = FALSE
        /\ shut = FALSE

Accept(c) ==
    /\ answer[c] = "none"
    /\ answer' = [answer EXCEPT ![c] = "pending"]
    /\ closing' = (closing \/ c \in Closes)
    /\ UNCHANGED <<delivered, shut>>

\* A frame is delivered and reported "ok" in one step, before the end only.
Deliver(w) ==
    /\ w \in Writes
    /\ answer[w] = "pending"
    /\ ~shut
    /\ delivered' = delivered \cup {w}
    /\ answer' = [answer EXCEPT ![w] = "ok"]
    /\ shut' \in BOOLEAN
    /\ shut' => closing
    /\ UNCHANGED closing

\* A write is refused as "closed" only by a connection that is closing; a
\* failed write is never told "ok".
Fail(w) ==
    /\ w \in Writes
    /\ \/ /\ answer[w] \in {"none", "pending"}
          /\ closing
          /\ answer' = [answer EXCEPT ![w] = "closed"]
          /\ UNCHANGED <<closing, shut>>
       \/ /\ answer[w] = "pending"
          /\ answer' = [answer EXCEPT ![w] = "timeout"]
          /\ \/ UNCHANGED <<closing, shut>>
             \/ closing' = TRUE /\ shut' = TRUE
       \/ /\ answer[w] = "pending"
          /\ answer' = [answer EXCEPT ![w] = "error"]
          /\ shut' = TRUE
          /\ UNCHANGED closing
    /\ UNCHANGED delivered

\* A close may return before the connection is shut (it was not the first, or
\* gave up waiting), but never before the connection is closing.
CloseReturns(c) ==
    /\ c \in Closes
    /\ answer[c] \in {"none", "pending"}
    /\ closing
    /\ \E r \in {"ok", "error"} : answer' = [answer EXCEPT ![c] = r]
    /\ shut' \in {shut, TRUE}
    /\ UNCHANGED <<delivered, closing>>

Shut ==
    /\ closing
    /\ ~shut
    /\ shut' = TRUE
    /\ UNCHANGED <<delivered, answer, closing>>

Next == \/ \E c \in Calls :
              Accept(c) \/ Deliver(c) \/ Fail(c) \/ CloseReturns(c)
        \/ Shut

SafeSpec == Init /\ [][Next]_sinkVars

\* The two promises of progress: every call is answered, and a connection that
\* is closing is shut in the end.
EveryCallAnswered ==
    \A c \in Calls : (answer[c] = "pending") ~> (answer[c] # "pending")
ClosingEnds == closing ~> shut
=============================================================================
