----------------------------- MODULE RoomThreads -----------------------------
(***************************************************************************)
(* Room on a runtime with a bounded number of threads.  A task that awaits *)
(* gives its thread back; one that needs a locked shard of the DashMap     *)
(* does not: the lock is a blocking one, so the task is parked with its    *)
(* thread until the shard is free.                                         *)
(***************************************************************************)
EXTENDS Room

CONSTANT Threads   (* worker threads of the tokio runtime, at least one *)

VARIABLE parked    (* the tasks blocked inside the map, each with a thread *)

L(c) == <<"listener", c>>
W(w) == <<"worker", w>>
Beat == <<"heartbeat">>

\* close() waits only for a write that holds the writer's mutex; otherwise it
\* is over in one poll and nobody sees the shard locked.
Contended(c) == \/ \E w \in Workers : wk[w] = "writing" /\ target[w] = c
                \/ hb = "writing" /\ hbConn = c
HeldUp(n) == \E c \in Conns : /\ lis[c] = "awaiting"
                              /\ ShardOf[NameOf[c]] = ShardOf[n]
                              /\ ~token[replaced[c]]
                              /\ Contended(replaced[c])

HasThread(t) == t \in parked \/ Cardinality(parked) < Threads

Park(t) == /\ t \notin parked
           /\ HasThread(t)
           /\ parked' = parked \cup {t}
           /\ UNCHANGED vars

Blocks ==
    \/ \E c \in Conns : /\ lis[c] \in {"insert", "remove"}
                        /\ HeldUp(NameOf[c])
                        /\ Park(L(c))
    \/ \E w \in Workers : /\ \E n \in wanted[w] : HeldUp(n)
                          /\ Park(W(w))
    \/ /\ hb = "waiting" /\ ~cancelled
       /\ \E n \in Names : HeldUp(n)
       /\ Park(Beat)

\* Any other step needs a thread, a timer's or a socket's as well.
ThreadedNext ==
    \/ Blocks
    \/ \E c \in Conns : /\ HasThread(L(c))
                        /\ Listener(c)
                        /\ parked' = parked \ {L(c)}
    \/ \E w \in Workers : /\ HasThread(W(w))
                          /\ Worker(w)
                          /\ parked' = parked \ {W(w)}
    \/ /\ HasThread(Beat)
       /\ Heartbeat
       /\ parked' = parked \ {Beat}
    \/ /\ Cardinality(parked) < Threads
       /\ \/ \E c \in Conns : Adder(c) \/ ConnCancels(c)
          \/ Closer
          \/ Outside
       /\ UNCHANGED parked

ThreadedSpec == Init /\ parked = {} /\ [][ThreadedNext]_<<vars, parked>>

\* Lines 206-209: the old connection is closed outside the lock, "without
\* blocking the other threads' access to the map".  If that were so, the task
\* that closes it would always find a thread to go on with.
SomeThreadRuns == Cardinality(parked) < Threads
=============================================================================
