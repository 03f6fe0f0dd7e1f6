---------------------------- MODULE SnoopService ----------------------------
(***************************************************************************)
(* What the snoop fabric of soc_top.v promises its clients, without its    *)
(* arbiters, its bus and its handshakes.                                   *)
(*                                                                         *)
(* One request is served at a time.  Serving it asks every cache once;     *)
(* when all have replied, the merged answer goes to the client served and  *)
(* to nobody else, provided it still waits for the line that was snooped.  *)
(* A CPU always receives its answer; a DMA engine can give up (restart,    *)
(* soft reset, full FIFO), and then the answer is dropped.                 *)
(***************************************************************************)
CONSTANTS Lines, Data, Miss, Caches, Cpus, Engines

VARIABLES
  serving,     \* the client being served, or Nobody
  line,        \* the line snooped for it
  replies,     \* what each cache replied to the current request
  want,        \* the line each client waits for, or NoLine
  delivered    \* the answer handed over in the last step, or NoDelivery

serviceVars == <<serving, line, replies, want, delivered>>

Clients == Cpus \cup Engines
Answers == Data \cup {Miss}
Nobody == "nobody"
NoLine == "no line"
NoReply == "no reply"
NoReplies == [k \in Caches |-> NoReply]
NoDelivery == [to |-> Nobody, answer |-> Miss]

\* A hit of either cache is a hit; the first cache that hits gives the data.
Merge(a) == IF a[0] # Miss THEN a[0] ELSE a[1]

Init == /\ serving = Nobody /\ line \in Lines
        /\ replies = NoReplies
        /\ want = [c \in Clients |-> NoLine]
        /\ delivered = NoDelivery

(***************************************************************************)
(* A client may begin to wait only when it is served, for the line that is *)
(* snooped; it stops waiting when it gets its answer; only an engine may   *)
(* give up.                                                                *)
(***************************************************************************)
WantsChange ==
  \A c \in Clients :
    \/ want'[c] = want[c] /\ delivered'.to # c
    \/ want[c] = NoLine /\ serving = Nobody /\ serving' = c /\ want'[c] = line'
    \/ want'[c] = NoLine /\ (c \in Engines \/ delivered'.to = c)

Serve == /\ serving = Nobody
         /\ serving' \in Clients /\ line' \in Lines
         /\ serving' \in Cpus => want'[serving'] = line'
         /\ replies' = NoReplies
         /\ delivered' = NoDelivery

Listen == /\ serving # Nobody
          /\ \A k \in Caches : \/ replies'[k] = replies[k]
                               \/ replies[k] = NoReply /\ replies'[k] \in Answers
          /\ delivered' = NoDelivery
          /\ UNCHANGED <<serving, line>>

Finish == /\ serving # Nobody
          /\ \A k \in Caches : replies[k] # NoReply
          /\ serving' = Nobody
          /\ \/ want[serving] = line /\ delivered' = [to |-> serving, answer |-> Merge(replies)]
             \/ serving \in Engines /\ delivered' = NoDelivery
          /\ UNCHANGED <<line, replies>>

Rest == delivered' = NoDelivery /\ UNCHANGED <<serving, line, replies>>

Next == (Serve \/ Listen \/ Finish \/ Rest) /\ WantsChange

Spec == Init /\ [][Next]_serviceVars
=============================================================================
