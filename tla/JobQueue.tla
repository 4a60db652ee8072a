------------------------------ MODULE JobQueue ------------------------------
(***************************************************************************)
(* The in-memory FIFO of job ids of app/services/queue_service.py: a       *)
(* queue.Queue of ids whose operations all run under the queue's mutex, so *)
(* that each is one atomic function of the sequence of waiting ids.        *)
(***************************************************************************)
EXTENDS Naturals, Sequences

(* initialize_queue: a new global queue, with nothing waiting. *)
EmptyQueue == << >>

(* As if what comes last were served first. *)
EnqueueFirst(q, j) == <<j>> \o q

(* enqueue never blocks: the queue is built with maxsize = 0. *)
Enqueue(q, j) == Append(q, j)

Holds(q, j) == \E i \in 1..Len(q) : q[i] = j

(* The position deque.remove finds: the leftmost occurrence. *)
Position(q, j) ==
    CHOOSE i \in 1..Len(q) : q[i] = j /\ \A k \in 1..(i - 1) : q[k] # j

(* The sequence without its k-th element, the others in order. *)
Drop(q, k) == [i \in 1..(Len(q) - 1) |-> q[IF i < k THEN i ELSE i + 1]]

(* dequeue on a queue that is not empty: the oldest id leaves. *)
Oldest(q) == q[1]

Dequeue(q) == Drop(q, 1)

(* As if whatever is at the head were taken out. *)
RemoveHead(q, j) == IF Holds(q, j) THEN Drop(q, 1) ELSE q

(* remove takes out one occurrence, or leaves the queue alone. *)
Remove(q, j) == IF Holds(q, j) THEN Drop(q, Position(q, j)) ELSE q

(* j waits ahead of i. *)
Ahead(q, j, i) == \E a, b \in 1..Len(q) : a < b /\ q[a] = j /\ q[b] = i

(* No id waits twice. *)
Distinct(q) == \A i, k \in 1..Len(q) : q[i] = q[k] => i = k
=============================================================================
