----------------------------- MODULE AtomicIndex -----------------------------
(***************************************************************************)
(* What the methods of HnswIndex (hnsw.go) promise to goroutines that      *)
(* share one handle: "All methods are safe for concurrent use".  Every     *)
(* call takes effect at one instant between its start and its return;      *)
(* after Free every call answers ErrIndexClosed.  HnswIndex implements it. *)
(***************************************************************************)
EXTENDS Integers

CONSTANTS
  Caller,    \* who calls: goroutines and the finalizer
  Sizes,     \* capacities
  Arg        \* arguments: topK of a search, rows of an AddPoints

VARIABLES
  open,     \* has Free not happened yet?
  content,  \* the elements, how many are marked, the capacity
  phase,    \* caller -> "idle", "called" or "answered"
  request,  \* caller -> the call it makes
  answer    \* caller -> what the call returns and the contents it saw

vars == <<open, content, phase, request, answer>>

Content ==
  {c \in [count : Nat, marked : Nat, max : Sizes] :
     c.marked <= c.count /\ c.count <= c.max}
Requests ==
  [op : {"search", "add"}, arg : Arg] \union [op : {"resize"}, arg : Sizes]
    \union [op : {"read", "mark", "unmark", "setef", "free"}, arg : {0}]
NoCall   == [op |-> "none", arg |-> 0]
NoAnswer == [result |-> "none", saw |-> {}]

Init ==
  /\ open = TRUE
  /\ content \in [count : {0}, marked : {0}, max : Sizes]
  /\ phase = [c \in Caller |-> "idle"]
  /\ request = [c \in Caller |-> NoCall]
  /\ answer = [c \in Caller |-> NoAnswer]

Call(c, r) ==
  /\ phase[c] = "idle"
  /\ phase' = [phase EXCEPT ![c] = "called"]
  /\ request' = [request EXCEPT ![c] = r]
  /\ UNCHANGED <<open, content, answer>>

Answers(c, result, saw) ==
  /\ phase[c] = "called"
  /\ phase' = [phase EXCEPT ![c] = "answered"]
  /\ answer' = [answer EXCEPT ![c] = [result |-> result, saw |-> saw]]
  /\ UNCHANGED request

Closed(c) ==
  /\ ~open
  /\ Answers(c, "closed", {})
  /\ UNCHANGED <<open, content>>

(* A read sees one content.  A search with too large a topK is refused;    *)
(* one that succeeds has topK elements to return.                          *)
Read(c) ==
  /\ open
  /\ request[c].op \in {"search", "read"}
  /\ \E result \in {"ok", "error"} :
       /\ request[c].op = "search" /\ result = "ok" =>
            request[c].arg <= content.count - content.marked
       /\ Answers(c, result, {content})
  /\ UNCHANGED <<open, content>>

(* A batch is applied in full, or fails and is applied in part: elements   *)
(* are added, lose their mark, or get a new vector, one by each row.       *)
Add(c) ==
  /\ open
  /\ request[c].op = "add"
  /\ \E added, unmarked \in 0 .. request[c].arg, result \in {"ok", "error"} :
       /\ content.count + added <= content.max
       /\ unmarked <= content.marked
       /\ added + unmarked <= request[c].arg
       /\ content' = [count |-> content.count + added, marked |-> content.marked - unmarked,
                      max |-> content.max]
       /\ result = "ok" => added + unmarked = request[c].arg \/ content'.marked < content'.count
       /\ Answers(c, result, {})
  /\ UNCHANGED open

(* One element more or one less is marked, or the call fails.              *)
Mark(c) ==
  /\ open
  /\ \/ /\ request[c].op = "mark"
        /\ content.marked < content.count
        /\ content' = [content EXCEPT !.marked = @ + 1]
        /\ Answers(c, "ok", {})
     \/ /\ request[c].op = "unmark"
        /\ content.marked > 0
        /\ content' = [content EXCEPT !.marked = @ - 1]
        /\ Answers(c, "ok", {})
     \/ /\ request[c].op \in {"mark", "unmark"}
        /\ Answers(c, "error", {})
        /\ UNCHANGED content
  /\ UNCHANGED open

(* The capacity never falls below the elements; ef changes nothing here.   *)
Tune(c) ==
  /\ open
  /\ \/ /\ request[c].op = "resize"
        /\ request[c].arg >= content.count
        /\ content' = [content EXCEPT !.max = request[c].arg]
        /\ Answers(c, "ok", {})
     \/ /\ request[c].op = "resize"
        /\ Answers(c, "error", {})
        /\ UNCHANGED content
     \/ /\ request[c].op = "setef"
        /\ Answers(c, "ok", {})
        /\ UNCHANGED content
  /\ UNCHANGED open

Free(c) ==
  /\ open
  /\ request[c].op = "free"
  /\ open' = FALSE
  /\ Answers(c, "ok", {})
  /\ UNCHANGED content

Return(c) ==
  /\ phase[c] = "answered"
  /\ phase' = [phase EXCEPT ![c] = "idle"]
  /\ answer' = [answer EXCEPT ![c] = NoAnswer]
  /\ request' = [request EXCEPT ![c] = NoCall]
  /\ UNCHANGED <<open, content>>

Next ==
  \E c \in Caller :
    \/ \E r \in Requests : Call(c, r)
    \/ Closed(c)
    \/ Read(c)
    \/ Add(c)
    \/ Mark(c)
    \/ Tune(c)
    \/ Free(c)
    \/ Return(c)

Spec == Init /\ [][Next]_vars

=============================================================================
